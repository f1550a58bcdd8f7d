--------------------------- MODULE EditorPresenter ---------------------------
(***************************************************************************)
(* From a selection in the page to highlights in the editor.               *)
(* ActiveEditorCoordinator resolves the current selection for the active   *)
(* editor, again after everything that may change the result;              *)
(* SourcePluginRegistry asks every plugin and bounds its time; the CSS     *)
(* plugin reads the document through StylesheetAstCache; the presenter     *)
(* shows what comes out.                                                   *)
(*                                                                         *)
(* Text 0 is the stylesheet that the page loaded.  A step is one run of    *)
(* the event loop.  The selection has facts about every document; which    *)
(* blocks match is the concern of CssRulePaths.  Documents of other        *)
(* languages, the SCSS plugin, the merging of equal matches and the        *)
(* commands are left out.                                                  *)
(***************************************************************************)
EXTENDS Naturals, Sequences, SequencesExt

CONSTANTS
  Docs,          \* the documents, all stylesheets
  Texts,         \* bound: the texts a document may have
  Css,           \* the built-in plugin
  Extra,         \* plugins of other extensions, which share one id
  CacheLimit,    \* DOCUMENT_STYLESHEET_CACHE_LIMIT
  None,
  MaxGeneration, \* bound: so many changes
  MaxVersion     \* bound: a document's version

ASSUME EditorAssumption ==
  /\ 0 \in Texts /\ Texts \subseteq Nat
  /\ Css \notin Extra /\ None \notin Docs
  /\ CacheLimit \in Nat \ {0} /\ MaxGeneration \in Nat /\ MaxVersion \in Nat \ {0}

VARIABLES
  active,     \* the document of the active editor
  doc,        \* what the editor holds of each document
  selection,  \* SelectionStore: the generation that brought it, or none
  generation, \* the coordinator's generation
  editTimer,  \* whether the edit timer is pending
  disposed,   \* the presenter is disposed of
  runs,       \* the resolutions under way
  ast,        \* StylesheetAstCache.documents, the oldest first
  plugins,    \* the registered plugins
  shown       \* what the editor and the tree show

vars == <<active, doc, selection, generation, editTimer, disposed, runs, ast,
          plugins, shown>>

-----------------------------------------------------------------------------
NoSelection == 0
Versions == 1 .. MaxVersion

(* What became of asking a plugin.                                         *)
Outcomes == {"pending", "cancelled", "exception", "malformed", "matches"}

Resolutions ==
  [generation: 0 .. MaxGeneration, selection: 1 .. MaxGeneration, doc: Docs,
   version: Versions, parsed: Texts,
   asked: UNION {[S -> Outcomes] : S \in SUBSET (Extra \cup {Css})}]

Shown ==
  [selection: 1 .. MaxGeneration, doc: Docs, version: Versions, parsed: Texts,
   reports: UNION {[S -> {"matches", "timeout", "exception", "invalidResult", "nothing"}] :
                   S \in SUBSET (Extra \cup {Css})}]
NothingShown == [selection |-> NoSelection, doc |-> None]

-----------------------------------------------------------------------------
(* StylesheetAstCache.parseDocument.                                       *)

(* Where a document's entry stands, if it has one.                         *)
Cached(cache, d) == {i \in DOMAIN cache : cache[i].doc = d}

ParsedText(cache, d) ==
  LET hits == {i \in Cached(cache, d) : cache[i].version = doc[d].version} IN
  IF hits = {} THEN doc[d].text ELSE cache[CHOOSE i \in hits : TRUE].text

(* BoundedLruCache: the entry goes to the end, what is over the limit goes. *)
Remember(cache, d) ==
  LET entry == [doc |-> d, version |-> doc[d].version, text |-> ParsedText(cache, d)]
      others == IF Cached(cache, d) = {}
                THEN cache ELSE RemoveAt(cache, CHOOSE i \in Cached(cache, d) : TRUE)
      kept == Append(others, entry)
  IN IF Len(kept) > CacheLimit THEN Tail(kept) ELSE kept

-----------------------------------------------------------------------------
(* resolveCurrent for the editor's document d, selection s and plugins ps. *)
(* A resolution that is aborted stays until its promises are settled.      *)

Superseded(r) == disposed \/ r.generation # generation
Settled(r) == \A p \in DOMAIN r.asked : r.asked[p] # "pending"

Cancelled(r) ==
  [r EXCEPT !.asked = [p \in DOMAIN @ |-> IF @[p] = "pending" THEN "cancelled" ELSE @[p]]]

Aborted == {Cancelled(r) : r \in runs}

Resolution(g, d, s, ps) ==
  [generation |-> g, selection |-> s, doc |-> d, version |-> doc[d].version,
   parsed |-> IF Css \in ps THEN ParsedText(ast, d) ELSE doc[d].text,
   asked |-> [p \in ps |-> "pending"]]

ResolveCurrent(aborted, g, d, s, ps) ==
  \/ /\ s = NoSelection \/ d = None
     /\ runs' = aborted /\ UNCHANGED ast
  \/ /\ s # NoSelection /\ d # None
     /\ runs' = aborted \cup {Resolution(g, d, s, ps)}
     /\ ast' = IF Css \in ps THEN Remember(ast, d) ELSE ast

InvalidateCurrent ==
  /\ generation < MaxGeneration
  /\ generation' = generation + 1
  /\ shown' = NothingShown

ResolveImmediately(d, s, ps) ==
  /\ editTimer' = FALSE
  /\ InvalidateCurrent
  /\ ResolveCurrent(Aborted, generation + 1, d, s, ps)
  /\ active' = d /\ selection' = s /\ plugins' = ps
  /\ UNCHANGED <<doc, disposed>>

(* What a listener does: nothing once the coordinator is disposed of.       *)
Heard(d, ps) ==
  \/ ~disposed /\ ResolveImmediately(d, selection, ps)
  \/ /\ disposed
     /\ active' = d /\ plugins' = ps
     /\ UNCHANGED <<doc, selection, generation, editTimer, disposed, runs, ast, shown>>

-----------------------------------------------------------------------------
Select == ~disposed /\ ResolveImmediately(active, generation + 1, plugins)

(* The IDE's client is disposed of.                                        *)
ClearSelection ==
  /\ ~disposed /\ selection # NoSelection
  /\ ResolveImmediately(active, NoSelection, plugins)

ActivateEditor(d) == d # active /\ Heard(d, plugins)

(* The document's version grows whenever its text changes.                 *)
Changes(d, text) ==
  /\ text # doc[d].text /\ doc[d].version < MaxVersion
  /\ doc' = [doc EXCEPT ![d] = [version |-> @.version + 1, text |-> text]]
  /\ UNCHANGED <<active, selection, disposed, ast, plugins>>

(* Mutant: an edit waits for the timer before anything is taken back.      *)
HandleDocumentChangeLater(d, text) ==
  /\ Changes(d, text)
  /\ IF d # active \/ disposed
     THEN UNCHANGED <<generation, editTimer, runs, shown>>
     ELSE editTimer' = TRUE /\ UNCHANGED <<generation, runs, shown>>

HandleDocumentChange(d, text) ==
  /\ Changes(d, text)
  /\ IF d # active \/ disposed
     THEN UNCHANGED <<generation, editTimer, runs, shown>>
     ELSE InvalidateCurrent /\ editTimer' = TRUE /\ runs' = Aborted

EditTimer ==
  /\ editTimer
  /\ editTimer' = FALSE
  /\ ResolveCurrent(runs, generation, active, selection, plugins)
  /\ UNCHANGED <<active, doc, selection, generation, disposed, plugins, shown>>

(* A document that no editor shows is closed, changes on disk and is       *)
(* opened again: its version starts again at 1.                            *)
CloseAndReopen(d, text) ==
  /\ d # active
  /\ doc' = [doc EXCEPT ![d] = [version |-> 1, text |-> text]]
  /\ doc' # doc
  /\ UNCHANGED <<active, selection, generation, editTimer, disposed, runs, ast,
                 plugins, shown>>

(* A second plugin with the id of a registered one is refused.             *)
Register(p) ==
  /\ plugins \cap Extra = {}
  /\ Heard(active, plugins \cup {p})

(* A handle disposes of the id's plugin, whichever that is now.            *)
DisposeRegistration ==
  /\ plugins \cap Extra # {}
  /\ Heard(active, plugins \ Extra)

Dispose ==
  /\ ~disposed
  /\ disposed' = TRUE /\ editTimer' = FALSE
  /\ runs' = Aborted
  /\ shown' = NothingShown
  /\ plugins' = plugins \ {Css}
  /\ UNCHANGED <<active, doc, selection, generation, ast>>

-----------------------------------------------------------------------------
(* resolvePlugin.                                                          *)

Outcome(r, p, outcome) ==
  /\ r.asked[p] = "pending"
  /\ runs' = (runs \ {r}) \cup {[r EXCEPT !.asked[p] = outcome]}
  /\ UNCHANGED <<active, doc, selection, generation, editTimer, disposed, ast,
                 plugins, shown>>

(* The CSS plugin has matches for whatever text it has parsed, or none.    *)
CssPluginAnswers(r) == Css \in DOMAIN r.asked /\ Outcome(r, Css, "matches")

PluginAnswers(r, p) ==
  \E outcome \in {"matches", "malformed", "exception"} : Outcome(r, p, outcome)

(* Mutant: a plugin that does not heed its signal is waited for.           *)
OnlyCssTimesOut(r, p) == p = Css /\ Outcome(r, p, "cancelled")

(* The timer aborts the plugin's own signal, which settles the race as      *)
(* cancelled.                                                              *)
PluginTimesOut(r, p) == Outcome(r, p, "cancelled")

(* Mutant: every cancelled plugin is taken for a superseded one.           *)
ReportUnlessCancelled(r, p) ==
  LET outcome == r.asked[p] IN
  IF outcome = "cancelled" \/ Superseded(r)
  THEN "nothing"
  ELSE IF outcome = "malformed" THEN "invalidResult" ELSE outcome

Report(r, p) ==
  LET outcome == r.asked[p] IN
  IF Superseded(r)
  THEN "nothing"
  ELSE IF outcome = "cancelled"
  THEN "timeout"
  ELSE IF outcome = "malformed" THEN "invalidResult" ELSE outcome

Publish(r) ==
  shown' = [selection |-> r.selection, doc |-> r.doc, version |-> r.version,
            parsed |-> r.parsed, reports |-> [p \in DOMAIN r.asked |-> Report(r, p)]]

(* Mutant: a resolution is shown whatever happened meanwhile.              *)
CompletesAnyway(r) ==
  /\ Settled(r)
  /\ runs' = runs \ {r}
  /\ Publish(r)
  /\ UNCHANGED <<active, doc, selection, generation, editTimer, disposed, ast, plugins>>

(* Every plugin is settled.                                                *)
Completes(r) ==
  /\ Settled(r)
  /\ runs' = runs \ {r}
  /\ IF Superseded(r) THEN UNCHANGED shown ELSE Publish(r)
  /\ UNCHANGED <<active, doc, selection, generation, editTimer, disposed, ast, plugins>>

-----------------------------------------------------------------------------
Init ==
  /\ active \in Docs \cup {None}
  /\ doc = [d \in Docs |-> [version |-> 1, text |-> 0]]
  /\ selection = NoSelection /\ generation = 0
  /\ editTimer = FALSE /\ disposed = FALSE
  /\ runs = {} /\ ast = <<>> /\ plugins = {Css}
  /\ shown = NothingShown

(* What a settled promise sets going comes before anything else.           *)
Resume == \E r \in runs : Completes(r)
Resumable == \E r \in runs : Settled(r)

Answer ==
  \E r \in runs :
    CssPluginAnswers(r) \/ \E p \in DOMAIN r.asked \cap Extra : PluginAnswers(r, p)

PluginTimer == \E r \in runs : \E p \in DOMAIN r.asked : PluginTimesOut(r, p)

Next ==
  \/ Resume
  \/ /\ ~Resumable
     /\ \/ Answer \/ PluginTimer \/ EditTimer
        \/ Select \/ ClearSelection \/ DisposeRegistration \/ Dispose
        \/ \E p \in Extra : Register(p)
        \/ \E d \in Docs \cup {None} : ActivateEditor(d)
        \/ \E d \in Docs, text \in Texts :
             HandleDocumentChange(d, text) \/ CloseAndReopen(d, text)

(* Promises are settled and timers fire.  No plugin need ever answer.      *)
Fairness ==
  /\ WF_vars(Resume)
  /\ WF_vars(~Resumable /\ PluginTimer)
  /\ WF_vars(~Resumable /\ EditTimer)

Spec == Init /\ [][Next]_vars /\ Fairness

-----------------------------------------------------------------------------
TypeOK ==
  /\ active \in Docs \cup {None}
  /\ doc \in [Docs -> [version: Versions, text: Texts]]
  /\ selection \in 0 .. MaxGeneration /\ generation \in 0 .. MaxGeneration
  /\ editTimer \in BOOLEAN /\ disposed \in BOOLEAN
  /\ runs \subseteq Resolutions
  /\ ast \in Seq([doc: Docs, version: Versions, text: Texts]) /\ Len(ast) <= CacheLimit
  /\ plugins \subseteq Extra \cup {Css}
  /\ shown \in Shown \cup {NothingShown}

(* Whatever is shown is about the current selection and the active editor  *)
(* as it is now, with an entry for every registered plugin and no other:   *)
(* no resolution that began before the last change survives it.            *)
PublishedIsCurrent ==
  shown # NothingShown =>
    /\ ~disposed /\ ~editTimer
    /\ shown.selection = selection /\ shown.doc = active
    /\ shown.version = doc[active].version
    /\ DOMAIN shown.reports = plugins

(* Every plugin that was asked is heard of, with its matches or with a     *)
(* diagnostic: a plugin that runs out of time is never mistaken for one    *)
(* that was called off.                                                    *)
NoPluginSilenced ==
  shown # NothingShown => \A p \in DOMAIN shown.reports : shown.reports[p] # "nothing"

CssReport ==
  IF shown # NothingShown /\ Css \in DOMAIN shown.reports
  THEN shown.reports[Css] ELSE "nothing"

(* The highlighted ranges are those of the text that the editor holds.     *)
ShownRangesFitTheDocument ==
  CssReport # "nothing" => shown.parsed = doc[shown.doc].text

Change == generation' # generation \/ disposed' # disposed

(* Once the changes cease, the result for the latest selection is shown    *)
(* and stays, whatever the plugins do.                                     *)
LatestSelectionIsPresented ==
  (<>[][~Change]_vars) =>
    <>[](disposed \/ selection = NoSelection \/ active = None \/ shown # NothingShown)
=============================================================================
