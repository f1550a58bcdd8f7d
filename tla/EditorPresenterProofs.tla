----------------------- MODULE EditorPresenterProofs -----------------------
(***************************************************************************)
(* Proofs that nothing outdated is presented, for any documents, plugins   *)
(* and cache.  Whatever may change the result supersedes the resolutions   *)
(* under way before it starts one of its own, so that the invariant need   *)
(* only say what a resolution that is not superseded knows: the present.   *)
(* Then, that the blocks a path leads to are the browser's, for any        *)
(* stylesheets and limits.                                                 *)
(***************************************************************************)
EXTENDS EditorPresenter, CssRulePaths, SequenceTheorems, TLAPS

Plugins == Extra \cup {Css}
CacheEntry == [doc: Docs, version: Versions, text: Texts]

\* What a resolution holds is still so.
Current(r) ==
  /\ ~editTimer
  /\ r.selection = selection /\ r.doc = active
  /\ r.version = doc[active].version
  /\ DOMAIN r.asked = plugins

RunsFit ==
  \A r \in runs : r.generation <= generation /\ (~Superseded(r) => Current(r))

EditorInv == TypeOK /\ RunsFit /\ PublishedIsCurrent /\ NoPluginSilenced

-----------------------------------------------------------------------------
(* The cache *)

LEMMA DocType ==
  ASSUME TypeOK, NEW d \in Docs
  PROVE  doc[d].version \in Versions /\ doc[d].text \in Texts
BY DEF TypeOK

LEMMA ParsedTextType ==
  ASSUME TypeOK, NEW d \in Docs
  PROVE  ParsedText(ast, d) \in Texts
<1> DEFINE hits == {i \in Cached(ast, d) : ast[i].version = doc[d].version}
<1>1. \A i \in DOMAIN ast : ast[i].text \in Texts
  <2>1. ast \in Seq(CacheEntry)
    BY DEF TypeOK, CacheEntry
  <2>2. DOMAIN ast = 1 .. Len(ast) /\ \A i \in 1 .. Len(ast) : ast[i] \in CacheEntry
    BY <2>1, LenProperties, ElementOfSeq
  <2> QED BY <2>2 DEF CacheEntry
<1>2. CASE hits = {}
  BY <1>2, DocType DEF ParsedText
<1>3. CASE hits # {}
  <2>1. (CHOOSE i \in hits : TRUE) \in DOMAIN ast
    BY <1>3 DEF Cached
  <2> QED BY <1>1, <1>3, <2>1 DEF ParsedText
<1> QED BY <1>2, <1>3

LEMMA RemoveAtType ==
  ASSUME NEW S, NEW s \in Seq(S), NEW i \in DOMAIN s
  PROVE  RemoveAt(s, i) \in Seq(S) /\ Len(RemoveAt(s, i)) = Len(s) - 1
<1>1. Len(s) \in Nat /\ DOMAIN s = 1 .. Len(s) /\ \A j \in 1 .. Len(s) : s[j] \in S
  BY LenProperties, ElementOfSeq
<1>2. /\ 1 \in Int /\ i - 1 \in Int /\ i + 1 \in Int /\ Len(s) \in Int
      /\ \A j \in 1 .. i - 1 : s[j] \in S
      /\ \A j \in i + 1 .. Len(s) : s[j] \in S
  BY <1>1
<1>3. /\ SubSeq(s, 1, i - 1) \in Seq(S)
      /\ Len(SubSeq(s, 1, i - 1)) = IF 1 <= i - 1 THEN i - 1 - 1 + 1 ELSE 0
  BY <1>2, SubSeqProperties
<1>4. /\ SubSeq(s, i + 1, Len(s)) \in Seq(S)
      /\ Len(SubSeq(s, i + 1, Len(s))) = IF i + 1 <= Len(s) THEN Len(s) - (i + 1) + 1 ELSE 0
  BY <1>2, SubSeqProperties
<1>5. /\ RemoveAt(s, i) \in Seq(S)
      /\ Len(RemoveAt(s, i)) = Len(SubSeq(s, 1, i - 1)) + Len(SubSeq(s, i + 1, Len(s)))
  BY <1>3, <1>4, ConcatProperties DEF RemoveAt
<1> QED BY <1>1, <1>3, <1>4, <1>5

\* The cache keeps its type and its limit.
LEMMA RememberType ==
  ASSUME TypeOK, NEW d \in Docs
  PROVE  Remember(ast, d) \in Seq(CacheEntry) /\ Len(Remember(ast, d)) <= CacheLimit
<1> DEFINE entry == [doc |-> d, version |-> doc[d].version, text |-> ParsedText(ast, d)]
           i == CHOOSE j \in Cached(ast, d) : TRUE
           others == IF Cached(ast, d) = {} THEN ast ELSE RemoveAt(ast, i)
           kept == Append(others, entry)
<1>1. entry \in CacheEntry
  BY DocType, ParsedTextType DEF CacheEntry
<1>2. ast \in Seq(CacheEntry) /\ Len(ast) \in Nat /\ Len(ast) <= CacheLimit
  BY LenProperties DEF TypeOK, CacheEntry
<1>3. Cached(ast, d) # {} => i \in DOMAIN ast
  BY DEF Cached
<1> HIDE DEF entry, i
<1>4. others \in Seq(CacheEntry) /\ Len(others) \in Nat /\ Len(others) <= CacheLimit
  <2>1. CASE Cached(ast, d) = {}
    BY <1>2, <2>1
  <2>2. CASE Cached(ast, d) # {}
    <3>1. RemoveAt(ast, i) \in Seq(CacheEntry) /\ Len(RemoveAt(ast, i)) = Len(ast) - 1
      BY <1>2, <1>3, <2>2, RemoveAtType
    <3>2. Len(RemoveAt(ast, i)) \in Nat
      BY <3>1, LenProperties
    <3> QED BY <1>2, <2>2, <3>1, <3>2, EditorAssumption
  <2> QED BY <2>1, <2>2
<1> HIDE DEF others
<1>5. kept \in Seq(CacheEntry) /\ Len(kept) = Len(others) + 1
  BY <1>1, <1>4, AppendProperties
<1>6. Remember(ast, d) = IF Len(kept) > CacheLimit THEN Tail(kept) ELSE kept
  BY DEF Remember, kept, others, entry, i
<1> HIDE DEF kept
<1>7. CASE Len(kept) > CacheLimit
  <2>1. kept # << >>
    BY <1>4, <1>5, EmptySeq
  <2>2. Tail(kept) \in Seq(CacheEntry) /\ Len(Tail(kept)) = Len(kept) - 1
    BY <1>5, <2>1, HeadTailProperties
  <2> QED BY <1>4, <1>5, <1>6, <1>7, <2>2, EditorAssumption
<1>8. CASE ~(Len(kept) > CacheLimit)
  BY <1>4, <1>5, <1>6, <1>8, EditorAssumption
<1> QED BY <1>7, <1>8

-----------------------------------------------------------------------------
(* Resolutions *)

LEMMA CancelledFacts ==
  ASSUME NEW r \in Resolutions
  PROVE  /\ Cancelled(r) \in Resolutions
         /\ Cancelled(r).generation = r.generation
<1> DEFINE S == DOMAIN r.asked
           asked == [p \in S |-> IF r.asked[p] = "pending" THEN "cancelled" ELSE r.asked[p]]
<1>1. S \in SUBSET Plugins /\ r.asked \in [S -> Outcomes]
  BY DEF Resolutions, Plugins
<1>2. asked \in [S -> Outcomes]
  BY <1>1 DEF Outcomes
<1>3. Cancelled(r) = [r EXCEPT !.asked = asked]
  BY DEF Cancelled
<1> HIDE DEF asked
<1>4. asked \in UNION {[T -> Outcomes] : T \in SUBSET (Extra \cup {Css})}
  BY <1>1, <1>2 DEF Plugins
<1> HIDE DEF S
<1> QED BY <1>3, <1>4 DEF Resolutions

\* r was begun in generation g for d, s and ps.
Knows(r, g, d, s, ps) ==
  /\ r.generation = g /\ r.selection = s /\ r.doc = d
  /\ r.version = doc[d].version /\ DOMAIN r.asked = ps

\* A new resolution knows the present.
LEMMA ResolutionFacts ==
  ASSUME TypeOK, NEW g \in 0 .. MaxGeneration, NEW d \in Docs, NEW s \in 1 .. MaxGeneration,
         NEW ps \in SUBSET Plugins
  PROVE  LET r == Resolution(g, d, s, ps)
         IN r \in Resolutions /\ Knows(r, g, d, s, ps)
<1> DEFINE asked == [p \in ps |-> "pending"]
           parsed == IF Css \in ps THEN ParsedText(ast, d) ELSE doc[d].text
           version == doc[d].version
<1>1. asked \in [ps -> Outcomes] /\ DOMAIN asked = ps
  BY DEF Outcomes
<1>2. asked \in UNION {[T -> Outcomes] : T \in SUBSET (Extra \cup {Css})}
  BY <1>1 DEF Plugins
<1>3. parsed \in Texts /\ version \in Versions
  BY DocType, ParsedTextType
<1>4. Resolution(g, d, s, ps) =
        [generation |-> g, selection |-> s, doc |-> d, version |-> version,
         parsed |-> parsed, asked |-> asked]
  BY DEF Resolution
<1> HIDE DEF asked, parsed, version
<1>5. LET r == Resolution(g, d, s, ps)
      IN /\ r \in Resolutions
         /\ r.generation = g /\ r.selection = s /\ r.doc = d
         /\ r.version = version /\ DOMAIN r.asked = ps
  BY <1>1, <1>2, <1>3, <1>4 DEF Resolutions
<1> QED BY <1>5 DEF version, Knows

\* What runs after resolveCurrent is an earlier resolution or knows the present.
LEMMA ResolveCurrentFacts ==
  ASSUME TypeOK, NEW aborted \in SUBSET Resolutions, NEW g \in 0 .. MaxGeneration,
         NEW d \in Docs \cup {None}, NEW s \in 0 .. MaxGeneration, NEW ps \in SUBSET Plugins,
         ResolveCurrent(aborted, g, d, s, ps)
  PROVE  /\ runs' \in SUBSET Resolutions
         /\ ast' \in Seq(CacheEntry) /\ Len(ast') <= CacheLimit
         /\ \A r \in runs' : r \in aborted \/ Knows(r, g, d, s, ps)
<1>1. ast \in Seq(CacheEntry) /\ Len(ast) <= CacheLimit
  BY DEF TypeOK, CacheEntry
<1>2. CASE s = NoSelection \/ d = None
  <2>1. runs' = aborted /\ ast' = ast
    BY <1>2 DEF ResolveCurrent
  <2> QED BY <1>1, <2>1
<1>3. CASE s # NoSelection /\ d # None
  <2> DEFINE r == Resolution(g, d, s, ps)
  <2>1. /\ runs' = aborted \cup {r}
        /\ ast' = IF Css \in ps THEN Remember(ast, d) ELSE ast
    BY <1>3 DEF ResolveCurrent
  <2>2. d \in Docs /\ s \in 1 .. MaxGeneration
    BY <1>3, EditorAssumption DEF NoSelection
  <2>3. r \in Resolutions /\ Knows(r, g, d, s, ps)
    BY <2>2, ResolutionFacts
  <2> HIDE DEF r
  <2>4. ast' \in Seq(CacheEntry) /\ Len(ast') <= CacheLimit
    BY <1>1, <2>1, <2>2, RememberType
  <2> QED BY <2>1, <2>3, <2>4
<1> QED BY <1>2, <1>3

-----------------------------------------------------------------------------
(* What is shown *)

LEMMA NothingIsNotShown == NothingShown \notin Shown
<1>1. NothingShown.doc = None
  BY DEF NothingShown
<1>2. \A x \in Shown : x.doc \in Docs
  BY DEF Shown
<1> QED BY <1>1, <1>2, EditorAssumption

LEMMA NothingShownIsCurrent ==
  ASSUME shown' = NothingShown
  PROVE  PublishedIsCurrent' /\ NoPluginSilenced' /\ shown' \in Shown \cup {NothingShown}
BY DEF PublishedIsCurrent, NoPluginSilenced

\* What is kept of the aborted resolutions.
LEMMA AbortedFacts ==
  ASSUME TypeOK, RunsFit
  PROVE  /\ Aborted \in SUBSET Resolutions
         /\ \A r \in Aborted : r.generation <= generation
<1>1. runs \in SUBSET Resolutions
  BY DEF TypeOK
<1>2. \A r \in runs : Cancelled(r) \in Resolutions /\ Cancelled(r).generation = r.generation
  BY <1>1, CancelledFacts
<1> QED BY <1>2 DEF Aborted, RunsFit

-----------------------------------------------------------------------------
(* The steps *)

LEMMA InitFits == Init => EditorInv
<1> SUFFICES ASSUME Init
             PROVE  EditorInv
  OBVIOUS
<1>1. doc \in [Docs -> [version: Versions, text: Texts]]
  BY EditorAssumption DEF Init, Versions
<1>2. ast \in Seq(CacheEntry) /\ Len(ast) <= CacheLimit
  <2>1. ast = << >> /\ << >> \in Seq(CacheEntry) /\ Len(<< >>) = 0
    BY EmptySeq DEF Init
  <2> QED BY <2>1, EditorAssumption
<1>3. TypeOK
  <2>1. selection \in 0 .. MaxGeneration /\ generation \in 0 .. MaxGeneration
    BY EditorAssumption DEF Init, NoSelection
  <2>2. /\ active \in Docs \cup {None} /\ editTimer \in BOOLEAN /\ disposed \in BOOLEAN
        /\ runs \subseteq Resolutions /\ plugins \subseteq Extra \cup {Css}
        /\ shown \in Shown \cup {NothingShown}
    BY DEF Init
  <2> QED BY <1>1, <1>2, <2>1, <2>2 DEF TypeOK, CacheEntry
<1>4. RunsFit /\ PublishedIsCurrent /\ NoPluginSilenced
  BY DEF Init, RunsFit, PublishedIsCurrent, NoPluginSilenced
<1> QED BY <1>3, <1>4 DEF EditorInv

\* Whatever resolves again supersedes what is under way.
LEMMA ResolveImmediatelyKeeps ==
  ASSUME EditorInv, NEW d \in Docs \cup {None}, NEW s \in 0 .. MaxGeneration,
         NEW ps \in SUBSET Plugins, ResolveImmediately(d, s, ps)
  PROVE  EditorInv'
<1> USE DEF EditorInv
<1>1. /\ editTimer' = FALSE /\ generation' = generation + 1 /\ generation < MaxGeneration
      /\ shown' = NothingShown /\ active' = d /\ selection' = s /\ plugins' = ps
      /\ doc' = doc /\ disposed' = disposed
      /\ ResolveCurrent(Aborted, generation + 1, d, s, ps)
  BY DEF ResolveImmediately, InvalidateCurrent
<1>2. generation + 1 \in 0 .. MaxGeneration /\ generation \in Nat
  BY <1>1, EditorAssumption DEF TypeOK
<1>3. /\ Aborted \in SUBSET Resolutions
      /\ \A r \in Aborted : r.generation <= generation
  BY AbortedFacts
<1>4. /\ runs' \in SUBSET Resolutions
      /\ ast' \in Seq(CacheEntry) /\ Len(ast') <= CacheLimit
      /\ \A r \in runs' : r \in Aborted \/ Knows(r, generation + 1, d, s, ps)
  BY <1>1, <1>2, <1>3, ResolveCurrentFacts
<1>5. PublishedIsCurrent' /\ NoPluginSilenced' /\ shown' \in Shown \cup {NothingShown}
  BY <1>1, NothingShownIsCurrent
<1>6. RunsFit'
  <2> SUFFICES ASSUME NEW r \in runs'
               PROVE  r.generation <= generation' /\ (~Superseded(r)' => Current(r)')
    BY DEF RunsFit
  <2>1. CASE r \in Aborted
    <3>1. r.generation \in Nat /\ r.generation <= generation
      BY <1>3, <2>1 DEF Resolutions
    <3> QED BY <1>1, <1>2, <3>1 DEF Superseded
  <2>2. CASE r \notin Aborted
    BY <1>1, <1>2, <1>4, <2>2 DEF Current, Knows
  <2> QED BY <2>1, <2>2
<1>7. TypeOK'
  BY <1>1, <1>2, <1>4, <1>5 DEF TypeOK, CacheEntry, Plugins
<1> QED BY <1>5, <1>6, <1>7

LEMMA HeardKeeps ==
  ASSUME EditorInv, NEW d \in Docs \cup {None}, NEW ps \in SUBSET Plugins, Heard(d, ps)
  PROVE  EditorInv'
<1>1. CASE ResolveImmediately(d, selection, ps)
  BY <1>1, ResolveImmediatelyKeeps DEF EditorInv, TypeOK
<1>2. CASE ~ResolveImmediately(d, selection, ps)
  <2>1. /\ disposed /\ active' = d /\ plugins' = ps
        /\ UNCHANGED <<doc, selection, generation, editTimer, disposed, runs, ast, shown>>
    BY <1>2 DEF Heard
  <2>2. shown' = NothingShown
    BY <2>1 DEF EditorInv, PublishedIsCurrent
  <2>3. PublishedIsCurrent' /\ NoPluginSilenced'
    BY <2>2, NothingShownIsCurrent
  <2>4. RunsFit'
    BY <2>1 DEF EditorInv, RunsFit, Superseded
  <2>5. TypeOK'
    BY <2>1 DEF EditorInv, TypeOK, Plugins
  <2> QED BY <2>3, <2>4, <2>5 DEF EditorInv
<1> QED BY <1>1, <1>2

LEMMA ListenersKeep ==
  ASSUME EditorInv,
         \/ Select \/ ClearSelection \/ DisposeRegistration
         \/ \E p \in Extra : Register(p)
         \/ \E d \in Docs \cup {None} : ActivateEditor(d)
  PROVE  EditorInv'
<1>1. /\ active \in Docs \cup {None} /\ plugins \in SUBSET Plugins
      /\ generation \in 0 .. MaxGeneration /\ NoSelection \in 0 .. MaxGeneration
  BY EditorAssumption DEF EditorInv, TypeOK, Plugins, NoSelection
<1>2. CASE Select
  <2>1. ResolveImmediately(active, generation + 1, plugins)
    BY <1>2 DEF Select
  <2>2. generation + 1 \in 0 .. MaxGeneration
    BY <1>1, <2>1, EditorAssumption DEF ResolveImmediately, InvalidateCurrent
  <2> QED BY <1>1, <2>1, <2>2, ResolveImmediatelyKeeps
<1>3. CASE ClearSelection
  BY <1>1, <1>3, ResolveImmediatelyKeeps DEF ClearSelection
<1>4. CASE DisposeRegistration
  <2>1. plugins \ Extra \in SUBSET Plugins
    BY <1>1
  <2> QED BY <1>1, <1>4, <2>1, HeardKeeps DEF DisposeRegistration
<1>5. ASSUME NEW p \in Extra, Register(p)
      PROVE  EditorInv'
  <2>1. plugins \cup {p} \in SUBSET Plugins
    BY <1>1 DEF Plugins
  <2> QED BY <1>1, <1>5, <2>1, HeardKeeps DEF Register
<1>6. ASSUME NEW d \in Docs \cup {None}, ActivateEditor(d)
      PROVE  EditorInv'
  BY <1>1, <1>6, HeardKeeps DEF ActivateEditor
<1> QED BY <1>2, <1>3, <1>4, <1>5, <1>6

\* A document changes: the resolutions of the active one are superseded, those
\* of another one do not look at it.
LEMMA ChangesType ==
  ASSUME TypeOK, NEW d \in Docs, NEW text \in Texts, Changes(d, text)
  PROVE  /\ doc' \in [Docs -> [version: Versions, text: Texts]]
         /\ \A e : e # d => doc'[e] = doc[e]
<1>1. doc[d].version + 1 \in Versions
  BY DocType, EditorAssumption DEF Changes, Versions
<1>2. doc' = [doc EXCEPT ![d] = [version |-> doc[d].version + 1, text |-> text]]
  BY DEF Changes
<1> QED BY <1>1, <1>2 DEF TypeOK

LEMMA HandleDocumentChangeKeeps ==
  ASSUME EditorInv, NEW d \in Docs, NEW text \in Texts, HandleDocumentChange(d, text)
  PROVE  EditorInv'
<1> USE DEF EditorInv
<1>1. /\ Changes(d, text)
      /\ active' = active /\ selection' = selection /\ disposed' = disposed
      /\ ast' = ast /\ plugins' = plugins
  BY DEF HandleDocumentChange, Changes
<1>2. /\ doc' \in [Docs -> [version: Versions, text: Texts]]
      /\ \A e : e # d => doc'[e] = doc[e]
  BY <1>1, ChangesType
<1>3. CASE d # active \/ disposed
  <2>1. UNCHANGED <<generation, editTimer, runs, shown>>
    BY <1>3 DEF HandleDocumentChange
  <2>2. ~disposed => doc'[active] = doc[active]
    BY <1>2, <1>3
  <2>3. RunsFit'
    BY <1>1, <2>1, <2>2 DEF RunsFit, Superseded, Current
  <2>4. PublishedIsCurrent' /\ NoPluginSilenced'
    BY <1>1, <2>1, <2>2 DEF PublishedIsCurrent, NoPluginSilenced
  <2>5. TypeOK'
    BY <1>1, <1>2, <2>1 DEF TypeOK
  <2> QED BY <2>3, <2>4, <2>5
<1>4. CASE ~(d # active \/ disposed)
  <2>1. /\ generation' = generation + 1 /\ generation < MaxGeneration
        /\ shown' = NothingShown /\ editTimer' = TRUE /\ runs' = Aborted
    BY <1>4 DEF HandleDocumentChange, InvalidateCurrent
  <2>2. generation + 1 \in 0 .. MaxGeneration /\ generation \in Nat
    BY <2>1, EditorAssumption DEF TypeOK
  <2>3. /\ runs' \in SUBSET Resolutions
        /\ \A r \in runs' : r.generation <= generation
    BY <2>1, AbortedFacts
  <2>4. RunsFit'
    <3>1. \A r \in runs' : r.generation \in Nat
      BY <2>3 DEF Resolutions
    <3> QED BY <2>1, <2>2, <2>3, <3>1 DEF RunsFit, Superseded
  <2>5. PublishedIsCurrent' /\ NoPluginSilenced' /\ shown' \in Shown \cup {NothingShown}
    BY <2>1, NothingShownIsCurrent
  <2>6. TypeOK'
    BY <1>1, <1>2, <2>1, <2>2, <2>3, <2>5 DEF TypeOK
  <2> QED BY <2>4, <2>5, <2>6
<1> QED BY <1>3, <1>4

LEMMA CloseAndReopenKeeps ==
  ASSUME EditorInv, NEW d \in Docs, NEW text \in Texts, CloseAndReopen(d, text)
  PROVE  EditorInv'
<1> USE DEF EditorInv
<1>1. /\ doc' = [doc EXCEPT ![d] = [version |-> 1, text |-> text]] /\ d # active
      /\ UNCHANGED <<active, selection, generation, editTimer, disposed, runs, ast,
                     plugins, shown>>
  BY DEF CloseAndReopen
<1>2. doc' \in [Docs -> [version: Versions, text: Texts]] /\ doc'[active] = doc[active]
  <2>1. 1 \in Versions
    BY EditorAssumption DEF Versions
  <2> QED BY <1>1, <2>1 DEF TypeOK
<1>3. RunsFit'
  BY <1>1, <1>2 DEF RunsFit, Superseded, Current
<1>4. PublishedIsCurrent' /\ NoPluginSilenced'
  BY <1>1, <1>2 DEF PublishedIsCurrent, NoPluginSilenced
<1>5. TypeOK'
  BY <1>1, <1>2 DEF TypeOK
<1> QED BY <1>3, <1>4, <1>5

\* While the edit timer runs nothing is shown and every resolution is superseded.
LEMMA EditTimerKeeps ==
  ASSUME EditorInv, EditTimer
  PROVE  EditorInv'
<1> USE DEF EditorInv
<1>1. /\ editTimer /\ editTimer' = FALSE
      /\ ResolveCurrent(runs, generation, active, selection, plugins)
      /\ UNCHANGED <<active, doc, selection, generation, disposed, plugins, shown>>
  BY DEF EditTimer
<1>2. /\ runs \in SUBSET Resolutions /\ generation \in 0 .. MaxGeneration
      /\ active \in Docs \cup {None} /\ selection \in 0 .. MaxGeneration
      /\ plugins \in SUBSET Plugins
  BY DEF TypeOK, Plugins
<1>3. /\ runs' \in SUBSET Resolutions
      /\ ast' \in Seq(CacheEntry) /\ Len(ast') <= CacheLimit
      /\ \A r \in runs' : r \in runs \/ Knows(r, generation, active, selection, plugins)
  BY <1>1, <1>2, ResolveCurrentFacts
<1>4. RunsFit'
  <2> SUFFICES ASSUME NEW r \in runs'
               PROVE  r.generation <= generation' /\ (~Superseded(r)' => Current(r)')
    BY DEF RunsFit
  <2>1. CASE r \in runs
    BY <1>1, <2>1 DEF RunsFit, Current, Superseded
  <2>2. CASE r \notin runs
    BY <1>1, <1>2, <1>3, <2>2 DEF Current, Knows
  <2> QED BY <2>1, <2>2
<1>5. shown' = NothingShown
  BY <1>1 DEF PublishedIsCurrent
<1>6. PublishedIsCurrent' /\ NoPluginSilenced'
  BY <1>5, NothingShownIsCurrent
<1>7. TypeOK'
  BY <1>1, <1>3 DEF TypeOK, CacheEntry
<1> QED BY <1>4, <1>6, <1>7

LEMMA DisposeKeeps ==
  ASSUME EditorInv, Dispose
  PROVE  EditorInv'
<1> USE DEF EditorInv
<1>1. /\ disposed' = TRUE /\ editTimer' = FALSE /\ runs' = Aborted /\ shown' = NothingShown
      /\ plugins' = plugins \ {Css}
      /\ UNCHANGED <<active, doc, selection, generation, ast>>
  BY DEF Dispose
<1>2. /\ runs' \in SUBSET Resolutions
      /\ \A r \in runs' : r.generation <= generation
  BY <1>1, AbortedFacts
<1>3. RunsFit'
  BY <1>1, <1>2 DEF RunsFit, Superseded
<1>4. PublishedIsCurrent' /\ NoPluginSilenced' /\ shown' \in Shown \cup {NothingShown}
  BY <1>1, NothingShownIsCurrent
<1>5. TypeOK'
  BY <1>1, <1>2, <1>4 DEF TypeOK
<1> QED BY <1>3, <1>4, <1>5

\* A plugin's outcome is one of Outcomes and changes nothing else.
LEMMA OutcomeKeeps ==
  ASSUME EditorInv, NEW r \in runs, NEW p \in DOMAIN r.asked, NEW outcome \in Outcomes,
         Outcome(r, p, outcome)
  PROVE  EditorInv'
<1> USE DEF EditorInv
<1> DEFINE e == [r EXCEPT !.asked[p] = outcome]
           asked == [r.asked EXCEPT ![p] = outcome]
           S == DOMAIN r.asked
<1>1. /\ runs' = (runs \ {r}) \cup {e}
      /\ UNCHANGED <<active, doc, selection, generation, editTimer, disposed, ast,
                     plugins, shown>>
  BY DEF Outcome
<1>2. r \in Resolutions /\ runs \in SUBSET Resolutions
  BY DEF TypeOK
<1>3. S \in SUBSET (Extra \cup {Css}) /\ r.asked \in [S -> Outcomes]
  BY <1>2 DEF Resolutions
<1>4. asked \in [S -> Outcomes] /\ DOMAIN asked = S
  BY <1>3
<1>5. asked \in UNION {[T -> Outcomes] : T \in SUBSET (Extra \cup {Css})}
  BY <1>3, <1>4
<1>6. e = [r EXCEPT !.asked = asked]
  BY <1>2 DEF Resolutions
<1> HIDE DEF e, asked
<1>7. /\ e \in Resolutions
      /\ e.generation = r.generation /\ e.selection = r.selection /\ e.doc = r.doc
      /\ e.version = r.version /\ DOMAIN e.asked = DOMAIN r.asked
  BY <1>2, <1>4, <1>5, <1>6 DEF Resolutions
<1>8. RunsFit'
  <2> SUFFICES ASSUME NEW x \in runs'
               PROVE  x.generation <= generation' /\ (~Superseded(x)' => Current(x)')
    BY DEF RunsFit
  <2>1. CASE x = e
    BY <1>1, <1>7, <2>1 DEF RunsFit, Superseded, Current
  <2>2. CASE x # e
    BY <1>1, <2>2 DEF RunsFit, Superseded, Current
  <2> QED BY <2>1, <2>2
<1>9. PublishedIsCurrent' /\ NoPluginSilenced'
  BY <1>1 DEF PublishedIsCurrent, NoPluginSilenced
<1>10. TypeOK'
  BY <1>1, <1>2, <1>7 DEF TypeOK
<1> QED BY <1>8, <1>9, <1>10

LEMMA PluginsKeep ==
  ASSUME EditorInv, Answer \/ PluginTimer
  PROVE  EditorInv'
<1>1. ASSUME NEW r \in runs, CssPluginAnswers(r)
      PROVE  EditorInv'
  <2>1. "matches" \in Outcomes
    BY DEF Outcomes
  <2> QED BY <1>1, <2>1, OutcomeKeeps DEF CssPluginAnswers
<1>2. ASSUME NEW r \in runs, NEW p \in DOMAIN r.asked, PluginAnswers(r, p)
      PROVE  EditorInv'
  <2>1. PICK outcome \in {"matches", "malformed", "exception"} : Outcome(r, p, outcome)
    BY <1>2 DEF PluginAnswers
  <2> QED BY <2>1, OutcomeKeeps DEF Outcomes
<1>3. ASSUME NEW r \in runs, NEW p \in DOMAIN r.asked, PluginTimesOut(r, p)
      PROVE  EditorInv'
  <2>1. "cancelled" \in Outcomes
    BY DEF Outcomes
  <2> QED BY <1>3, <2>1, OutcomeKeeps DEF PluginTimesOut
<1> QED BY <1>1, <1>2, <1>3 DEF Answer, PluginTimer

\* A settled resolution that is not superseded has a report of every plugin.
LEMMA PublishFacts ==
  ASSUME NEW r \in Resolutions, Settled(r), ~Superseded(r), r.selection # NoSelection, Publish(r)
  PROVE  /\ shown' \in Shown /\ shown'.selection = r.selection /\ shown'.doc = r.doc
         /\ shown'.version = r.version /\ DOMAIN shown'.reports = DOMAIN r.asked
         /\ \A p \in DOMAIN shown'.reports : shown'.reports[p] # "nothing"
<1> DEFINE S == DOMAIN r.asked
           Told == {"matches", "timeout", "exception", "invalidResult"}
           AllReports == Told \cup {"nothing"}
           reports == [p \in S |-> Report(r, p)]
<1>1. S \in SUBSET (Extra \cup {Css}) /\ r.asked \in [S -> Outcomes]
  BY DEF Resolutions
<1>2. \A p \in S : Report(r, p) \in Told
  <2> TAKE p \in S
  <2>1. r.asked[p] \in Outcomes \ {"pending"}
    BY <1>1 DEF Settled
  <2> QED BY <2>1 DEF Report, Outcomes
<1>3. /\ DOMAIN reports = S /\ reports \in [S -> AllReports]
      /\ \A p \in S : reports[p] # "nothing"
  BY <1>2
<1>4. reports \in UNION {[T -> AllReports] : T \in SUBSET (Extra \cup {Css})}
  BY <1>1, <1>3
<1>5. shown' = [selection |-> r.selection, doc |-> r.doc, version |-> r.version,
                parsed |-> r.parsed, reports |-> reports]
  BY DEF Publish
<1> HIDE DEF reports
<1> QED BY <1>3, <1>4, <1>5 DEF Shown, Resolutions

LEMMA CompletesKeeps ==
  ASSUME EditorInv, NEW r \in runs, Completes(r)
  PROVE  EditorInv'
<1> USE DEF EditorInv
<1>1. /\ Settled(r) /\ runs' = runs \ {r}
      /\ UNCHANGED <<active, doc, selection, generation, editTimer, disposed, ast, plugins>>
  BY DEF Completes
<1>2. r \in Resolutions /\ runs \in SUBSET Resolutions
  BY DEF TypeOK
<1>3. RunsFit'
  BY <1>1 DEF RunsFit, Superseded, Current
<1>4. CASE Superseded(r)
  <2>1. shown' = shown
    BY <1>4 DEF Completes
  <2>2. PublishedIsCurrent' /\ NoPluginSilenced'
    BY <1>1, <2>1 DEF PublishedIsCurrent, NoPluginSilenced
  <2>3. TypeOK'
    BY <1>1, <1>2, <2>1 DEF TypeOK
  <2> QED BY <1>3, <2>2, <2>3
<1>5. CASE ~Superseded(r)
  <2>1. Publish(r)
    BY <1>5 DEF Completes
  <2>2. r.selection # NoSelection
    BY <1>2 DEF Resolutions, NoSelection
  <2>3. /\ shown' \in Shown /\ shown'.selection = r.selection /\ shown'.doc = r.doc
        /\ shown'.version = r.version /\ DOMAIN shown'.reports = DOMAIN r.asked
        /\ \A p \in DOMAIN shown'.reports : shown'.reports[p] # "nothing"
    BY <1>1, <1>2, <1>5, <2>1, <2>2, PublishFacts
  <2>4. Current(r) /\ ~disposed
    BY <1>5 DEF RunsFit, Superseded
  <2>5. PublishedIsCurrent' /\ NoPluginSilenced'
    BY <1>1, <2>3, <2>4 DEF PublishedIsCurrent, NoPluginSilenced, Current
  <2>6. TypeOK'
    BY <1>1, <1>2, <2>3 DEF TypeOK
  <2> QED BY <1>3, <2>5, <2>6
<1> QED BY <1>4, <1>5

LEMMA StutterKeeps == EditorInv /\ UNCHANGED vars => EditorInv'
BY DEF vars, EditorInv, TypeOK, RunsFit, Superseded, Current, PublishedIsCurrent,
       NoPluginSilenced

-----------------------------------------------------------------------------
(* The theorems *)

\* Every resolution is superseded or about the present, in every reachable
\* state, for any documents, plugins and cache.
THEOREM EditorInductive == Spec => []EditorInv
<1>1. EditorInv /\ [Next]_vars => EditorInv'
  <2> SUFFICES ASSUME EditorInv, [Next]_vars
               PROVE  EditorInv'
    OBVIOUS
  <2>1. CASE Resume
    BY <2>1, CompletesKeeps DEF Resume
  <2>2. CASE Answer \/ PluginTimer
    BY <2>2, PluginsKeep
  <2>3. CASE EditTimer
    BY <2>3, EditTimerKeeps
  <2>4. CASE \/ Select \/ ClearSelection \/ DisposeRegistration
             \/ \E p \in Extra : Register(p)
             \/ \E d \in Docs \cup {None} : ActivateEditor(d)
    BY <2>4, ListenersKeep
  <2>5. CASE Dispose
    BY <2>5, DisposeKeeps
  <2>6. ASSUME NEW d \in Docs, NEW text \in Texts,
               HandleDocumentChange(d, text) \/ CloseAndReopen(d, text)
        PROVE  EditorInv'
    BY <2>6, HandleDocumentChangeKeeps, CloseAndReopenKeeps
  <2>7. CASE UNCHANGED vars
    BY <2>7, StutterKeeps
  <2> QED BY <2>1, <2>2, <2>3, <2>4, <2>5, <2>6, <2>7 DEF Next
<1> QED BY InitFits, <1>1, PTL DEF Spec

\* Types; in particular the cache of stylesheets keeps to its limit
\* (BoundedLruCache).
THEOREM EditorTypeCorrect == Spec => []TypeOK
<1>1. EditorInv => TypeOK
  BY DEF EditorInv
<1> QED BY <1>1, EditorInductive, PTL

\* What is shown is about the current selection, editor, version and plugins,
\* whenever a resolution settles (resolveCurrent's guard).
THEOREM PublishedAlwaysCurrent == Spec => []PublishedIsCurrent
<1>1. EditorInv => PublishedIsCurrent
  BY DEF EditorInv
<1> QED BY <1>1, EditorInductive, PTL

\* No registered plugin is missing from what is shown, also one that
\* timed out (resolvePlugin's race).
THEOREM PluginsNeverSilenced == Spec => []NoPluginSilenced
<1>1. EditorInv => NoPluginSilenced
  BY DEF EditorInv
<1> QED BY <1>1, EditorInductive, PTL

-----------------------------------------------------------------------------
(* The two walks of CssRulePaths.  As long as the IDE is sure of where it  *)
(* stands, both have come to the same number in the same list; once it is  *)
(* not, it adds no path that the browser might give to something else.     *)
(* Paths only grow, so that none is given out twice.                       *)

\* No stylesheet holds a declaration outside of every block: the browser takes
\* it for the beginning of the next rule, the IDE for nothing (StraySheets of
\* MCEditorPresenter).
NoStrayDeclarations ==
  \A sheet \in Sheets : \A k \in DOMAIN sheet : sheet[k].kind # "declaration"

(* What the walks keep of a container.                                     *)
Positions == Seq(Nat)
CssContainers ==
  [kind: Certain \cup Uncertain \cup {"sheet"}, nodes: NodeLists, at: Positions, done: Nat,
   owner: Positions, foreign: BOOLEAN]
CssLists ==
  [path: Positions, kept: BOOLEAN, count: Nat, pending: BOOLEAN, seen: BOOLEAN,
   stray: BOOLEAN]
CssLocals ==
  [entered: BOOLEAN, parentPath: Positions, cssomIndex: Nat, pathTrusted: BOOLEAN,
   cssRuleSeen: BOOLEAN, declarationsPending: BOOLEAN,
   rootPhase: {"initial", "imports", "body"}]
CssPages == [rulesVisited: Nat, facts: SUBSET [path: Positions, block: Positions]]

(* What a path is the path of is no concern of the types.                  *)
IsBuilder(b) ==
  /\ b \in [visitedRules: Nat, pathIndex: {b.pathIndex}, doubt: BOOLEAN]
  /\ DOMAIN b.pathIndex \subseteq Positions

(* A container with its list, its locals and what both walks share.        *)
Typed(c, l, p, v, b) ==
  /\ c \in CssContainers /\ l \in CssLists /\ p \in CssPages /\ v \in CssLocals
  /\ IsBuilder(b)

(* The IDE is sure of the numbers of this container.                       *)
Synced(v, b) == v.pathTrusted \/ ~b.doubt

(* Both walks stand at the same number.                                    *)
Alike(c, l, v) ==
  /\ v.parentPath = l.path /\ v.cssomIndex = l.count
  /\ v.declarationsPending = l.pending
  /\ v.cssRuleSeen <=> (l.seen \/ c.kind # "style")

(* Of a container that the browser reads.                                  *)
ListFrame(c, l) ==
  /\ l.kept /\ (l.stray => c.foreign)
  /\ l.pending => c.owner # NoRule
  /\ c.kind \in Plain => c.owner = NoRule

(* Of one that the IDE reads: without an uncertainty it reads all that     *)
(* counts, and trusts its numbers until the budget is used up.             *)
EnteredFrame(c, v, b) ==
  /\ v.entered => c.kind \in {"sheet", "style", "group", "keyframes"} /\ ~c.foreign
  /\ ~b.doubt => v.entered \/ c.foreign \/ c.kind = "leaf"
  /\ ~b.doubt /\ v.entered => v.pathTrusted \/ b.visitedRules >= CssRules

(* The walks agree where the IDE is sure.                                  *)
SyncedFrame(c, l, v, b) == v.entered /\ Synced(v, b) => Alike(c, l, v)

(* The paths that either walk has given out.                               *)
Used(p, b) == {f.path : f \in p.facts} \cup DOMAIN b.pathIndex

(* A path through this list is through a rule that the list has passed.    *)
Behind(u, l) ==
  Len(u) > Len(l.path) /\ (\A j \in 1 .. Len(l.path) : u[j] = l.path[j]) =>
    u[Len(l.path) + 1] < l.count

(* ParseBrowserRulePath accepts the path.                                  *)
Within(path) ==
  /\ Len(path) \in 1 .. (CssRuleDepth + 1)
  /\ \A k \in DOMAIN path : path[k] < CssRules

(* The facts have paths that are accepted; what the IDE has for a path is  *)
(* the browser's block; and without an uncertainty it has something.       *)
PathsFit(p) == \A f \in p.facts : Within(f.path) /\ f.block # NoRule
PathsAgree(p, b) ==
  \A f \in p.facts : f.path \in DOMAIN b.pathIndex => b.pathIndex[f.path] = f.block
PathsFound(p, b) == ~b.doubt => \A f \in p.facts : f.path \in DOMAIN b.pathIndex
(* The IDE does not use up the budget before the page does.                *)
Lags(p, b) == ~b.doubt /\ p.rulesVisited < CssRules => b.visitedRules <= p.rulesVisited

(* No path has been given out that the list is yet to come to.             *)
AllBehind(l, p, b) == \A u \in Used(p, b) : Behind(u, l)
CountFits(l, p) == p.rulesVisited < CssRules => l.count <= p.rulesVisited

(* The same of the lists around this one.                                  *)
Outside(l, p, b, lists) ==
  /\ lists \in Seq(CssLists) /\ Len(l.path) <= Len(lists) /\ Len(l.path) <= CssRuleDepth
  /\ \A j \in 1 .. Len(l.path) :
       /\ Len(lists[j].path) = j - 1 /\ l.path[j] < lists[j].count
       /\ AllBehind(lists[j], p, b) /\ CountFits(lists[j], p)

(* What was added since is of this list.                                   *)
Fresh(l, p, b, old) == \A u \in Used(p, b) : u \in old \/ Len(u) = Len(l.path) + 1

(* The conditions under which the two walks stand at the end of a list.    *)
At(c, l, p, v, b, lists, old) ==
  /\ Typed(c, l, p, v, b)
  /\ ListFrame(c, l) /\ EnteredFrame(c, v, b) /\ SyncedFrame(c, l, v, b)
  /\ PathsFit(p) /\ PathsAgree(p, b) /\ PathsFound(p, b) /\ Lags(p, b)
  /\ AllBehind(l, p, b) /\ CountFits(l, p)
  /\ Outside(l, p, b, lists) /\ Fresh(l, p, b, old)

(* A path that ends with the next rule's number.                           *)
LEMMA NextPath ==
  ASSUME NEW path \in Positions, NEW n \in Nat
  PROVE  /\ Append(path, n) \in Positions
         /\ Len(Append(path, n)) = Len(path) + 1
         /\ DOMAIN Append(path, n) = 1 .. (Len(path) + 1)
         /\ \A j \in 1 .. Len(path) : Append(path, n)[j] = path[j]
         /\ Append(path, n)[Len(path) + 1] = n
         /\ Append(path, n) # NoRule
         /\ Len(path) \in Nat /\ DOMAIN path = 1 .. Len(path)
         /\ \A j \in 1 .. Len(path) : path[j] \in Nat
  BY DEF Positions, NoRule

(* The next path of a list is new, and is behind once the list counts it.  *)
LEMMA NextPathBehind ==
  ASSUME NEW l \in CssLists, NEW p \in CssPages, NEW b, IsBuilder(b),
         NEW lists, NEW old, AllBehind(l, p, b), Outside(l, p, b, lists)
  PROVE  LET q == Append(l.path, l.count) IN
         /\ q \notin Used(p, b)
         /\ \A j \in 1 .. Len(l.path) : Behind(q, lists[j])
         /\ \A m \in CssLists : m.path = l.path /\ m.count = l.count + 1 => Behind(q, m)
         /\ CountFits(l, p) /\ p.rulesVisited < CssRules => Within(q)
<1> DEFINE q == Append(l.path, l.count)
<1>1. l.path \in Positions /\ l.count \in Nat /\ p.rulesVisited \in Nat
  BY DEF CssLists, CssPages
<1>2. /\ q \in Positions /\ Len(q) = Len(l.path) + 1 /\ DOMAIN q = 1 .. (Len(l.path) + 1)
      /\ \A j \in 1 .. Len(l.path) : q[j] = l.path[j]
      /\ q[Len(l.path) + 1] = l.count
      /\ Len(l.path) \in Nat /\ \A j \in 1 .. Len(l.path) : l.path[j] \in Nat
  BY <1>1, NextPath
<1>3. q \notin Used(p, b)
  <2> SUFFICES ASSUME q \in Used(p, b) PROVE FALSE
    OBVIOUS
  <2>1. Behind(q, l)
    BY DEF AllBehind
  <2> QED BY <2>1, <1>1, <1>2 DEF Behind
<1>4. \A j \in 1 .. Len(l.path) : Behind(q, lists[j])
  <2> SUFFICES ASSUME NEW j \in 1 .. Len(l.path) PROVE Behind(q, lists[j])
    OBVIOUS
  <2>1. Len(lists[j].path) = j - 1 /\ l.path[j] < lists[j].count
    BY DEF Outside
  <2>2. q[Len(lists[j].path) + 1] = l.path[j]
    BY <2>1, <1>2
  <2> QED BY <2>1, <2>2 DEF Behind
<1>5. ASSUME NEW m \in CssLists, m.path = l.path, m.count = l.count + 1 PROVE Behind(q, m)
  BY <1>5, <1>1, <1>2 DEF Behind
<1>6. ASSUME CountFits(l, p), p.rulesVisited < CssRules PROVE Within(q)
  <2>1. Len(q) \in 1 .. (CssRuleDepth + 1)
    BY <1>2, CssAssumption DEF Outside
  <2>2. ASSUME NEW k \in DOMAIN q PROVE q[k] < CssRules
    <3>1. CASE k = Len(l.path) + 1
      BY <3>1, <1>6, <1>1, <1>2, CssAssumption DEF CountFits
    <3>2. CASE k \in 1 .. Len(l.path)
      <4>1. l.path[k] < lists[k].count /\ CountFits(lists[k], p)
        BY <3>2 DEF Outside
      <4>2. k \in 1 .. Len(lists) /\ lists \in Seq(CssLists)
        BY <3>2, <1>2 DEF Outside
      <4>3. lists[k] \in CssLists
        BY <4>2
      <4>4. lists[k].count \in Nat
        BY <4>3 DEF CssLists
      <4> QED BY <4>1, <4>4, <3>2, <1>6, <1>1, <1>2, CssAssumption DEF CountFits
    <3> QED BY <2>2, <1>2, <3>1, <3>2
  <2> QED BY <2>1, <2>2 DEF Within
<1> QED BY <1>3, <1>4, <1>5, <1>6

(* One rule more keeps every path behind.                                  *)
LEMMA Advance ==
  ASSUME NEW l \in CssLists, NEW p \in CssPages, NEW b, IsBuilder(b), NEW lists, NEW old,
         AllBehind(l, p, b), Outside(l, p, b, lists), CountFits(l, p), Fresh(l, p, b, old),
         NEW l2 \in CssLists, l2.path = l.path, l2.count = l.count + 1,
         NEW p2 \in CssPages, NEW b2,
         \A u \in Used(p2, b2) : u \in Used(p, b) \/ u = Append(l.path, l.count),
         p2.rulesVisited < CssRules =>
           p.rulesVisited < CssRules /\ p2.rulesVisited = p.rulesVisited + 1
  PROVE  /\ AllBehind(l2, p2, b2) /\ CountFits(l2, p2)
         /\ Outside(l2, p2, b2, lists) /\ Fresh(l2, p2, b2, old)
<1> DEFINE q == Append(l.path, l.count)
<1>1. l.path \in Positions /\ l.count \in Nat /\ p.rulesVisited \in Nat /\ Len(l.path) \in Nat
  BY NextPath DEF CssLists, CssPages
<1>2. /\ \A j \in 1 .. Len(l.path) : Behind(q, lists[j])
      /\ \A m \in CssLists : m.path = l.path /\ m.count = l.count + 1 => Behind(q, m)
  BY NextPathBehind
<1>3. AllBehind(l2, p2, b2)
  <2> SUFFICES ASSUME NEW u \in Used(p2, b2) PROVE Behind(u, l2)
    BY DEF AllBehind
  <2>1. CASE u = q
    BY <2>1, <1>2
  <2>2. CASE u \in Used(p, b)
    <3>1. Behind(u, l)
      BY <2>2 DEF AllBehind
    <3>2. l2.count = l.count + 1 /\ l2.path = l.path
      OBVIOUS
    <3> SUFFICES ASSUME Len(u) > Len(l.path), \A j \in 1 .. Len(l.path) : u[j] = l.path[j]
                 PROVE  u[Len(l.path) + 1] < l.count + 1
      BY <3>2 DEF Behind
    <3>3. u[Len(l.path) + 1] < l.count
      BY <3>1 DEF Behind
    <3>4. u \in Positions
      <4>1. DOMAIN b.pathIndex \subseteq Positions
        BY DEF IsBuilder
      <4>2. \A g \in p.facts : g.path \in Positions
        BY DEF CssPages
      <4> QED BY <2>2, <4>1, <4>2 DEF Used
    <3>5. u[Len(l.path) + 1] \in Nat
      <4>1. Len(l.path) + 1 \in 1 .. Len(u)
        BY <3>4, <1>1 DEF Positions
      <4> QED BY <3>4, <4>1 DEF Positions
    <3> QED BY <3>3, <3>5, <1>1
  <2> QED BY <2>1, <2>2
<1>4. CountFits(l2, p2)
  BY <1>1 DEF CountFits
<1>5. Outside(l2, p2, b2, lists)
  <2>1. /\ lists \in Seq(CssLists) /\ Len(l2.path) <= Len(lists)
        /\ Len(l2.path) <= CssRuleDepth
    BY DEF Outside
  <2>2. ASSUME NEW j \in 1 .. Len(l.path)
        PROVE  /\ Len(lists[j].path) = j - 1 /\ l.path[j] < lists[j].count
               /\ AllBehind(lists[j], p2, b2) /\ CountFits(lists[j], p2)
    <3>1. /\ Len(lists[j].path) = j - 1 /\ l.path[j] < lists[j].count
          /\ AllBehind(lists[j], p, b) /\ CountFits(lists[j], p)
      BY DEF Outside
    <3>2. AllBehind(lists[j], p2, b2)
      BY <3>1, <1>2 DEF AllBehind
    <3>3. lists[j] \in CssLists
      BY <1>1 DEF Outside
    <3>4. lists[j].count \in Nat
      BY <3>3 DEF CssLists
    <3>5. CountFits(lists[j], p2)
      BY <3>1, <3>4, <1>1 DEF CountFits
    <3> QED BY <3>1, <3>2, <3>5
  <2> QED BY <2>1, <2>2 DEF Outside
<1>6. Fresh(l2, p2, b2, old)
  <2>1. Len(q) = Len(l.path) + 1
    BY <1>1, NextPath
  <2> QED BY <2>1 DEF Fresh
<1> QED BY <1>3, <1>4, <1>5, <1>6

(* What becomes of a list, and of the page, when a rule is visited.        *)
VisitedList(l, m) ==
  /\ m \in CssLists
  /\ m.path = l.path /\ m.kept = l.kept /\ m.stray = l.stray
  /\ m.count = l.count + 1 /\ ~m.pending /\ m.seen

(* ... and what it makes of the page.                                      *)
VisitedPage(l, p, block, matches, q) ==
  LET f == [path |-> Append(l.path, l.count), block |-> block] IN
  /\ q \in CssPages
  /\ p.rulesVisited >= CssRules => q = p
  /\ p.rulesVisited < CssRules => q.rulesVisited = p.rulesVisited + 1
  /\ p.rulesVisited < CssRules /\ matches => q.facts = p.facts \cup {f}
  /\ p.rulesVisited < CssRules /\ ~matches => q.facts = p.facts

(* Visited comes down to the two.                                          *)
LEMMA VisitedParts ==
  ASSUME NEW l \in CssLists, NEW p \in CssPages, NEW block \in Positions,
         NEW matches \in BOOLEAN
  PROVE  LET r == Visited([list |-> l, page |-> p], block, matches) IN
         r = [list |-> r.list, page |-> r.page]
         /\ VisitedList(l, r.list) /\ VisitedPage(l, p, block, matches, r.page)
<1> DEFINE f == [path |-> Append(l.path, l.count), block |-> block]
<1>1. l.path \in Positions /\ l.count \in Nat /\ p.rulesVisited \in Nat
  BY DEF CssLists, CssPages
<1>2. f \in [path: Positions, block: Positions]
  BY <1>1, NextPath
<1>3. ASSUME NEW fs \in SUBSET [path: Positions, block: Positions]
      PROVE  [rulesVisited |-> p.rulesVisited + 1, facts |-> fs] \in CssPages
  BY <1>1 DEF CssPages
<1>4. p.facts \in SUBSET [path: Positions, block: Positions]
  BY DEF CssPages
<1>5. p.facts \cup {f} \in SUBSET [path: Positions, block: Positions]
  BY <1>2, <1>4
<1>6. [l EXCEPT !.count = @ + 1, !.pending = FALSE, !.seen = TRUE] \in CssLists
  <2> DEFINE n == l.count + 1
  <2>1. n \in Nat
    BY <1>1
  <2> HIDE DEF n
  <2>2. [l EXCEPT !.count = n, !.pending = FALSE, !.seen = TRUE] \in CssLists
    BY <2>1, Zenon DEF CssLists
  <2> QED BY <2>2 DEF n
<1>7. CssRules \in Nat
  BY CssAssumption
<1> DEFINE l2 == [l EXCEPT !.count = @ + 1, !.pending = FALSE, !.seen = TRUE]
           fs == IF matches THEN p.facts \cup {f} ELSE p.facts
           p2 == IF p.rulesVisited >= CssRules
                 THEN p ELSE [rulesVisited |-> p.rulesVisited + 1, facts |-> fs]
<1>8. /\ l2.path = l.path /\ l2.kept = l.kept /\ l2.stray = l.stray
      /\ l2.count = l.count + 1 /\ ~l2.pending /\ l2.seen
  BY DEF CssLists
<1>9. fs \in SUBSET [path: Positions, block: Positions]
  BY <1>4, <1>5
<1> HIDE DEF fs
<1>10. VisitedPage(l, p, block, matches, p2)
  BY <1>1, <1>3, <1>7, <1>9 DEF VisitedPage, fs
<1>11. Visited([list |-> l, page |-> p], block, matches) = [list |-> l2, page |-> p2]
  BY DEF Visited, fs
<1>12. VisitedList(l, l2)
  BY <1>6, <1>8 DEF VisitedList
<1> HIDE DEF l2, p2
<1>13. [list |-> l2, page |-> p2].list = l2 /\ [list |-> l2, page |-> p2].page = p2
  OBVIOUS
<1> QED BY <1>10, <1>11, <1>12, <1>13

(* What becomes of the builder when a rule is counted,                     *)
CountedBuilder(b, d) ==
  /\ IsBuilder(d) /\ d.visitedRules = b.visitedRules + 1 /\ d.doubt = b.doubt
  /\ d.pathIndex = b.pathIndex

(* ... and when it is tried.                                               *)
TriedBuilder(v, b, block, d) ==
  /\ IsBuilder(d) /\ d.visitedRules = b.visitedRules + 1 /\ d.doubt = b.doubt
  /\ d.pathIndex = IF v.pathTrusted /\ b.visitedRules < CssRules
                   THEN AddPath(b.pathIndex, Append(v.parentPath, v.cssomIndex), block)
                   ELSE b.pathIndex

(* Tries and Counts come down to these.                                    *)
LEMMA TriedParts ==
  ASSUME NEW v \in CssLocals, NEW b, IsBuilder(b), NEW block \in Positions
  PROVE  LET s == [locals |-> v, builder |-> b] IN
         /\ Counts(s) = [locals |-> Counted(v), builder |-> Counts(s).builder]
         /\ Tries(s, block) = [locals |-> Counted(v), builder |-> Tries(s, block).builder]
         /\ CountedBuilder(b, Counts(s).builder)
         /\ TriedBuilder(v, b, block, Tries(s, block).builder)
<1> DEFINE q == Append(v.parentPath, v.cssomIndex)
           s == [locals |-> v, builder |-> b]
           x == IF v.pathTrusted /\ b.visitedRules < CssRules
                THEN AddPath(b.pathIndex, q, block) ELSE b.pathIndex
<1>1. /\ b = [visitedRules |-> b.visitedRules, pathIndex |-> b.pathIndex, doubt |-> b.doubt]
      /\ b.visitedRules \in Nat /\ b.doubt \in BOOLEAN
      /\ DOMAIN b.pathIndex \subseteq Positions
  BY DEF IsBuilder
<1>2. [b EXCEPT !.visitedRules = @ + 1] =
        [visitedRules |-> b.visitedRules + 1, pathIndex |-> b.pathIndex, doubt |-> b.doubt]
  BY <1>1
<1>3. Counts(s) = [locals |-> Counted(v),
                   builder |-> [visitedRules |-> b.visitedRules + 1,
                                pathIndex |-> b.pathIndex, doubt |-> b.doubt]]
  BY <1>2 DEF Counts
<1>4. Tries(s, block) = [locals |-> Counted(v),
                         builder |-> [visitedRules |-> b.visitedRules + 1,
                                      pathIndex |-> x, doubt |-> b.doubt]]
  BY <1>3 DEF Tries
<1>5. q \in Positions
  BY NextPath DEF CssLocals
<1>6. DOMAIN x \subseteq Positions
  BY <1>1, <1>5 DEF AddPath
<1> HIDE DEF x
<1>7. /\ IsBuilder([visitedRules |-> b.visitedRules + 1, pathIndex |-> x, doubt |-> b.doubt])
      /\ IsBuilder([visitedRules |-> b.visitedRules + 1, pathIndex |-> b.pathIndex,
                    doubt |-> b.doubt])
  BY <1>1, <1>6 DEF IsBuilder
<1>8. /\ Counts(s) = [locals |-> Counted(v), builder |-> Counts(s).builder]
      /\ CountedBuilder(b, Counts(s).builder)
  BY <1>3, <1>7 DEF CountedBuilder
<1>9. /\ Tries(s, block) = [locals |-> Counted(v), builder |-> Tries(s, block).builder]
      /\ TriedBuilder(v, b, block, Tries(s, block).builder)
  BY <1>4, <1>7 DEF TriedBuilder, x
<1> QED BY <1>8, <1>9

LEMMA CountedParts ==
  ASSUME NEW v \in CssLocals
  PROVE  /\ Counted(v) \in CssLocals
         /\ Counted(v).entered = v.entered /\ Counted(v).parentPath = v.parentPath
         /\ Counted(v).cssomIndex = v.cssomIndex + 1
         /\ Counted(v).pathTrusted = v.pathTrusted /\ Counted(v).cssRuleSeen
         /\ ~Counted(v).declarationsPending /\ Counted(v).rootPhase = v.rootPhase
<1>1. Counted(v) \in CssLocals
  <2> DEFINE n == v.cssomIndex + 1
  <2>1. n \in Nat
    BY DEF CssLocals
  <2> HIDE DEF n
  <2>2. [v EXCEPT !.cssomIndex = n, !.cssRuleSeen = TRUE, !.declarationsPending = FALSE]
          \in CssLocals
    BY <2>1, Zenon DEF CssLocals
  <2> QED BY <2>2 DEF n, Counted
<1> QED BY <1>1 DEF Counted, CssLocals

(* The browser adds a rule that the IDE does not follow.                   *)
LEMMA BrowserVisits ==
  ASSUME NEW c, NEW l, NEW p, NEW v, NEW b, NEW lists, NEW old,
         At(c, l, p, v, b, lists, old),
         NEW block \in Positions, block # NoRule, NEW m \in BOOLEAN,
         ~(v.entered /\ Synced(v, b)), m => b.doubt
  PROVE  LET r == Visited([list |-> l, page |-> p], block, m) IN
         At(c, r.list, r.page, v, b, lists, old)
<1> DEFINE r == Visited([list |-> l, page |-> p], block, m)
           q == Append(l.path, l.count)
           f == [path |-> q, block |-> block]
<1>1. /\ Typed(c, l, p, v, b) /\ ListFrame(c, l) /\ EnteredFrame(c, v, b)
      /\ PathsFit(p) /\ PathsAgree(p, b) /\ PathsFound(p, b) /\ Lags(p, b)
      /\ AllBehind(l, p, b) /\ CountFits(l, p)
      /\ Outside(l, p, b, lists) /\ Fresh(l, p, b, old)
  BY DEF At
<1>2. l \in CssLists /\ p \in CssPages /\ IsBuilder(b)
  BY <1>1 DEF Typed
<1>3. VisitedList(l, r.list) /\ VisitedPage(l, p, block, m, r.page)
  BY <1>2, VisitedParts, Zenon
<1> HIDE DEF r
<1>17. /\ r.list \in CssLists /\ r.page \in CssPages
       /\ r.list.path = l.path /\ r.list.kept = l.kept /\ r.list.stray = l.stray
       /\ r.list.count = l.count + 1 /\ ~r.list.pending /\ r.list.seen
       /\ p.rulesVisited >= CssRules => r.page = p
       /\ p.rulesVisited < CssRules => r.page.rulesVisited = p.rulesVisited + 1
  BY <1>3 DEF VisitedList, VisitedPage
<1>4. /\ q \notin Used(p, b)
      /\ p.rulesVisited < CssRules => Within(q)
  BY <1>1, <1>2, NextPathBehind
<1>5. p.rulesVisited \in Nat /\ CssRules \in Nat
  BY <1>2, CssAssumption DEF CssPages
<1>7. f.path = q /\ f.block = block
  OBVIOUS
<1> HIDE DEF f
<1>6. r.page.facts \subseteq p.facts \cup {f}
  <2>1. CASE p.rulesVisited >= CssRules
    BY <2>1, <1>17
  <2>2. CASE p.rulesVisited < CssRules /\ m
    BY <2>2, <1>3 DEF VisitedPage, f
  <2>3. CASE p.rulesVisited < CssRules /\ ~m
    BY <2>3, <1>3 DEF VisitedPage
  <2> QED BY <2>1, <2>2, <2>3, <1>5
<1>18. ~(m /\ p.rulesVisited < CssRules) => r.page.facts = p.facts
  BY <1>3, <1>5 DEF VisitedPage
<1>8. PathsFit(r.page)
  BY <1>1, <1>4, <1>6, <1>7, <1>18 DEF PathsFit
<1>9. PathsAgree(r.page, b)
  BY <1>1, <1>4, <1>6, <1>7 DEF PathsAgree, Used
<1>10. PathsFound(r.page, b)
  BY <1>1, <1>18 DEF PathsFound
<1>11. Lags(r.page, b)
  <2>1. b.visitedRules \in Nat
    BY <1>2 DEF IsBuilder
  <2> QED BY <1>1, <1>17, <1>5, <2>1 DEF Lags
<1>12. \A u \in Used(r.page, b) : u \in Used(p, b) \/ u = q
  BY <1>6, <1>7 DEF Used
<1>13. r.page.rulesVisited < CssRules =>
         p.rulesVisited < CssRules /\ r.page.rulesVisited = p.rulesVisited + 1
  BY <1>17, <1>5
<1>14. /\ AllBehind(r.list, r.page, b) /\ CountFits(r.list, r.page)
       /\ Outside(r.list, r.page, b, lists) /\ Fresh(r.list, r.page, b, old)
  BY <1>1, <1>2, <1>17, <1>12, <1>13, Advance
<1>15. Typed(c, r.list, r.page, v, b) /\ ListFrame(c, r.list)
  BY <1>1, <1>17 DEF Typed, ListFrame
<1>16. SyncedFrame(c, r.list, v, b)
  BY DEF SyncedFrame
<1> QED BY <1>1, <1>8, <1>9, <1>10, <1>11, <1>14, <1>15, <1>16 DEF At, r

(* Both walks count the same rule.                                         *)
LEMMA BothVisit ==
  ASSUME NEW c, NEW l, NEW p, NEW v, NEW b, NEW lists, NEW old,
         At(c, l, p, v, b, lists, old),
         NEW block \in Positions, block # NoRule, NEW m \in BOOLEAN,
         v.entered, Synced(v, b)
  PROVE  LET r == Visited([list |-> l, page |-> p], block, m)
             s == [locals |-> v, builder |-> b]
             t == IF m THEN Tries(s, block) ELSE Counts(s)
         IN At(c, r.list, r.page, t.locals, t.builder, lists, old)
<1> DEFINE r == Visited([list |-> l, page |-> p], block, m)
           s == [locals |-> v, builder |-> b]
           t == IF m THEN Tries(s, block) ELSE Counts(s)
           q == Append(l.path, l.count)
           f == [path |-> q, block |-> block]
           x == AddPath(b.pathIndex, q, block)
           adds == m /\ v.pathTrusted /\ b.visitedRules < CssRules
<1>1. /\ Typed(c, l, p, v, b) /\ ListFrame(c, l) /\ EnteredFrame(c, v, b)
      /\ PathsFit(p) /\ PathsAgree(p, b) /\ PathsFound(p, b) /\ Lags(p, b)
      /\ AllBehind(l, p, b) /\ CountFits(l, p)
      /\ Outside(l, p, b, lists) /\ Fresh(l, p, b, old)
  BY DEF At
<1>2. l \in CssLists /\ p \in CssPages /\ IsBuilder(b) /\ v \in CssLocals
  BY <1>1 DEF Typed
<1>3. Alike(c, l, v)
  BY DEF At, SyncedFrame
<1>4. VisitedList(l, r.list) /\ VisitedPage(l, p, block, m, r.page)
  BY <1>2, VisitedParts, Zenon
<1>5. q = Append(v.parentPath, v.cssomIndex)
  BY <1>3 DEF Alike
<1>6. /\ t.locals = Counted(v) /\ IsBuilder(t.builder)
      /\ t.builder.visitedRules = b.visitedRules + 1 /\ t.builder.doubt = b.doubt
      /\ t.builder.pathIndex = IF adds THEN x ELSE b.pathIndex
  <2>1. /\ Counts(s) = [locals |-> Counted(v), builder |-> Counts(s).builder]
        /\ Tries(s, block) = [locals |-> Counted(v), builder |-> Tries(s, block).builder]
        /\ CountedBuilder(b, Counts(s).builder)
        /\ TriedBuilder(v, b, block, Tries(s, block).builder)
    BY <1>2, TriedParts
  <2> HIDE DEF s, x
  <2>2. CASE m
    <3>1. t = Tries(s, block)
      BY <2>2
    <3>2. t.builder.pathIndex = IF v.pathTrusted /\ b.visitedRules < CssRules
                                THEN x ELSE b.pathIndex
      BY <3>1, <2>1, <1>5 DEF TriedBuilder, x
    <3> QED BY <3>1, <3>2, <2>1, <2>2 DEF TriedBuilder
  <2>3. CASE ~m
    <3>1. t = Counts(s)
      BY <2>3
    <3> QED BY <3>1, <2>1, <2>3 DEF CountedBuilder
  <2> QED BY <2>2, <2>3
<1> HIDE DEF r, t
<1>26. /\ r.list \in CssLists /\ r.page \in CssPages
       /\ r.list.path = l.path /\ r.list.kept = l.kept /\ r.list.stray = l.stray
       /\ r.list.count = l.count + 1 /\ ~r.list.pending /\ r.list.seen
       /\ p.rulesVisited >= CssRules => r.page = p
       /\ p.rulesVisited < CssRules => r.page.rulesVisited = p.rulesVisited + 1
  BY <1>4 DEF VisitedList, VisitedPage
<1>7. /\ q \notin Used(p, b)
      /\ p.rulesVisited < CssRules => Within(q)
  BY <1>1, <1>2, NextPathBehind
<1>8. /\ p.rulesVisited \in Nat /\ CssRules \in Nat /\ b.visitedRules \in Nat
      /\ l.count \in Nat
  BY <1>2, CssAssumption DEF CssPages, IsBuilder, CssLists
<1>10. f.path = q /\ f.block = block
  OBVIOUS
<1> HIDE DEF f
<1>9. r.page.facts \subseteq p.facts \cup {f}
  <2>1. CASE p.rulesVisited >= CssRules
    BY <2>1, <1>26
  <2>2. CASE p.rulesVisited < CssRules /\ m
    BY <2>2, <1>4 DEF VisitedPage, f
  <2>3. CASE p.rulesVisited < CssRules /\ ~m
    BY <2>3, <1>4 DEF VisitedPage
  <2> QED BY <2>1, <2>2, <2>3, <1>8
<1>27. ~(m /\ p.rulesVisited < CssRules) => r.page.facts = p.facts
  BY <1>4, <1>8 DEF VisitedPage
<1> HIDE DEF q
<1>11. q \notin DOMAIN b.pathIndex /\ \A g \in p.facts : g.path # q
  BY <1>7 DEF Used
<1>12. /\ DOMAIN x = DOMAIN b.pathIndex \cup {q} /\ x[q] = block
       /\ \A u \in DOMAIN b.pathIndex : x[u] = b.pathIndex[u]
  BY <1>11 DEF AddPath
<1> HIDE DEF x
<1>13. /\ DOMAIN b.pathIndex \subseteq DOMAIN t.builder.pathIndex
       /\ DOMAIN t.builder.pathIndex \subseteq DOMAIN b.pathIndex \cup {q}
       /\ q \in DOMAIN t.builder.pathIndex => adds /\ t.builder.pathIndex[q] = block
       /\ adds => q \in DOMAIN t.builder.pathIndex
       /\ \A u \in DOMAIN b.pathIndex : t.builder.pathIndex[u] = b.pathIndex[u]
  <2>1. CASE adds
    BY <2>1, <1>6, <1>11, <1>12
  <2>2. CASE ~adds
    BY <2>2, <1>6, <1>11, <1>12
  <2> QED BY <2>1, <2>2
<1>14. PathsFit(r.page)
  BY <1>1, <1>7, <1>9, <1>10, <1>27 DEF PathsFit
<1>15. PathsAgree(r.page, t.builder)
  <2> SUFFICES ASSUME NEW g \in r.page.facts, g.path \in DOMAIN t.builder.pathIndex
               PROVE  t.builder.pathIndex[g.path] = g.block
    BY DEF PathsAgree
  <2>1. CASE g = f
    BY <2>1, <1>10, <1>13
  <2>2. CASE g \in p.facts
    BY <2>2, <1>1, <1>11, <1>13 DEF PathsAgree
  <2> QED BY <1>9, <2>1, <2>2
<1>16. PathsFound(r.page, t.builder)
  <2> SUFFICES ASSUME ~b.doubt, NEW g \in r.page.facts
               PROVE  g.path \in DOMAIN t.builder.pathIndex
    BY <1>6 DEF PathsFound
  <2>1. CASE g \in p.facts
    BY <2>1, <1>1, <1>13 DEF PathsFound
  <2>2. CASE g = f /\ g \notin p.facts
    <3>4. m /\ p.rulesVisited < CssRules
      BY <2>2, <1>27
    <3>1. b.visitedRules <= p.rulesVisited
      BY <3>4, <1>1 DEF Lags
    <3>2. b.visitedRules < CssRules
      BY <3>1, <3>4, <1>8
    <3>3. v.pathTrusted
      BY <3>2, <1>1, <1>8 DEF EnteredFrame
    <3> QED BY <3>2, <3>3, <3>4, <2>2, <1>10, <1>13
  <2> QED BY <1>9, <2>1, <2>2
<1>17. Lags(r.page, t.builder)
  BY <1>1, <1>26, <1>6, <1>8 DEF Lags
<1>18. \A u \in Used(r.page, t.builder) : u \in Used(p, b) \/ u = q
  BY <1>9, <1>10, <1>13 DEF Used
<1>19. r.page.rulesVisited < CssRules =>
         p.rulesVisited < CssRules /\ r.page.rulesVisited = p.rulesVisited + 1
  BY <1>26, <1>8
<1>20. /\ AllBehind(r.list, r.page, t.builder) /\ CountFits(r.list, r.page)
       /\ Outside(r.list, r.page, t.builder, lists) /\ Fresh(r.list, r.page, t.builder, old)
  BY <1>1, <1>2, <1>26, <1>18, <1>19, Advance DEF q
<1>21. /\ t.locals \in CssLocals /\ t.locals.entered = v.entered
       /\ t.locals.parentPath = v.parentPath /\ t.locals.cssomIndex = v.cssomIndex + 1
       /\ t.locals.pathTrusted = v.pathTrusted /\ t.locals.cssRuleSeen
       /\ ~t.locals.declarationsPending
  BY <1>2, <1>6, CountedParts
<1>22. Typed(c, r.list, r.page, t.locals, t.builder) /\ ListFrame(c, r.list)
  BY <1>1, <1>26, <1>6, <1>21 DEF Typed, ListFrame
<1>23. EnteredFrame(c, t.locals, t.builder)
  BY <1>1, <1>6, <1>8, <1>21 DEF EnteredFrame
<1>24. SyncedFrame(c, r.list, t.locals, t.builder)
  <2>1. t.locals.declarationsPending = r.list.pending
    <3>1. t.locals.declarationsPending \in BOOLEAN /\ r.list.pending \in BOOLEAN
      BY <1>21, <1>26 DEF CssLocals, CssLists
    <3> QED BY <3>1, <1>26, <1>21
  <2> QED BY <2>1, <1>3, <1>26, <1>21 DEF SyncedFrame, Alike
<1>25. At(c, r.list, r.page, t.locals, t.builder, lists, old)
  BY <1>14, <1>15, <1>16, <1>17, <1>20, <1>22, <1>23, <1>24 DEF At
<1> QED BY <1>25 DEF r, t

(* The IDE counts a rule although it is uncertain of the list.             *)
LEMMA IndexVisits ==
  ASSUME NEW c, NEW l, NEW p, NEW v, NEW b, NEW lists, NEW old,
         At(c, l, p, v, b, lists, old),
         NEW block \in Positions, v.entered, ~Synced(v, b),
         NEW t, LET s == [locals |-> v, builder |-> b] IN
                t = Tries(s, block) \/ t = Counts(s)
  PROVE  /\ At(c, l, p, t.locals, t.builder, lists, old)
         /\ t.locals.entered /\ ~Synced(t.locals, t.builder)
<1>1. /\ Typed(c, l, p, v, b) /\ ListFrame(c, l) /\ EnteredFrame(c, v, b)
      /\ PathsFit(p) /\ PathsAgree(p, b) /\ PathsFound(p, b) /\ Lags(p, b)
      /\ AllBehind(l, p, b) /\ CountFits(l, p)
      /\ Outside(l, p, b, lists) /\ Fresh(l, p, b, old)
  BY DEF At
<1>2. IsBuilder(b) /\ v \in CssLocals
  BY <1>1 DEF Typed
<1>3. ~v.pathTrusted /\ b.doubt
  BY DEF Synced
<1>4. /\ t.locals = Counted(v) /\ IsBuilder(t.builder) /\ t.builder.doubt = b.doubt
      /\ t.builder.pathIndex = b.pathIndex
  <2> DEFINE s == [locals |-> v, builder |-> b]
  <2>1. /\ Counts(s) = [locals |-> Counted(v), builder |-> Counts(s).builder]
        /\ Tries(s, block) = [locals |-> Counted(v), builder |-> Tries(s, block).builder]
        /\ CountedBuilder(b, Counts(s).builder)
        /\ TriedBuilder(v, b, block, Tries(s, block).builder)
    BY <1>2, TriedParts
  <2>2. t = Tries(s, block) \/ t = Counts(s)
    OBVIOUS
  <2> HIDE DEF s
  <2>3. CASE t = Tries(s, block)
    <3>1. t.locals = Counted(v)
      BY <2>1, <2>3
    <3>2. TriedBuilder(v, b, block, t.builder)
      BY <2>1, <2>3
    <3> QED BY <3>1, <3>2, <1>3 DEF TriedBuilder
  <2>4. CASE t = Counts(s)
    BY <2>1, <2>4 DEF CountedBuilder
  <2> QED BY <2>2, <2>3, <2>4
<1>5. /\ t.locals \in CssLocals /\ t.locals.entered = v.entered
      /\ t.locals.pathTrusted = v.pathTrusted
  BY <1>2, <1>4, CountedParts
<1>6. Typed(c, l, p, t.locals, t.builder)
  BY <1>1, <1>4, <1>5 DEF Typed
<1>7. EnteredFrame(c, t.locals, t.builder)
  BY <1>1, <1>3, <1>4, <1>5 DEF EnteredFrame
<1>8. SyncedFrame(c, l, t.locals, t.builder) /\ ~Synced(t.locals, t.builder)
  BY <1>3, <1>4, <1>5 DEF SyncedFrame, Synced
<1>9. PathsAgree(p, t.builder) /\ PathsFound(p, t.builder) /\ Lags(p, t.builder)
  BY <1>1, <1>3, <1>4 DEF PathsAgree, PathsFound, Lags
<1>10. Used(p, t.builder) = Used(p, b)
  BY <1>4 DEF Used
<1>11. /\ AllBehind(l, p, t.builder) /\ Outside(l, p, t.builder, lists)
       /\ Fresh(l, p, t.builder, old)
  BY <1>1, <1>10 DEF AllBehind, Outside, Fresh
<1> QED BY <1>1, <1>5, <1>6, <1>7, <1>8, <1>9, <1>11 DEF At

(* The IDE no longer trusts its paths.                                     *)
LEMMA MarkedUncertain ==
  ASSUME NEW c, NEW l, NEW p, NEW v, NEW b, NEW lists, NEW old,
         At(c, l, p, v, b, lists, old)
  PROVE  LET t == MarkUncertain(c, [locals |-> v, builder |-> b]) IN
         /\ At(c, l, p, t.locals, t.builder, lists, old)
         /\ ~Synced(t.locals, t.builder) /\ t.builder.doubt
         /\ t.builder.visitedRules = b.visitedRules
         /\ c.kind = "sheet" => t.locals.rootPhase = "body"
<1> DEFINE t == MarkUncertain(c, [locals |-> v, builder |-> b])
           phase == IF c.kind = "sheet" THEN "body" ELSE v.rootPhase
           w == [v EXCEPT !.pathTrusted = FALSE, !.declarationsPending = FALSE,
                          !.cssRuleSeen = TRUE, !.rootPhase = phase]
           d == [b EXCEPT !.doubt = TRUE]
<1>1. /\ Typed(c, l, p, v, b) /\ ListFrame(c, l) /\ EnteredFrame(c, v, b)
      /\ PathsFit(p) /\ PathsAgree(p, b) /\ PathsFound(p, b) /\ Lags(p, b)
      /\ AllBehind(l, p, b) /\ CountFits(l, p)
      /\ Outside(l, p, b, lists) /\ Fresh(l, p, b, old)
  BY DEF At
<1>2. IsBuilder(b) /\ v \in CssLocals
  BY <1>1 DEF Typed
<1>3. t = [locals |-> w, builder |-> d]
  BY DEF MarkUncertain
<1>4. t.locals = w /\ t.builder = d
  <2> HIDE DEF w, d, t
  <2> QED BY <1>3
<1>5. phase \in {"initial", "imports", "body"}
  BY <1>2 DEF CssLocals
<1>6. c.kind = "sheet" => phase = "body"
  OBVIOUS
<1> HIDE DEF phase, t
<1>7. w \in CssLocals
  BY <1>2, <1>5, Zenon DEF CssLocals
<1>8. /\ w.entered = v.entered /\ ~w.pathTrusted /\ w.rootPhase = phase
  <2>1. w.entered = v.entered
    BY <1>2 DEF CssLocals
  <2>2. w.rootPhase = phase
    BY <1>2 DEF CssLocals
  <2>3. ~w.pathTrusted
    BY <1>2 DEF CssLocals
  <2> QED BY <2>1, <2>2, <2>3
<1>9. d \in [visitedRules: Nat, pathIndex: {b.pathIndex}, doubt: BOOLEAN]
  <2>1. b \in [visitedRules: Nat, pathIndex: {b.pathIndex}, doubt: BOOLEAN]
    BY <1>2 DEF IsBuilder
  <2> QED BY <2>1, Zenon
<1>24. d.doubt /\ d.visitedRules = b.visitedRules /\ d.pathIndex = b.pathIndex
  <2>1. b \in [visitedRules: Nat, pathIndex: {b.pathIndex}, doubt: BOOLEAN]
    BY <1>2 DEF IsBuilder
  <2> QED BY <2>1
<1>10. /\ d.doubt /\ d.visitedRules = b.visitedRules /\ d.pathIndex = b.pathIndex
       /\ IsBuilder(d)
  BY <1>2, <1>9, <1>24 DEF IsBuilder
<1> HIDE DEF w, d
<1>11. Typed(c, l, p, w, d)
  BY <1>1, <1>7, <1>10 DEF Typed
<1>12. EnteredFrame(c, w, d)
  BY <1>1, <1>8, <1>10 DEF EnteredFrame
<1>13. SyncedFrame(c, l, w, d) /\ ~Synced(w, d)
  BY <1>8, <1>10 DEF SyncedFrame, Synced
<1>14. PathsAgree(p, d) /\ PathsFound(p, d) /\ Lags(p, d)
  BY <1>1, <1>10 DEF PathsAgree, PathsFound, Lags
<1>15. Used(p, d) = Used(p, b)
  BY <1>10 DEF Used
<1>16. AllBehind(l, p, d) /\ Outside(l, p, d, lists) /\ Fresh(l, p, d, old)
  BY <1>1, <1>15 DEF AllBehind, Outside, Fresh
<1>17. At(c, l, p, w, d, lists, old)
  BY <1>1, <1>11, <1>12, <1>13, <1>14, <1>16 DEF At
<1> QED BY <1>4, <1>6, <1>8, <1>10, <1>13, <1>17 DEF t

(* What a builder never takes back.                                        *)
Grown(b, d) == (b.doubt => d.doubt) /\ b.visitedRules <= d.visitedRules

(* Nothing of a container but its number of rules bears on the paths.      *)
LEMMA Retouched ==
  ASSUME NEW c, NEW l, NEW p, NEW v, NEW b, NEW lists, NEW old,
         At(c, l, p, v, b, lists, old),
         NEW c2 \in CssContainers, c2.kind = c.kind, c2.owner = c.owner,
         c2.foreign = c.foreign,
         NEW l2 \in CssLists, l2.path = l.path, l2.count = l.count,
         NEW v2 \in CssLocals, v2.entered = v.entered, v2.pathTrusted = v.pathTrusted,
         ListFrame(c2, l2), SyncedFrame(c2, l2, v2, b)
  PROVE  At(c2, l2, p, v2, b, lists, old)
<1>1. /\ Typed(c, l, p, v, b) /\ EnteredFrame(c, v, b)
      /\ PathsFit(p) /\ PathsAgree(p, b) /\ PathsFound(p, b) /\ Lags(p, b)
      /\ AllBehind(l, p, b) /\ CountFits(l, p)
      /\ Outside(l, p, b, lists) /\ Fresh(l, p, b, old)
  BY DEF At
<1>2. Typed(c2, l2, p, v2, b)
  BY <1>1 DEF Typed
<1>3. EnteredFrame(c2, v2, b)
  BY <1>1 DEF EnteredFrame
<1>4. \A u : Behind(u, l) = Behind(u, l2)
  BY DEF Behind
<1>5. AllBehind(l2, p, b) /\ CountFits(l2, p)
  BY <1>1, <1>4 DEF AllBehind, CountFits
<1>6. Outside(l2, p, b, lists) /\ Fresh(l2, p, b, old)
  BY <1>1 DEF Outside, Fresh
<1> QED BY <1>1, <1>2, <1>3, <1>5, <1>6 DEF At

(* What the fields of a frame are.                                         *)
LEMMA FrameTypes ==
  ASSUME NEW c, NEW l, NEW p, NEW v, NEW b, NEW lists, NEW old,
         At(c, l, p, v, b, lists, old)
  PROVE  /\ c \in CssContainers /\ l \in CssLists /\ p \in CssPages /\ v \in CssLocals
         /\ IsBuilder(b) /\ ListFrame(c, l) /\ EnteredFrame(c, v, b)
         /\ SyncedFrame(c, l, v, b)
         /\ c.at \in Positions /\ c.owner \in Positions /\ c.foreign \in BOOLEAN
         /\ l.path \in Positions /\ l.count \in Nat /\ l.kept \in BOOLEAN
         /\ l.pending \in BOOLEAN /\ l.stray \in BOOLEAN
         /\ v.entered \in BOOLEAN /\ v.pathTrusted \in BOOLEAN /\ v.parentPath \in Positions
         /\ v.cssomIndex \in Nat /\ v.declarationsPending \in BOOLEAN
         /\ b.visitedRules \in Nat /\ b.doubt \in BOOLEAN /\ p.rulesVisited \in Nat
<1>1. Typed(c, l, p, v, b) /\ ListFrame(c, l) /\ EnteredFrame(c, v, b)
      /\ SyncedFrame(c, l, v, b)
  BY DEF At
<1>2. /\ c \in CssContainers /\ l \in CssLists /\ p \in CssPages /\ v \in CssLocals
      /\ IsBuilder(b)
  BY <1>1 DEF Typed
<1> QED BY <1>1, <1>2 DEF CssContainers, CssLists, CssPages, CssLocals, IsBuilder

(* Rules that wait are counted by the browser alone.                       *)
LEMMA BrowserRuns ==
  ASSUME NEW c, NEW l, NEW p, NEW v, NEW b, NEW lists, NEW old,
         At(c, l, p, v, b, lists, old), ~(v.entered /\ Synced(v, b))
  PROVE  LET r == Runs(c, [list |-> l, page |-> p]) IN
         /\ At(c, r.list, r.page, v, b, lists, old)
         /\ r = [list |-> r.list, page |-> r.page]
<1> DEFINE s == [list |-> l, page |-> p]
           r == Runs(c, s)
           m == ~c.foreign
<1>1. /\ c.owner \in Positions /\ c.foreign \in BOOLEAN /\ l \in CssLists /\ p \in CssPages
      /\ v.entered \in BOOLEAN /\ ListFrame(c, l) /\ EnteredFrame(c, v, b)
      /\ b.doubt \in BOOLEAN
  BY FrameTypes
<1>2. CASE l.pending
  <2>1. c.owner # NoRule /\ c.kind \notin Plain
    BY <1>1, <1>2 DEF ListFrame
  <2>2. m => b.doubt
    <3>1. c.kind # "leaf"
      BY <2>1 DEF Plain
    <3> QED BY <3>1, <1>1 DEF EnteredFrame, Synced
  <2>3. r = Visited(s, c.owner, m)
    BY <1>2 DEF Runs
  <2>5. m \in BOOLEAN
    OBVIOUS
  <2> HIDE DEF m
  <2>4. /\ At(c, Visited(s, c.owner, m).list, Visited(s, c.owner, m).page, v, b, lists, old)
        /\ Visited(s, c.owner, m) =
             [list |-> Visited(s, c.owner, m).list, page |-> Visited(s, c.owner, m).page]
    BY <1>1, <2>1, <2>2, <2>5, BrowserVisits, VisitedParts, Zenon
  <2> QED BY <2>3, <2>4
<1>3. CASE ~l.pending
  <2>1. r = s
    BY <1>3 DEF Runs
  <2> QED BY <2>1
<1> QED BY <1>2, <1>3

(* A construct is collected, or not, by the browser alone.                 *)
LEMMA BrowserCollects ==
  ASSUME NEW c, NEW l, NEW p, NEW v, NEW b, NEW lists, NEW old,
         At(c, l, p, v, b, lists, old), ~(v.entered /\ Synced(v, b)),
         NEW k \in Nat
  PROVE  LET r == CollectRule(c, k, [list |-> l, page |-> p]) IN
         At(c, r.list, r.page, v, b, lists, old)
<1> DEFINE s == [list |-> l, page |-> p]
           q == Runs(c, s)
           r == CollectRule(c, k, s)
           m == Matches(c, k)
<1>1. /\ c \in CssContainers /\ c.at \in Positions /\ c.foreign \in BOOLEAN
      /\ l \in CssLists /\ p \in CssPages /\ l.stray \in BOOLEAN
      /\ v.entered \in BOOLEAN /\ ListFrame(c, l) /\ EnteredFrame(c, v, b)
      /\ b.doubt \in BOOLEAN /\ v \in CssLocals
  BY FrameTypes
<1>2. CASE Kept(c, k, l)
  <2>1. r = Visited(q, Block(c, k), m)
    BY <1>2 DEF CollectRule
  <2>2. At(c, q.list, q.page, v, b, lists, old) /\ q = [list |-> q.list, page |-> q.page]
    BY BrowserRuns
  <2>3. m => b.doubt
    <3>1. m => ~c.foreign /\ c.kind # "leaf"
      BY DEF Matches, Plain
    <3> QED BY <3>1, <1>1 DEF EnteredFrame, Synced
  <2>4. m \in BOOLEAN
    BY DEF Matches
  <2>5. Block(c, k) \in Positions /\ Block(c, k) # NoRule
    BY <1>1, NextPath DEF Block
  <2> HIDE DEF m, q, r
  <2>6. At(c, Visited([list |-> q.list, page |-> q.page], Block(c, k), m).list,
           Visited([list |-> q.list, page |-> q.page], Block(c, k), m).page, v, b, lists, old)
    BY <2>2, <2>3, <2>4, <2>5, BrowserVisits, Zenon
  <2>7. r.list = Visited([list |-> q.list, page |-> q.page], Block(c, k), m).list
        /\ r.page = Visited([list |-> q.list, page |-> q.page], Block(c, k), m).page
    BY <2>1, <2>2, Zenon
  <2>8. At(c, r.list, r.page, v, b, lists, old)
    BY <2>6, <2>7, Zenon
  <2> QED BY <2>8 DEF r
<1>3. CASE ~Kept(c, k, l)
  <2> DEFINE stray == l.stray /\ c.nodes[k].kind \notin HasBlock
             m2 == [l EXCEPT !.stray = stray]
  <2>1. r = [list |-> m2, page |-> p]
    BY <1>3 DEF CollectRule
  <2>2. stray \in BOOLEAN /\ (stray => l.stray)
    BY <1>1
  <2> HIDE DEF stray
  <2>3. m2 \in CssLists
    BY <1>1, <2>2, Zenon DEF CssLists
  <2>4. /\ m2.path = l.path /\ m2.count = l.count /\ m2.kept = l.kept
        /\ m2.pending = l.pending /\ m2.stray = stray
    BY <1>1 DEF CssLists
  <2>5. ListFrame(c, m2)
    BY <1>1, <2>2, <2>4 DEF ListFrame
  <2>6. SyncedFrame(c, m2, v, b)
    BY DEF SyncedFrame
  <2> HIDE DEF m2
  <2>7. At(c, m2, p, v, b, lists, old)
    BY <1>1, <2>3, <2>4, <2>5, <2>6, Retouched, Zenon
  <2> HIDE DEF r
  <2>8. r.list = m2 /\ r.page = p
    BY <2>1
  <2>9. At(c, r.list, r.page, v, b, lists, old)
    BY <2>7, <2>8
  <2> QED BY <2>9 DEF r
<1> QED BY <1>2, <1>3

(* The frames of both walks once the rules that wait are counted.          *)
LEMMA IndexFlushes ==
  ASSUME NEW c, NEW l, NEW p, NEW v, NEW b, NEW lists, NEW old,
         At(c, l, p, v, b, lists, old), v.entered, ~Synced(v, b)
  PROVE  LET t == FlushDeclarations(c, [locals |-> v, builder |-> b]) IN
         /\ At(c, l, p, t.locals, t.builder, lists, old)
         /\ t = [locals |-> t.locals, builder |-> t.builder]
         /\ t.locals.entered /\ ~Synced(t.locals, t.builder)
<1> DEFINE s == [locals |-> v, builder |-> b]
           t == FlushDeclarations(c, s)
<1>1. c.owner \in Positions /\ v \in CssLocals /\ IsBuilder(b)
  BY FrameTypes
<1>2. CASE v.declarationsPending /\ c.owner # NoRule
  <2>1. t = Tries(s, c.owner)
    BY <1>2 DEF FlushDeclarations
  <2>2. t = [locals |-> t.locals, builder |-> t.builder]
    <3>1. Tries(s, c.owner) = [locals |-> Counted(v), builder |-> Tries(s, c.owner).builder]
      BY <1>1, TriedParts
    <3> HIDE DEF t
    <3>2. t = [locals |-> Counted(v), builder |-> t.builder]
      BY <3>1, <2>1
    <3> QED BY <3>2
  <2> HIDE DEF t
  <2>3. At(c, l, p, t.locals, t.builder, lists, old)
        /\ t.locals.entered /\ ~Synced(t.locals, t.builder)
    BY <1>1, <2>1, IndexVisits
  <2>4. At(c, l, p, t.locals, t.builder, lists, old)
        /\ t = [locals |-> t.locals, builder |-> t.builder]
        /\ t.locals.entered /\ ~Synced(t.locals, t.builder)
    BY <2>2, <2>3
  <2> QED BY <2>4 DEF t
<1>3. CASE ~(v.declarationsPending /\ c.owner # NoRule)
  <2>1. t = s
    BY <1>3 DEF FlushDeclarations
  <2>2. s.locals = v /\ s.builder = b
    OBVIOUS
  <2> QED BY <2>1, <2>2
<1> QED BY <1>2, <1>3

(* Both walks count the declarations that wait as the same rule.           *)
LEMMA BothFlush ==
  ASSUME NEW c, NEW l, NEW p, NEW v, NEW b, NEW lists, NEW old,
         At(c, l, p, v, b, lists, old), v.entered, Synced(v, b)
  PROVE  LET r == Runs(c, [list |-> l, page |-> p])
             t == FlushDeclarations(c, [locals |-> v, builder |-> b]) IN
         /\ At(c, r.list, r.page, t.locals, t.builder, lists, old)
         /\ r = [list |-> r.list, page |-> r.page]
         /\ t = [locals |-> t.locals, builder |-> t.builder]
         /\ r.list.path = l.path /\ r.list.count \in {l.count, l.count + 1}
         /\ t.locals.cssomIndex = r.list.count /\ t.locals.rootPhase = v.rootPhase
         /\ t.locals.entered /\ t.locals.pathTrusted = v.pathTrusted
         /\ t.builder.doubt = b.doubt
<1> DEFINE s == [locals |-> v, builder |-> b]
           t == FlushDeclarations(c, s)
           x == [list |-> l, page |-> p]
           r == Runs(c, x)
<1>1. /\ c.owner \in Positions /\ v \in CssLocals /\ IsBuilder(b) /\ l \in CssLists
      /\ p \in CssPages /\ ~c.foreign /\ Alike(c, l, v) /\ ListFrame(c, l)
  BY FrameTypes DEF EnteredFrame, SyncedFrame
<1>2. CASE l.pending
  <2>1. c.owner # NoRule /\ v.declarationsPending
    BY <1>1, <1>2 DEF ListFrame, Alike
  <2>2. t = Tries(s, c.owner)
    BY <2>1 DEF FlushDeclarations
  <2>3. r = Visited(x, c.owner, TRUE)
    BY <1>1, <1>2 DEF Runs
  <2>4. /\ Tries(s, c.owner) = [locals |-> Counted(v), builder |-> Tries(s, c.owner).builder]
        /\ TriedBuilder(v, b, c.owner, Tries(s, c.owner).builder)
    BY <1>1, TriedParts
  <2>5. Visited(x, c.owner, TRUE) = [list |-> Visited(x, c.owner, TRUE).list,
                                     page |-> Visited(x, c.owner, TRUE).page]
        /\ VisitedList(l, Visited(x, c.owner, TRUE).list)
    BY <1>1, VisitedParts, Zenon
  <2>6. At(c, Visited(x, c.owner, TRUE).list, Visited(x, c.owner, TRUE).page,
           Tries(s, c.owner).locals, Tries(s, c.owner).builder, lists, old)
    <3> DEFINE m == TRUE
    <3>1. m \in BOOLEAN /\ m
      OBVIOUS
    <3>2. Tries(s, c.owner) = IF m THEN Tries(s, c.owner) ELSE Counts(s)
      OBVIOUS
    <3> HIDE DEF m
    <3>3. LET g == Visited(x, c.owner, m)
              h == IF m THEN Tries(s, c.owner) ELSE Counts(s)
          IN At(c, g.list, g.page, h.locals, h.builder, lists, old)
      BY <1>1, <2>1, <3>1, BothVisit, Zenon
    <3>4. At(c, Visited(x, c.owner, m).list, Visited(x, c.owner, m).page,
           Tries(s, c.owner).locals, Tries(s, c.owner).builder, lists, old)
      BY <3>1, <3>3
    <3> QED BY <3>4 DEF m
  <2> HIDE DEF t, r
  <2>7. At(c, r.list, r.page, t.locals, t.builder, lists, old)
    BY <2>2, <2>3, <2>6
  <2>8. t.locals = Counted(v) /\ t = [locals |-> t.locals, builder |-> t.builder]
        /\ t.builder.doubt = b.doubt
    <3>1. t = [locals |-> Counted(v), builder |-> t.builder]
      BY <2>2, <2>4
    <3>2. TriedBuilder(v, b, c.owner, t.builder)
      BY <2>2, <2>4
    <3> QED BY <3>1, <3>2 DEF TriedBuilder
  <2>9. VisitedList(l, r.list) /\ r = [list |-> r.list, page |-> r.page]
    BY <2>3, <2>5
  <2>10. /\ t.locals.entered = v.entered /\ t.locals.cssomIndex = v.cssomIndex + 1
         /\ t.locals.pathTrusted = v.pathTrusted /\ t.locals.rootPhase = v.rootPhase
    BY <1>1, <2>8, CountedParts
  <2>11. r.list.path = l.path /\ r.list.count = l.count + 1
    BY <2>9 DEF VisitedList
  <2>12. v.cssomIndex = l.count
    BY <1>1 DEF Alike
  <2>13. /\ At(c, r.list, r.page, t.locals, t.builder, lists, old)
         /\ r = [list |-> r.list, page |-> r.page]
         /\ t = [locals |-> t.locals, builder |-> t.builder]
         /\ r.list.path = l.path /\ r.list.count \in {l.count, l.count + 1}
         /\ t.locals.cssomIndex = r.list.count /\ t.locals.rootPhase = v.rootPhase
         /\ t.locals.entered /\ t.locals.pathTrusted = v.pathTrusted
         /\ t.builder.doubt = b.doubt
    BY <2>7, <2>8, <2>9, <2>10, <2>11, <2>12
  <2> QED BY <2>13 DEF r, t
<1>3. CASE ~l.pending
  <2>1. t = s
    BY <1>1, <1>3 DEF FlushDeclarations, Alike
  <2>2. r = x
    BY <1>3 DEF Runs
  <2>3. v.cssomIndex = l.count
    BY <1>1 DEF Alike
  <2> QED BY <2>1, <2>2, <2>3
<1> QED BY <1>2, <1>3

(* What a container is from its beginning.                                 *)
Static(c) ==
  /\ c.done <= Len(c.nodes)
  /\ c.kind = "sheet" => c.nodes \in Sheets
  /\ c.kind = "import" => c.foreign
  /\ c.kind = "keyframes" =>
       \A j \in DOMAIN c.nodes : c.nodes[j].kind \in {"blank", "style"}

(* While an @import may count, nothing else has been met.                  *)
LeadingTo(c, n, v, b) ==
  v.entered /\ Synced(v, b) /\ c.kind = "sheet" /\ v.rootPhase # "body" =>
    \A j \in 1 .. n : c.nodes[j].kind \in Leading

(* Nodes are typed.                                                        *)
LEMMA NodeTypes ==
  ASSUME NEW list \in NodeLists, NEW k \in 1 .. Len(list)
  PROVE  /\ k \in DOMAIN list /\ list[k].kind \in Certain \cup Uncertain
         /\ list[k].nodes \in NodeLists
<1>1. list \in Seq([kind: Certain \cup Uncertain, nodes: NodeLists])
  BY CssAssumption
<1>2. k \in DOMAIN list
  BY <1>1
<1>3. list[k] \in [kind: Certain \cup Uncertain, nodes: NodeLists]
  <2> DEFINE nodes == [kind: Certain \cup Uncertain, nodes: NodeLists]
  <2>1. list \in Seq(nodes)
    BY <1>1
  <2> HIDE DEF nodes
  <2>2. list[k] \in nodes
    BY <2>1
  <2> QED BY <2>2 DEF nodes
<1> QED BY <1>2, <1>3

(* The root phase bears on no path.                                        *)
LEMMA Rephased ==
  ASSUME NEW c, NEW l, NEW p, NEW v, NEW b, NEW lists, NEW old,
         At(c, l, p, v, b, lists, old), NEW phase \in {"initial", "imports", "body"}
  PROVE  LET t == InRootPhase(c, [locals |-> v, builder |-> b], phase) IN
         /\ At(c, l, p, t.locals, t.builder, lists, old)
         /\ t.builder = b /\ (t.locals.entered <=> v.entered)
         /\ (Synced(t.locals, t.builder) <=> Synced(v, b))
         /\ c.kind = "sheet" => t.locals.rootPhase = phase
<1> DEFINE s == [locals |-> v, builder |-> b]
           t == InRootPhase(c, s, phase)
           w == [v EXCEPT !.rootPhase = phase]
<1>1. /\ v \in CssLocals /\ c \in CssContainers /\ l \in CssLists /\ ListFrame(c, l)
      /\ SyncedFrame(c, l, v, b)
  BY FrameTypes
<1>2. CASE c.kind = "sheet"
  <2>1. w \in CssLocals
    BY <1>1, Zenon DEF CssLocals
  <2>2. /\ w.entered = v.entered /\ w.pathTrusted = v.pathTrusted /\ w.rootPhase = phase
        /\ w.parentPath = v.parentPath /\ w.cssomIndex = v.cssomIndex
        /\ w.declarationsPending = v.declarationsPending /\ w.cssRuleSeen = v.cssRuleSeen
    BY <1>1 DEF CssLocals
  <2>3. t = [s EXCEPT !.locals.rootPhase = phase]
    BY <1>2 DEF InRootPhase
  <2>4. t = [locals |-> w, builder |-> b]
    BY <2>3, Zenon
  <2> HIDE DEF w, t
  <2>5. t.locals = w /\ t.builder = b
    BY <2>4
  <2>6. SyncedFrame(c, l, w, b)
    BY <1>1, <2>2 DEF SyncedFrame, Synced, Alike
  <2>7. At(c, l, p, w, b, lists, old)
    BY <1>1, <2>1, <2>2, <2>6, Retouched, Zenon
  <2>8. /\ At(c, l, p, t.locals, t.builder, lists, old)
        /\ t.builder = b /\ (t.locals.entered <=> v.entered)
        /\ (Synced(t.locals, t.builder) <=> Synced(v, b))
        /\ c.kind = "sheet" => t.locals.rootPhase = phase
    BY <2>2, <2>5, <2>7 DEF Synced
  <2> QED BY <2>8 DEF t
<1>3. CASE c.kind # "sheet"
  <2>1. t = s
    BY <1>3 DEF InRootPhase
  <2> QED BY <2>1, <1>3
<1> QED BY <1>2, <1>3

(* The IDE indexes a construct although it is uncertain of the list.       *)
LEMMA IndexNodeAlone ==
  ASSUME NEW c, NEW l, NEW p, NEW v, NEW b, NEW lists, NEW old,
         At(c, l, p, v, b, lists, old), v.entered, ~Synced(v, b),
         NEW k \in 1 .. Len(c.nodes), ~IsUncertain(c, k, v)
  PROVE  LET t == IndexNode(c, k, [locals |-> v, builder |-> b]) IN
         /\ At(c, l, p, t.locals, t.builder, lists, old)
         /\ t.locals.entered /\ ~Synced(t.locals, t.builder)
<1> DEFINE s == [locals |-> v, builder |-> b]
           f == FlushDeclarations(c, s)
           kind == c.nodes[k].kind
           phase == IF kind = "style" THEN "body" ELSE NextRootPhase(v.rootPhase, kind)
           t == IndexNode(c, k, s)
<1>1. c \in CssContainers /\ c.at \in Positions /\ v \in CssLocals
  BY FrameTypes
<1>2. /\ At(c, l, p, f.locals, f.builder, lists, old)
      /\ f = [locals |-> f.locals, builder |-> f.builder]
      /\ f.locals.entered /\ ~Synced(f.locals, f.builder)
  BY IndexFlushes
<1> DEFINE x == IF c.kind # "keyframes" /\ kind = "style"
                THEN Tries(f, Block(c, k)) ELSE Counts(f)
<1>3. Block(c, k) \in Positions
  BY <1>1, NextPath DEF Block
<1>4. phase \in {"initial", "imports", "body"}
  BY <1>1 DEF NextRootPhase, CssLocals
<1>5. t = x \/ t = InRootPhase(c, x, phase)
  BY DEF IndexNode
<1> HIDE DEF f, phase, t
<1>6. x = Tries(f, Block(c, k)) \/ x = Counts(f)
  OBVIOUS
<1>7. x = [locals |-> x.locals, builder |-> x.builder]
  <2>1. f.locals \in CssLocals /\ IsBuilder(f.builder)
    BY <1>2, FrameTypes
  <2>2. /\ Counts(f) = [locals |-> Counted(f.locals), builder |-> Counts(f).builder]
        /\ Tries(f, Block(c, k)) =
             [locals |-> Counted(f.locals), builder |-> Tries(f, Block(c, k)).builder]
    BY <1>2, <1>3, <2>1, TriedParts
  <2> HIDE DEF x
  <2>3. x = [locals |-> Counted(f.locals), builder |-> x.builder]
    BY <1>6, <2>2
  <2> QED BY <2>3
<1> HIDE DEF x
<1>8. /\ At(c, l, p, x.locals, x.builder, lists, old)
      /\ x.locals.entered /\ ~Synced(x.locals, x.builder)
  BY <1>2, <1>3, <1>6, IndexVisits
<1>9. CASE t = InRootPhase(c, x, phase)
  <2> DEFINE y == InRootPhase(c, [locals |-> x.locals, builder |-> x.builder], phase)
  <2>1. t = y
    BY <1>7, <1>9
  <2>2. /\ At(c, l, p, y.locals, y.builder, lists, old)
        /\ y.builder = x.builder /\ (y.locals.entered <=> x.locals.entered)
        /\ (Synced(y.locals, y.builder) <=> Synced(x.locals, x.builder))
    BY <1>4, <1>8, Rephased
  <2> HIDE DEF y
  <2>3. At(c, l, p, t.locals, t.builder, lists, old)
        /\ t.locals.entered /\ ~Synced(t.locals, t.builder)
    BY <1>8, <2>1, <2>2
  <2> QED BY <2>3 DEF t
<1>10. CASE t = x
  BY <1>8, <1>10 DEF t
<1> QED BY <1>5, <1>9, <1>10

(* The browser keeps whatever the IDE is certain of.                       *)
LEMMA CertainIsKept ==
  ASSUME NEW c, NEW l, NEW p, NEW v, NEW b, NEW lists, NEW old,
         At(c, l, p, v, b, lists, old), v.entered, Static(c),
         NEW k \in 1 .. Len(c.nodes), c.nodes[k].kind \notin {"blank", "declaration"},
         ~IsUncertain(c, k, v),
         c.nodes[k].kind = "import" =>
           Synced(v, b) /\ k = c.done + 1 /\ LeadingTo(c, c.done, v, b)
  PROVE  Kept(c, k, l)
<1> DEFINE kind == c.nodes[k].kind
<1>1. /\ c \in CssContainers /\ l.kept /\ ~l.stray
      /\ c.kind \in {"sheet", "style", "group", "keyframes"}
  BY FrameTypes DEF EnteredFrame, ListFrame
<1>2. k \in DOMAIN c.nodes /\ kind \in Certain \cup Uncertain
  BY <1>1, NodeTypes DEF CssContainers
<1>3. kind \in {"style", "group", "layers", "import", "keyframes", "leaf"}
  BY <1>2 DEF IsUncertain, Certain
<1>4. CASE c.kind = "keyframes"
  <2>1. kind = "style"
    BY <1>2, <1>4 DEF Static
  <2> QED BY <1>1, <1>4, <2>1 DEF Kept, Plain
<1>5. CASE c.kind # "keyframes" /\ kind = "import"
  <2>1. c.kind = "sheet" /\ v.rootPhase # "body"
    BY <1>5 DEF IsUncertain
  <2>2. \A j \in 1 .. c.done : c.nodes[j].kind \in Leading
    BY <1>5, <2>1 DEF LeadingTo
  <2>4. c.done \in Nat /\ k = c.done + 1
    BY <1>1, <1>5 DEF CssContainers
  <2>3. \A j \in 1 .. k : c.nodes[j].kind \in Leading
    <3> SUFFICES ASSUME NEW j \in 1 .. k PROVE c.nodes[j].kind \in Leading
      OBVIOUS
    <3>1. CASE j = k
      BY <3>1, <1>5 DEF Leading
    <3>2. CASE j # k
      BY <3>2, <2>2, <2>4
    <3> QED BY <3>1, <3>2
  <2> QED BY <1>1, <1>5, <2>1, <2>3 DEF Kept, Plain
<1>6. CASE c.kind # "keyframes" /\ kind \in {"keyframes", "leaf"}
  <2>1. c.owner = NoRule
    BY <1>6 DEF IsUncertain, Plain
  <2> QED BY <1>1, <1>6, <2>1 DEF Kept, Plain
<1>7. CASE c.kind # "keyframes" /\ kind \in {"style", "group", "layers"}
  BY <1>1, <1>7 DEF Kept, Plain
<1> QED BY <1>3, <1>4, <1>5, <1>6, <1>7

(* A construct that is kept is counted after what waits.                   *)
LEMMA KeptIsVisited ==
  ASSUME NEW c, NEW k, NEW s, Kept(c, k, s.list)
  PROVE  CollectRule(c, k, s) = Visited(Runs(c, s), Block(c, k), Matches(c, k))
BY DEF CollectRule

(* Both walks take a construct that the IDE is certain of for the same.    *)
LEMMA BothPass ==
  ASSUME NEW c, NEW l, NEW p, NEW v, NEW b, NEW lists, NEW old,
         At(c, l, p, v, b, lists, old), v.entered, Synced(v, b), Static(c),
         NEW k \in 1 .. Len(c.nodes), k = c.done + 1,
         c.nodes[k].kind \notin {"blank", "declaration"},
         LeadingTo(c, c.done, v, b), ~IsUncertain(c, k, v)
  PROVE  LET r == CollectRule(c, k, [list |-> l, page |-> p])
             t == IndexNode(c, k, [locals |-> v, builder |-> b]) IN
         /\ At(c, r.list, r.page, t.locals, t.builder, lists, old)
         /\ LeadingTo(c, k, t.locals, t.builder)
<1> DEFINE s == [locals |-> v, builder |-> b]
           f == FlushDeclarations(c, s)
           q == Runs(c, [list |-> l, page |-> p])
           r == CollectRule(c, k, [list |-> l, page |-> p])
           t == IndexNode(c, k, s)
           kind == c.nodes[k].kind
           m == Matches(c, k)
           phase == IF kind = "style" THEN "body" ELSE NextRootPhase(v.rootPhase, kind)
           x == IF m THEN Tries(f, Block(c, k)) ELSE Counts(f)
           g == Visited(q, Block(c, k), m)
<1>1. /\ c \in CssContainers /\ c.at \in Positions /\ v \in CssLocals
      /\ ~c.foreign /\ c.kind \in {"sheet", "style", "group", "keyframes"}
  BY FrameTypes DEF EnteredFrame
<1>2. /\ At(c, q.list, q.page, f.locals, f.builder, lists, old)
      /\ q = [list |-> q.list, page |-> q.page]
      /\ f = [locals |-> f.locals, builder |-> f.builder]
      /\ f.locals.entered /\ f.locals.pathTrusted = v.pathTrusted
      /\ f.builder.doubt = b.doubt
  BY BothFlush
<1>3. Synced(f.locals, f.builder)
  BY <1>2 DEF Synced
<1>4. Kept(c, k, l)
  BY CertainIsKept
<1>5. r = g
  BY <1>4, KeptIsVisited
<1>6. Block(c, k) \in Positions /\ Block(c, k) # NoRule
  <2>1. k \in Nat
    BY <1>1 DEF CssContainers
  <2> QED BY <1>1, <2>1, NextPath DEF Block
<1>7. phase \in {"initial", "imports", "body"}
  BY <1>1 DEF NextRootPhase, CssLocals
<1>8. m \in BOOLEAN
  BY DEF Matches
<1>9. m <=> c.kind # "keyframes" /\ kind = "style"
  BY <1>1 DEF Matches, Plain, Styles, IsUncertain, Uncertain
<1>10. t = IF c.kind = "keyframes" /\ kind = "style" THEN x ELSE InRootPhase(c, x, phase)
  <2>1. CASE c.kind = "keyframes" /\ kind = "style"
    BY <2>1, <1>9 DEF IndexNode
  <2>2. CASE ~(c.kind = "keyframes" /\ kind = "style") /\ kind = "style"
    BY <2>2, <1>9 DEF IndexNode
  <2>3. CASE kind # "style"
    BY <2>3, <1>9 DEF IndexNode
  <2> QED BY <2>1, <2>2, <2>3
<1> HIDE DEF f, q, phase, t, m, r, g
<1>11. /\ At(c, g.list, g.page, x.locals, x.builder, lists, old)
  BY <1>2, <1>3, <1>6, <1>8, BothVisit, Zenon DEF g
<1>12. x = [locals |-> x.locals, builder |-> x.builder]
  <2>1. f.locals \in CssLocals /\ IsBuilder(f.builder)
    BY <1>2, FrameTypes
  <2>2. /\ Counts(f) = [locals |-> Counted(f.locals), builder |-> Counts(f).builder]
        /\ Tries(f, Block(c, k)) =
             [locals |-> Counted(f.locals), builder |-> Tries(f, Block(c, k)).builder]
    BY <1>2, <1>6, <2>1, TriedParts
  <2>3. x = Tries(f, Block(c, k)) \/ x = Counts(f)
    OBVIOUS
  <2> HIDE DEF x
  <2>4. x = [locals |-> Counted(f.locals), builder |-> x.builder]
    BY <2>2, <2>3
  <2> QED BY <2>4
<1> HIDE DEF x
<1>13. CASE c.kind = "keyframes" /\ kind = "style"
  <2>1. t = x
    BY <1>10, <1>13
  <2>2. /\ At(c, r.list, r.page, t.locals, t.builder, lists, old)
        /\ LeadingTo(c, k, t.locals, t.builder)
    BY <1>5, <1>11, <1>13, <2>1 DEF LeadingTo
  <2> QED BY <2>2 DEF r, t
<1>14. CASE ~(c.kind = "keyframes" /\ kind = "style")
  <2> DEFINE y == InRootPhase(c, [locals |-> x.locals, builder |-> x.builder], phase)
  <2>1. t = y
    BY <1>10, <1>12, <1>14
  <2>2. /\ At(c, g.list, g.page, y.locals, y.builder, lists, old)
        /\ c.kind = "sheet" => y.locals.rootPhase = phase
    BY <1>7, <1>11, Rephased
  <2> HIDE DEF y
  <2>3. LeadingTo(c, k, t.locals, t.builder)
    <3> SUFFICES ASSUME c.kind = "sheet", phase # "body", NEW j \in 1 .. k
                 PROVE  c.nodes[j].kind \in Leading
      BY <2>1, <2>2 DEF LeadingTo
    <3>1. kind = "import" \/ (kind = "layers" /\ v.rootPhase # "body")
      BY DEF phase, NextRootPhase
    <3>2. v.rootPhase # "body"
      BY <3>1 DEF IsUncertain
    <3>3. \A i \in 1 .. c.done : c.nodes[i].kind \in Leading
      BY <3>2 DEF LeadingTo
    <3>4. CASE j = k
      BY <3>1, <3>4 DEF Leading
    <3>5. CASE j # k
      BY <3>3, <3>5, <1>1 DEF CssContainers
    <3> QED BY <3>4, <3>5
  <2>4. /\ At(c, r.list, r.page, t.locals, t.builder, lists, old)
        /\ LeadingTo(c, k, t.locals, t.builder)
    BY <1>5, <2>1, <2>2, <2>3
  <2> QED BY <2>4 DEF r, t
<1> QED BY <1>13, <1>14

(* The builder only ever counts on and grows less certain.                 *)
LEMMA IndexGrows ==
  ASSUME NEW c \in CssContainers, NEW v \in CssLocals, NEW b, IsBuilder(b),
         NEW k \in 1 .. Len(c.nodes)
  PROVE  LET s == [locals |-> v, builder |-> b]
             f == FlushDeclarations(c, s)
             t == IndexNode(c, k, s) IN
         /\ Grown(b, f.builder) /\ Grown(b, t.builder)
         /\ IsUncertain(c, k, v) /\ ~(c.kind = "keyframes" /\ c.nodes[k].kind = "style")
              => t.builder.doubt
         /\ ~IsUncertain(c, k, v) => Grown(f.builder, t.builder)
<1> DEFINE s == [locals |-> v, builder |-> b]
           f == FlushDeclarations(c, s)
           t == IndexNode(c, k, s)
           kind == c.nodes[k].kind
<1>1. c.owner \in Positions /\ c.at \in Positions /\ b.visitedRules \in Nat
  BY DEF CssContainers, IsBuilder
<1>2. Block(c, k) \in Positions
  BY <1>1, NextPath DEF Block
<1>3. ASSUME NEW w \in CssLocals, NEW d, IsBuilder(d), NEW block \in Positions
      PROVE  /\ Grown(d, Counts([locals |-> w, builder |-> d]).builder)
             /\ Grown(d, Tries([locals |-> w, builder |-> d], block).builder)
  <2>1. /\ CountedBuilder(d, Counts([locals |-> w, builder |-> d]).builder)
        /\ TriedBuilder(w, d, block, Tries([locals |-> w, builder |-> d], block).builder)
    BY <1>3, TriedParts
  <2>2. ASSUME NEW e, e.doubt = d.doubt, e.visitedRules = d.visitedRules + 1
        PROVE  Grown(d, e)
    BY <1>3, <2>2 DEF Grown, IsBuilder
  <2> QED BY <2>1, <2>2 DEF CountedBuilder, TriedBuilder
<1>4. /\ f.locals \in CssLocals /\ IsBuilder(f.builder) /\ Grown(b, f.builder)
      /\ f = [locals |-> f.locals, builder |-> f.builder]
  <2>1. CASE v.declarationsPending /\ c.owner # NoRule
    <3>1. f = Tries(s, c.owner)
      BY <2>1 DEF FlushDeclarations
    <3>2. /\ Tries(s, c.owner) = [locals |-> Counted(v), builder |-> Tries(s, c.owner).builder]
          /\ TriedBuilder(v, b, c.owner, Tries(s, c.owner).builder)
      BY <1>1, TriedParts
    <3>3. Counted(v) \in CssLocals
      BY CountedParts
    <3>4. Grown(b, Tries(s, c.owner).builder)
      BY <1>1, <1>3
    <3> HIDE DEF f
    <3>5. f = [locals |-> Counted(v), builder |-> f.builder] /\ TriedBuilder(v, b, c.owner, f.builder)
      BY <3>1, <3>2
    <3>6. /\ f.locals \in CssLocals /\ IsBuilder(f.builder) /\ Grown(b, f.builder)
          /\ f = [locals |-> f.locals, builder |-> f.builder]
      BY <3>1, <3>3, <3>4, <3>5 DEF TriedBuilder
    <3> QED BY <3>6 DEF f
  <2>2. CASE ~(v.declarationsPending /\ c.owner # NoRule)
    <3>1. f = s
      BY <2>2 DEF FlushDeclarations
    <3> QED BY <3>1, <1>1 DEF Grown
  <2> QED BY <2>1, <2>2
<1> HIDE DEF f
<1>5. Grown(f.builder, Counts(f).builder) /\ Grown(f.builder, Tries(f, Block(c, k)).builder)
  BY <1>2, <1>3, <1>4
<1>6. IsBuilder(Counts(f).builder) /\ IsBuilder(Tries(f, Block(c, k)).builder)
  BY <1>2, <1>4, TriedParts DEF CountedBuilder, TriedBuilder
<1>7. ASSUME NEW z, z \in {Counts(f), Tries(f, Block(c, k))}, NEW phase
      PROVE  InRootPhase(c, z, phase).builder = z.builder
  <2>1. /\ Counts(f) = [locals |-> Counted(f.locals), builder |-> Counts(f).builder]
        /\ Tries(f, Block(c, k)) =
             [locals |-> Counted(f.locals), builder |-> Tries(f, Block(c, k)).builder]
    BY <1>2, <1>4, TriedParts
  <2>2. z = [locals |-> Counted(f.locals), builder |-> z.builder]
    BY <2>1, <1>7
  <2>3. [z EXCEPT !.locals.rootPhase = phase].builder = z.builder
    BY <2>2
  <2> QED BY <2>3 DEF InRootPhase
<1>8. CASE IsUncertain(c, k, v) /\ ~(c.kind = "keyframes" /\ kind = "style")
  <2>1. t = MarkUncertain(c, s)
    BY <1>8 DEF IndexNode
  <2>2. ASSUME NEW w, NEW d, t = [locals |-> w, builder |-> d]
        PROVE  t.builder = d
    BY <2>2
  <2>3. t.builder = [b EXCEPT !.doubt = TRUE]
    BY <2>1, <2>2 DEF MarkUncertain
  <2>4. b \in [visitedRules: Nat, pathIndex: {b.pathIndex}, doubt: BOOLEAN]
    BY DEF IsBuilder
  <2>5. t.builder.doubt /\ t.builder.visitedRules = b.visitedRules
    <3> HIDE DEF t
    <3> QED BY <2>3, <2>4
  <2> HIDE DEF t
  <2>6. Grown(b, t.builder)
    BY <2>5, <1>1 DEF Grown
  <2> QED BY <2>5, <2>6, <1>4, <1>8 DEF f, t
<1>9. CASE ~(IsUncertain(c, k, v) /\ ~(c.kind = "keyframes" /\ kind = "style"))
  <2>1. t.builder \in {Counts(f).builder, Tries(f, Block(c, k)).builder}
    <3>1. CASE c.kind = "keyframes" /\ kind = "style"
      <4>1. t = Counts(f)
        BY <3>1 DEF IndexNode, f
      <4> QED BY <4>1
    <3>2. CASE ~(c.kind = "keyframes" /\ kind = "style")
      <4>1. t \in {InRootPhase(c, Tries(f, Block(c, k)), "body"),
                   InRootPhase(c, Counts(f), NextRootPhase(v.rootPhase, kind))}
        BY <3>2, <1>9 DEF IndexNode, f
      <4> HIDE DEF t
      <4>2. t.builder \in {Tries(f, Block(c, k)).builder, Counts(f).builder}
        BY <4>1, <1>7
      <4> QED BY <4>2 DEF t
    <3> QED BY <3>1, <3>2
  <2> HIDE DEF t
  <2>2. Grown(f.builder, t.builder)
    BY <2>1, <1>5
  <2>3. IsBuilder(t.builder)
    BY <2>1, <1>6
  <2>4. Grown(b, t.builder)
    BY <2>2, <2>3, <1>4, <1>1 DEF Grown, IsBuilder
  <2>5. (c.kind = "keyframes" /\ kind = "style") \/ ~IsUncertain(c, k, v)
    BY <1>9
  <2> QED BY <2>2, <2>4, <2>5, <1>4 DEF f, t
<1> QED BY <1>8, <1>9

(* Only the lists around a container bear on it.                           *)
LEMMA AtLists ==
  ASSUME NEW c, NEW l, NEW p, NEW v, NEW b, NEW lists, NEW old,
         At(c, l, p, v, b, lists, old),
         NEW lists2 \in Seq(CssLists), Len(l.path) <= Len(lists2),
         \A j \in 1 .. Len(l.path) : lists2[j] = lists[j]
  PROVE  At(c, l, p, v, b, lists2, Used(p, b))
<1>1. Outside(l, p, b, lists2)
  BY DEF At, Outside
<1>2. Fresh(l, p, b, Used(p, b))
  BY DEF Fresh
<1> QED BY <1>1, <1>2 DEF At

(* What holds of a container that a walk is in, the i-th from the outside. *)
FrameOf(i, c, l, p, v, b, lists) ==
  /\ At(c, l, p, v, b, lists, Used(p, b))
  /\ Static(c) /\ LeadingTo(c, c.done, v, b)
  /\ Len(l.path) = i - 1

(* Every container that the walks are in.                                  *)
Framed(cs, ls, p, vs, b) ==
  /\ cs \in Seq(CssContainers) /\ ls \in Seq(CssLists) /\ vs \in Seq(CssLocals)
  /\ Len(ls) = Len(cs) /\ Len(vs) = Len(cs)
  /\ \A i \in 1 .. Len(cs) : FrameOf(i, cs[i], ls[i], p, vs[i], b, ls)

(* What the two properties are about.                                      *)
Agreed(p, b) ==
  /\ p \in CssPages /\ IsBuilder(b)
  /\ PathsFit(p) /\ PathsAgree(p, b) /\ PathsFound(p, b) /\ Lags(p, b)

(* A frame holds all of it.                                                *)
LEMMA AtAgreed ==
  ASSUME NEW c, NEW l, NEW p, NEW v, NEW b, NEW lists, NEW old,
         At(c, l, p, v, b, lists, old)
  PROVE  Agreed(p, b) /\ Outside(l, p, b, lists)
BY DEF At, Typed, Agreed

(* The containers around the one that is walked.                           *)
LEMMA FramesBelow ==
  ASSUME NEW cs, NEW ls, NEW p, NEW vs, NEW b, Framed(cs, ls, p, vs, b),
         NEW l2, NEW p2, NEW b2, Agreed(p2, b2), Outside(l2, p2, b2, ls),
         Grown(b, b2), NEW i \in 1 .. Len(cs), i <= Len(l2.path), Len(l2.path) \in Nat
  PROVE  FrameOf(i, cs[i], ls[i], p2, vs[i], b2, ls)
<1> DEFINE c == cs[i]
           l == ls[i]
           v == vs[i]
<1>1. At(c, l, p, v, b, ls, Used(p, b)) /\ Static(c) /\ LeadingTo(c, c.done, v, b)
      /\ Len(l.path) = i - 1
  BY DEF Framed, FrameOf
<1>2. /\ Typed(c, l, p, v, b) /\ ListFrame(c, l) /\ EnteredFrame(c, v, b)
      /\ SyncedFrame(c, l, v, b) /\ Outside(l, p, b, ls)
  BY <1>1 DEF At
<1>3. b.doubt \in BOOLEAN /\ b2.doubt \in BOOLEAN /\ b.visitedRules \in Nat
      /\ b2.visitedRules \in Nat /\ CssRules \in Nat
  BY <1>2, CssAssumption DEF Typed, IsBuilder, Agreed
<1>4. Typed(c, l, p2, v, b2)
  BY <1>2 DEF Typed, Agreed
<1>5. EnteredFrame(c, v, b2)
  BY <1>2, <1>3 DEF EnteredFrame, Grown
<1>6. SyncedFrame(c, l, v, b2) /\ LeadingTo(c, c.done, v, b2)
  BY <1>1, <1>2 DEF SyncedFrame, LeadingTo, Synced, Grown
<1>7. AllBehind(l, p2, b2) /\ CountFits(l, p2)
  BY DEF Outside
<1>8. Outside(l, p2, b2, ls)
  <2> SUFFICES ASSUME NEW j \in 1 .. Len(l.path)
               PROVE  AllBehind(ls[j], p2, b2) /\ CountFits(ls[j], p2)
    BY <1>2 DEF Outside
  <2>1. j \in 1 .. Len(l2.path)
    BY <1>1
  <2> QED BY <2>1 DEF Outside
<1>9. Fresh(l, p2, b2, Used(p2, b2))
  BY DEF Fresh
<1> QED BY <1>1, <1>2, <1>4, <1>5, <1>6, <1>7, <1>8, <1>9 DEF At, FrameOf, Agreed

(* A walk goes on in the innermost container.                              *)
LEMMA FramesPassed ==
  ASSUME NEW cs, NEW ls, NEW p, NEW vs, NEW b, Framed(cs, ls, p, vs, b), Len(cs) > 0,
         NEW c2, NEW l2, NEW p2, NEW v2, NEW b2,
         At(c2, l2, p2, v2, b2, ls, Used(p, b)), Grown(b, b2),
         l2.path = ls[Len(cs)].path,
         Static(c2), LeadingTo(c2, c2.done, v2, b2)
  PROVE  Framed([cs EXCEPT ![Len(cs)] = c2], [ls EXCEPT ![Len(cs)] = l2], p2,
                [vs EXCEPT ![Len(cs)] = v2], b2)
<1> DEFINE n == Len(cs)
           cs2 == [cs EXCEPT ![n] = c2]
           ls2 == [ls EXCEPT ![n] = l2]
           vs2 == [vs EXCEPT ![n] = v2]
<1>1. /\ cs \in Seq(CssContainers) /\ ls \in Seq(CssLists) /\ vs \in Seq(CssLocals)
      /\ Len(ls) = n /\ Len(vs) = n /\ n \in Nat /\ n \in 1 .. n
  BY DEF Framed
<1>2. c2 \in CssContainers /\ l2 \in CssLists /\ v2 \in CssLocals
  BY DEF At, Typed
<1>3. /\ cs2 \in Seq(CssContainers) /\ ls2 \in Seq(CssLists) /\ vs2 \in Seq(CssLocals)
      /\ Len(cs2) = n /\ Len(ls2) = n /\ Len(vs2) = n
      /\ cs2[n] = c2 /\ ls2[n] = l2 /\ vs2[n] = v2
      /\ \A i \in 1 .. (n - 1) : cs2[i] = cs[i] /\ ls2[i] = ls[i] /\ vs2[i] = vs[i]
  BY <1>1, <1>2
<1>4. Len(l2.path) = n - 1
  BY <1>1 DEF Framed, FrameOf
<1>5. Agreed(p2, b2) /\ Outside(l2, p2, b2, ls)
  BY AtAgreed
<1> HIDE DEF n, cs2, ls2, vs2
<1>6. ASSUME NEW i \in 1 .. n PROVE FrameOf(i, cs2[i], ls2[i], p2, vs2[i], b2, ls2)
  <2>1. CASE i = n
    <3>2. \A j \in 1 .. Len(l2.path) : ls2[j] = ls[j]
      BY <1>3, <1>4
    <3>3. Len(l2.path) <= Len(ls2)
      BY <1>1, <1>3, <1>4
    <3>1. At(c2, l2, p2, v2, b2, ls2, Used(p2, b2))
      BY <1>3, <3>2, <3>3, AtLists
    <3> QED BY <2>1, <3>1, <1>3, <1>4 DEF FrameOf
  <2>2. CASE i # n
    <3>1. i \in 1 .. Len(cs) /\ i <= Len(l2.path) /\ Len(l2.path) \in Nat
      BY <2>2, <1>1, <1>4, <1>6 DEF n
    <3>2. FrameOf(i, cs[i], ls[i], p2, vs[i], b2, ls)
      BY <3>1, <1>5, FramesBelow
    <3>3. Len(ls[i].path) = i - 1
      BY <3>2 DEF FrameOf
    <3>6. At(cs[i], ls[i], p2, vs[i], b2, ls, Used(p2, b2))
      BY <3>2 DEF FrameOf
    <3>7. /\ Len(ls[i].path) <= Len(ls2)
          /\ \A j \in 1 .. Len(ls[i].path) : ls2[j] = ls[j]
      BY <3>3, <1>1, <1>3
    <3>4. At(cs[i], ls[i], p2, vs[i], b2, ls2, Used(p2, b2))
      BY <3>6, <3>7, <1>3, AtLists
    <3>5. cs2[i] = cs[i] /\ ls2[i] = ls[i] /\ vs2[i] = vs[i]
      BY <1>1, <1>3, <1>6, <2>2
    <3> QED BY <3>2, <3>4, <3>5 DEF FrameOf
  <2> QED BY <2>1, <2>2
<1> QED BY <1>3, <1>6 DEF Framed, n, cs2, ls2, vs2

(* A walk enters a container.                                              *)
LEMMA FramesPushed ==
  ASSUME NEW cs, NEW ls, NEW p, NEW vs, NEW b, Framed(cs, ls, p, vs, b),
         NEW c2, NEW l2, NEW v2, At(c2, l2, p, v2, b, ls, Used(p, b)),
         Len(l2.path) = Len(cs), Static(c2), LeadingTo(c2, c2.done, v2, b)
  PROVE  Framed(Append(cs, c2), Append(ls, l2), p, Append(vs, v2), b)
<1> DEFINE n == Len(cs)
           cs2 == Append(cs, c2)
           ls2 == Append(ls, l2)
           vs2 == Append(vs, v2)
<1>1. /\ cs \in Seq(CssContainers) /\ ls \in Seq(CssLists) /\ vs \in Seq(CssLocals)
      /\ Len(ls) = n /\ Len(vs) = n /\ n \in Nat
  BY DEF Framed
<1>2. c2 \in CssContainers /\ l2 \in CssLists /\ v2 \in CssLocals
  BY DEF At, Typed
<1>3. /\ cs2 \in Seq(CssContainers) /\ ls2 \in Seq(CssLists) /\ vs2 \in Seq(CssLocals)
      /\ Len(cs2) = n + 1 /\ Len(ls2) = n + 1 /\ Len(vs2) = n + 1
      /\ cs2[n + 1] = c2 /\ ls2[n + 1] = l2 /\ vs2[n + 1] = v2
      /\ \A i \in 1 .. n : cs2[i] = cs[i] /\ ls2[i] = ls[i] /\ vs2[i] = vs[i]
  BY <1>1, <1>2
<1>4. Len(l2.path) = n
  OBVIOUS
<1>5. ASSUME NEW i \in 1 .. n PROVE FrameOf(i, cs[i], ls[i], p, vs[i], b, ls)
  BY DEF Framed
<1> HIDE DEF n, cs2, ls2, vs2
<1>6. ASSUME NEW i \in 1 .. (n + 1) PROVE FrameOf(i, cs2[i], ls2[i], p, vs2[i], b, ls2)
  <2>1. CASE i = n + 1
    <3>2. \A j \in 1 .. Len(l2.path) : ls2[j] = ls[j]
      BY <1>3, <1>4
    <3>3. Len(l2.path) <= Len(ls2)
      BY <1>1, <1>3, <1>4
    <3>1. At(c2, l2, p, v2, b, ls2, Used(p, b))
      BY <1>3, <3>2, <3>3, AtLists
    <3> QED BY <2>1, <3>1, <1>1, <1>3, <1>4 DEF FrameOf
  <2>2. CASE i \in 1 .. n
    <3>1. FrameOf(i, cs[i], ls[i], p, vs[i], b, ls)
      BY <2>2, <1>5
    <3>2. Len(ls[i].path) = i - 1
      BY <3>1 DEF FrameOf
    <3>6. At(cs[i], ls[i], p, vs[i], b, ls, Used(p, b))
      BY <3>1 DEF FrameOf
    <3>7. /\ Len(ls[i].path) <= Len(ls2)
          /\ \A j \in 1 .. Len(ls[i].path) : ls2[j] = ls[j]
      BY <3>2, <2>2, <1>1, <1>3
    <3>3. At(cs[i], ls[i], p, vs[i], b, ls2, Used(p, b))
      BY <3>6, <3>7, <1>3, AtLists
    <3>4. cs2[i] = cs[i] /\ ls2[i] = ls[i] /\ vs2[i] = vs[i]
      BY <1>3, <2>2
    <3> QED BY <3>1, <3>3, <3>4 DEF FrameOf
  <2> QED BY <2>1, <2>2, <1>1, <1>6
<1> QED BY <1>3, <1>6 DEF Framed, cs2, ls2, vs2

(* A walk leaves a container.                                              *)
LEMMA FramesPopped ==
  ASSUME NEW cs, NEW ls, NEW p, NEW vs, NEW b, Framed(cs, ls, p, vs, b), Len(cs) > 0,
         NEW l2, NEW p2, NEW b2, Agreed(p2, b2), Outside(l2, p2, b2, ls), Grown(b, b2),
         l2.path = ls[Len(cs)].path
  PROVE  Framed(Front(cs), Front(ls), p2, Front(vs), b2)
<1> DEFINE n == Len(cs)
           cs2 == Front(cs)
           ls2 == Front(ls)
           vs2 == Front(vs)
<1>1. /\ cs \in Seq(CssContainers) /\ ls \in Seq(CssLists) /\ vs \in Seq(CssLocals)
      /\ Len(ls) = n /\ Len(vs) = n /\ n \in Nat /\ n \in 1 .. n
  BY DEF Framed
<1>2. /\ cs2 \in Seq(CssContainers) /\ ls2 \in Seq(CssLists) /\ vs2 \in Seq(CssLocals)
      /\ Len(cs2) = n - 1 /\ Len(ls2) = n - 1 /\ Len(vs2) = n - 1
      /\ \A i \in 1 .. (n - 1) : cs2[i] = cs[i] /\ ls2[i] = ls[i] /\ vs2[i] = vs[i]
  BY <1>1 DEF Front
<1>3. Len(l2.path) = n - 1
  BY <1>1 DEF Framed, FrameOf
<1> HIDE DEF n, cs2, ls2, vs2
<1>4. ASSUME NEW i \in 1 .. (n - 1) PROVE FrameOf(i, cs2[i], ls2[i], p2, vs2[i], b2, ls2)
  <2>1. i \in 1 .. Len(cs) /\ i <= Len(l2.path) /\ Len(l2.path) \in Nat
    BY <1>1, <1>3 DEF n
  <2>2. FrameOf(i, cs[i], ls[i], p2, vs[i], b2, ls)
    BY <2>1, FramesBelow
  <2>3. Len(ls[i].path) = i - 1
    BY <2>2 DEF FrameOf
  <2>6. At(cs[i], ls[i], p2, vs[i], b2, ls, Used(p2, b2))
    BY <2>2 DEF FrameOf
  <2>7. /\ Len(ls[i].path) <= Len(ls2)
        /\ \A j \in 1 .. Len(ls[i].path) : ls2[j] = ls[j]
    BY <2>3, <1>1, <1>2
  <2>4. At(cs[i], ls[i], p2, vs[i], b2, ls2, Used(p2, b2))
    BY <2>6, <2>7, <1>2, AtLists
  <2>5. cs2[i] = cs[i] /\ ls2[i] = ls[i] /\ vs2[i] = vs[i]
    BY <1>2
  <2> QED BY <2>2, <2>4, <2>5 DEF FrameOf
<1> QED BY <1>2, <1>4 DEF Framed, cs2, ls2, vs2

(* The browser counts without changing the list's own path.                *)
LEMMA CollectedPath ==
  ASSUME NEW c \in CssContainers, NEW l \in CssLists, NEW p \in CssPages, NEW k \in Nat
  PROVE  LET s == [list |-> l, page |-> p]
             q == Runs(c, s)
             r == CollectRule(c, k, s) IN
         /\ q.list.path = l.path /\ q.list.count \in {l.count, l.count + 1}
         /\ r.list.path = l.path
         /\ Kept(c, k, l) => r.list.count = q.list.count + 1
<1> DEFINE s == [list |-> l, page |-> p]
           q == Runs(c, s)
           r == CollectRule(c, k, s)
<1>1. ASSUME NEW l2 \in CssLists, NEW p2 \in CssPages, NEW block \in Positions,
             NEW m \in BOOLEAN
      PROVE  LET g == Visited([list |-> l2, page |-> p2], block, m) IN
             /\ g = [list |-> g.list, page |-> g.page]
             /\ g.list.path = l2.path /\ g.list.count = l2.count + 1
             /\ g.list \in CssLists /\ g.page \in CssPages
  <2> DEFINE g == Visited([list |-> l2, page |-> p2], block, m)
  <2>1. /\ g = [list |-> g.list, page |-> g.page]
        /\ VisitedList(l2, g.list) /\ VisitedPage(l2, p2, block, m, g.page)
    BY <1>1, VisitedParts, Zenon
  <2> HIDE DEF g
  <2>2. /\ g = [list |-> g.list, page |-> g.page]
        /\ g.list.path = l2.path /\ g.list.count = l2.count + 1
        /\ g.list \in CssLists /\ g.page \in CssPages
    BY <2>1 DEF VisitedList, VisitedPage
  <2> QED BY <2>2 DEF g
<1>2. /\ c.owner \in Positions /\ c.foreign \in BOOLEAN /\ c.at \in Positions
      /\ s.list = l /\ s.page = p
  BY DEF CssContainers
<1>3. /\ q = [list |-> q.list, page |-> q.page] /\ q.list \in CssLists /\ q.page \in CssPages
      /\ q.list.path = l.path /\ q.list.count \in {l.count, l.count + 1}
  <2> DEFINE m == ~c.foreign
  <2>1. m \in BOOLEAN
    OBVIOUS
  <2>2. q = Visited(s, c.owner, m) \/ q = s
    BY DEF Runs
  <2> HIDE DEF m, q
  <2>3. CASE q = Visited(s, c.owner, m)
    BY <2>1, <2>3, <1>1, <1>2
  <2>4. CASE q = s
    BY <2>4
  <2> QED BY <2>2, <2>3, <2>4
<1>4. CASE Kept(c, k, l)
  <2> DEFINE m == Matches(c, k)
  <2>1. m \in BOOLEAN /\ Block(c, k) \in Positions
    BY <1>2, NextPath DEF Matches, Block
  <2>2. r = Visited(q, Block(c, k), m)
    BY <1>2, <1>4, KeptIsVisited
  <2> HIDE DEF m, q, r
  <2>3. r = Visited([list |-> q.list, page |-> q.page], Block(c, k), m)
    BY <2>2, <1>3
  <2>4. r.list.path = q.list.path /\ r.list.count = q.list.count + 1
    BY <2>1, <2>3, <1>1, <1>3
  <2> QED BY <2>4, <1>3 DEF q, r
<1>5. CASE ~Kept(c, k, l)
  <2> DEFINE stray == l.stray /\ c.nodes[k].kind \notin HasBlock
  <2>1. r = [list |-> [l EXCEPT !.stray = stray], page |-> p]
    BY <1>5 DEF CollectRule
  <2> HIDE DEF stray, r
  <2>2. r.list.path = l.path
    BY <2>1 DEF CssLists
  <2> QED BY <2>2, <1>3, <1>5 DEF r
<1> QED BY <1>4, <1>5

(* Both walks pass a construct.                                            *)
LEMMA ConstructVisits ==
  ASSUME NEW c, NEW l, NEW p, NEW v, NEW b, NEW lists, NEW old,
         At(c, l, p, v, b, lists, old), Static(c), LeadingTo(c, c.done, v, b),
         NEW k \in 1 .. Len(c.nodes), k = c.done + 1,
         c.nodes[k].kind \notin {"blank", "declaration"}
  PROVE  LET r == CollectRule(c, k, [list |-> l, page |-> p])
             s == [locals |-> v, builder |-> b]
             t == IF v.entered THEN IndexNode(c, k, s) ELSE s IN
         /\ At(c, r.list, r.page, t.locals, t.builder, lists, old)
         /\ LeadingTo(c, k, t.locals, t.builder)
         /\ Grown(b, t.builder)
<1> DEFINE r == CollectRule(c, k, [list |-> l, page |-> p])
           s == [locals |-> v, builder |-> b]
           t == IF v.entered THEN IndexNode(c, k, s) ELSE s
           kind == c.nodes[k].kind
<1>1. /\ c \in CssContainers /\ v \in CssLocals /\ IsBuilder(b) /\ b.visitedRules \in Nat
      /\ v.entered \in BOOLEAN /\ k \in Nat
  BY FrameTypes DEF CssContainers
<1>2. CASE v.entered /\ Synced(v, b) /\ ~IsUncertain(c, k, v)
  <2>1. t = IndexNode(c, k, s)
    BY <1>2
  <2>2. /\ At(c, r.list, r.page, IndexNode(c, k, s).locals, IndexNode(c, k, s).builder, lists, old)
        /\ LeadingTo(c, k, IndexNode(c, k, s).locals, IndexNode(c, k, s).builder)
    BY <1>2, BothPass
  <2>3. Grown(b, IndexNode(c, k, s).builder)
    BY <1>1, IndexGrows
  <2> QED BY <2>1, <2>2, <2>3
<1>3. CASE v.entered /\ ~Synced(v, b) /\ ~IsUncertain(c, k, v)
  <2>1. t = IndexNode(c, k, s)
    BY <1>3
  <2>2. /\ At(c, l, p, IndexNode(c, k, s).locals, IndexNode(c, k, s).builder, lists, old)
        /\ ~Synced(IndexNode(c, k, s).locals, IndexNode(c, k, s).builder)
    BY <1>3, IndexNodeAlone
  <2>3. Grown(b, IndexNode(c, k, s).builder)
    BY <1>1, IndexGrows
  <2> HIDE DEF t
  <2>4. At(c, r.list, r.page, t.locals, t.builder, lists, old)
    BY <1>1, <2>1, <2>2, BrowserCollects
  <2>5. LeadingTo(c, k, t.locals, t.builder)
    BY <2>1, <2>2 DEF LeadingTo
  <2>6. /\ At(c, r.list, r.page, t.locals, t.builder, lists, old)
        /\ LeadingTo(c, k, t.locals, t.builder) /\ Grown(b, t.builder)
    BY <2>1, <2>3, <2>4, <2>5
  <2> QED BY <2>6 DEF t
<1>4. CASE v.entered /\ IsUncertain(c, k, v)
  <2>5. ~(c.kind = "keyframes" /\ kind = "style")
    BY <1>4 DEF IsUncertain, Uncertain, Plain
  <2>1. t = MarkUncertain(c, s)
    BY <1>4, <2>5 DEF IndexNode
  <2>2. /\ At(c, l, p, MarkUncertain(c, s).locals, MarkUncertain(c, s).builder, lists, old)
        /\ ~Synced(MarkUncertain(c, s).locals, MarkUncertain(c, s).builder)
    BY MarkedUncertain
  <2>3. Grown(b, IndexNode(c, k, s).builder) /\ t = IndexNode(c, k, s)
    BY <1>1, <1>4, IndexGrows
  <2> HIDE DEF t
  <2>4. At(c, r.list, r.page, t.locals, t.builder, lists, old)
    BY <1>1, <2>1, <2>2, BrowserCollects
  <2>6. LeadingTo(c, k, t.locals, t.builder)
    BY <2>1, <2>2 DEF LeadingTo
  <2>7. /\ At(c, r.list, r.page, t.locals, t.builder, lists, old)
        /\ LeadingTo(c, k, t.locals, t.builder) /\ Grown(b, t.builder)
    BY <2>3, <2>4, <2>6
  <2> QED BY <2>7 DEF t
<1>5. CASE ~v.entered
  <2>1. t = s /\ s.locals = v /\ s.builder = b
    BY <1>5
  <2>2. At(c, r.list, r.page, v, b, lists, old)
    BY <1>1, <1>5, BrowserCollects
  <2>3. LeadingTo(c, k, v, b) /\ Grown(b, b)
    BY <1>1, <1>5 DEF LeadingTo, Grown
  <2> QED BY <2>1, <2>2, <2>3
<1> QED BY <1>2, <1>3, <1>4, <1>5

(* Where the IDE's walk goes, the browser's goes.                          *)
LEMMA WhatIsEntered ==
  ASSUME NEW c, NEW l, NEW p, NEW v, NEW b, NEW lists, NEW old,
         At(c, l, p, v, b, lists, old), Static(c),
         NEW k \in 1 .. Len(c.nodes),
         Descends(c, k, l) \/ Recurses(c, k, v)
  PROVE  /\ Descends(c, k, l) /\ Kept(c, k, l)
         /\ Inner(c, k) \in CssContainers /\ Static(Inner(c, k)) /\ Inner(c, k).kind # "sheet"
         /\ Inner(c, k).kind = c.nodes[k].kind /\ Inner(c, k).done = 0
         /\ Inner(c, k).kind \in Plain => Inner(c, k).owner = NoRule
         /\ Recurses(c, k, v) => v.entered /\ ~Inner(c, k).foreign
         /\ ~b.doubt => \/ Recurses(c, k, v) \/ Inner(c, k).foreign
                        \/ Inner(c, k).kind = "leaf"
                        \/ (v.entered /\ IsUncertain(c, k, v))
<1> DEFINE kind == c.nodes[k].kind
           inner == Inner(c, k)
<1>1. /\ c \in CssContainers /\ v.entered \in BOOLEAN /\ ListFrame(c, l)
      /\ EnteredFrame(c, v, b) /\ c.at \in Positions /\ c.owner \in Positions
      /\ c.foreign \in BOOLEAN
  BY FrameTypes
<1>2. /\ k \in DOMAIN c.nodes /\ kind \in Certain \cup Uncertain
      /\ c.nodes[k].nodes \in NodeLists /\ k \in Nat
  BY <1>1, NodeTypes DEF CssContainers
<1>3. Recurses(c, k, v) =>
        v.entered /\ c.kind # "keyframes" /\ ~IsUncertain(c, k, v)
          /\ kind \in {"style", "group", "keyframes"}
  BY DEF Recurses
<1>4. Recurses(c, k, v) => Kept(c, k, l) /\ Descends(c, k, l)
  <2> SUFFICES ASSUME Recurses(c, k, v) PROVE Kept(c, k, l) /\ Descends(c, k, l)
    OBVIOUS
  <2>1. Kept(c, k, l)
    BY <1>3, CertainIsKept
  <2>2. c.kind \notin Plain
    BY <1>1, <1>3 DEF EnteredFrame, Plain
  <2> QED BY <1>3, <2>1, <2>2 DEF Descends
<1>5. Descends(c, k, l) /\ Kept(c, k, l) /\ c.kind \notin Plain
  BY <1>4 DEF Descends
<1>6. Block(c, k) \in Positions /\ NoRule \in Positions
  BY <1>1, <1>2, NextPath DEF Block, NoRule, Positions
<1>7. /\ inner.kind = kind /\ inner.nodes = c.nodes[k].nodes /\ inner.done = 0
      /\ inner.foreign = (c.foreign \/ kind = "import")
      /\ inner.owner = IF kind \in Styles
                       THEN Block(c, k) ELSE IF kind = "import" THEN NoRule ELSE c.owner
  BY DEF Inner
<1>8. inner \in CssContainers
  <2> DEFINE owner == IF kind \in Styles
                      THEN Block(c, k) ELSE IF kind = "import" THEN NoRule ELSE c.owner
             foreign == c.foreign \/ kind = "import"
  <2>1. owner \in Positions
    BY <1>1, <1>6
  <2>2. foreign \in BOOLEAN
    OBVIOUS
  <2>3. inner = [kind |-> kind, nodes |-> c.nodes[k].nodes, at |-> Block(c, k), done |-> 0,
                 owner |-> owner, foreign |-> foreign]
    BY DEF Inner
  <2> HIDE DEF owner, foreign
  <2> QED BY <1>2, <1>6, <2>1, <2>2, <2>3 DEF CssContainers
<1> HIDE DEF inner
<1>9. kind # "sheet" /\ (kind \in Plain => kind \notin Styles /\ kind # "import")
  BY <1>2 DEF Certain, Uncertain, Plain, Styles
<1>10. kind \in Plain => inner.owner = NoRule
  <2> SUFFICES ASSUME kind \in Plain PROVE c.owner = NoRule
    BY <1>7, <1>9
  <2> QED BY <1>5 DEF Kept, Plain
<1>11. Static(inner)
  <2>1. inner.done <= Len(inner.nodes)
    <3>1. inner.nodes \in Seq([kind: Certain \cup Uncertain, nodes: NodeLists])
      BY <1>2, <1>7, CssAssumption
    <3> QED BY <3>1, <1>7
  <2>2. inner.kind = "keyframes" =>
          \A j \in DOMAIN inner.nodes : inner.nodes[j].kind \in {"blank", "style"}
    <3>1. c.nodes \in NodeLists
      BY <1>1 DEF CssContainers
    <3> QED BY <3>1, <1>2, <1>7, CssAssumption
  <2> QED BY <2>1, <2>2, <1>7, <1>9 DEF Static
<1>12. Recurses(c, k, v) => v.entered /\ ~inner.foreign
  BY <1>1, <1>3, <1>7 DEF EnteredFrame
<1>13. ASSUME ~b.doubt
       PROVE  \/ Recurses(c, k, v) \/ inner.foreign \/ inner.kind = "leaf"
              \/ (v.entered /\ IsUncertain(c, k, v))
  <2>1. CASE v.entered /\ ~IsUncertain(c, k, v)
    <3>1. kind \in {"style", "group", "import", "keyframes", "leaf"}
      BY <2>1, <1>2, <1>5 DEF Descends, Kept, IsUncertain, Certain, Plain
    <3>2. c.kind # "keyframes"
      BY <1>5 DEF Plain
    <3> QED BY <2>1, <3>1, <3>2, <1>7 DEF Recurses
  <2>2. CASE ~v.entered
    <3>1. c.foreign
      BY <1>1, <1>5, <1>13, <2>2 DEF EnteredFrame, Plain
    <3> QED BY <3>1, <1>7
  <2> QED BY <2>1, <2>2
<1>14. /\ Descends(c, k, l) /\ Kept(c, k, l)
       /\ inner \in CssContainers /\ Static(inner) /\ inner.kind # "sheet"
       /\ inner.kind = c.nodes[k].kind /\ inner.done = 0
       /\ inner.kind \in Plain => inner.owner = NoRule
       /\ Recurses(c, k, v) => v.entered /\ ~inner.foreign
       /\ ~b.doubt => \/ Recurses(c, k, v) \/ inner.foreign
                      \/ inner.kind = "leaf"
                      \/ (v.entered /\ IsUncertain(c, k, v))
  BY <1>5, <1>7, <1>8, <1>9, <1>10, <1>11, <1>12, <1>13
<1> QED BY <1>14 DEF inner

(* A container that has just been entered.                                 *)
LEMMA EnteredContainer ==
  ASSUME NEW c, NEW l, NEW p, NEW v, NEW b, NEW lists,
         At(c, l, p, v, b, lists, Used(p, b)), Static(c), LeadingTo(c, c.done, v, b),
         NEW k \in 1 .. Len(c.nodes), k = c.done + 1,
         c.nodes[k].kind \notin {"blank", "declaration"},
         Descends(c, k, l) \/ Recurses(c, k, v), Len(l.path) < CssRuleDepth,
         NEW list2, NEW p2, NEW v2, NEW b2, NEW lists2,
         list2 = CollectRule(c, k, [list |-> l, page |-> p]).list,
         At(c, list2, p2, v2, b2, lists, Used(p, b)),
         v.entered => b2 = IndexNode(c, k, [locals |-> v, builder |-> b]).builder,
         Grown(b, b2),
         lists2 \in Seq(CssLists), Len(lists2) = Len(l.path) + 1,
         lists2[Len(l.path) + 1] = list2,
         \A j \in 1 .. Len(l.path) : lists2[j] = lists[j]
  PROVE  LET q == Runs(c, [list |-> l, page |-> p])
             f == FlushDeclarations(c, [locals |-> v, builder |-> b])
             path == Append(l.path, q.list.count)
             w == LocalsOf(c.nodes[k].kind, Append(v.parentPath, f.locals.cssomIndex),
                           Recurses(c, k, v),
                           v.pathTrusted /\ f.builder.visitedRules < CssRules)
         IN /\ At(Inner(c, k), EmptyList(path, Descends(c, k, l)), p2, w, b2, lists2,
                  Used(p2, b2))
            /\ Len(path) = Len(l.path) + 1
            /\ Static(Inner(c, k)) /\ LeadingTo(Inner(c, k), Inner(c, k).done, w, b2)
<1> DEFINE q == Runs(c, [list |-> l, page |-> p])
           s == [locals |-> v, builder |-> b]
           f == FlushDeclarations(c, s)
           path == Append(l.path, q.list.count)
           recurses == Recurses(c, k, v)
           descends == Descends(c, k, l)
           parentPath == Append(v.parentPath, f.locals.cssomIndex)
           trusted == v.pathTrusted /\ f.builder.visitedRules < CssRules
           inner == Inner(c, k)
           empty == EmptyList(path, descends)
           w == LocalsOf(c.nodes[k].kind, parentPath, recurses, trusted)
<1>1. /\ c \in CssContainers /\ l \in CssLists /\ p \in CssPages /\ v \in CssLocals
      /\ IsBuilder(b) /\ ListFrame(c, l) /\ EnteredFrame(c, v, b) /\ SyncedFrame(c, l, v, b)
      /\ l.path \in Positions /\ l.count \in Nat /\ v.entered \in BOOLEAN
      /\ v.pathTrusted \in BOOLEAN /\ b.doubt \in BOOLEAN /\ b.visitedRules \in Nat
      /\ v.parentPath \in Positions /\ Len(l.path) \in Nat
  <2>1. /\ c \in CssContainers /\ l \in CssLists /\ p \in CssPages /\ v \in CssLocals
        /\ IsBuilder(b) /\ ListFrame(c, l) /\ EnteredFrame(c, v, b) /\ SyncedFrame(c, l, v, b)
        /\ l.path \in Positions /\ l.count \in Nat /\ v.entered \in BOOLEAN
        /\ v.pathTrusted \in BOOLEAN /\ b.doubt \in BOOLEAN /\ b.visitedRules \in Nat
        /\ v.parentPath \in Positions
    BY FrameTypes
  <2> QED BY <2>1 DEF Positions
<1>2. /\ p2 \in CssPages /\ IsBuilder(b2) /\ b2.doubt \in BOOLEAN /\ b2.visitedRules \in Nat
      /\ p2.rulesVisited \in Nat /\ list2 \in CssLists /\ list2.count \in Nat
  BY FrameTypes
<1>3. /\ descends /\ Kept(c, k, l)
      /\ inner \in CssContainers /\ Static(inner) /\ inner.kind # "sheet"
      /\ inner.kind = c.nodes[k].kind /\ inner.done = 0
      /\ inner.kind \in Plain => inner.owner = NoRule
      /\ recurses => v.entered /\ ~inner.foreign
      /\ ~b.doubt => \/ recurses \/ inner.foreign \/ inner.kind = "leaf"
                     \/ (v.entered /\ IsUncertain(c, k, v))
  BY WhatIsEntered
<1>4. /\ q.list.count \in {l.count, l.count + 1} /\ q.list.count \in Nat
      /\ list2.path = l.path /\ list2.count = q.list.count + 1
  <2>1. k \in Nat
    BY <1>1 DEF CssContainers
  <2>2. /\ q.list.count \in {l.count, l.count + 1}
        /\ list2.path = l.path /\ list2.count = q.list.count + 1
    BY <1>1, <1>3, <2>1, CollectedPath
  <2> QED BY <2>2, <1>1
<1>5. /\ path \in Positions /\ Len(path) = Len(l.path) + 1
      /\ \A j \in 1 .. Len(l.path) : path[j] = l.path[j]
      /\ path[Len(l.path) + 1] = q.list.count
  BY <1>1, <1>4, NextPath
<1>6. /\ Grown(b, f.builder) /\ (v.entered /\ ~IsUncertain(c, k, v) => Grown(f.builder, b2))
      /\ v.entered /\ IsUncertain(c, k, v) => b2.doubt
  <2>1. c.kind # "keyframes"
    BY <1>3 DEF Descends, Plain
  <2> QED BY <1>1, <2>1, IndexGrows
<1>7. recurses => ~IsUncertain(c, k, v)
      /\ c.nodes[k].kind \in {"style", "group", "keyframes"}
  BY DEF Recurses
<1>8. f.builder.visitedRules \in Nat /\ f.locals.cssomIndex \in Nat
  <2>1. /\ Tries(s, c.owner) = [locals |-> Counted(v), builder |-> Tries(s, c.owner).builder]
        /\ TriedBuilder(v, b, c.owner, Tries(s, c.owner).builder)
    BY <1>1, TriedParts DEF CssContainers
  <2>2. Counted(v) \in CssLocals
    BY <1>1, CountedParts
  <2>3. f = Tries(s, c.owner) \/ f = s
    BY DEF FlushDeclarations
  <2> HIDE DEF f
  <2>4. f.locals \in CssLocals /\ IsBuilder(f.builder)
    <3>1. CASE f = s
      BY <3>1, <1>1
    <3>2. CASE f = Tries(s, c.owner)
      <4>1. f = [locals |-> Counted(v), builder |-> f.builder] /\ IsBuilder(f.builder)
        BY <2>1, <3>2 DEF TriedBuilder
      <4> QED BY <4>1, <2>2
    <3> QED BY <2>3, <3>1, <3>2
  <2>5. f.builder.visitedRules \in Nat /\ f.locals.cssomIndex \in Nat
    BY <2>4 DEF CssLocals, IsBuilder
  <2> QED BY <2>5 DEF f
<1>9. parentPath \in Positions
  BY <1>1, <1>8, NextPath
<1>10. v.entered /\ Synced(v, b) => parentPath = path
  <2> SUFFICES ASSUME v.entered, Synced(v, b) PROVE parentPath = path
    OBVIOUS
  <2>1. f.locals.cssomIndex = q.list.count
    <3>1. /\ At(c, q.list, q.page, f.locals, f.builder, lists, Used(p, b))
          /\ q = [list |-> q.list, page |-> q.page]
          /\ f = [locals |-> f.locals, builder |-> f.builder]
          /\ q.list.path = l.path /\ q.list.count \in {l.count, l.count + 1}
          /\ f.locals.cssomIndex = q.list.count
      BY BothFlush
    <3> HIDE DEF f, q
    <3> QED BY <3>1
  <2>2. v.parentPath = l.path
    BY <1>1 DEF SyncedFrame, Alike
  <2> HIDE DEF f, q
  <2> QED BY <2>1, <2>2
<1>11. recurses \in BOOLEAN /\ trusted \in BOOLEAN
  BY DEF Recurses
<1>15. CssRules \in Nat /\ CssRuleDepth \in Nat
  BY CssAssumption
<1>12. trusted => v.pathTrusted
  OBVIOUS
<1>13. v.pathTrusted /\ ~trusted => f.builder.visitedRules >= CssRules
  BY <1>8, <1>15
<1> HIDE DEF q, f, path, recurses, parentPath, trusted, inner
<1>14. empty \in CssLists
  <2>1. empty = [path |-> path, kept |-> TRUE, count |-> 0, pending |-> FALSE, seen |-> FALSE,
                 stray |-> FALSE]
    BY <1>3 DEF EmptyList, Descends
  <2> HIDE DEF empty
  <2> QED BY <1>5, <2>1 DEF CssLists
<1>16. /\ empty.path = path /\ empty.kept /\ empty.count = 0 /\ ~empty.pending
       /\ ~empty.seen /\ ~empty.stray /\ empty.pending = FALSE
  BY <1>3 DEF EmptyList
<1>17. w \in CssLocals
  <2> DEFINE seen == c.nodes[k].kind # "style"
  <2>1. seen \in BOOLEAN
    OBVIOUS
  <2>2. w = [entered |-> recurses, parentPath |-> parentPath, cssomIndex |-> 0,
             pathTrusted |-> trusted, cssRuleSeen |-> seen, declarationsPending |-> FALSE,
             rootPhase |-> "initial"]
    BY DEF LocalsOf
  <2> HIDE DEF w, seen
  <2> QED BY <1>9, <1>11, <2>1, <2>2 DEF CssLocals
<1>18. /\ (w.entered <=> recurses) /\ (w.pathTrusted <=> trusted) /\ w.parentPath = parentPath
       /\ w.cssomIndex = 0 /\ w.declarationsPending = FALSE
       /\ (w.cssRuleSeen <=> inner.kind # "style")
  BY <1>3, <1>11 DEF LocalsOf
<1> HIDE DEF empty, w
<1>19. Typed(inner, empty, p2, w, b2)
  BY <1>2, <1>3, <1>14, <1>17 DEF Typed
<1>20. ListFrame(inner, empty)
  BY <1>3, <1>16 DEF ListFrame
<1>21. EnteredFrame(inner, w, b2)
  <2>1. w.entered => inner.kind \in {"sheet", "style", "group", "keyframes"} /\ ~inner.foreign
    BY <1>3, <1>7, <1>18
  <2>2. ~b2.doubt => w.entered \/ inner.foreign \/ inner.kind = "leaf"
    BY <1>3, <1>6, <1>18 DEF Grown
  <2>3. ASSUME ~b2.doubt, w.entered PROVE w.pathTrusted \/ b2.visitedRules >= CssRules
    <3>1. v.entered /\ ~b.doubt /\ Grown(f.builder, b2)
      BY <2>3, <1>3, <1>6, <1>7, <1>18 DEF Grown
    <3>2. CASE v.pathTrusted /\ ~trusted
      BY <3>1, <3>2, <1>13, <1>8, <1>2, <1>15 DEF Grown
    <3>3. CASE ~v.pathTrusted
      <4>1. b.visitedRules >= CssRules
        BY <3>1, <3>3, <1>1 DEF EnteredFrame
      <4> QED BY <4>1, <1>1, <1>2, <1>15 DEF Grown
    <3> QED BY <3>2, <3>3, <1>18
  <2> QED BY <2>1, <2>2, <2>3 DEF EnteredFrame
<1>22. SyncedFrame(inner, empty, w, b2)
  <2> SUFFICES ASSUME w.entered, Synced(w, b2) PROVE Alike(inner, empty, w)
    BY DEF SyncedFrame
  <2>1. v.entered /\ Synced(v, b)
    BY <1>1, <1>2, <1>3, <1>12, <1>18 DEF Synced, Grown
  <2> QED BY <2>1, <1>10, <1>16, <1>18 DEF Alike
<1>23. /\ Agreed(p2, b2) /\ Outside(list2, p2, b2, lists)
       /\ AllBehind(list2, p2, b2) /\ CountFits(list2, p2) /\ Fresh(list2, p2, b2, Used(p, b))
       /\ AllBehind(l, p, b)
  BY AtAgreed DEF At
<1>24. AllBehind(empty, p2, b2)
  <2> SUFFICES ASSUME NEW u \in Used(p2, b2), Len(u) > Len(path),
                      \A j \in 1 .. Len(path) : u[j] = path[j]
               PROVE  FALSE
    BY <1>16 DEF AllBehind, Behind
  <2>1. u \in Used(p, b)
    BY <1>4, <1>5, <1>23, <1>1 DEF Fresh
  <2>2. Behind(u, l)
    BY <2>1, <1>23 DEF AllBehind
  <2>3. /\ Len(u) > Len(l.path) /\ \A j \in 1 .. Len(l.path) : u[j] = l.path[j]
    <3>1. u \in Positions
      <4>1. \A g \in p.facts : g.path \in Positions
        BY <1>1 DEF CssPages
      <4> QED BY <2>1, <4>1, <1>1 DEF Used, IsBuilder
    <3>2. Len(u) \in Nat
      BY <3>1 DEF Positions
    <3>3. Len(u) > Len(l.path)
      BY <3>2, <1>1, <1>5
    <3>4. ASSUME NEW j \in 1 .. Len(l.path) PROVE u[j] = l.path[j]
      <4>1. j \in 1 .. Len(path)
        BY <1>1, <1>5
      <4> QED BY <4>1, <1>5
    <3> QED BY <3>3, <3>4
  <2>4. u[Len(l.path) + 1] = q.list.count
    BY <1>1, <1>5
  <2> QED BY <2>2, <2>3, <2>4, <1>1, <1>4 DEF Behind
<1>25. CountFits(empty, p2)
  BY <1>2, <1>16 DEF CountFits
<1>26. Outside(empty, p2, b2, lists2)
  <2>1. ASSUME NEW j \in 1 .. Len(path)
        PROVE  /\ Len(lists2[j].path) = j - 1 /\ path[j] < lists2[j].count
               /\ AllBehind(lists2[j], p2, b2) /\ CountFits(lists2[j], p2)
    <3>1. CASE j = Len(l.path) + 1
      <4>1. lists2[j] = list2
        BY <3>1
      <4>2. path[j] = q.list.count
        BY <3>1, <1>5
      <4>3. path[j] < list2.count
        BY <4>2, <1>4
      <4>4. Len(list2.path) = j - 1
        BY <3>1, <1>1, <1>4
      <4> QED BY <4>1, <4>3, <4>4, <1>23
    <3>2. CASE j \in 1 .. Len(l.path)
      <4>1. lists2[j] = lists[j] /\ path[j] = l.path[j] /\ j \in 1 .. Len(list2.path)
        BY <3>2, <1>4, <1>5
      <4> QED BY <4>1, <1>4, <1>23 DEF Outside
    <3> QED BY <2>1, <3>1, <3>2, <1>1, <1>5
  <2>2. Len(path) <= Len(lists2) /\ Len(path) <= CssRuleDepth
    BY <1>1, <1>5, <1>15
  <2> QED BY <2>1, <2>2, <1>16 DEF Outside
<1>27. Fresh(empty, p2, b2, Used(p2, b2))
  BY DEF Fresh
<1>28. LeadingTo(inner, inner.done, w, b2)
  BY <1>3 DEF LeadingTo
<1>29. At(inner, empty, p2, w, b2, lists2, Used(p2, b2))
  BY <1>19, <1>20, <1>21, <1>22, <1>23, <1>24, <1>25, <1>26, <1>27 DEF At, Agreed
<1> QED BY <1>3, <1>5, <1>28, <1>29 DEF q, f, path, recurses, parentPath, trusted, inner, empty, w

(* The inductive invariant.                                                *)
CssInvariant ==
  Framed(containers, cssom, page, locals, builder) /\ Agreed(page, builder)

(* A container that is past one more node.                                 *)
LEMMA PassedContainer ==
  ASSUME NEW c, NEW l, NEW p, NEW v, NEW b, NEW lists, NEW old,
         At(c, l, p, v, b, lists, old), Static(c), c.done < Len(c.nodes),
         LeadingTo(c, c.done + 1, v, b)
  PROVE  LET d == [c EXCEPT !.done = @ + 1] IN
         At(d, l, p, v, b, lists, old) /\ Static(d) /\ LeadingTo(d, d.done, v, b)
<1> DEFINE n == c.done + 1
           d == [c EXCEPT !.done = n]
<1>1. /\ c \in CssContainers /\ l \in CssLists /\ v \in CssLocals /\ ListFrame(c, l)
      /\ SyncedFrame(c, l, v, b) /\ c.done \in Nat
  BY FrameTypes DEF CssContainers
<1>2. n \in Nat /\ n <= Len(c.nodes)
  <2>1. Len(c.nodes) \in Nat
    <3>1. c.nodes \in Seq([kind: Certain \cup Uncertain, nodes: NodeLists])
      BY <1>1, CssAssumption DEF CssContainers
    <3> QED BY <3>1
  <2> QED BY <1>1, <2>1
<1> HIDE DEF n
<1>3. d \in CssContainers
  BY <1>1, <1>2, Zenon DEF CssContainers
<1>4. /\ d.kind = c.kind /\ d.nodes = c.nodes /\ d.owner = c.owner /\ d.foreign = c.foreign
      /\ d.done = n
  BY <1>1 DEF CssContainers
<1> HIDE DEF d
<1>5. ListFrame(d, l) /\ SyncedFrame(d, l, v, b)
  BY <1>1, <1>4 DEF ListFrame, SyncedFrame, Alike
<1>6. At(d, l, p, v, b, lists, old)
  BY <1>1, <1>3, <1>4, <1>5, Retouched, Zenon
<1>7. Static(d)
  BY <1>2, <1>4 DEF Static
<1>8. LeadingTo(d, d.done, v, b)
  BY <1>4 DEF LeadingTo, n
<1> QED BY <1>6, <1>7, <1>8 DEF d, n

(* The innermost frame.                                                    *)
LEMMA TopFrame ==
  ASSUME CssInvariant, containers # <<>>
  PROVE  /\ Top \in Nat /\ Top > 0 /\ Top \in 1 .. Top
         /\ Len(cssom) = Top /\ Len(locals) = Top
         /\ containers \in Seq(CssContainers) /\ cssom \in Seq(CssLists)
         /\ locals \in Seq(CssLocals)
         /\ At(Here, cssom[Top], page, locals[Top], builder, cssom, Used(page, builder))
         /\ Static(Here) /\ LeadingTo(Here, Here.done, locals[Top], builder)
         /\ Len(cssom[Top].path) = Top - 1
         /\ Here \in CssContainers /\ Here.done \in Nat /\ Len(Here.nodes) \in Nat
<1>1. /\ containers \in Seq(CssContainers) /\ cssom \in Seq(CssLists)
      /\ locals \in Seq(CssLocals) /\ Len(cssom) = Top /\ Len(locals) = Top
  BY DEF CssInvariant, Framed, Top
<1>2. Top \in Nat /\ Top > 0 /\ Top \in 1 .. Top
  BY <1>1 DEF Top
<1>3. FrameOf(Top, Here, cssom[Top], page, locals[Top], builder, cssom)
  BY <1>2 DEF CssInvariant, Framed, Top, Here
<1>4. Here \in CssContainers
  BY <1>1, <1>2 DEF Here, Top
<1>5. Here.done \in Nat
  BY <1>4 DEF CssContainers
<1>6. Len(Here.nodes) \in Nat
  <2>1. Here.nodes \in Seq([kind: Certain \cup Uncertain, nodes: NodeLists])
    BY <1>4, CssAssumption DEF CssContainers
  <2> QED BY <2>1
<1> QED BY <1>1, <1>2, <1>3, <1>4, <1>5, <1>6 DEF FrameOf

(* What a step in the innermost container makes of the frames.             *)
LEMMA PassesOn ==
  ASSUME CssInvariant, containers # <<>>, Here.done < Len(Here.nodes),
         NEW l2, NEW p2, NEW v2, NEW b2,
         At(Here, l2, p2, v2, b2, cssom, Used(page, builder)),
         LeadingTo(Here, Here.done + 1, v2, b2), Grown(builder, b2),
         l2.path = cssom[Top].path
  PROVE  /\ Framed(Passed, [cssom EXCEPT ![Top] = l2], p2, [locals EXCEPT ![Top] = v2], b2)
         /\ Agreed(p2, b2)
<1> DEFINE d == [Here EXCEPT !.done = @ + 1]
<1>1. /\ Top \in 1 .. Top /\ Top > 0 /\ Static(Here) /\ containers \in Seq(CssContainers)
  BY TopFrame
<1>2. /\ At(d, l2, p2, v2, b2, cssom, Used(page, builder)) /\ Static(d)
      /\ LeadingTo(d, d.done, v2, b2)
  BY <1>1, PassedContainer
<1>3. Passed = [containers EXCEPT ![Top] = d]
  BY <1>1 DEF Passed, Here, Top
<1> HIDE DEF d
<1>4. Framed(containers, cssom, page, locals, builder) /\ Len(containers) > 0
  BY <1>1 DEF CssInvariant, Top
<1>5. Framed([containers EXCEPT ![Len(containers)] = d], [cssom EXCEPT ![Len(containers)] = l2],
             p2, [locals EXCEPT ![Len(containers)] = v2], b2)
  BY <1>2, <1>4, FramesPassed DEF Top
<1>6. Agreed(p2, b2)
  BY AtAgreed
<1> QED BY <1>3, <1>5, <1>6 DEF Top

(* A step past each kind of node, and one out of a container, keeps it.    *)
LEMMA BlankStep ==
  ASSUME CssInvariant, containers # <<>>, Here.done < Len(Here.nodes),
         Blank(Here.done + 1)
  PROVE  CssInvariant'
<1> DEFINE l == cssom[Top]
           v == locals[Top]
<1>1. /\ At(Here, l, page, v, builder, cssom, Used(page, builder))
      /\ Static(Here) /\ LeadingTo(Here, Here.done, v, builder) /\ Top \in 1 .. Top
      /\ Here.done \in Nat /\ builder.visitedRules \in Nat
      /\ cssom \in Seq(CssLists) /\ locals \in Seq(CssLocals) /\ Len(cssom) = Top
      /\ Len(locals) = Top
  BY TopFrame, FrameTypes
<1>2. LeadingTo(Here, Here.done + 1, v, builder)
  <2> SUFFICES ASSUME \A j \in 1 .. Here.done : Here.nodes[j].kind \in Leading,
                      NEW j \in 1 .. (Here.done + 1)
               PROVE  Here.nodes[j].kind \in Leading
    BY <1>1 DEF LeadingTo
  <2>1. Here.nodes[Here.done + 1].kind = "blank"
    BY DEF Blank
  <2> QED BY <2>1, <1>1 DEF Leading
<1>3. Grown(builder, builder)
  BY <1>1 DEF Grown
<1>4. /\ Framed(Passed, [cssom EXCEPT ![Top] = l], page, [locals EXCEPT ![Top] = v], builder)
      /\ Agreed(page, builder)
  BY <1>1, <1>2, <1>3, PassesOn
<1>5. [cssom EXCEPT ![Top] = l] = cssom /\ [locals EXCEPT ![Top] = v] = locals
  BY <1>1
<1>6. Framed(Passed, cssom, page, locals, builder)
  BY <1>4, <1>5
<1> QED BY <1>4, <1>6 DEF Blank, CssInvariant

LEMMA DeclarationStep ==
  ASSUME NoStrayDeclarations, CssInvariant, containers # <<>>, Here.done < Len(Here.nodes),
         Declaration(Here.done + 1)
  PROVE  CssInvariant'
<1> DEFINE c == Here
           l == cssom[Top]
           v == locals[Top]
           l2 == CssomDeclaration(c, l)
           v2 == IndexDeclaration(c, v)
           pending == l.pending \/ (c.owner # NoRule /\ (l.seen \/ c.kind \notin Styles))
           stray == l.stray \/ c.kind \in {"sheet", "import"}
           waits == v.declarationsPending \/ (c.owner # NoRule /\ v.cssRuleSeen)
<1>1. /\ At(c, l, page, v, builder, cssom, Used(page, builder))
      /\ Static(c) /\ LeadingTo(c, c.done, v, builder) /\ Top \in 1 .. Top
      /\ c \in CssContainers /\ c.done \in Nat /\ Len(c.nodes) \in Nat
      /\ cssom \in Seq(CssLists) /\ locals \in Seq(CssLocals) /\ Len(cssom) = Top
      /\ Len(locals) = Top
  BY TopFrame
<1>2. /\ l \in CssLists /\ v \in CssLocals /\ ListFrame(c, l) /\ EnteredFrame(c, v, builder)
      /\ SyncedFrame(c, l, v, builder) /\ builder.visitedRules \in Nat
      /\ l.pending \in BOOLEAN /\ l.stray \in BOOLEAN /\ v.declarationsPending \in BOOLEAN
      /\ v.entered \in BOOLEAN
  BY <1>1, FrameTypes
<1>3. c.kind # "sheet"
  <2>1. c.nodes[c.done + 1].kind = "declaration"
    BY DEF Declaration
  <2>2. c.nodes \in NodeLists
    BY <1>1 DEF CssContainers
  <2>3. c.done + 1 \in 1 .. Len(c.nodes)
    BY <1>1
  <2>4. c.done + 1 \in DOMAIN c.nodes
    BY <2>2, <2>3, NodeTypes
  <2> QED BY <1>1, <2>1, <2>4 DEF Static, NoStrayDeclarations
<1>4. pending \in BOOLEAN /\ stray \in BOOLEAN /\ waits \in BOOLEAN
  OBVIOUS
<1>5. l2 = [l EXCEPT !.pending = pending, !.stray = stray]
  BY <1>2 DEF CssomDeclaration, CssLists
<1>6. v2 = [v EXCEPT !.declarationsPending = waits]
  BY <1>2 DEF IndexDeclaration, CssLocals
<1>7. /\ pending => l.pending \/ c.owner # NoRule
      /\ stray => l.stray \/ c.foreign
  BY <1>1, <1>3 DEF Static
<1>8. v.entered /\ Synced(v, builder) => (waits <=> pending)
  <2> SUFFICES ASSUME v.entered, Synced(v, builder) PROVE waits <=> pending
    OBVIOUS
  <2>1. v.declarationsPending = l.pending /\ (v.cssRuleSeen <=> (l.seen \/ c.kind # "style"))
    BY <1>2 DEF SyncedFrame, Alike
  <2>2. c.kind \in Styles <=> c.kind = "style"
    BY <1>2 DEF EnteredFrame, Styles
  <2> QED BY <2>1, <2>2
<1> HIDE DEF pending, stray, waits
<1>9. l2 \in CssLists
  BY <1>2, <1>4, <1>5, Zenon DEF CssLists
<1>10. v2 \in CssLocals
  BY <1>2, <1>4, <1>6, Zenon DEF CssLocals
<1>11. /\ l2.path = l.path /\ l2.kept = l.kept /\ l2.count = l.count /\ l2.seen = l.seen
       /\ l2.pending = pending /\ l2.stray = stray
  BY <1>2, <1>5 DEF CssLists
<1>12. /\ v2.entered = v.entered /\ v2.pathTrusted = v.pathTrusted
       /\ v2.parentPath = v.parentPath /\ v2.cssomIndex = v.cssomIndex
       /\ v2.cssRuleSeen = v.cssRuleSeen /\ v2.declarationsPending = waits
  BY <1>2, <1>6 DEF CssLocals
<1> HIDE DEF l2, v2
<1>13. ListFrame(c, l2)
  BY <1>2, <1>4, <1>7, <1>11 DEF ListFrame
<1>14. SyncedFrame(c, l2, v2, builder)
  <2> SUFFICES ASSUME v2.entered, Synced(v2, builder) PROVE Alike(c, l2, v2)
    BY DEF SyncedFrame
  <2>1. v.entered /\ Synced(v, builder)
    BY <1>12 DEF Synced
  <2>2. Alike(c, l, v)
    BY <1>2, <2>1 DEF SyncedFrame
  <2>3. waits = pending
    BY <1>4, <1>8, <2>1
  <2> QED BY <2>2, <2>3, <1>11, <1>12 DEF Alike
<1>15. At(c, l2, page, v2, builder, cssom, Used(page, builder))
  BY <1>1, <1>9, <1>10, <1>11, <1>12, <1>13, <1>14, Retouched, Zenon
<1>16. LeadingTo(c, c.done + 1, v2, builder)
  BY <1>3 DEF LeadingTo
<1>17. Grown(builder, builder)
  BY <1>2 DEF Grown
<1>18. /\ Framed(Passed, [cssom EXCEPT ![Top] = l2], page, [locals EXCEPT ![Top] = v2], builder)
       /\ Agreed(page, builder)
  BY <1>11, <1>15, <1>16, <1>17, PassesOn
<1>19. /\ containers' = Passed /\ cssom' = [cssom EXCEPT ![Top] = l2]
       /\ locals' = [locals EXCEPT ![Top] = v2] /\ page' = page /\ builder' = builder
  BY <1>1 DEF Declaration, l2, v2
<1> QED BY <1>18, <1>19 DEF CssInvariant

LEMMA ConstructStep ==
  ASSUME CssInvariant, containers # <<>>, Here.done < Len(Here.nodes),
         Construct(Here.done + 1)
  PROVE  CssInvariant'
<1> DEFINE c == Here
           k == c.done + 1
           l == cssom[Top]
           v == locals[Top]
           s == [locals |-> v, builder |-> builder]
           r == CollectRule(c, k, [list |-> l, page |-> page])
           t == IF v.entered THEN IndexNode(c, k, s) ELSE s
           f == FlushDeclarations(c, s)
           q == Runs(c, [list |-> l, page |-> page])
           path == Append(l.path, q.list.count)
           w == LocalsOf(c.nodes[k].kind, Append(v.parentPath, f.locals.cssomIndex),
                         Recurses(c, k, v),
                         v.pathTrusted /\ f.builder.visitedRules < CssRules)
           empty == EmptyList(path, Descends(c, k, l))
           passed == [cssom EXCEPT ![Top] = r.list]
           counted == [locals EXCEPT ![Top] = t.locals]
<1>1. /\ At(c, l, page, v, builder, cssom, Used(page, builder))
      /\ Static(c) /\ LeadingTo(c, c.done, v, builder) /\ Top \in Nat /\ Top \in 1 .. Top
      /\ c \in CssContainers /\ c.done \in Nat /\ Len(c.nodes) \in Nat
      /\ cssom \in Seq(CssLists) /\ locals \in Seq(CssLocals) /\ Len(cssom) = Top
      /\ Len(locals) = Top /\ Len(l.path) = Top - 1
      /\ containers \in Seq(CssContainers)
  BY TopFrame
<1>2. /\ k \in 1 .. Len(c.nodes) /\ k \in Nat
      /\ c.nodes[k].kind \notin {"blank", "declaration"}
  BY <1>1 DEF Construct
<1>3. /\ At(c, r.list, r.page, t.locals, t.builder, cssom, Used(page, builder))
      /\ LeadingTo(c, k, t.locals, t.builder) /\ Grown(builder, t.builder)
  BY <1>1, <1>2, ConstructVisits
<1>4. l \in CssLists /\ page \in CssPages
  BY <1>1, FrameTypes
<1>5. r.list.path = l.path
  BY <1>1, <1>2, <1>4, CollectedPath
<1>6. /\ page' = r.page /\ builder' = t.builder
      /\ IF Top <= CssRuleDepth /\ (Descends(c, k, l) \/ Recurses(c, k, v))
         THEN /\ containers' = Append(Passed, Inner(c, k))
              /\ cssom' = Append(passed, empty) /\ locals' = Append(counted, w)
         ELSE containers' = Passed /\ cssom' = passed /\ locals' = counted
  BY DEF Construct, Listed, Walked
<1>7. v.entered => t.builder = IndexNode(c, k, s).builder
  OBVIOUS
<1> HIDE DEF r, t
<1>8. Framed(Passed, passed, r.page, counted, t.builder) /\ Agreed(r.page, t.builder)
  BY <1>3, <1>5, PassesOn
<1>9. CASE ~(Top <= CssRuleDepth /\ (Descends(c, k, l) \/ Recurses(c, k, v)))
  BY <1>6, <1>8, <1>9 DEF CssInvariant
<1>10. CASE Top <= CssRuleDepth /\ (Descends(c, k, l) \/ Recurses(c, k, v))
  <2>1. /\ Len(l.path) < CssRuleDepth
        /\ passed \in Seq(CssLists) /\ Len(passed) = Len(l.path) + 1
        /\ passed[Len(l.path) + 1] = r.list
        /\ \A j \in 1 .. Len(l.path) : passed[j] = cssom[j]
    <3>1. r.list \in CssLists
      BY <1>3, FrameTypes
    <3> QED BY <3>1, <1>1, <1>10, CssAssumption
  <2>2. /\ At(Inner(c, k), empty, r.page, w, t.builder, passed, Used(r.page, t.builder))
        /\ Len(path) = Len(l.path) + 1
        /\ Static(Inner(c, k)) /\ LeadingTo(Inner(c, k), Inner(c, k).done, w, t.builder)
    BY <1>1, <1>2, <1>3, <1>7, <1>10, <2>1, EnteredContainer DEF r
  <2>3. empty.path = path /\ Len(Passed) = Top
    <3>1. Len(Passed) = Top
      BY <1>1 DEF Passed, Top
    <3> QED BY <3>1 DEF EmptyList
  <2>4. Len(empty.path) = Len(Passed)
    BY <1>1, <2>2, <2>3
  <2> HIDE DEF empty, w, passed, counted
  <2>5. Framed(Append(Passed, Inner(c, k)), Append(passed, empty), r.page,
               Append(counted, w), t.builder)
    BY <1>8, <2>2, <2>4, FramesPushed
  <2>6. /\ containers' = Append(Passed, Inner(c, k)) /\ cssom' = Append(passed, empty)
        /\ locals' = Append(counted, w)
    BY <1>6, <1>10
  <2> QED BY <1>6, <1>8, <2>5, <2>6 DEF CssInvariant
<1> QED BY <1>9, <1>10

LEMMA LeaveStep ==
  ASSUME CssInvariant, containers # <<>>, Leave
  PROVE  CssInvariant'
<1> DEFINE c == Here
           l == cssom[Top]
           v == locals[Top]
           s == [locals |-> v, builder |-> builder]
           q == Runs(c, [list |-> l, page |-> page])
           f == FlushDeclarations(c, s)
           b2 == IF v.entered THEN f.builder ELSE builder
<1>1. /\ At(c, l, page, v, builder, cssom, Used(page, builder))
      /\ Top \in Nat /\ Top > 0 /\ c \in CssContainers
  BY TopFrame
<1>2. /\ l \in CssLists /\ page \in CssPages /\ v \in CssLocals /\ IsBuilder(builder)
      /\ builder.visitedRules \in Nat /\ v.entered \in BOOLEAN
  BY <1>1, FrameTypes
<1>3. Grown(builder, b2)
  <2>1. builder.visitedRules + 1 \in Nat
    BY <1>2
  <2>2. f = Tries(s, c.owner) \/ f = s
    BY DEF FlushDeclarations
  <2>3. TriedBuilder(v, builder, c.owner, Tries(s, c.owner).builder)
    BY <1>1, <1>2, TriedParts DEF CssContainers
  <2>4. Grown(builder, f.builder)
    BY <1>2, <2>2, <2>3 DEF TriedBuilder, Grown
  <2> QED BY <2>4, <1>2 DEF Grown
<1>4. q.list.path = l.path
  <2>1. 0 \in Nat
    OBVIOUS
  <2> QED BY <1>1, <1>2, <2>1, CollectedPath
<1>5. Agreed(q.page, b2) /\ Outside(q.list, q.page, b2, cssom)
  <2>1. CASE v.entered /\ Synced(v, builder)
    <3>1. At(c, q.list, q.page, f.locals, f.builder, cssom, Used(page, builder))
      BY <1>1, <2>1, BothFlush
    <3>2. b2 = f.builder
      BY <2>1
    <3> QED BY <3>1, <3>2, AtAgreed
  <2>2. CASE v.entered /\ ~Synced(v, builder)
    <3>1. /\ At(c, l, page, f.locals, f.builder, cssom, Used(page, builder))
          /\ ~Synced(f.locals, f.builder)
      BY <1>1, <2>2, IndexFlushes
    <3>2. At(c, q.list, q.page, f.locals, f.builder, cssom, Used(page, builder))
      BY <3>1, BrowserRuns
    <3>3. b2 = f.builder
      BY <2>2
    <3> QED BY <3>2, <3>3, AtAgreed
  <2>3. CASE ~v.entered
    <3>1. At(c, q.list, q.page, v, builder, cssom, Used(page, builder))
      BY <1>1, <2>3, BrowserRuns
    <3>2. b2 = builder
      BY <2>3
    <3> QED BY <3>1, <3>2, AtAgreed
  <2> QED BY <2>1, <2>2, <2>3
<1>6. /\ page' = q.page /\ builder' = b2
      /\ containers' = Front(containers) /\ cssom' = Front(cssom) /\ locals' = Front(locals)
  BY DEF Leave, Listed, Walked
<1> HIDE DEF q, b2
<1>7. Framed(containers, cssom, page, locals, builder) /\ Len(containers) > 0
  BY <1>1 DEF CssInvariant, Top
<1>8. q.list.path = cssom[Len(containers)].path
  BY <1>4 DEF Top
<1>9. Framed(Front(containers), Front(cssom), q.page, Front(locals), b2)
  BY <1>3, <1>5, <1>7, <1>8, FramesPopped
<1> QED BY <1>5, <1>6, <1>9 DEF CssInvariant

(* It holds when nothing has been read.                                    *)
LEMMA CssInitial == WalkInit => CssInvariant
<1> SUFFICES ASSUME WalkInit PROVE CssInvariant
  OBVIOUS
<1> DEFINE l == EmptyList(<<>>, TRUE)
           v == LocalsOf("sheet", <<>>, TRUE, TRUE)
<1>1. PICK sheet \in Sheets :
        containers = <<[kind |-> "sheet", nodes |-> sheet, at |-> <<>>, done |-> 0,
                        owner |-> NoRule, foreign |-> FALSE]>>
  BY DEF WalkInit
<1> DEFINE c == [kind |-> "sheet", nodes |-> sheet, at |-> <<>>, done |-> 0,
                 owner |-> NoRule, foreign |-> FALSE]
<1>2. /\ cssom = <<l>> /\ locals = <<v>> /\ page = [rulesVisited |-> 0, facts |-> {}]
      /\ builder = [visitedRules |-> 0, pathIndex |-> <<>>, doubt |-> FALSE]
  BY DEF WalkInit
<1>3. <<>> \in Positions /\ NoRule \in Positions /\ Len(<<>>) = 0
  BY DEF Positions, NoRule
<1>4. c \in CssContainers /\ Static(c)
  <2>1. sheet \in NodeLists /\ Len(sheet) \in Nat
    <3>1. sheet \in Seq([kind: Certain \cup Uncertain, nodes: NodeLists])
      BY CssAssumption
    <3> QED BY <3>1, CssAssumption
  <2>2. c \in CssContainers
    BY <1>3, <2>1 DEF CssContainers
  <2> QED BY <2>1, <2>2 DEF Static
<1>5. l \in CssLists /\ l.path = <<>> /\ l.kept /\ ~l.stray /\ ~l.pending /\ l.count = 0
      /\ l.pending = FALSE /\ ~l.seen
  BY <1>3 DEF CssLists, EmptyList
<1>6. /\ v \in CssLocals /\ v.entered /\ v.pathTrusted /\ v.parentPath = <<>> /\ v.cssomIndex = 0
      /\ v.declarationsPending = FALSE /\ v.cssRuleSeen
  BY <1>3 DEF CssLocals, LocalsOf
<1>7. page \in CssPages /\ page.facts = {} /\ page.rulesVisited = 0
  BY <1>2 DEF CssPages
<1>8. IsBuilder(builder) /\ DOMAIN builder.pathIndex = {} /\ ~builder.doubt
      /\ builder.visitedRules = 0
  BY <1>2 DEF IsBuilder
<1>9. c.kind = "sheet" /\ ~c.foreign /\ c.done = 0 /\ c.owner = NoRule
  OBVIOUS
<1> HIDE DEF c, l, v
<1>10. Agreed(page, builder)
  BY <1>7, <1>8 DEF Agreed, PathsFit, PathsAgree, PathsFound, Lags
<1>11. Used(page, builder) = {}
  BY <1>7, <1>8 DEF Used
<1>12. /\ Typed(c, l, page, v, builder) /\ ListFrame(c, l) /\ EnteredFrame(c, v, builder)
       /\ SyncedFrame(c, l, v, builder)
  <2>1. Typed(c, l, page, v, builder)
    BY <1>4, <1>5, <1>6, <1>7, <1>8 DEF Typed
  <2>2. ListFrame(c, l)
    BY <1>5, <1>9 DEF ListFrame, Plain
  <2>3. EnteredFrame(c, v, builder)
    BY <1>6, <1>9 DEF EnteredFrame
  <2>4. SyncedFrame(c, l, v, builder)
    BY <1>5, <1>6, <1>9 DEF SyncedFrame, Alike
  <2> QED BY <2>1, <2>2, <2>3, <2>4
<1>13. AllBehind(l, page, builder) /\ CountFits(l, page) /\ Fresh(l, page, builder, Used(page, builder))
  BY <1>5, <1>7, <1>11 DEF AllBehind, CountFits, Fresh
<1>14. Outside(l, page, builder, <<l>>)
  <2>1. <<l>> \in Seq(CssLists) /\ Len(<<l>>) = 1 /\ CssRuleDepth \in Nat
    BY <1>5, CssAssumption
  <2> QED BY <2>1, <1>3, <1>5 DEF Outside
<1>15. LeadingTo(c, c.done, v, builder)
  BY <1>9 DEF LeadingTo
<1>16. FrameOf(1, c, l, page, v, builder, <<l>>)
  BY <1>3, <1>4, <1>5, <1>10, <1>12, <1>13, <1>14, <1>15 DEF FrameOf, At, Agreed
<1>17. Framed(<<c>>, <<l>>, page, <<v>>, builder)
  <2>1. /\ <<c>> \in Seq(CssContainers) /\ <<l>> \in Seq(CssLists) /\ <<v>> \in Seq(CssLocals)
        /\ Len(<<c>>) = 1 /\ Len(<<l>>) = 1 /\ Len(<<v>>) = 1
        /\ <<c>>[1] = c /\ <<l>>[1] = l /\ <<v>>[1] = v
    BY <1>4, <1>5, <1>6
  <2> QED BY <2>1, <1>16 DEF Framed
<1> QED BY <1>1, <1>2, <1>10, <1>17 DEF CssInvariant, c

(* Every step.                                                             *)
LEMMA CssStep ==
  ASSUME NoStrayDeclarations, CssInvariant, [WalkNext]_walkVars
  PROVE  CssInvariant'
<1>1. CASE UNCHANGED walkVars
  BY <1>1 DEF walkVars, CssInvariant
<1>2. CASE WalkNext
  <2>1. containers # <<>>
    BY <1>2 DEF WalkNext
  <2>2. CASE Leave
    BY <2>1, <2>2, LeaveStep
  <2>3. CASE Read
    BY <2>1, <2>3, BlankStep, DeclarationStep, ConstructStep DEF Read
  <2> QED BY <1>2, <2>2, <2>3 DEF WalkNext
<1> QED BY <1>1, <1>2

\* While the IDE is sure of its place, indexContainer and collectRules number
\* the rules of every list alike; for any stylesheets and limits.
THEOREM WalksStayTogether == NoStrayDeclarations => (WalkSpec => []CssInvariant)
<1>1. ASSUME NoStrayDeclarations PROVE WalkSpec => []CssInvariant
  <2>1. WalkInit => CssInvariant
    BY CssInitial
  <2>2. CssInvariant /\ [WalkNext]_walkVars => CssInvariant'
    BY <1>1, CssStep
  <2> QED BY <2>1, <2>2, PTL DEF WalkSpec
<1> QED BY <1>1

(* It gives both properties.                                               *)
LEMMA WrongRuleFits == CssInvariant => NoWrongRule
<1> SUFFICES ASSUME CssInvariant, NEW fact \in page.facts
             PROVE  FindMatchingCssRules(fact) \in {fact.block, NoRule}
  BY DEF NoWrongRule
<1>1. PathsFit(page) /\ PathsAgree(page, builder)
  BY DEF CssInvariant, Agreed
<1>2. ParseBrowserRulePath(fact.path) = fact.path
  BY <1>1 DEF PathsFit, Within, ParseBrowserRulePath
<1> QED BY <1>1, <1>2 DEF FindMatchingCssRules, PathsAgree

LEMMA NothingLostFits == CssInvariant => NothingLost
<1> SUFFICES ASSUME CssInvariant, ~builder.doubt, NEW fact \in page.facts
             PROVE  FindMatchingCssRules(fact) # NoRule
  BY DEF NothingLost
<1>1. PathsFit(page) /\ PathsAgree(page, builder) /\ PathsFound(page, builder)
  BY DEF CssInvariant, Agreed
<1>2. ParseBrowserRulePath(fact.path) = fact.path /\ fact.block # NoRule
  BY <1>1 DEF PathsFit, Within, ParseBrowserRulePath
<1>3. fact.path \in DOMAIN builder.pathIndex
  BY <1>1 DEF PathsFound
<1> QED BY <1>1, <1>2, <1>3 DEF FindMatchingCssRules, PathsAgree

\* A path never leads to a block other than the one that the browser reported
\* it for (markUncertain, flushDeclarations, visitRule).
THEOREM WrongRuleNever == NoStrayDeclarations => (WalkSpec => []NoWrongRule)
<1>1. ASSUME NoStrayDeclarations PROVE WalkSpec => []NoWrongRule
  <2>1. WalkSpec => []CssInvariant
    BY <1>1, WalksStayTogether
  <2> QED BY <2>1, WrongRuleFits, PTL
<1> QED BY <1>1

\* Every reported path is found, to the last rule that the limits of both walks
\* allow, in a stylesheet that leaves the IDE in no doubt.
THEOREM NothingEverLost == NoStrayDeclarations => (WalkSpec => []NothingLost)
<1>1. ASSUME NoStrayDeclarations PROVE WalkSpec => []NothingLost
  <2>1. WalkSpec => []CssInvariant
    BY <1>1, WalksStayTogether
  <2> QED BY <2>1, NothingLostFits, PTL
<1> QED BY <1>1
=============================================================================
