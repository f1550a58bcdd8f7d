---------------------------- MODULE CssRulePaths ----------------------------
(***************************************************************************)
(* Two walks over one stylesheet that have to agree.  In the page,         *)
(* collectCssFacts walks the browser's CSSOM and gives every fact the path *)
(* of its rule; in the IDE, CssomIndexBuilder walks the source text and    *)
(* predicts which path the browser gave to which block.  Where it cannot   *)
(* tell whether the browser kept a construct, it must not guess.           *)
(*                                                                         *)
(* Both go through the stylesheet in its own order and neither sees what   *)
(* the other does, so that a step here takes both, and the browser that    *)
(* builds the CSSOM, past one node.  The sequences of containers stand for *)
(* the calls of indexContainer and collectRules that have not returned.    *)
(*                                                                         *)
(* A stylesheet is the sequence of its nodes; a block is named by its      *)
(* position, the positions from the root down.  The element matches every  *)
(* selector, and every style rule begins with a declaration of its own.    *)
(* Left out: namespaces, byte budgets, the fallback for facts without a    *)
(* path and what the text of a valid selector or parameter looks like.     *)
(***************************************************************************)
EXTENDS Naturals, Sequences, SequencesExt

CONSTANTS
  CssRules,     \* INSPECT_LIMITS.cssRules: rules visited at most
  CssRuleDepth, \* INSPECT_LIMITS.cssRuleDepth
  NodeLists,    \* the contents of stylesheets and of blocks
  Sheets        \* the stylesheets

(* "blank" is a comment or @charset; "layers" a @layer without a block;    *)
(* "leaf" @font-face and its like; the nodes of an "import" are those of   *)
(* the stylesheet it loads.  The last three are the constructs of which    *)
(* the IDE is uncertain: the browser keeps a style rule, keeps a group, or *)
(* drops the construct and the block that it has.                          *)
Certain ==
  {"blank", "declaration", "style", "group", "layers", "import", "keyframes", "leaf"}
Uncertain == {"keptStyle", "keptGroup", "dropped"}

Node(kind, nodes) == [kind |-> kind, nodes |-> nodes]

(* Where keyframes are defined there is nothing else.                      *)
ASSUME CssAssumption ==
  /\ CssRules \in Nat \ {0} /\ CssRuleDepth \in Nat
  /\ Sheets \subseteq NodeLists
  /\ NodeLists \subseteq Seq([kind: Certain \cup Uncertain, nodes: NodeLists])
  /\ \A list \in NodeLists : \A k \in DOMAIN list :
       list[k].kind = "keyframes" =>
         \A j \in DOMAIN list[k].nodes : list[k].nodes[j].kind \in {"blank", "style"}

VARIABLES
  containers, \* the containers that the walks are in, the outermost first
  cssom,      \* the browser's list of the rules of each
  page,       \* collectCssFacts: the rules visited and the facts of this stylesheet
  locals,     \* the variables of indexContainer for each
  builder     \* CssomIndexBuilder, and whether it was uncertain of anything

walkVars == <<containers, cssom, page, locals, builder>>

NoRule == <<>>
Block(c, k) == Append(c.at, k)

Styles == {"style", "keptStyle"}

(* Rules that hold no style rules of their own.                            *)
Plain == {"keyframes", "leaf"}

-----------------------------------------------------------------------------
(* The browser.  cssom has for a container the path that its rules begin   *)
(* with, how many there are, declarations that wait to be a rule of their  *)
(* own, and whether a rule was seen before.  The facts of this stylesheet  *)
(* are told apart by their URL, so that its number is left out of a path.  *)

(* An @import counts only before every rule other than @layer.             *)
Leading == {"blank", "layers", "import", "dropped"}

Kept(c, k, list) ==
  LET kind == c.nodes[k].kind IN
  /\ list.kept /\ ~list.stray
  /\ IF c.kind \in Plain
     THEN kind = "style"
     ELSE \/ kind \in {"style", "group", "layers", "keptStyle", "keptGroup"}
          \/ /\ kind = "import" /\ c.kind \in {"sheet", "import"}
             /\ \A j \in 1 .. k : c.nodes[j].kind \in Leading
          \/ kind \in Plain /\ c.owner = NoRule

(* What stands at the top of a stylesheet and is no rule is taken for the  *)
(* beginning of the next one, which is dropped with it.                    *)
HasBlock == {"style", "group", "keyframes", "leaf", "keptStyle", "keptGroup", "dropped"}

(* collectRules visits the rule that comes next.                           *)
Visited(s, block, matches) ==
  LET fact == [path |-> Append(s.list.path, s.list.count), block |-> block] IN
  [list |-> [s.list EXCEPT !.count = @ + 1, !.pending = FALSE, !.seen = TRUE],
   page |-> IF s.page.rulesVisited >= CssRules
            THEN s.page
            ELSE [rulesVisited |-> s.page.rulesVisited + 1,
                  facts |-> IF matches THEN s.page.facts \cup {fact} ELSE s.page.facts]]

(* Declarations that follow a nested rule, or that stand in a group within *)
(* a style rule, are rules of their own.                                   *)
Runs(c, s) == IF s.list.pending THEN Visited(s, c.owner, ~c.foreign) ELSE s

Matches(c, k) ==
  ~c.foreign /\ c.kind \notin Plain /\ c.nodes[k].kind \in Styles

CollectRule(c, k, s) ==
  IF Kept(c, k, s.list)
  THEN Visited(Runs(c, s), Block(c, k), Matches(c, k))
  ELSE [s EXCEPT !.list.stray = @ /\ c.nodes[k].kind \notin HasBlock]

(* The rules have rules of their own.                                      *)
Descends(c, k, list) ==
  Kept(c, k, list) /\ c.kind \notin Plain /\ c.nodes[k].kind # "layers"

CssomDeclaration(c, list) ==
  [list EXCEPT !.pending = @ \/ (c.owner # NoRule /\ (list.seen \/ c.kind \notin Styles)),
               !.stray = @ \/ c.kind \in {"sheet", "import"}]

-----------------------------------------------------------------------------
(* CssomIndexBuilder.                                                      *)

(* A path that is met twice is closed.                                     *)
AddPath(index, path, block) ==
  [p \in DOMAIN index \cup {path} |->
     IF p # path THEN index[p] ELSE IF path \in DOMAIN index THEN NoRule ELSE block]

Counted(v) ==
  [v EXCEPT !.cssomIndex = @ + 1, !.cssRuleSeen = TRUE, !.declarationsPending = FALSE]

Counts(s) ==
  [locals |-> Counted(s.locals), builder |-> [s.builder EXCEPT !.visitedRules = @ + 1]]

(* Mutant: the budget is taken to allow one rule less.                     *)
TriesWithinLess(s, block) ==
  [Counts(s) EXCEPT !.builder.pathIndex =
     IF s.locals.pathTrusted /\ s.builder.visitedRules + 1 < CssRules
     THEN AddPath(@, Append(s.locals.parentPath, s.locals.cssomIndex), block)
     ELSE @]

Tries(s, block) ==
  [Counts(s) EXCEPT !.builder.pathIndex =
     IF s.locals.pathTrusted /\ s.builder.visitedRules < CssRules
     THEN AddPath(@, Append(s.locals.parentPath, s.locals.cssomIndex), block)
     ELSE @]

(* Mutant: declarations between two rules are not counted.                 *)
ForgetDeclarations(c, s) == [s EXCEPT !.locals.declarationsPending = FALSE]

FlushDeclarations(c, s) ==
  IF s.locals.declarationsPending /\ c.owner # NoRule THEN Tries(s, c.owner) ELSE s

(* Mutant: what follows an uncertain construct is counted on.              *)
SkipUncertain(c, s) == [s EXCEPT !.builder.doubt = TRUE]

MarkUncertain(c, s) ==
  [locals |-> [s.locals EXCEPT !.pathTrusted = FALSE, !.declarationsPending = FALSE,
                               !.cssRuleSeen = TRUE,
                               !.rootPhase = IF c.kind = "sheet" THEN "body" ELSE @],
   builder |-> [s.builder EXCEPT !.doubt = TRUE]]

(* validSelector and classifyAtRule.                                       *)
IsUncertain(c, k, v) ==
  LET kind == c.nodes[k].kind IN
  \/ kind \in Uncertain
  \/ kind = "import" /\ ~(c.kind = "sheet" /\ v.rootPhase \in {"initial", "imports"})
  \/ kind \in Plain /\ c.owner # NoRule

NextRootPhase(phase, kind) ==
  IF kind = "import" THEN "imports" ELSE IF kind = "layers" THEN phase ELSE "body"

InRootPhase(c, s, phase) ==
  IF c.kind = "sheet" THEN [s EXCEPT !.locals.rootPhase = phase] ELSE s

IndexNode(c, k, s) ==
  LET kind == c.nodes[k].kind
      flushed == FlushDeclarations(c, s)
  IN IF c.kind = "keyframes" /\ kind = "style"
     THEN Counts(flushed)
     ELSE IF IsUncertain(c, k, s.locals)
     THEN MarkUncertain(c, s)
     ELSE IF kind = "style"
     THEN InRootPhase(c, Tries(flushed, Block(c, k)), "body")
     ELSE InRootPhase(c, Counts(flushed), NextRootPhase(s.locals.rootPhase, kind))

(* indexContainer calls itself.                                            *)
Recurses(c, k, v) ==
  /\ v.entered /\ c.kind # "keyframes"
  /\ ~IsUncertain(c, k, v)
  /\ c.nodes[k].kind \in {"style", "group", "keyframes"}

IndexDeclaration(c, v) ==
  [v EXCEPT !.declarationsPending = @ \/ (c.owner # NoRule /\ v.cssRuleSeen)]

-----------------------------------------------------------------------------
Top == Len(containers)
Here == containers[Top]
Passed == [containers EXCEPT ![Top].done = @ + 1]

Listed == [list |-> cssom[Top], page |-> page]
Walked == [locals |-> locals[Top], builder |-> builder]

EmptyList(path, kept) ==
  [path |-> path, kept |-> kept, count |-> 0, pending |-> FALSE, seen |-> FALSE,
   stray |-> FALSE]

LocalsOf(kind, parentPath, entered, trusted) ==
  [entered |-> entered, parentPath |-> parentPath, cssomIndex |-> 0, pathTrusted |-> trusted,
   cssRuleSeen |-> kind # "style", declarationsPending |-> FALSE, rootPhase |-> "initial"]

Inner(c, k) ==
  LET kind == c.nodes[k].kind IN
  [kind |-> kind, nodes |-> c.nodes[k].nodes, at |-> Block(c, k), done |-> 0,
   owner |-> IF kind \in Styles
             THEN Block(c, k) ELSE IF kind = "import" THEN NoRule ELSE c.owner,
   foreign |-> c.foreign \/ kind = "import"]

WalkInit ==
  /\ \E sheet \in Sheets :
       containers = <<[kind |-> "sheet", nodes |-> sheet, at |-> <<>>, done |-> 0,
                       owner |-> NoRule, foreign |-> FALSE]>>
  /\ cssom = <<EmptyList(<<>>, TRUE)>>
  /\ page = [rulesVisited |-> 0, facts |-> {}]
  /\ locals = <<LocalsOf("sheet", <<>>, TRUE, TRUE)>>
  /\ builder = [visitedRules |-> 0, pathIndex |-> <<>>, doubt |-> FALSE]

Blank(k) ==
  /\ Here.nodes[k].kind = "blank"
  /\ containers' = Passed
  /\ UNCHANGED <<cssom, page, locals, builder>>

Declaration(k) ==
  /\ Here.nodes[k].kind = "declaration"
  /\ containers' = Passed
  /\ cssom' = [cssom EXCEPT ![Top] = CssomDeclaration(Here, @)]
  /\ locals' = [locals EXCEPT ![Top] = IndexDeclaration(Here, @)]
  /\ UNCHANGED <<page, builder>>

(* A rule, and the container that either walk enters with it.              *)
Construct(k) ==
  LET read == CollectRule(Here, k, Listed)
      indexed == IF Walked.locals.entered THEN IndexNode(Here, k, Walked) ELSE Walked
      descends == Descends(Here, k, cssom[Top])
      recurses == Recurses(Here, k, locals[Top])
      path == Append(cssom[Top].path, Runs(Here, Listed).list.count)
      flushed == FlushDeclarations(Here, Walked)
      parentPath == Append(locals[Top].parentPath, flushed.locals.cssomIndex)
      trusted == locals[Top].pathTrusted /\ flushed.builder.visitedRules < CssRules
      passed == [cssom EXCEPT ![Top] = read.list]
      counted == [locals EXCEPT ![Top] = indexed.locals]
  IN /\ Here.nodes[k].kind \notin {"blank", "declaration"}
     /\ page' = read.page
     /\ builder' = indexed.builder
     /\ IF Top <= CssRuleDepth /\ (descends \/ recurses)
        THEN /\ containers' = Append(Passed, Inner(Here, k))
             /\ cssom' = Append(passed, EmptyList(path, descends))
             /\ locals' = Append(counted,
                            LocalsOf(Here.nodes[k].kind, parentPath, recurses, trusted))
        ELSE containers' = Passed /\ cssom' = passed /\ locals' = counted

Read == Here.done < Len(Here.nodes)
          /\ \E k \in {Here.done + 1} : Blank(k) \/ Declaration(k) \/ Construct(k)

(* The end of a container, where the last declarations count.              *)
Leave ==
  /\ Here.done = Len(Here.nodes)
  /\ page' = Runs(Here, Listed).page
  /\ builder' = IF Walked.locals.entered
                THEN FlushDeclarations(Here, Walked).builder ELSE builder
  /\ containers' = Front(containers) /\ cssom' = Front(cssom) /\ locals' = Front(locals)

WalkNext == containers # <<>> /\ (Read \/ Leave)

WalkSpec == WalkInit /\ [][WalkNext]_walkVars

-----------------------------------------------------------------------------
(* findMatchingCssRules for a fact with a path, once the index is built.   *)

ParseBrowserRulePath(path) ==
  IF /\ Len(path) \in 1 .. (CssRuleDepth + 1)
     /\ \A k \in DOMAIN path : path[k] < CssRules
  THEN path ELSE NoRule

FindMatchingCssRules(fact) ==
  LET path == ParseBrowserRulePath(fact.path) IN
  IF path \in DOMAIN builder.pathIndex THEN builder.pathIndex[path] ELSE NoRule

Indexed == containers = <<>>

(* No block is highlighted that the browser did not apply: the IDE's walk  *)
(* over the text never gives a path to a block other than the browser's.   *)
(* (It does after a declaration outside of every block, which the browser  *)
(* takes for the beginning of the next rule and the IDE passes over.)      *)
NoWrongRule ==
  Indexed => \A fact \in page.facts : FindMatchingCssRules(fact) \in {fact.block, NoRule}

(* Every rule the page reports is found, unless the stylesheet holds a     *)
(* construct that the IDE says it is uncertain of.                         *)
NothingLost ==
  Indexed /\ ~builder.doubt =>
    \A fact \in page.facts : FindMatchingCssRules(fact) # NoRule
=============================================================================
