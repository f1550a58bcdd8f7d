------------------------- MODULE MCEditorPresenter -------------------------
(***************************************************************************)
(* The stylesheets of a family, each with the two walks over it against    *)
(* small limits; and two documents with a cache for one, and an external   *)
(* plugin.  What the editor does is the same whatever its stylesheet       *)
(* holds, so that it is run with one.                                      *)
(***************************************************************************)
EXTENDS EditorPresenter, CssRulePaths

Leaf(kind) == Node(kind, <<>>)
Lists(S, n) == UNION {[1 .. k -> S] : k \in 0 .. n}

(* A family of stylesheets with every kind of construct in every position  *)
(* that either walk tells apart: what stands within a block, what before   *)
(* one, and what the two walks count most differently.                     *)
Nested ==
  {Leaf("declaration"), Leaf("blank"), Leaf("style"), Leaf("dropped"), Leaf("layers"),
   Leaf("import"), Leaf("leaf"),
   Node("group", <<Leaf("declaration")>>),
   Node("group", <<Leaf("style"), Leaf("declaration")>>),
   Node("style", <<Leaf("style"), Leaf("declaration")>>),
   Node("keptStyle", <<Leaf("declaration"), Leaf("style"), Leaf("declaration")>>),
   Node("keptGroup", <<Leaf("style")>>),
   Node("keyframes", <<Leaf("style")>>)}

Outer ==
  {Leaf("blank"), Leaf("style"), Leaf("import"), Node("import", <<Leaf("style")>>),
   Leaf("layers"), Leaf("dropped"), Leaf("keptStyle"),
   Node("keyframes", <<Leaf("style")>>), Leaf("leaf")}

Plainer ==
  {Leaf("declaration"), Leaf("blank"), Leaf("style"), Leaf("dropped"), Leaf("keptStyle"),
   Node("group", <<Leaf("declaration")>>), Node("keptGroup", <<Leaf("style")>>),
   Node("style", <<Leaf("style"), Leaf("declaration")>>)}

(* A block with these contents, between others and within others.          *)
Around(kind, nodes) == {<<a, Node(kind, nodes), Leaf("style")>> : a \in Outer}
Deeper(nodes) == <<Node("style", <<Node("group", nodes), Leaf("style")>>)>>

MCContents == Lists(Nested, 2) \cup Lists(Plainer, 3)
MCSheets ==
  UNION {Around(kind, nodes) : kind \in {"style", "group"}, nodes \in MCContents}
  \cup {Deeper(nodes) : nodes \in MCContents}
  \cup Lists(Outer, 3)

MCNodeLists ==
  MCSheets \cup MCContents
  \cup {<<Node("group", nodes), Leaf("style")>> : nodes \in MCContents}
  \cup {node.nodes : node \in Nested \cup Outer}
  \cup {<<>>}

(* The stylesheet that the editor is run with.                             *)
NoRules == {<<>>}

(* A declaration that stands before every rule, of which the browser and   *)
(* the IDE think differently: with these NoWrongRule fails.                *)
StraySheets == {<<Leaf("declaration")>> \o sheet : sheet \in Lists(Outer, 2)}
StrayNodeLists == StraySheets \cup {node.nodes : node \in Outer}

-----------------------------------------------------------------------------
MCInit == WalkInit /\ Init /\ (containers[1].nodes # <<>> => active = None)

WalkStep == WalkNext /\ UNCHANGED vars

EditorStep ==
  /\ Indexed /\ page.rulesVisited = 0 /\ ~builder.doubt
  /\ Next
  /\ UNCHANGED walkVars

MCNext == WalkStep \/ EditorStep

MCSpec == MCInit /\ [][MCNext]_<<vars, walkVars>> /\ Fairness
=============================================================================
