------------------------------ MODULE PathTree ------------------------------
(***************************************************************************)
(* The tree that keeps the records of a ResultSet in path order            *)
(* (src/path_tree.c): an AVL tree whose nodes hold positions in the items  *)
(* array.  A path is a number and strcmp is <.  result_set_push calls      *)
(* path_tree_insert under the set's mutex, after appending the record; the *)
(* reports call path_tree_inorder when all insertions are over.            *)
(*                                                                         *)
(* The nodes are on the heap here as in the code, and the two recursions   *)
(* take one call at a time.  A PathTreeNode ** is a place: where the link  *)
(* to a node is stored.  A node is named by the record it was allocated    *)
(* for.                                                                    *)
(***************************************************************************)
EXTENDS Integers, Sequences, SequencesExt, FiniteSets

CONSTANTS
  Path,         \* a set of numbers
  MaxRecords,   \* bound on the length of the items array
  MaxRepeats    \* bound on the records whose path had one already

ASSUME TreeAssumption ==
  /\ Path \subseteq Int
  /\ MaxRecords \in Nat
  /\ MaxRepeats \in Nat

VARIABLES
  items,        \* the path of each record
  tree,         \* what the links and the fields of the nodes hold
  pc,           \* "down" and "up" in insert_node, "walk" in path_tree_inorder
  stack,        \* the places the calls of insert_node in progress were given
  outcome,      \* rc of the last insertion, as soon as it is known
  cursor,       \* the node path_tree_inorder is called with
  open,         \* the nodes whose left subtree is being walked
  visited       \* the positions the visitor was called with

insertVars == <<items, tree, stack, outcome>>
walkVars == <<cursor, open, visited>>
vars == <<insertVars, pc, walkVars>>

Null == 0
Node == 1 .. MaxRecords
Side == {"left", "right"}
Root == <<Null, "root">>
Place == {Root} \cup (Node \X Side)

Other(s) == IF s = "left" THEN "right" ELSE "left"

InUse == {n \in Node : tree.index[n] # Null}

\* node_height of what a place links to.
Height(t, place) == IF t.link[place] = Null THEN 0 ELSE t.height[t.link[place]]

HeightAbove(t, node) ==
  LET left == Height(t, <<node, "left">>)
      right == Height(t, <<node, "right">>)
  IN 1 + (IF left > right THEN left ELSE right)

UpdateHeight(t, node) == [t EXCEPT !.height[node] = HeightAbove(t, node)]

\* A broken variant: the inner subtree is dropped.
RotateDropping(t, place, s) ==
  LET node == t.link[place]
      child == t.link[<<node, s>>]
  IN UpdateHeight(UpdateHeight(
       [t EXCEPT !.link = [@ EXCEPT ![<<node, s>>] = Null,
                                    ![<<child, Other(s)>>] = node,
                                    ![place] = child]], node), child)

\* rotate_right for the left side, rotate_left for the right one: the child on
\* side s takes the node's place, and the node takes over its inner subtree.
Rotate(t, place, s) ==
  LET node == t.link[place]
      child == t.link[<<node, s>>]
  IN UpdateHeight(UpdateHeight(
       [t EXCEPT !.link = [@ EXCEPT ![<<node, s>>] = t.link[<<child, Other(s)>>],
                                    ![<<child, Other(s)>>] = node,
                                    ![place] = child]], node), child)

\* A broken variant: the single rotations only.
LightenedSingle(t, place, s) == Rotate(t, place, s)

\* The subtree on side s is too high: an inner grandchild that is the higher
\* one is rotated outwards first.
Lightened(t, place, s) ==
  LET side == <<t.link[place], s>>
      child == t.link[side]
  IN Rotate(IF Height(t, <<child, s>>) < Height(t, <<child, Other(s)>>)
            THEN Rotate(t, side, Other(s)) ELSE t, place, s)

\* *place = rebalance(*place).
Rebalance(tr, place) ==
  LET node == tr.link[place]
      t == UpdateHeight(tr, node)
      balance == Height(t, <<node, "left">>) - Height(t, <<node, "right">>)
  IN CASE balance > 1 -> Lightened(t, place, "left")
       [] balance < -1 -> Lightened(t, place, "right")
       [] OTHER -> t

----------------------------------------------------------------------------

Init ==
  /\ items = <<>>
  /\ tree = [link |-> [p \in Place |-> Null], height |-> [n \in Node |-> 0],
             index |-> [n \in Node |-> Null]]
  /\ pc = "idle"
  /\ stack = <<>>
  /\ outcome = "none"
  /\ cursor = Null
  /\ open = <<>>
  /\ visited = <<>>

Goes(from, to) ==
  /\ pc = from
  /\ pc' = to

----------------------------------------------------------------------------
(* result_set_push and insert_node *)

Known(path) == \E i \in 1 .. Len(items) : items[i] = path

Repeats == Len(items) - Cardinality({items[i] : i \in 1 .. Len(items)})

\* A broken variant: the position is taken after the count was incremented.
PositionAfterNewest == Len(items) + 1

\* Where the record just appended is.
PositionOfNewest == Len(items)

\* result_set_push appends a record and calls path_tree_insert.
Insert(path) ==
  /\ Goes("idle", "down")
  /\ Len(items) < MaxRecords
  /\ Known(path) => Repeats < MaxRepeats
  /\ items' = Append(items, path)
  /\ stack' = <<Root>>
  /\ UNCHANGED <<tree, outcome, walkVars>>

\* *root of the innermost call.
Here == tree.link[Last(stack)]

PathOf(node) == items[tree.index[node]]

\* compare_records.
NewPath == items[PositionOfNewest]

\* A broken variant: a path in the tree already gets a second node.
TurnsAgain(node) == IF NewPath < PathOf(node) THEN "left" ELSE "right"

\* The side a call goes on to, or "here".
Turns(node) ==
  CASE NewPath < PathOf(node) -> "left"
    [] NewPath > PathOf(node) -> "right"
    [] OTHER -> "here"

\* The call for the left or the right subtree.
GoDown ==
  /\ pc = "down"
  /\ Here # Null
  /\ Turns(Here) \in Side
  /\ stack' = Append(stack, <<Here, Turns(Here)>>)
  /\ UNCHANGED <<items, tree, pc, outcome, walkVars>>

\* The innermost call returns 0, and the others will.
Succeeds ==
  /\ Goes("down", "up")
  /\ stack' = Front(stack)
  /\ outcome' = "ok"
  /\ UNCHANGED <<items, walkVars>>

\* The path has a node already.
Replace ==
  /\ Succeeds
  /\ Here # Null
  /\ Turns(Here) = "here"
  /\ tree' = [tree EXCEPT !.index[Here] = PositionOfNewest]

\* A new node, the links in it NULL by calloc.
Attach ==
  /\ Succeeds
  /\ Here = Null
  /\ tree' = [tree EXCEPT !.link[Last(stack)] = PositionOfNewest,
                          !.height[PositionOfNewest] = 1,
                          !.index[PositionOfNewest] = PositionOfNewest]

\* calloc fails: every call returns ENOMEM before it has changed anything, and
\* result_set_push takes the record back.
NoNode ==
  /\ Goes("down", "idle")
  /\ Here = Null
  /\ items' = Front(items)
  /\ stack' = <<>>
  /\ outcome' = "ENOMEM"
  /\ UNCHANGED <<tree, walkVars>>

\* An outer call goes on after the inner one has returned 0.
Climb ==
  /\ pc = "up"
  /\ stack # <<>>
  /\ tree' = Rebalance(tree, Last(stack))
  /\ stack' = Front(stack)
  /\ UNCHANGED <<items, pc, outcome, walkVars>>

\* path_tree_insert returns.
Inserted ==
  /\ Goes("up", "idle")
  /\ stack = <<>>
  /\ UNCHANGED <<insertVars, walkVars>>

----------------------------------------------------------------------------
(* path_tree_inorder *)

Walk ==
  /\ Goes("idle", "walk")
  /\ cursor' = tree.link[Root]
  /\ UNCHANGED <<insertVars, open, visited>>

\* The call for the left subtree.
WalkLeft ==
  /\ pc = "walk"
  /\ cursor # Null
  /\ open' = Append(open, cursor)
  /\ cursor' = tree.link[<<cursor, "left">>]
  /\ UNCHANGED <<insertVars, pc, visited>>

\* The left subtree is done: the visitor, then the call for the right one.
Visit ==
  /\ pc = "walk"
  /\ cursor = Null /\ open # <<>>
  /\ visited' = Append(visited, tree.index[Last(open)])
  /\ cursor' = tree.link[<<Last(open), "right">>]
  /\ open' = Front(open)
  /\ UNCHANGED <<insertVars, pc>>

WalkDone == pc = "walk" /\ cursor = Null /\ open = <<>>

\* All calls return: the walk is done, or the visitor has failed.
WalkEnds ==
  /\ Goes("walk", "idle")
  /\ cursor = Null
  /\ cursor' = Null /\ open' = <<>> /\ visited' = <<>>
  /\ UNCHANGED insertVars

Next ==
  \/ \E path \in Path : Insert(path)
  \/ GoDown \/ Replace \/ Attach \/ NoNode \/ Climb \/ Inserted
  \/ Walk \/ WalkLeft \/ Visit \/ WalkEnds

Spec == Init /\ [][Next]_vars

----------------------------------------------------------------------------
(* Properties *)

TypeOK ==
  /\ items \in Seq(Path) /\ Len(items) <= MaxRecords
  /\ tree \in [link : [Place -> Node \cup {Null}], height : [Node -> Nat],
               index : [Node -> 0 .. Len(items)]]
  /\ pc \in {"idle", "down", "up", "walk"}
  /\ stack \in Seq(Place)
  /\ outcome \in {"none", "ok", "ENOMEM"}
  /\ cursor \in Node \cup {Null}
  /\ open \in Seq(Node)
  /\ visited \in Seq(1 .. Len(items))

\* The node whose call of insert_node has still to rebalance it.
Unsettled == IF pc = "up" /\ stack # <<>> THEN {Here} ELSE {}

Settled(t, n) ==
  /\ t.height[n] = HeightAbove(t, n)
  /\ Height(t, <<n, "left">>) - Height(t, <<n, "right">>) \in {-1, 0, 1}

\* Except where an insertion is on its way back to the root, every node's height
\* is right and its subtrees' heights differ by at most one: the recursions stay
\* shallow (src/path_tree.c:41-57).
TreeBalanced == \A n \in InUse \ Unsettled : Settled(tree, n)

\* The last record of each path.
Latest ==
  {i \in 1 .. Len(items) : \A j \in 1 .. Len(items) : items[j] = items[i] => j <= i}

\* The traversal that writes the report meets the paths in strictly increasing
\* order and, when it is done, has met the last record of every path, whatever
\* order the workers pushed them in: the report does not depend on the
\* scheduling (src/path_tree.c:59-105).
ReportSorted ==
  /\ \A i, j \in 1 .. Len(visited) : i < j => items[visited[i]] < items[visited[j]]
  /\ WalkDone => {visited[i] : i \in 1 .. Len(visited)} = Latest

\* The nodes the links lead to, starting from the root.
Reachable ==
  LET below[n \in Node \cup {Null}] ==
        IF n = Null THEN {}
        ELSE {n} \cup below[tree.link[<<n, "left">>]] \cup below[tree.link[<<n, "right">>]]
  IN below[tree.link[Root]]

\* The positions in the tree, by path.
Contents ==
  LET indexes == {tree.index[n] : n \in Reachable}
  IN [p \in {items[i] : i \in indexes} |-> CHOOSE i \in indexes : items[i] = p]

NoPending == [path |-> Null, value |-> Null]

Pending ==
  IF pc = "down" THEN [path |-> NewPath, value |-> PositionOfNewest] ELSE NoPending

Map == INSTANCE PathMap WITH
  Value <- 1 .. MaxRecords, None <- NoPending, map <- Contents, pending <- Pending

\* The tree is the map from paths to records that ResultSet calls ordered:
\* an insertion changes what its own path leads to and nothing else, and a
\* rotation, a failed insertion or a walk changes nothing.
ImplementsPathMap == Map!Spec
=============================================================================
