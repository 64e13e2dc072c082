------------------------------ MODULE PathMap ------------------------------
(***************************************************************************)
(* A finite map from paths to values that may refuse an update for lack of *)
(* memory: what the file index and the tree of the result set promise,     *)
(* without slots, probes, nodes or rotations.                              *)
(***************************************************************************)
CONSTANTS
  Path, Value,
  None        \* no update in progress

VARIABLES
  map,        \* path |-> value
  pending,    \* the update in progress
  outcome     \* of the last update: "none", "ok" or "ENOMEM"

vars == <<map, pending, outcome>>

With(m, p, v) == [q \in DOMAIN m \cup {p} |-> IF q = p THEN v ELSE m[q]]

Init ==
  /\ map = [p \in {} |-> p]
  /\ pending = None
  /\ outcome = "none"

Call(p, v) ==
  /\ pending = None
  /\ pending' = [path |-> p, value |-> v]
  /\ UNCHANGED <<map, outcome>>

\* The update in progress takes effect: its path has its value, and no other
\* path has another one.
Return ==
  /\ pending # None
  /\ map' = With(map, pending.path, pending.value)
  /\ outcome' = "ok"
  /\ pending' = None

\* Call and Return in one step.
Put(p, v) ==
  /\ pending = None
  /\ map' = With(map, p, v)
  /\ outcome' = "ok"
  /\ UNCHANGED pending

\* An update that fails, at once or later, changes no entry.
Refuse ==
  /\ pending' = None
  /\ outcome' = "ENOMEM"
  /\ UNCHANGED map

Next ==
  \/ \E p \in Path, v \in Value : Call(p, v) \/ Put(p, v)
  \/ Return
  \/ Refuse

Spec == Init /\ [][Next]_vars
=============================================================================
