----------------------------- MODULE Comparison -----------------------------
(***************************************************************************)
(* What a run of plan_and_compare promises, with no thread, queue or lock: *)
(* every path of either tree is decided once, with the verdict its two     *)
(* files deserve, in any order; the run may fail at any time and then owes *)
(* nothing more, but it reports success only if it decided every path.     *)
(***************************************************************************)
EXTENDS Integers, Sequences

CONSTANTS
  Path,
  Inputs        \* the pairs of trees, and the options, that are compared

VARIABLES
  input,        \* the one compared in this run
  pending,      \* paths with no verdict yet
  report,       \* the records of the detailed report
  tally,        \* per change type, the number of verdicts
  failed,       \* has anything gone wrong?
  result        \* "running", then "success" or "failure"

vars == <<input, pending, report, tally, failed, result>>

ChangeType == {"UNCHANGED", "MODIFIED", "ADDED", "REMOVED"}

SizeIn(tree, p) == IF p \in DOMAIN tree THEN tree[p] ELSE 0

\* The verdict on a path of either tree.
Type(p) ==
  CASE p \notin DOMAIN input.index_b -> "REMOVED"
    [] p \notin DOMAIN input.index_a -> "ADDED"
    [] OTHER -> IF /\ input.index_a[p] = input.index_b[p]
                   /\ p \in input.equal
                THEN "UNCHANGED" ELSE "MODIFIED"

Detail(p) ==
  CASE Type(p) = "REMOVED" -> "ONLY_IN_SOURCE"
    [] Type(p) = "ADDED" -> "ONLY_IN_TARGET"
    [] Type(p) = "UNCHANGED" -> "NONE"
    [] OTHER -> IF input.index_a[p] # input.index_b[p] THEN "SIZE_CHANGED"
                ELSE IF p \in input.lines THEN "LINES" ELSE "BINARY_CHANGED"

Verdict(p) ==
  [path |-> p, type |-> Type(p), detail_kind |-> Detail(p),
   size_a |-> SizeIn(input.index_a, p), size_b |-> SizeIn(input.index_b, p)]

\* Unchanged files are counted, but listed only on demand.
Listed(p) == Type(p) # "UNCHANGED" \/ input.include_unchanged

AllPaths == DOMAIN input.index_a \cup DOMAIN input.index_b

Init ==
  /\ input \in Inputs
  /\ pending = AllPaths
  /\ report = {}
  /\ tally = [c \in ChangeType |-> 0]
  /\ failed = FALSE
  /\ result = "running"

Decide(p) ==
  /\ result = "running"
  /\ p \in pending
  /\ pending' = pending \ {p}
  /\ report' = report \cup {v \in {Verdict(p)} : Listed(p)}
  /\ tally' = [tally EXCEPT ![Type(p)] = @ + 1]
  /\ UNCHANGED <<input, failed, result>>

\* A failure, which may cost the verdict on a path.
Fail(lost) ==
  /\ result = "running"
  /\ failed' = TRUE
  /\ pending' = pending \ lost
  /\ UNCHANGED <<input, report, tally, result>>

Finish ==
  /\ result = "running"
  /\ ~failed => pending = {}
  /\ result' = IF failed THEN "failure" ELSE "success"
  /\ UNCHANGED <<input, pending, report, tally, failed>>

\* A run that cannot even start is over at once.
Refuse ==
  /\ result = "running"
  /\ failed' = TRUE
  /\ result' = "failure"
  /\ UNCHANGED <<input, pending, report, tally>>

Next ==
  \/ \E p \in Path : Decide(p)
  \/ Fail({})
  \/ \E p \in Path : Fail({p})
  \/ Finish
  \/ Refuse

Spec == Init /\ [][Next]_vars
=============================================================================
