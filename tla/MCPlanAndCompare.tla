-------------------------- MODULE MCPlanAndCompare --------------------------
(***************************************************************************)
(* Small instances of PlanAndCompare: the pairs of trees to compare.  All  *)
(* files have size 1 or 2.                                                 *)
(***************************************************************************)
EXTENDS PlanAndCompare, TLC

CONSTANTS p1, p2, p3, p4

Case(a, b, eq, diff, all) ==
  [index_a |-> a, index_b |-> b, equal |-> eq, lines |-> diff,
   include_unchanged |-> all]

AllOfSize1(S) == [p \in S |-> 1]

\* More candidates than the queue and the workers hold between them: one
\* file unchanged, one with other lines, the rest with other bytes.
Overlap == Case(AllOfSize1(Path), AllOfSize1(Path), {p1}, {p2}, TRUE)

\* Every kind of verdict, unchanged files counted but not listed.
Mixed ==
  Case(p1 :> 1 @@ p2 :> 1 @@ p3 :> 2, p2 :> 1 @@ p3 :> 1 @@ p4 :> 1,
       {p2}, {}, FALSE)

\* Candidates, and a file of the target only.
Grown ==
  Case(AllOfSize1(Path \ {p4}), AllOfSize1(Path), {p3}, {p1}, TRUE)

SafetyInputs == {Mixed, Grown, Overlap}

LivenessInputs == {Mixed, Overlap}

Symmetry == Permutations(Workers)
=============================================================================
