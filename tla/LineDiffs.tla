----------------------------- MODULE LineDiffs -----------------------------
(***************************************************************************)
(* The LineDiffVector of a ChangeRecord (include/common.h, src/index.c):   *)
(* an array that grows by doubling, each element of which owns two copies  *)
(* of lines.  copies counts the copies on the heap, whoever owns them: the *)
(* code frees what the vector leads to, so a copy that it does not lead to *)
(* is lost, and one that it leads to but that is gone is freed twice.      *)
(***************************************************************************)
EXTENDS Integers, Sequences

CONSTANT FirstCapacity      \* 8 in line_diff_vector_push

ASSUME LineDiffAssumption == FirstCapacity \in Nat \ {0}

VARIABLES
  line_diffs,       \* items[0 .. count-1], numbered from 1
  diff_capacity,
  copies

lineDiffVars == <<line_diffs, diff_capacity, copies>>

LineDiffInit ==
  /\ line_diffs = <<>>
  /\ diff_capacity = 0
  /\ copies = 0

GrownDiffs ==
  IF Len(line_diffs) # diff_capacity THEN diff_capacity
  ELSE IF diff_capacity = 0 THEN FirstCapacity
  ELSE 2 * diff_capacity

\* line_diff_vector_push, all of it succeeding.
LineDiffPush(number, left, right) ==
  /\ line_diffs' = Append(line_diffs,
                          [line_number |-> number, left |-> left,
                           right |-> right])
  /\ diff_capacity' = GrownDiffs
  /\ copies' = copies + 2

\* A broken variant: the copy of the left line is forgotten.
FreedNone(made) == 0

\* When a copy fails (owned_string_copy), those made before it are freed.
Freed(made) == made

\* line_diff_vector_push without memory: for the larger array, or for the
\* first or second copy, when the array has grown but not its count.  The
\* caller then destroys the vector, which frees what it leads to.
LineDiffPushFails ==
  /\ \/ /\ Len(line_diffs) = diff_capacity
        /\ copies' = copies - 2 * Len(line_diffs)
     \/ \E made \in {0, 1} :
          copies' = copies + made - Freed(made) - 2 * Len(line_diffs)
  /\ line_diffs' = <<>>
  /\ diff_capacity' = 0

\* line_diff_vector_destroy.
LineDiffDestroy ==
  /\ line_diffs' = <<>>
  /\ diff_capacity' = 0
  /\ copies' = copies - 2 * Len(line_diffs)
=============================================================================
