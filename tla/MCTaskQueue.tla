---------------------------- MODULE MCTaskQueue ----------------------------
(* TaskQueue with model values for its threads and tasks. *)
EXTENDS TaskQueue, TLC

\* Workers are interchangeable, and so are tasks.
Symmetry == Permutations(Workers) \cup Permutations(Task)
=============================================================================
