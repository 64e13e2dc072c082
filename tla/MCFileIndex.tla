---------------------------- MODULE MCFileIndex ----------------------------
(***************************************************************************)
(* FileIndex with five paths whose hashes collide in every table they      *)
(* meet: two are equal, others share a home in 2, 4 or 8 slots, and the    *)
(* home is often the last slot, so that probing wraps around.  Five paths  *)
(* in a table of 2 take two rehashes.                                      *)
(***************************************************************************)
EXTENDS FileIndex, TLC

CONSTANTS p1, p2, p3, p4, p5

\* Two or three short keys share a chunk; one is longer than a chunk.
LengthOfPath == p1 :> 2 @@ p2 :> 3 @@ p3 :> 7 @@ p4 :> 2 @@ p5 :> 1

HashOfPath == p1 :> 7 @@ p2 :> 7 @@ p3 :> 15 @@ p4 :> 3 @@ p5 :> 0
=============================================================================
