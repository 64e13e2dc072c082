----------------------------- MODULE MCScanner -----------------------------
(***************************************************************************)
(* Scanner over six paths, three directories deep.  The three trees: all   *)
(* of it; one with room for directories to appear; a root that is a file.  *)
(***************************************************************************)
EXTENDS Scanner

CONSTANTS d, f

Paths == {<<>>, <<d>>, <<f>>, <<d, d>>, <<d, f>>, <<d, d, f>>}

File(size) == [kind |-> "file", size |-> size]

Full ==
  [p \in Paths |-> IF p \in {<<>>, <<d>>, <<d, d>>} THEN Dir ELSE File(1)]

Sparse ==
  [p \in Paths |-> CASE p \in {<<>>, <<d>>} -> Dir
                     [] p = <<d, f>> -> File(2)
                     [] p = <<f>> -> [kind |-> "other"]
                     [] OTHER -> Gone]

NoTree == [p \in Paths |-> IF p = <<>> THEN File(1) ELSE Gone]

Trees == {Full, Sparse, NoTree}
=============================================================================
