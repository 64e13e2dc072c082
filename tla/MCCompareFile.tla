--------------------------- MODULE MCCompareFile ---------------------------
(***************************************************************************)
(* CompareFile with files of up to three lines.  Different contents of one *)
(* size with one hash make the second reading decide; the others are told  *)
(* apart by their hashes.                                                  *)
(***************************************************************************)
EXTENDS CompareFile

X == <<120, 10>>
Y == <<121, 10>>
Z == <<120, 13>>          \* X with another line end
Wide == <<120, 121, 13, 10>>
Null == <<0, 10>>

Contents ==
  {<<>>, <<X>>, <<Z>>, <<Null>>, <<X, Y>>, <<Y, X>>, <<Wide>>, <<X, Null>>,
   <<X, Y, X>>, <<X, X, X>>}

\* The hash of a content: that of the first of those it collides with.
Collide(content) ==
  CASE content \in {<<X>>, <<Y, X>>, <<X, Y>>} -> <<X, Y>>
    [] content \in {<<X, Y, X>>, <<X, X, X>>} -> <<X, X, X>>
    [] OTHER -> content

MCConfigs ==
  [include_lines : BOOLEAN, mmap_threshold : {0, 4}]
=============================================================================
