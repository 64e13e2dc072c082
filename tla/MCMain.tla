------------------------------- MODULE MCMain -------------------------------
(***************************************************************************)
(* Main with four paths, every kind of verdict among them, up to two       *)
(* options, and command lines that are refused or ask for help.            *)
(***************************************************************************)
EXTENDS Main, TLC

Trees(a, b, eq, diff) ==
  [index_a |-> a, index_b |-> b, equal |-> eq, lines |-> diff]

MCInputs ==
  {Trees(1 :> 1 @@ 2 :> 1 @@ 3 :> 1, 1 :> 1 @@ 2 :> 1 @@ 4 :> 2, {1}, {2}),
   Trees(1 :> 2 @@ 3 :> 1, 2 :> 1 @@ 3 :> 2, {}, {}),
   Trees(<<>>, <<>>, {}, {})}

With(name, value) == [name |-> name, value |-> value]

MCOptions ==
  {With("-j", "4"), With("--thread", "2"), With("--threads", "x"),
   With("--lines", ""), With("--skip-unchanged", ""),
   With("-o", "--lines"), With("-o", "x")}

MCOptionLists == BoundedSeq(MCOptions, 2)

MCBadArgvs ==
  {<<>>, <<"A">>, <<"A", "B", "--lines">>, <<"-j">>, <<"--lines", "-o">>,
   <<"-o", "A", "B">>, <<"--thread", "0", "A", "B">>, <<"-j", "--help", "A">>,
   <<"--lines", "--help", "-j">>, <<"-V">>, <<"-o", "--help">>,
   <<"-j", "4", "-h", "A", "B">>, <<"-o", "-j", "--version", "x">>}

Strings == {"A", "B", "-j", "--thread", "--threads", "--lines", "--skip-unchanged",
            "-o", "--help", "-h", "--version", "-V", "x", "0", "2", "4", ""}

MCNumber == [s \in Strings |-> CASE s = "2" -> 2 [] s = "4" -> 4 [] OTHER -> 0]
=============================================================================
