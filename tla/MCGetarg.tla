------------------------------ MODULE MCGetarg ------------------------------
(***************************************************************************)
(* Getarg on every command line of up to three of these arguments.         *)
(***************************************************************************)
EXTENDS Getarg

Long(name) == <<"-", "-", name>>
Short(name) == <<"-", name>>
Files == {<<"x">>, <<"y">>, <<>>}
Arguments ==
  Files \cup {<<"-">>, <<"-", "-">>, Long("cache-dir"), Long("force-build"), Long("help")}
    \cup {Short(n) \o text : n \in {"D", "F", "M", "h", "f"},
                            text \in {<<>>, <<"x">>, <<"F">>, Short("D"), Short("F") \o <<"y">>}}

MCGiven == UNION {[1..n -> Arguments] : n \in 0..3}
=============================================================================
