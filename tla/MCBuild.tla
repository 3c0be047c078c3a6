------------------------------ MODULE MCBuild ------------------------------
(* Instances of Build: a diamond of imports, a pair that an edit can turn  *)
(* into a cycle, and a file on its own.                                    *)
EXTENDS Build

CONSTANTS main, a, b

Src(imports, uses, error, fns) ==
  [imports |-> imports, uses |-> uses, error |-> error, fns |-> fns]

\* main imports a and b, a imports b; an edit can break b.
DiamondFiles == {main, a, b}
DiamondContents == [f \in DiamondFiles |->
  CASE f = main -> {Src(<<a, b>>, {1}, "none", "pubdef")}
    [] f = a -> {Src(<<b>>, {1}, "none", "pubdef")}
    [] f = b -> {Src(<<>>, {}, "none", "pubdef"), Src(<<>>, {}, "parse", "pubdef")}]

\* main imports a; an edit can leave a with a stub that does not parse, with
\* functions no code can be generated for, or make it import main.
PairFiles == {main, a}
PairContents == [f \in PairFiles |->
  CASE f = main -> {Src(<<a>>, {1}, "none", "private")}
    [] f = a -> {Src(<<>>, {}, "none", "pubdef"), Src(<<>>, {}, "none", "pubdecl"),
                 Src(<<>>, {}, "code", "pubdef"),
                 Src(<<main>>, {}, "none", "pubdef")}]

\* One file that compiles, and has statements, none of them public.
PrivateContents == [f \in {main} |-> {Src(<<>>, {}, "none", "private")}]

OnlyMain == {main}
=============================================================================
