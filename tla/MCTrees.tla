------------------------------ MODULE MCTrees ------------------------------
(***************************************************************************)
(* Printing on statements over a few variables: every value of one level,  *)
(* those that hold one of them, and some that are deeper.                  *)
(***************************************************************************)
EXTENDS Printing

Variable(builtin, elem, size, inner, mutable) ==
  [builtin |-> builtin, elem |-> elem, size |-> size, inner |-> inner, mutable |-> mutable]
Number(builtin, mutable) == Variable(builtin, "none", 0, <<>>, mutable)
ArrayOf(elem, size) == Variable("arr", elem, size, <<>>, TRUE)
Function == Variable("fn", "none", 0, <<>>, FALSE)

\* m is an array of arrays like a, p a pointer to a function, and v an array
\* that is not like a.
MCIdents ==
  [b |-> Number("u8", TRUE), w |-> Number("u64", TRUE), s |-> Number("i32", FALSE),
   a |-> ArrayOf("u8", 2), v |-> ArrayOf("i64", 3), p |-> Function,
   m |-> Variable("arr", "arr", 2, <<[elem |-> "u8", size |-> 2]>>, FALSE)]
MCFunctions ==
  [f |-> [args |-> <<Number("u8", FALSE)>>, ret |-> Number("u64", FALSE)],
   g |-> [args |-> <<ArrayOf("u8", 0)>>, ret |-> Function]]

Leaves == {IdentValue(n) : n \in {"b", "w", "s", "a"}}
            \cup {IntLiteral(i) : i \in {1, 2, 300, -1}} \cup {StringLiteral}
            \cup {TypeLiteral(t) : t \in {"u8", "u64"}}
Few == {IdentValue("b"), IdentValue("w"), IdentValue("s"), IntLiteral(1), StringLiteral,
        TypeLiteral("u8")}

Binaries(lhs, rhs) == {Binary(op, l, r) : op \in {"+", "as"}, l \in lhs, r \in rhs}

\* Values that hold one of these.
Holding(values) ==
  {ArrElem("a", v) : v \in values}
    \cup {FnCall("f", <<v>>) : v \in values} \cup {FnCall("f", <<>>)}
    \cup {ExprValue(Primary(v)) : v \in values}
    \cup {ElemInit(<<v>>) : v \in values} \cup {ElemInit(<<v, IdentValue("w")>>) : v \in values}

Inner == {ExprValue(e) : e \in Binaries(Few, Few)}
Values == Leaves \cup Holding(Leaves) \cup Inner
Exprs ==
  {Primary(v) : v \in Values \cup Holding(Holding(Few) \cup Inner)}
    \cup {Binary("+", l, r) : l \in Values, r \in Few}
    \cup {Binary("+", l, r) : l \in Few, r \in Values}
    \cup {Binary("as", l, r) : l \in Values, r \in {TypeLiteral("u8"), IdentValue("b")}}

\* Arrays for arrays, and functions.
Arrays == {IdentValue("a"), IdentValue("v"), IdentValue("m"), ArrElem("m", IntLiteral(1)),
           StringLiteral, ElemInit(<<IdentValue("b")>>)}
Shaped ==
  {Primary(ElemInit(<<l, r>>)) : l \in Arrays, r \in Arrays}
    \cup {Primary(v) : v \in Arrays \cup {FnCall("g", <<l>>) : l \in Arrays}}
    \cup {Primary(ExprValue(Binary("as", FnCall("g", <<IdentValue("a")>>), TypeLiteral("fn"))))}

Statement(kind, name, expr) == [kind |-> kind, name |-> name, expr |-> expr]

MCStatements ==
  {Statement("let", n, e) : n \in {"b", "w", "s", "a"}, e \in Exprs}
    \cup {Statement("let", n, e) : n \in {"a", "v", "m", "p"}, e \in Shaped}
    \cup {Statement("return", n, e) : n \in {"f", "g"}, e \in Shaped}
    \cup {Statement("return", "f", e) : e \in Exprs}
    \cup {Statement("call", "", Primary(FnCall("f", <<v>>))) : v \in Values}
    \cup {Statement("assign", "", Binary("=", l, ExprValue(Primary(v)))) :
            l \in Few \cup Holding({IdentValue("b"), IntLiteral(1)}), v \in Values}
    \cup {Statement("assign", "", Binary("+=", l, v)) : l \in Few \cup Holding(Few), v \in Inner}
    \cup {Statement("if", "", Cmp(l, r)) : l \in Values, r \in Few}
    \cup {Statement("while", "", Cmp(l, r)) : l \in Few, r \in Values}
=============================================================================
