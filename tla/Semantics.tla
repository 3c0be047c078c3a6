------------------------------ MODULE Semantics ------------------------------
(***************************************************************************)
(* The analysis of expressions and values (src/semantics/).  A tree is     *)
(* made of nodes, struct zako_expr and struct zako_value alike, each at    *)
(* its place, the way to it from the root (child by child).  What the      *)
(* analysis writes into the nodes is a function of their places.           *)
(*                                                                         *)
(* The functions of the code that call each other are one step at a node   *)
(* each, given what the same functions make of the nodes below it, and a   *)
(* recursive function over the places of the tree that takes that step.    *)
(***************************************************************************)
EXTENDS Types

CONSTANTS
  Idents,      \* variables in scope: name -> [builtin, elem, size, inner, mutable]
  Functions,   \* functions in scope: name -> [args : a sequence of such, ret]
  MaxDepth     \* no tree is deeper

\* A variable, an argument, or what a function returns (parse_type): a number,
\* a function, or an array of such or of arrays, to any depth.
Parsed == Numbers \cup {"arr", "fn"}
Levels == [elem : Parsed, size : Nat]
Declarations ==
  {d \in [builtin : Parsed, elem : Parsed \cup {"none"}, size : Nat,
          inner : Seq(Levels), mutable : BOOLEAN] :
     /\ d.builtin = "arr" <=> d.elem # "none"
     /\ d.elem = "arr" <=> d.inner # <<>>
     /\ \A k \in DOMAIN d.inner : d.inner[k].elem = "arr" <=> k < Len(d.inner)}

ASSUME DeclarationsAssumption ==
  /\ MaxDepth \in Nat
  /\ \A name \in DOMAIN Idents : Idents[name] \in Declarations
  /\ \A name \in DOMAIN Functions :
       /\ Functions[name].args \in Seq(Declarations)
       /\ Functions[name].ret \in Declarations

-----------------------------------------------------------------------------
(* Trees.                                                                  *)

Places == Seq(Nat)
Child(at, k) == Append(at, k)

\* kind is that of enum EXPR_KIND or VALUE_KIND; name an identifier, a
\* function, an operator or a type literal; int an integer literal; kids the
\* number of children.
Node(kind, name, int, kids) == [kind |-> kind, name |-> name, int |-> int, kids |-> kids]

\* A node with these trees below it.
Above(kind, name, int, parts) ==
  LET below == UNION {{<<k>> \o at : at \in DOMAIN parts[k]} : k \in DOMAIN parts}
  IN  [at \in {<<>>} \cup below |->
         IF at = <<>> THEN Node(kind, name, int, Len(parts))
         ELSE parts[Head(at)][Tail(at)]]

IdentValue(name) == Above("IDENT", name, 0, <<>>)
IntLiteral(i) == Above("INT", "", i, <<>>)
StringLiteral == Above("STRING", "", 0, <<>>)
TypeLiteral(builtin) == Above("TYPE", builtin, 0, <<>>)
ArrElem(name, idx) == Above("ARR_ELEM", name, 0, <<idx>>)
ElemInit(elems) == Above("ELEM_INIT", "", 0, elems)
ExprValue(expr) == Above("EXPR", "", 0, <<expr>>)
FnCall(name, args) == Above("FN_CALL", name, 0, args)
Primary(value) == Above("PRIMARY", "", 0, <<value>>)
Binary(op, lhs, rhs) == Above("BINARY", op, 0, <<lhs, rhs>>)
Cmp(lhs, rhs) == Above("CMP", "==", 0, <<lhs, rhs>>)

\* What the parser makes sure of: names are declared, an identifier of a
\* function is a call of it, only an array is indexed, and a call has no more
\* arguments than its function.
IsNode(node) ==
  /\ node.int \in Int /\ node.kids \in Nat
  /\ \/ /\ node.kind = "IDENT" /\ node.kids = 0
        /\ node.name \in DOMAIN Idents /\ Idents[node.name].builtin # "fn"
     \/ node.kind \in {"INT", "STRING"} /\ node.kids = 0
     \/ node.kind = "TYPE" /\ node.kids = 0 /\ node.name \in Numbers \cup {"fn"}
     \/ /\ node.kind = "ARR_ELEM" /\ node.kids = 1
        /\ node.name \in DOMAIN Idents /\ Idents[node.name].builtin = "arr"
     \/ node.kind = "ELEM_INIT"
     \/ node.kind = "EXPR" /\ node.kids = 1
     \/ /\ node.kind = "FN_CALL" /\ node.name \in DOMAIN Functions
        /\ node.kids <= Len(Functions[node.name].args)
     \/ node.kind = "PRIMARY" /\ node.kids = 1
     \/ node.kind \in {"BINARY", "CMP"} /\ node.kids = 2

Operators == {"+", "-", "*", "/", "as"}
Assignments == {"=", "+=", "-=", "*=", "/="}

\* A comparison is a condition and an assignment a statement, neither is part
\* of another expression.
IsTree(tree) ==
  /\ <<>> \in DOMAIN tree
  /\ \A at \in DOMAIN tree :
       /\ at \in Places /\ Len(at) <= MaxDepth
       /\ IsNode(tree[at])
       /\ tree[at].kind = "CMP" => at = <<>>
       /\ tree[at].kind = "BINARY" =>
            tree[at].name \in Operators \/ (at = <<>> /\ tree[at].name \in Assignments)
       /\ \A k \in 1..tree[at].kids : Child(at, k) \in DOMAIN tree
       /\ at # <<>> =>
            \E parent \in DOMAIN tree : \E k \in 1..tree[parent].kids : at = Child(parent, k)

-----------------------------------------------------------------------------
(* The types in a tree.                                                    *)

Names == DOMAIN Idents \cup DOMAIN Functions \cup {""}
ZakoTypes ==
  [builtin : BuiltinTypes \cup {"none"}, elem : BuiltinTypes \cup {"none"}, size : Nat,
   inner : Seq(Levels),
   role : {"none", "elem", "ident", "arg", "return", "index", "cmp", "literal", "named"},
   name : Names, at : Places]

\* The types that identifiers and functions own.
Declared(d, role, name, at) == Type(d.builtin, d.elem, d.size, d.inner, role, name, at)
IdentType(name) == Declared(Idents[name], "ident", name, <<>>)
ArgType(name, k) == Declared(Functions[name].args[k], "arg", name, <<k>>)
ReturnType(name) == Declared(Functions[name].ret, "return", name, <<>>)
\* Those that the analysis allocates for a node.
IndexType(builtin, at) == PlainType(builtin, "index", "", at)
CmpType(at) == PlainType("cmp", "cmp", "", at)
LiteralType(builtin, at) == PlainType(builtin, "literal", "", at)
\* That of a type literal.
NamedType(builtin, at) == PlainType(builtin, "named", "", at)

\* The types set so far, by place: one, none, some over others.
Setting(at, type) == [place \in {at} |-> type]
Nothing == [place \in {} |-> NULL]
Over(later, types) ==
  [place \in DOMAIN later \cup DOMAIN types |->
     IF place \in DOMAIN later THEN later[place] ELSE types[place]]
At(types, at) == IF at \in DOMAIN types THEN types[at] ELSE NULL

\* What a function of the analysis returns, with the types it has set.
\* "ASSERT" is no return: the program has aborted.
Result(ret, types) == [ret |-> ret, types |-> types]

-----------------------------------------------------------------------------
(* The analysis of a node, expected to be of a type; below is that of the  *)
(* nodes below it.                                                         *)

\* The children one after the other, up to the first that fails; result is
\* what the analysis makes of each.
AnalyseAll(at, result) ==
  LET reached == {k \in DOMAIN result : \A j \in 1..(k - 1) : result[j].ret = "SUCCESS"}
      failed == {k \in reached : result[k].ret # "SUCCESS"}
  IN  Result(IF failed = {} THEN "SUCCESS" ELSE result[CHOOSE k \in failed : TRUE].ret,
             [place \in UNION {DOMAIN result[k].types : k \in reached} |->
                result[place[Len(at) + 1]].types[place]])

\* An index beyond the array, the bits of the literal being unsigned.
OutOfArr(size, idx) ==
  size # 0 /\ idx.kind = "INT" /\ (idx.int < 0 \/ idx.int >= size)
OutOfArrByOne(size, idx) ==                                        \* mutant
  size # 0 /\ idx.kind = "INT" /\ (idx.int < 0 \/ idx.int > size)

\* The index is expected to be a u64 of its own, which takes the size of a
\* literal.
AnalyseArrElem(tree, below, at, expect) ==
  LET place == Child(at, 1)
      idx == tree[place]
      arr == IdentType(tree[at].name)
      index == below[<<place, IndexType("u64", place)>>]
      typed == IF idx.kind = "INT"
               THEN Setting(place, IndexType(UintLiteralType(idx.int), place))
               ELSE index.types
  IN  IF idx.kind = "STRING" THEN Result("IMPLICIT_CAST", Nothing)
      ELSE IF OutOfArr(arr.size, idx) THEN Result("OUT_OF_ARR", Nothing)
      ELSE IF index.ret = "ASSERT" THEN index
      ELSE IF index.ret # "SUCCESS" THEN Result("INVAILED_IDX", index.types)
      ELSE Result(CompareBuiltin(arr.elem, expect.builtin),
                  Over(Setting(at, ElemType(arr)), typed))

AnalyseElemInit(tree, below, at, expect) ==
  IF expect.builtin = "arr"
  THEN AnalyseAll(at, [k \in 1..tree[at].kids |-> below[<<Child(at, k), ElemType(expect)>>]])
  ELSE Result("CANNOT_INIT_VALUE_BY_ELEM_INIT", Nothing)

\* Fewer arguments than the function has are only complained of.
AnalyseFnCall(tree, below, at, expect) ==
  LET name == tree[at].name
      args == AnalyseAll(at, [k \in 1..tree[at].kids |-> below[<<Child(at, k), ArgType(name, k)>>]])
  IN  Result(IF args.ret # "SUCCESS" THEN args.ret
             ELSE CompareBuiltin(ReturnType(name).builtin, expect.builtin),
             Over(Setting(at, ReturnType(name)), args.types))

AnalyseString(expect) ==
  IF expect.builtin = "arr" /\ expect.elem \in {"u8", "i8"}
  THEN "SUCCESS" ELSE "IMPLICIT_CAST"

\* Mutant: the right operand of a binary expression is not looked at when
\* the left one fits.
AnalyseBinaryLeft(tree, below, at, expect) ==
  LET lhs == below[<<Child(at, 1), expect>>]
      rhs == below[<<Child(at, 2), expect>>]
  IN  IF tree[at].name # "as"
      THEN Result(lhs.ret, Over(Setting(at, expect), Over(lhs.types, rhs.types)))
      ELSE Result(rhs.ret, Over(Setting(at, expect), Over(lhs.types, rhs.types)))

\* Both operands are analysed, and the error of the left one comes first.
\* What is cast is analysed too, and it does not matter how that ends.
AnalyseBinary(tree, below, at, expect) ==
  LET lhs == below[<<Child(at, 1), expect>>]
      rhs == below[<<Child(at, 2), expect>>]
      set == Setting(at, expect)
      both == Over(set, Over(lhs.types, rhs.types))
  IN  IF tree[at].name # "as"
      THEN Result(IF "ASSERT" \in {lhs.ret, rhs.ret} THEN "ASSERT"
                  ELSE IF lhs.ret # "SUCCESS" THEN lhs.ret ELSE rhs.ret, both)
      ELSE IF tree[Child(at, 2)].kind # "TYPE" THEN Result("ASSERT", set)
      ELSE IF rhs.ret # "SUCCESS" THEN Result(rhs.ret, set)
      ELSE Result(IF lhs.ret = "ASSERT" THEN "ASSERT" ELSE "SUCCESS", both)

\* An expression in parentheses: its type, if it has got one, is the value's.
AnalyseInner(below, at, expect) ==
  LET expr == below[<<Child(at, 1), expect>>]
  IN  Result(expr.ret, Over(Setting(at, At(expr.types, Child(at, 1))), expr.types))

\* What analyse_value and analyse_expr do for a node of each kind.
AnalyseKind(tree, below, at, expect) ==
  LET node == tree[at]
  IN  CASE node.kind = "ARR_ELEM" -> AnalyseArrElem(tree, below, at, expect)
        [] node.kind = "ELEM_INIT" -> AnalyseElemInit(tree, below, at, expect)
        [] node.kind = "EXPR" -> AnalyseInner(below, at, expect)
        [] node.kind = "FN_CALL" -> AnalyseFnCall(tree, below, at, expect)
        [] node.kind = "IDENT" ->
             Result(CompareBuiltin(IdentType(node.name).builtin, expect.builtin),
                    Setting(at, IdentType(node.name)))
        [] node.kind = "INT" ->
             Result(IF expect.builtin \in Numbers THEN "SUCCESS" ELSE "IMPLICIT_CAST",
                    Nothing)
        [] node.kind = "STRING" -> Result(AnalyseString(expect), Nothing)
        [] node.kind = "TYPE" ->
             Result(CompareBuiltin(node.name, expect.builtin), Nothing)
        [] node.kind = "PRIMARY" -> below[<<Child(at, 1), expect>>]
        [] node.kind = "BINARY" -> AnalyseBinary(tree, below, at, expect)
        [] node.kind = "CMP" -> Result("ASSERT", Nothing)

\* analyse_value and analyse_expr: where the node fits, its type is the one
\* expected.
AnalyseNode(tree, below, at, expect) ==
  LET own == AnalyseKind(tree, below, at, expect)
  IN  IF own.ret = "SUCCESS"
      THEN Result("SUCCESS", Over(Setting(at, expect), own.types)) ELSE own

\* The analysis of each place of a tree for each type expected there.
AnalyseTree(tree) ==
  LET analysed[call \in (DOMAIN tree) \X ZakoTypes] ==
        AnalyseNode(tree, analysed, call[1], call[2])
  IN  analysed

AnalyseExpr(tree, expect) == AnalyseTree(tree)[<<<<>>, expect>>]

\* analyse_cmp_expr_value: of the operands of a comparison only literals and
\* variables get a type, a literal that of the other side if it has one, is
\* no smaller, and came first.
CmpValueType(value, place, another) ==
  IF value.kind = "IDENT" THEN Setting(place, IdentType(value.name))
  ELSE IF value.kind = "INT"
  THEN LET own == IntLiteralType(value.int)
           other == another.builtin \in Numbers /\ Rank(another.builtin) >= Rank(own)
       IN  Setting(place, LiteralType(IF other THEN another.builtin ELSE own, place))
  ELSE Nothing

\* parse_cmp_expr and analyse_cmp_expr
AnalyseCmp(tree) ==
  LET lhs == CmpValueType(tree[<<1>>], <<1>>, NULL)
      rhs == CmpValueType(tree[<<2>>], <<2>>, At(lhs, <<1>>))
  IN  Result("SUCCESS", Over(Setting(<<>>, CmpType(<<>>)), Over(lhs, rhs)))

\* analyse_expr_stmt of an assignment
AnalyseAssign(tree) ==
  LET lhs == tree[<<1>>]
  IN  IF lhs.kind \notin {"IDENT", "ARR_ELEM"} THEN Result("NULL", Nothing)
      ELSE IF ~Idents[lhs.name].mutable THEN Result("CANNOT_BE_ASSIGNED", Nothing)
      ELSE AnalyseExpr(tree, IF lhs.kind = "IDENT" THEN IdentType(lhs.name)
                             ELSE ElemType(IdentType(lhs.name)))
=============================================================================
