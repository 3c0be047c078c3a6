-------------------------------- MODULE Trees --------------------------------
(***************************************************************************)
(* The life of a statement's tree: the parser has built it; it is analysed *)
(* (src/semantics/), printed if asked for (print_stmt), compiled           *)
(* (src/compiler/) and freed (free_stmt), or freed when the analysis       *)
(* rejects it.  The types that hang in it are partly its own and partly    *)
(* those of identifiers that outlive it.                                   *)
(***************************************************************************)
EXTENDS Emit

CONSTANTS
  Statements     \* records [kind, name, expr]: name is the variable of a "let",
                 \* the function that a "return" is in; also "assign", "call",
                 \* "if" and "while"

\* What the parser builds for a statement of each kind.
IsStatement(s) ==
  /\ IsTree(s.expr)
  /\ LET root == s.expr[<<>>]
         whole == root.kind = "PRIMARY" \/ (root.kind = "BINARY" /\ root.name \in Operators)
     IN  \/ s.kind = "let" /\ s.name \in DOMAIN Idents /\ whole
         \/ s.kind = "return" /\ s.name \in DOMAIN Functions /\ whole
         \/ s.kind = "call" /\ root.kind = "PRIMARY" /\ s.expr[<<1>>].kind = "FN_CALL"
         \/ /\ s.kind = "assign" /\ root.kind = "BINARY" /\ root.name \in Assignments
            /\ s.expr[<<2>>].kind = "EXPR"
         \/ s.kind \in {"if", "while"} /\ root.kind = "CMP"

ASSUME StatementsAssumption == \A s \in Statements : IsStatement(s)

VARIABLES
  stmt,     \* the statement
  phase,    \* what was done last
  ret,      \* the result of the analysis
  types,    \* value->type and expr->type: place -> type
  code,     \* the result of the generator
  freed     \* the calls of free_type

vars == <<stmt, phase, ret, types, code, freed>>

Init ==
  /\ stmt \in Statements
  /\ phase = "parsed"
  /\ ret = "none"
  /\ types = Nothing
  /\ code = Panic
  /\ freed = {}

-----------------------------------------------------------------------------
(* Steps.                                                                  *)

\* parse_let_stmt, parse_return_stmt, parse_expr_stmt and its like, and
\* parse_if_stmt call the analysis with what the statement expects.
Analysis ==
  CASE stmt.kind = "let" -> AnalyseExpr(stmt.expr, IdentType(stmt.name))
    [] stmt.kind = "return" -> AnalyseExpr(stmt.expr, ReturnType(stmt.name))
    [] stmt.kind = "call" -> AnalyseExpr(stmt.expr, ReturnType(stmt.expr[<<1>>].name))
    [] stmt.kind = "assign" -> AnalyseAssign(stmt.expr)
    [] OTHER -> AnalyseCmp(stmt.expr)

Analyse ==
  /\ phase = "parsed"
  /\ ret' = Analysis.ret
  /\ types' = Analysis.types
  /\ phase' = IF ret' = "SUCCESS" THEN "analysed"
              ELSE IF ret' \in {"ASSERT", "NULL"} THEN "crashed" ELSE "rejected"
  /\ UNCHANGED <<stmt, code, freed>>

\* print_ast_by_jim, which changes nothing that the generator reads; what it
\* writes is in Printing.
PrintAst ==
  /\ phase = "analysed"
  /\ phase' = "printed"
  /\ UNCHANGED <<stmt, ret, types, code, freed>>

\* compile_let_stmt, compile_return_stmt, compile_expr_stmt, compile_cmp_expr
Compilation ==
  CASE stmt.kind = "let" -> CompileLet(stmt.name, stmt.expr, types)
    [] stmt.kind = "return" ->
         Into("ret", ReturnType(stmt.name), <<CompileTree(stmt.expr, types)[<<>>]>>)
    [] stmt.kind = "call" -> CompileTree(stmt.expr, types)[<<1>>]
    [] stmt.kind = "assign" -> CompileAssign(stmt.expr, types)
    [] OTHER -> CompileCmp(stmt.expr, types)

Compile ==
  /\ phase = "analysed"
  /\ code' = Compilation
  /\ phase' = IF code'.ok THEN "compiled" ELSE "crashed"
  /\ UNCHANGED <<stmt, ret, types, freed>>

-----------------------------------------------------------------------------
(* free_stmt, which comes to every node of the tree once.                  *)

\* Mutant: free_type does not look whether there is one.
FreeTypeUnseen(by, of) == {[by |-> by, of |-> of, type |-> At(types, of)]}

\* free_type, called for the node at by with the type of that at of
FreeType(by, of) ==
  IF At(types, of) = NULL THEN {} ELSE {[by |-> by, of |-> of, type |-> At(types, of)]}

\* Mutant: the type of every operand of a comparison is freed.
FreeCmpAll(at) == UNION {FreeType(at, of) : of \in {at, Child(at, 1), Child(at, 2)}}

\* free_expr: a comparison owns its type and those of its literals.
FreeCmp(at) ==
  FreeType(at, at) \cup
    UNION {FreeType(at, of) :
             of \in {place \in {Child(at, 1), Child(at, 2)} : stmt.expr[place].kind = "INT"}}

\* free_expr and free_value: an index is freed with its type, whosoever's
\* that is.
FreeNode(at) ==
  CASE stmt.expr[at].kind = "CMP" -> FreeCmp(at)
    [] stmt.expr[at].kind = "ARR_ELEM" -> FreeType(at, Child(at, 1))
    [] stmt.expr[at].kind = "TYPE" ->
         {[by |-> at, of |-> at, type |-> NamedType(stmt.expr[at].name, at)]}
    [] OTHER -> {}

\* On an error at once, and else with the file that was compiled.
Free ==
  /\ phase \in {"rejected", "compiled"}
  /\ freed' = UNION {FreeNode(at) : at \in DOMAIN stmt.expr}
  /\ phase' = "freed"
  /\ UNCHANGED <<stmt, ret, types, code>>

Next == Analyse \/ PrintAst \/ Compile \/ Free

Spec == Init /\ [][Next]_vars

-----------------------------------------------------------------------------
(* Properties.                                                             *)

Rets == {"none", "SUCCESS", "IMPLICIT_CAST", "EXPECT_SIGNED", "EXPECT_UNSIGNED",
         "UNKOWN", "OUT_OF_ARR", "INVAILED_IDX", "CANNOT_BE_ASSIGNED",
         "CANNOT_INIT_VALUE_BY_ELEM_INIT", "ASSERT", "NULL"}

\* The variables have their types, and only nodes of the tree have one
\* (analyse_*, free_type).
TypeOK ==
  /\ IsStatement(stmt)
  /\ phase \in {"parsed", "analysed", "printed", "compiled", "rejected",
                "crashed", "freed"}
  /\ ret \in Rets
  /\ DOMAIN types \subseteq DOMAIN stmt.expr
  /\ \A at \in DOMAIN types : types[at] \in ZakoTypes
  /\ code.ok \in BOOLEAN
  /\ \A call \in freed : call.type \in ZakoTypes /\ call.type # NULL

\* What a number of a type holds, by width and sign; an array is its address.
Bits == [i8 |-> 8, i16 |-> 16, i32 |-> 32, i64 |-> 64,
         u8 |-> 8, u16 |-> 16, u32 |-> 32, u64 |-> 64]
Holds(to, from) ==
  \/ to = from
  \/ /\ {to, from} \subseteq Signed \/ {to, from} \subseteq Unsigned
     /\ Bits[from] <= Bits[to]

\* What has to fit what: the value at a place and the type it must be able
\* to take.
Demand(at, type) == [at |-> at, type |-> type]

DemandsOf(tree, demanded, at, type) ==
  LET node == tree[at]
  IN  CASE node.kind \in {"EXPR", "PRIMARY"} -> demanded[<<Child(at, 1), type>>]
        [] node.kind = "BINARY" /\ node.name = "as" -> demanded[<<Child(at, 2), type>>]
        [] node.kind = "BINARY" /\ node.name # "as" ->
             demanded[<<Child(at, 1), type>>] \cup demanded[<<Child(at, 2), type>>]
        [] node.kind = "ELEM_INIT" /\ type.builtin = "arr" ->
             UNION {demanded[<<Child(at, k), ElemType(type)>>] : k \in 1..node.kids}
        [] node.kind = "FN_CALL" ->
             {Demand(at, type)} \cup
               UNION {demanded[<<Child(at, k), ArgType(node.name, k)>>] : k \in 1..node.kids}
        [] node.kind = "ARR_ELEM" ->
             {Demand(at, type)} \cup demanded[<<Child(at, 1), IndexType("u64", Child(at, 1))>>]
        [] OTHER -> {Demand(at, type)}
Demands(tree) ==
  LET demanded[call \in (DOMAIN tree) \X ZakoTypes] ==
        DemandsOf(tree, demanded, call[1], call[2])
  IN  demanded

\* The type that a value has of itself, and not from where it stands.
SelfTyped == {"IDENT", "FN_CALL", "ARR_ELEM", "TYPE"}
TypeOf(tree, at) ==
  LET value == tree[at]
  IN  CASE value.kind = "IDENT" -> IdentType(value.name)
        [] value.kind = "FN_CALL" -> ReturnType(value.name)
        [] value.kind = "ARR_ELEM" -> ElemType(IdentType(value.name))
        [] value.kind = "TYPE" -> NamedType(value.name, at)
        [] OTHER -> NULL

\* A number is held by one of its sign that is no narrower, an array by one
\* of the same elements that has its size or none.
Takes(to, from) ==
  \/ to.builtin \in Numbers /\ Holds(to.builtin, from.builtin)
  \/ /\ to.builtin = "arr" /\ from.builtin = "arr"
     /\ to.elem = from.elem /\ to.inner = from.inner /\ to.size \in {0, from.size}

InBounds(tree, at) ==
  tree[at].kind = "ARR_ELEM" =>
    LET idx == tree[Child(at, 1)]
        size == IdentType(tree[at].name).size
    IN  idx.kind = "INT" /\ size > 0 => idx.int \in 0..(size - 1)

Met(tree, d) ==
  CASE tree[d.at].kind \in SelfTyped -> Takes(d.type, TypeOf(tree, d.at)) /\ InBounds(tree, d.at)
    [] tree[d.at].kind = "INT" -> d.type.builtin \in Numbers
    [] tree[d.at].kind = "STRING" -> d.type.builtin = "arr" /\ d.type.elem \in {"u8", "i8"}
    [] OTHER -> FALSE

\* One array for another of other elements or of another size, one function
\* for another: compare_builtin_type does not look into them.
Mixed(tree, d) ==
  /\ tree[d.at].kind \in SelfTyped /\ InBounds(tree, d.at)
  /\ d.type.builtin \in {"arr", "fn"} /\ TypeOf(tree, d.at).builtin = d.type.builtin
  /\ ~Takes(d.type, TypeOf(tree, d.at))

\* The value at this place can be of this type, and all in it of theirs, but
\* for arrays and functions that are mixed up.
Passes(tree, at, type) ==
  \A d \in Demands(tree)[<<at, type>>] : Met(tree, d) \/ Mixed(tree, d)

Expected ==
  CASE stmt.kind = "let" -> IdentType(stmt.name)
    [] stmt.kind = "return" -> ReturnType(stmt.name)
    [] stmt.kind = "call" -> ReturnType(stmt.expr[<<1>>].name)
    [] OTHER -> LET lhs == stmt.expr[<<1>>]
                IN  IF lhs.kind = "IDENT" THEN IdentType(lhs.name)
                    ELSE ElemType(IdentType(lhs.name))
Assignable == stmt.kind = "assign" => Idents[stmt.expr[<<1>>].name].mutable

\* The analysis accepts a statement exactly when each value in it, however
\* deep in operators, calls, indices and initialisers, fits what the
\* declarations want there, what is cast excepted: no number is narrowed, none
\* changes its sign and none stands for an array without the analysis seeing
\* it.  It does let one array stand for another whose elements or size are
\* not those wanted, and one function for another (Mixed); and it never counts
\* the characters of a string or the elements of an initialiser (analyse_expr
\* and all that it calls).
AcceptsWhatFits ==
  phase # "parsed" /\ ret \notin {"ASSERT", "NULL"} /\ stmt.kind \notin {"if", "while"} =>
    (ret = "SUCCESS" <=> Assignable /\ Passes(stmt.expr, <<>>, Expected))

InTree(kind) == {at \in DOMAIN stmt.expr : stmt.expr[at].kind = kind}

\* The analysis leaves what is cast, and what a comparison compares,
\* unchecked; it takes a type for an operand, and an initialiser where only a
\* let has room for one; a let of an array compiles nothing but an initialiser;
\* and a variable, an element, an argument or a result that is a function has
\* no type in libmcb.
Casts == {at \in InTree("BINARY") : stmt.expr[at].name = "as"}
UncheckedCast ==
  \E at \in Casts :
    \/ stmt.expr[Child(at, 2)].kind # "TYPE"
    \/ ~Passes(stmt.expr, Child(at, 1), NamedType(stmt.expr[Child(at, 2)].name, Child(at, 2)))
UntypedOperand ==
  \E at \in InTree("CMP") : \E k \in {1, 2} : stmt.expr[Child(at, k)].kind \notin {"INT", "IDENT"}
TypeOperand ==
  \E at \in DOMAIN stmt.expr : \E k \in 1..stmt.expr[at].kids :
    stmt.expr[Child(at, k)].kind = "TYPE" /\ ~(at \in Casts /\ k = 2)
Misplaced ==
  LET whole == stmt.expr[<<>>].kind = "PRIMARY" /\ stmt.expr[<<1>>].kind = "ELEM_INIT"
      array == stmt.kind = "let" /\ IdentType(stmt.name).builtin = "arr"
  IN  array # whole \/ InTree("ELEM_INIT") # (IF whole THEN {<<1>>} ELSE {})
DeclaredAt(at) ==
  LET node == stmt.expr[at]
  IN  CASE node.kind \in {"IDENT", "ARR_ELEM"} -> {IdentType(node.name)}
        [] node.kind = "FN_CALL" ->
             {ReturnType(node.name)} \cup {ArgType(node.name, k) : k \in 1..node.kids}
        [] OTHER -> {}
FunctionTyped ==
  \/ \E at \in DOMAIN stmt.expr : \E type \in DeclaredAt(at) : "fn" \in {type.builtin, type.elem}
  \/ stmt.kind \in {"let", "return"} /\ "fn" \in {Expected.builtin, Expected.elem}
Gaps == UncheckedCast \/ UntypedOperand \/ TypeOperand \/ Misplaced \/ FunctionTyped

\* Apart from these gaps the generator can compile all that the analysis
\* accepts, and no instruction, unless its operand is cast, leaves a value
\* in a result that cannot hold it (compile_expr, compile_value and the
\* functions they call rely on the types the analysis has set).
GeneratesTyped ==
  ret = "SUCCESS" /\ phase \in {"compiled", "crashed"} /\ ~Gaps =>
    /\ code.ok
    /\ \A instr \in code.instrs : instr.cast \/ Holds(instr.result, instr.operand)

Own == {type \in {types[at] : at \in DOMAIN types} : type.role \in {"index", "cmp", "literal"}}
IndexRejected ==
  \E at \in InTree("ARR_ELEM") :
    ~Passes(stmt.expr, Child(at, 1), IndexType("u64", Child(at, 1)))

\* A tree frees the types that were allocated for it, each once, and none of
\* an identifier's, a function's or another value's, which are freed with
\* those: also when an error left it half analysed.  An index that was
\* rejected is the exception: free_value takes its type for the tree's own.
FreesOwn ==
  phase = "freed" /\ ~IndexRejected =>
    /\ Own \subseteq {call.type : call \in freed}
    /\ \A call \in freed : call.type \in Own \/ call.type.role = "named"
    /\ \A call, other \in freed : call.type = other.type => call = other
=============================================================================
