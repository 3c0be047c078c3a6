--------------------------------- MODULE Ast ---------------------------------
(***************************************************************************)
(* The output of the tree of a function (print_* in src/, --ast): the      *)
(* calls of the JSON writer, in their order.  A type that is NULL prints   *)
(* nothing, and so does what a key was written for.                        *)
(***************************************************************************)
EXTENDS Semantics, Jim

Scalars == <<"key", "scalar">>
Object(members) == <<"object">> \o members \o <<"object end">>
Array(elements) == <<"array">> \o elements \o <<"array end">>
Member(value) == <<"key">> \o value

RECURSIVE Concat(_, _, _)
Concat(n, Part(_), k) == IF k > n THEN <<>> ELSE Part(k) \o Concat(n, Part, k + 1)

\* print_type, an array's with that of its elements
PrintPlainType == Object(Scalars \o Scalars)
RECURSIVE PrintType(_)
PrintType(type) ==
  IF type = NULL THEN <<>>
  ELSE IF type.builtin # "arr" THEN PrintPlainType
  ELSE Object(Scalars \o Scalars \o Scalars \o Member(PrintType(ElemType(type))))

\* print_ident: its kind, name, mutability and type
PrintIdent(name) ==
  Object(Scalars \o Scalars \o Scalars \o Member(PrintType(IdentType(name))))

RECURSIVE PrintValue(_, _, _), PrintExpr(_, _, _)

PrintValues(tree, types, at) ==
  Concat(tree[at].kids, LAMBDA k : PrintValue(tree, types, Child(at, k)), 1)

\* print_value, with print_arr_elem_value, print_elem_init_value, print_fn_call
PrintValue(tree, types, at) ==
  LET value == tree[at]
      own ==
        CASE value.kind = "ARR_ELEM" ->
               Object(Member(PrintIdent(value.name)) \o Member(PrintValues(tree, types, at)))
          [] value.kind = "ELEM_INIT" -> Array(PrintValues(tree, types, at))
          [] value.kind = "EXPR" -> PrintExpr(tree, types, Child(at, 1))
          [] value.kind = "FN_CALL" ->
               Object(Scalars \o Member(Array(PrintValues(tree, types, at))))
          [] value.kind = "IDENT" -> PrintIdent(value.name)
          [] value.kind \in {"INT", "STRING"} -> <<"scalar">>
          [] value.kind = "TYPE" -> PrintPlainType
  IN  Object(Scalars \o Member(own) \o Member(PrintType(At(types, at))))

\* print_expr: an operator, but in a primary expression, and operands
PrintExpr(tree, types, at) ==
  LET operand(k) == Member(PrintValue(tree, types, Child(at, k)))
  IN  Object(Scalars \o (IF tree[at].kind = "PRIMARY" THEN <<>> ELSE Scalars)
               \o Concat(tree[at].kids, operand, 1)
               \o Member(PrintType(At(types, at))))

\* print_let_stmt; print_stmt of a return and of an expression
PrintLet(name, tree, types) ==
  Object(Scalars \o Member(PrintIdent(name)) \o Member(PrintExpr(tree, types, <<>>)))
PrintSimple(tree, types) == Object(Scalars \o Member(PrintExpr(tree, types, <<>>)))

\* Mutant: an array for the statements.
PrintBlockArray(cond, types, stmts) ==
  Object(Scalars \o Member(PrintExpr(cond, types, <<>>)) \o Scalars
           \o Member(Array(Concat(stmts, LAMBDA k : PrintSimple(cond, types), 1))))

\* print_if_stmt and print_while_stmt: the statements are written one after
\* the other behind a single key.
PrintBlock(cond, types, stmts) ==
  Object(Scalars \o Member(PrintExpr(cond, types, <<>>)) \o Scalars
           \o Member(Concat(stmts, LAMBDA k : PrintSimple(cond, types), 1)))

\* print_fn_definition and print_ast_by_jim, of one function with one
\* statement
PrintFn(returns, stmt) ==
  Array(Object(Scalars \o Member(PrintType(returns)) \o Member(Array(<<>>))
                 \o Member(Array(stmt))))
=============================================================================
