-------------------------------- MODULE Emit --------------------------------
(***************************************************************************)
(* The instructions for values and expressions (src/compiler/expr.c,       *)
(* value.c, let.c, fn.c, return.c): which there are, of what types their   *)
(* operands are, and where the generator gives up (panic, assert, or a     *)
(* member of a union that was not set).                                    *)
(*                                                                         *)
(* Abstracted: the order of instructions and the registers; external, what *)
(* libmcb makes of them.                                                   *)
(***************************************************************************)
EXTENDS Semantics

\* Where a value ends up: its type, if it was cast, the instructions for it.
Compiled(ok, builtin, cast, instrs) ==
  [ok |-> ok, builtin |-> builtin, cast |-> cast, instrs |-> instrs]
Panic == Compiled(FALSE, "none", FALSE, {})

Cast(value) == Compiled(value.ok, value.builtin, TRUE, value.instrs)

\* An instruction that leaves operand in result.
Instr(op, result, value) ==
  [op |-> op, result |-> result, operand |-> value.builtin, cast |-> value.cast]

\* mcb_type_from_zako: an array is passed by its address; NULL and what is
\* neither array nor number have no type.
HasMcbType(type) == type.builtin \in Numbers \cup {"arr"}

\* A literal, or a result, of a type of its own.
Fresh(type) ==
  IF HasMcbType(type) THEN Compiled(TRUE, type.builtin, FALSE, {}) ELSE Panic

\* One instruction into a result of this type from each of the values.
Into(op, type, values) ==
  IF HasMcbType(type) /\ \A k \in DOMAIN values : values[k].ok
  THEN Compiled(TRUE, type.builtin, FALSE,
         UNION {values[k].instrs \cup {Instr(op, type.builtin, values[k])}
                  : k \in DOMAIN values})
  ELSE Panic

\* Below, compiled is what the generator makes of the nodes below a node.

\* compile_fn_call: every argument in the type the function declares it with,
\* the result in that which it returns.
CompileFnCall(tree, compiled, at) ==
  LET name == tree[at].name
      args == [k \in 1..tree[at].kids |-> compiled[Child(at, k)]]
  IN  IF HasMcbType(ReturnType(name)) /\ \A k \in DOMAIN args : args[k].ok
      THEN Compiled(TRUE, ReturnType(name).builtin, FALSE,
             UNION {args[k].instrs \cup {Instr("arg", ArgType(name, k).builtin, args[k])}
                    : k \in DOMAIN args})
      ELSE Panic

\* compile_arr_elem_value, of the element type that let has given the array
CompileArrElem(tree, compiled, at) ==
  LET idx == compiled[Child(at, 1)]
  IN  IF idx.ok
      THEN Compiled(TRUE, IdentType(tree[at].name).elem, FALSE,
                    idx.instrs \cup {Instr("index", "u64", idx)})
      ELSE Panic

\* Mutant: the result has the type of the left operand.
CompileBinaryLeft(tree, types, compiled, at) ==
  LET lhs == compiled[Child(at, 1)]
      rhs == compiled[Child(at, 2)]
  IN  IF tree[at].name = "as" THEN Cast(lhs)
      ELSE Into("binary", [At(types, at) EXCEPT !.builtin = lhs.builtin], <<lhs, rhs>>)

\* compile_binary_expr: the result has the type that was expected of it.  A
\* cast is what is cast, whatever its type.
CompileBinary(tree, types, compiled, at) ==
  LET lhs == compiled[Child(at, 1)]
      rhs == compiled[Child(at, 2)]
  IN  IF tree[at].name = "as" THEN Cast(lhs)
      ELSE Into("binary", At(types, at), <<lhs, rhs>>)

\* compile_value and compile_expr
CompileNode(tree, types, compiled, at) ==
  LET node == tree[at]
  IN  CASE node.kind = "ARR_ELEM" -> CompileArrElem(tree, compiled, at)
        [] node.kind \in {"EXPR", "PRIMARY"} -> compiled[Child(at, 1)]
        [] node.kind = "FN_CALL" -> CompileFnCall(tree, compiled, at)
        [] node.kind = "IDENT" -> Fresh(IdentType(node.name))
        [] node.kind \in {"INT", "STRING"} -> Fresh(At(types, at))
        [] node.kind = "BINARY" -> CompileBinary(tree, types, compiled, at)
        [] node.kind \in {"ELEM_INIT", "TYPE", "CMP"} -> Panic

\* What the generator makes of each place of a tree.
CompileTree(tree, types) ==
  LET compiled[at \in DOMAIN tree] == CompileNode(tree, types, compiled, at)
  IN  compiled

\* compile_cmp_expr
CompileCmp(tree, types) ==
  LET side == [k \in {1, 2} |-> CompileTree(tree, types)[<<k>>]]
  IN  IF side[1].ok /\ side[2].ok
      THEN Compiled(TRUE, "cmp", FALSE, side[1].instrs \cup side[2].instrs)
      ELSE Panic

\* compile_assign_expr, an operator before the store or not
CompileAssign(tree, types) ==
  LET container == CompileTree(tree, types)[<<1>>]
      value == CompileTree(tree, types)[<<2>>]
      type == PlainType(container.builtin, "none", "", <<>>)
  IN  IF tree[<<>>].name = "=" THEN Into("store", type, <<value>>)
      ELSE Into("binary", type, <<container, value>>)

\* compile_arr_let_stmt: elements beyond the size are dropped, those not
\* given are 0; the initialiser is taken for an ELEM_INIT unseen.  An element
\* that is an array is stored by its address.
CompileArrLet(type, tree, types) ==
  LET init == tree[<<1>>]
      stored == {k \in 1..init.kids : k <= type.size}
      elems == [k \in stored |-> CompileTree(tree, types)[<<1, k>>]]
  IN  IF tree[<<>>].kind # "PRIMARY" \/ init.kind # "ELEM_INIT" THEN Panic
      ELSE Into("store", ElemType(type), elems)

\* compile_let_stmt
CompileLet(name, tree, types) ==
  IF IdentType(name).builtin = "arr"
  THEN CompileArrLet(IdentType(name), tree, types)
  ELSE Into("store", IdentType(name), <<CompileTree(tree, types)[<<>>]>>)
=============================================================================
