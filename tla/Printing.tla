------------------------------ MODULE Printing ------------------------------
(***************************************************************************)
(* The tree of Trees with what print_ast_by_jim writes of it, --ast: every *)
(* step is one of Trees, and the step PrintAst writes.                     *)
(***************************************************************************)
EXTENDS Trees, Ast

VARIABLES
  out       \* the AST output: writer, statements in a block, if the function has a type

PrintingVars == <<vars, out>>

PrintingInit == Init /\ out = [jim |-> NewJim, stmts |-> 0, typed |-> TRUE]

\* print_ast_by_jim, of a function whose type the parser got or not, and with
\* some statements in the block of an if or a while
Printed(stmts) ==
  CASE stmt.kind = "let" -> PrintLet(stmt.name, stmt.expr, types)
    [] stmt.kind \in {"if", "while"} -> PrintBlock(stmt.expr, types, stmts)
    [] OTHER -> PrintSimple(stmt.expr, types)

Returned == LiteralType("u8", <<>>)
OutputAst ==
  /\ PrintAst
  /\ \E stmts \in 0..2, typed \in BOOLEAN :
       out' = [jim |-> Written(PrintFn(IF typed THEN Returned ELSE NULL, Printed(stmts))),
               stmts |-> stmts, typed |-> typed]

PrintingNext == OutputAst \/ ((Analyse \/ Compile \/ Free) /\ UNCHANGED out)

PrintingSpec == PrintingInit /\ [][PrintingNext]_PrintingVars

-----------------------------------------------------------------------------
(* Properties.                                                             *)

\* The output is JSON exactly when every type in the tree is known and the
\* block of an if or a while has one statement; an assert of the writer fails
\* only for a function whose type did not parse (print_fn_definition).
Known == \A at \in DOMAIN stmt.expr : At(types, at) # NULL
OneStatement == stmt.kind \in {"if", "while"} => out.stmts = 1
AstIsJson ==
  phase = "printed" =>
    /\ IsJson(out.jim.sink) <=> Known /\ OneStatement /\ out.typed
    /\ out.jim.failed <=> ~out.typed
=============================================================================
