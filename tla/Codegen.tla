------------------------------ MODULE Codegen ------------------------------
(***************************************************************************)
(* The control flow of generated code: compile_fn_definition and           *)
(* compile_stmt (src/compiler/) walk the body of a function and append     *)
(* instructions to it, with labels and branches for if and while; then the *)
(* instructions run.  The body is the tree of statements as Bodies gives   *)
(* it, in the order of the source.                                         *)
(*                                                                         *)
(* Abstracted: what a simple statement computes is one instruction, and a  *)
(* condition has either outcome.  A label is named for the statement and   *)
(* the variable that holds it.  The instructions mean what libmcb's names  *)
(* for them say.                                                           *)
(***************************************************************************)
EXTENDS Bodies

CONSTANTS Programs     \* the bodies

ASSUME ProgramsAssumption == \A p \in Programs : IsProgram(p)

VARIABLES
  prog,     \* the body compiled: definition->stmts
  gen,      \* the statement to be compiled next
  open,     \* the calls of compile_if_stmt and compile_while_stmt in progress
  code,     \* the instructions of ctx->fn
  phase,    \* "generate", "run", or "returned"
  pc,       \* the instruction that runs next
  flag,     \* the outcome of the last comparison
  event     \* what ran last, as in Structured

genVars == <<gen, open, code>>
vars == <<prog, genVars, phase, pc, flag, event>>

-----------------------------------------------------------------------------
(* Instructions.  stmt is the statement an instruction was appended for.   *)

Label(name, i) == [name |-> name, stmt |-> i]
NoLabel == Label("none", 0)
Instr(op, i, to, else) == [op |-> op, stmt |-> i, to |-> to, else |-> else]

Op(i) == Instr("op", i, NoLabel, NoLabel)
Ret(i) == Instr("ret", i, NoLabel, NoLabel)
Cmp(i) == Instr("cmp", i, NoLabel, NoLabel)
Branch(i, to, else) == Instr("branch", i, to, else)
Jmp(i, to) == Instr("jmp", i, to, NoLabel)
Define(l) == Instr("label", l.stmt, l, NoLabel)

-----------------------------------------------------------------------------
(* The generator.                                                          *)

Init ==
  /\ prog \in Programs
  /\ gen = 1
  /\ open = <<>>
  /\ code = <<>>
  /\ phase = "generate"
  /\ pc = 1
  /\ flag = FALSE
  /\ event = [stmt |-> 0, outcome |-> "none", turn |-> 0]

Emit(instrs) ==
  /\ code' = code \o instrs
  /\ UNCHANGED <<prog, phase, pc, flag, event>>

Top == open[Len(open)]
InBlock == open # <<>>
Callers == SubSeq(open, 1, Len(open) - 1)

\* Mutant: i <= stmts_count.
BlockEndsLate == InBlock /\ gen > prog[Top].last + 1

\* The loop over stmts of the innermost call: one more, or none left.
BlockEnds == InBlock /\ gen > prog[Top].last
Compiles(kind) ==
  /\ phase = "generate"
  /\ ~BlockEnds
  /\ gen <= Len(prog)
  /\ prog[gen].kind = kind
  /\ gen' = gen + 1
Finishes(kind) ==
  /\ phase = "generate"
  /\ BlockEnds
  /\ prog[Top].kind = kind
  /\ open' = Callers
  /\ UNCHANGED gen

\* compile_expr_stmt and compile_let_stmt
SimpleStmt ==
  /\ Compiles("simple")
  /\ Emit(<<Op(gen)>>)
  /\ UNCHANGED open

\* compile_return_stmt
ReturnStmt ==
  /\ Compiles("return")
  /\ Emit(<<Ret(gen)>>)
  /\ UNCHANGED open

\* compile_if_stmt, up to the loop over its statements and from there on
IfStmt ==
  /\ Compiles("if")
  /\ LET onTrue == Label("on_true", gen)
         onFalse == Label("on_false", gen)
     IN  Emit(<<Cmp(gen), Branch(gen, onTrue, onFalse), Define(onTrue)>>)
  /\ open' = Append(open, gen)

\* Mutant: the wrong one of the two labels.
IfStmtEndTrue ==
  /\ Finishes("if")
  /\ Emit(<<Define(Label("on_true", Top))>>)

IfStmtEnd ==
  /\ Finishes("if")
  /\ Emit(<<Define(Label("on_false", Top))>>)

\* compile_while_stmt
WhileStmt ==
  /\ Compiles("while")
  /\ LET begin == Label("begin", gen)
         cont == Label("cont", gen)
         end == Label("end", gen)
     IN  Emit(<<Define(begin), Cmp(gen), Branch(gen, cont, end), Define(cont)>>)
  /\ open' = Append(open, gen)

\* Mutant: the loop is not closed.
WhileStmtEndOnce ==
  /\ Finishes("while")
  /\ Emit(<<Define(Label("end", Top))>>)

\* Mutant: end is declared and never defined.
WhileStmtEndOpen ==
  /\ Finishes("while")
  /\ Emit(<<Jmp(Top, Label("begin", Top))>>)

WhileStmtEnd ==
  /\ Finishes("while")
  /\ Emit(<<Jmp(Top, Label("begin", Top)), Define(Label("end", Top))>>)

\* compile_file outputs what was generated, and it is run.
Output ==
  /\ phase = "generate"
  /\ ~InBlock /\ gen > Len(prog)
  /\ phase' = "run"
  /\ UNCHANGED <<prog, genVars, pc, flag, event>>

Generate ==
  \/ SimpleStmt \/ ReturnStmt \/ IfStmt \/ IfStmtEnd
  \/ WhileStmt \/ WhileStmtEnd \/ Output

-----------------------------------------------------------------------------
(* The instructions run (libmcb's part).                                   *)

At(op) == phase = "run" /\ pc \in DOMAIN code /\ code[pc].op = op

Happens(outcome) ==
  event' = [stmt |-> code[pc].stmt, outcome |-> outcome, turn |-> 1 - event.turn]

RunOp ==
  /\ At("op")
  /\ Happens("ran")
  /\ pc' = pc + 1
  /\ UNCHANGED <<prog, genVars, phase, flag>>

RunRet ==
  /\ At("ret")
  /\ Happens("ran")
  /\ phase' = "returned"
  /\ UNCHANGED <<prog, genVars, pc, flag>>

RunCmp ==
  /\ At("cmp")
  /\ flag' \in BOOLEAN
  /\ pc' = pc + 1
  /\ UNCHANGED <<prog, genVars, phase, event>>

Goto(l) == \E q \in DOMAIN code : code[q] = Define(l) /\ pc' = q

RunBranch ==
  /\ At("branch")
  /\ Happens(IF flag THEN "true" ELSE "false")
  /\ Goto(IF flag THEN code[pc].to ELSE code[pc].else)
  /\ UNCHANGED <<prog, genVars, phase, flag>>

RunJmp ==
  /\ At("jmp")
  /\ Goto(code[pc].to)
  /\ UNCHANGED <<prog, genVars, phase, flag, event>>

RunLabel ==
  /\ At("label")
  /\ pc' = pc + 1
  /\ UNCHANGED <<prog, genVars, phase, flag, event>>

Run == RunOp \/ RunRet \/ RunCmp \/ RunBranch \/ RunJmp \/ RunLabel

Next == Generate \/ Run

Spec == Init /\ [][Next]_vars

\* One thread generates, one runs; neither waits.
FairSpec == Spec /\ WF_vars(Next)

-----------------------------------------------------------------------------
(* Which statement the instructions stand at.                              *)

\* A label that opens a block stands for what the block begins with, one that
\* closes a block for what follows the statement, and all else for the
\* statement it was appended for.
Where(p, instr) ==
  IF instr.op # "label" \/ instr.to.name = "begin" THEN instr.stmt
  ELSE IF instr.to.name \in {"on_true", "cont"} THEN Entry(p, instr.stmt)
  ELSE After(p, instr.stmt)

StatementAt ==
  CASE phase = "generate" -> 1
    [] phase = "returned" -> 0
    [] OTHER -> IF pc \in DOMAIN code THEN Where(prog, code[pc]) ELSE Len(prog) + 1

Abstract == INSTANCE Structured WITH at <- StatementAt

-----------------------------------------------------------------------------
(* Properties.                                                             *)

Ops == {"op", "ret", "cmp", "branch", "jmp", "label"}
LabelNames == {"none", "on_true", "on_false", "begin", "cont", "end"}
Labels == [name : LabelNames, stmt : Nat]
Instrs == [op : Ops, stmt : Nat, to : Labels, else : Labels]
Events == [stmt : Nat, outcome : {"none", "ran", "true", "false"}, turn : {0, 1}]

\* The calls in progress are those of the blocks around the statement to be
\* compiled, outermost first, and none has gone past its last statement
\* (compile_stmt and the loops that call it).
CallsNest ==
  /\ \A k \in DOMAIN open :
       /\ open[k] \in 1..(gen - 1)
       /\ prog[open[k]].kind \in {"if", "while"}
       /\ gen <= prog[open[k]].last + 1
  /\ \A k, l \in DOMAIN open : k < l => open[k] < open[l]

\* The variables have their types.
TypeOK ==
  /\ IsProgram(prog)
  /\ gen \in 1..(Len(prog) + 1)
  /\ open \in Seq(Nat)
  /\ CallsNest
  /\ code \in Seq(Instrs)
  /\ phase \in {"generate", "run", "returned"}
  /\ pc \in 1..(Len(code) + 1)
  /\ flag \in BOOLEAN
  /\ event \in Events

Definitions(l) == {q \in DOMAIN code : code[q] = Define(l)}
Uses == {code[q].to : q \in DOMAIN code} \cup {code[q].else : q \in DOMAIN code}

\* compile_if_stmt and compile_while_stmt declare their labels, use them and
\* compile other statements before they define the last one: no label is
\* defined twice, and when the function is done every label that a branch or
\* a jump names is defined.
LabelsOnce ==
  /\ \A q, r \in DOMAIN code :
       code[q].op = "label" /\ code[r] = code[q] => q = r
  /\ phase # "generate" => \A l \in Uses \ {NoLabel} : Definitions(l) # {}

\* What the generated instructions do is what the body says: its statements
\* run in the order and nesting of the source, and every outcome of every
\* condition leads where its block or its end is (compile_stmt).
ImplementsStructured == Abstract!Spec

\* The generated instructions do not stop before a return or the end of the
\* body, nor go round without coming to a statement.
StatementsGoOn ==
  \/ []<>(StatementAt \notin 1..Len(prog))
  \/ []<><<Abstract!Next>>_(Abstract!vars)
=============================================================================
