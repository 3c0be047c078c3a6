-------------------------------- MODULE Expr --------------------------------
(***************************************************************************)
(* The expression parser of czakoc: parse_expr_with_mode and merge_expr    *)
(* (src/parser/expr.c), which insert one operator at a time into the tree  *)
(* built so far; parse_value (src/parser/value.c), which calls back into   *)
(* it for a parenthesis and into itself for an index or a list; and        *)
(* parse_fn_call (src/parser/fn.c).  The source is chosen a token at a     *)
(* time, as the parser comes to peek at it.                                *)
(*                                                                         *)
(* A call of parse_expr_with_mode is a group: its operands and operators   *)
(* in the order read, and for each operator what its lhs and rhs point to. *)
(* merge_expr moves pointers within one group only.  A value that is made  *)
(* of values is a group too, of operands only.                             *)
(*                                                                         *)
(* Abstracted: what an identifier is bound to is in its token, and a type  *)
(* is one token, as parse_type skips no end of a line; "bad" is a token    *)
(* that parse_value refuses.                                               *)
(***************************************************************************)
EXTENDS Integers, Sequences

CONSTANTS
  Tokens,      \* the tokens that occur
  MaxTokens,   \* bound of the model: tokens eaten before the last line ends
  MaxParams    \* bound of the model: parameters of a function

Infix == {"as", "+", "-", "*", "/"}
Cmp == {"==", "<"}

\* "int" is a literal; "name", "arr" and "fn" are identifiers of a number (or
\* of a function without parameters), of an array, and of a function with
\* parameters; "module" is the name of an imported module.
Literals == {"int", "type"}
Idents == {"name", "arr", "fn"}

\* The end of a line, by what peek_tok_skip_white finds beyond it: a comma,
\* nothing, or any other token.
Eols == {"EOL", "EOL_comma", "EOL_end"}

ASSUME TokensAssumption ==
  Tokens \subseteq Infix \cup Cmp \cup Literals \cup Idents
                \cup {"module", ".", "comma", "(", ")", "[", "]", "lbrace", "rbrace", "bad"}
                \cup {"EOL", "EOL_comma"}
ASSUME BoundsAssumption == MaxTokens \in Nat /\ MaxParams \in Nat


VARIABLES
  tok,      \* what peek_tok returns, "none" for NULL
  eaten,    \* cur_tok
  groups,   \* the calls of parse_expr_with_mode, and values made of values
  stack,    \* those not yet returned, the innermost last
  pc,       \* where the innermost one is, or how the outermost ended
  crossed   \* history: the operands of the outermost in which the end of a
            \* line was eaten outside parentheses

vars == <<tok, eaten, groups, stack, pc, crossed>>

-----------------------------------------------------------------------------
(* Groups.                                                                 *)

\* What lhs, rhs and the variable expr point to: operand i or operator k.
Val(i) == <<"val", i>>
Opr(k) == <<"op", k>>

\* Operands: a value of one token, a TYPE_LITERAL, NULL, or a group: an
\* EXPR_VALUE or a value made of values.
Atom(kind) == [kind |-> kind, expr |-> 0]
ExprValue(id) == [kind |-> "expr", expr |-> id]

\* A qualified name, a call, an element of an array, a list of elements.
Composite == {"module", "call", "elem", "list"}

NewGroup(mode, argc) ==
  [mode |-> mode, argc |-> argc, vals |-> <<>>,
   ops |-> <<>>, lhs |-> <<>>, rhs |-> <<>>, root |-> Val(1)]

\* get_expr_op_binding_power
Power(op) == CASE op = "as" -> 0
               [] op \in {"+", "-"} -> 1
               [] OTHER -> 2

\* Faulty: the operand taken is left where it was.
MergeUnderShared(g, r) ==
  [g EXCEPT !.lhs = Append(@, g.rhs[r]), !.rhs = Append(@, Val(Len(g.lhs) + 2))]

\* merge_expr: the new operator takes the place of the root, or of the rhs
\* of the root.  PRIMARY_EXPR: the first operator becomes the root.
MergeOver(g) ==
  LET k == Len(g.lhs) + 1
  IN  [g EXCEPT !.lhs = Append(@, g.root), !.rhs = Append(@, Val(k + 1)),
                !.root = Opr(k)]
MergeUnder(g, r) ==
  LET k == Len(g.lhs) + 1
  IN  [g EXCEPT !.lhs = Append(@, g.rhs[r]),
                !.rhs = Append([@ EXCEPT ![r] = Opr(k)], Val(k + 1))]

\* Faulty: operators of one power associate to the right.
BindsAsTight(g) ==
  /\ g.root[1] = "op"
  /\ Power(g.ops[g.root[2]]) <= Power(g.ops[Len(g.lhs) + 1])

BindsTighter(g) ==
  /\ g.root[1] = "op"
  /\ Power(g.ops[g.root[2]]) < Power(g.ops[Len(g.lhs) + 1])

Merge(g) == IF BindsTighter(g) THEN MergeUnder(g, g.root[2]) ELSE MergeOver(g)

\* An operand that parse_value returned, NULL included, goes to group g.
Deliver(g, val) ==
  LET with == [g EXCEPT !.vals = Append(@, val)]
  IN  IF g.ops = <<>> THEN with ELSE Merge(with)

Cur == stack[Len(stack)]
Group == groups[Cur]
Inner == Len(stack) > 1
Callers == SubSeq(stack, 1, Len(stack) - 1)

\* Faulty: a comparison may be chained.
AfterAny(g) == IF g.mode \in Composite THEN "next" ELSE "op"

\* Where parsing goes on after an operand of g: a comparison is at its end
\* after one operator.
After(g) == IF g.mode \in Composite THEN "next"
            ELSE IF g.mode = "cmp" /\ g.ops # <<>> THEN "return" ELSE "op"

-----------------------------------------------------------------------------
(* Tokens.                                                                 *)

\* The lexer gives no two EOL in a row and ends with one.
Following(t) ==
  CASE t = "EOL_end" -> {"none"}
    [] t = "EOL_comma" -> {"comma"}
    [] t = "EOL" -> Tokens \ (Eols \cup {"comma"})
    [] OTHER -> {"EOL_end"} \cup (IF eaten + 1 < MaxTokens THEN Tokens ELSE {})

\* No parenthesis is open.
Outside == \A i \in 2..Len(stack) : groups[stack[i]].mode \in Composite

EatTok ==
  /\ tok' \in Following(tok)
  /\ eaten' = eaten + 1
  /\ crossed' = IF tok \in Eols /\ Outside
                THEN crossed \cup {Len(groups[stack[1]].vals) + 1} ELSE crossed

Init ==
  /\ tok \in Tokens \cup {"EOL_end"}
  /\ eaten = 0
  /\ \E mode \in {"default", "cmp"} : groups = <<NewGroup(mode, 0)>>
  /\ stack = <<1>>
  /\ pc = "value"
  /\ crossed = {}

\* A group is begun within the innermost one, and one ends: with a value for
\* its caller, or as a NULL.
Enter(g, at) ==
  /\ groups' = Append(groups, g)
  /\ stack' = Append(stack, Len(groups'))
  /\ pc' = at

ReturnValue ==
  /\ stack' = Callers
  /\ LET caller == stack[Len(stack) - 1]
     IN  /\ groups' = [groups EXCEPT ![caller] = Deliver(@, ExprValue(Cur))]
         /\ pc' = After(groups[caller])

ReturnNull ==
  /\ stack' = Callers
  /\ pc' = "fail"
  /\ UNCHANGED groups

-----------------------------------------------------------------------------
(* parse_value                                                             *)

\* What it takes: anywhere, after the name of a module, and after the dot.
Accepted(at) ==
  CASE at = "value" -> Literals \cup Idents \cup {"module", "(", "lbrace"}
    [] at = "dot" -> {"."} \cup Eols
    [] at = "name" -> Idents \cup Eols
    [] OTHER -> {}

\* An identifier is looked up in the scope, or after the dot in the module.
AtIdent == pc \in {"value", "name"}

Operand ==
  /\ \/ pc = "value" /\ tok \in Literals
     \/ AtIdent /\ tok = "name"
  /\ EatTok
  /\ groups' = [groups EXCEPT
                  ![Cur] = Deliver(Group, Atom(IF tok = "type" THEN "type" ELSE "value"))]
  /\ pc' = After(Group)
  /\ UNCHANGED stack

\* parse_expr_value calls parse_expr: always DEFAULT_EXPR_MODE.
OpenParen ==
  /\ pc = "value"
  /\ tok = "("
  /\ EatTok
  /\ Enter(NewGroup("default", 0), "value")

OpenList ==
  /\ pc = "value"
  /\ tok = "lbrace"
  /\ EatTok
  /\ Enter(NewGroup("list", 0), "list")

\* parse_fn_call, of a function with n parameters.
Call ==
  /\ AtIdent
  /\ tok = "fn"
  /\ EatTok
  /\ \E n \in 1..MaxParams : Enter(NewGroup("call", n), "value")

Module ==
  /\ pc = "value"
  /\ tok = "module"
  /\ EatTok
  /\ Enter(NewGroup("module", 1), "dot")

\* eat_tok_skip_white, before the dot and before the name.
SkipWhite ==
  /\ pc \in {"dot", "name"}
  /\ tok \in Eols
  /\ EatTok
  /\ UNCHANGED <<groups, stack, pc>>

Dot ==
  /\ pc = "dot"
  /\ tok = "."
  /\ EatTok
  /\ pc' = "name"
  /\ UNCHANGED <<groups, stack>>

\* Only a bracket that follows at once makes it an element.
ArrName ==
  /\ AtIdent
  /\ tok = "arr"
  /\ EatTok
  /\ pc' = "arr"
  /\ UNCHANGED <<groups, stack>>

Index ==
  /\ pc = "arr"
  /\ tok = "["
  /\ EatTok
  /\ Enter(NewGroup("elem", 1), "value")

NoIndex ==
  /\ pc = "arr"
  /\ tok \notin {"[", "none"}
  /\ groups' = [groups EXCEPT ![Cur] = Deliver(Group, Atom("value"))]
  /\ pc' = After(Group)
  /\ UNCHANGED <<tok, eaten, stack, crossed>>

\* Faulty: the token refused is left to be read again.
NoOperandPeeked ==
  /\ pc \in {"value", "dot", "name"}
  /\ tok \notin Accepted(pc) \cup {"none"}
  /\ UNCHANGED vars

\* Any other token is eaten and refused, the end of the line too.
NoOperand ==
  /\ pc \in {"value", "dot", "name"}
  /\ tok \notin Accepted(pc) \cup {"none"}
  /\ EatTok
  /\ pc' = "fail"
  /\ UNCHANGED <<groups, stack>>

\* parse_value returned NULL for the first operand of an expression, or for
\* any operand of a value: parse_expr_with_mode, or parse_value, returns
\* NULL too.
FailFirst ==
  /\ pc = "fail"
  /\ Group.ops = <<>>
  /\ IF Inner THEN stack' = Callers /\ UNCHANGED pc
              ELSE pc' = "null" /\ UNCHANGED stack
  /\ UNCHANGED <<tok, eaten, groups, crossed>>

\* For a later operand of an expression the result is not looked at.
FailLater ==
  /\ pc = "fail"
  /\ Group.ops # <<>>
  /\ groups' = [groups EXCEPT ![Cur] = Deliver(Group, Atom("null"))]
  /\ pc' = After(Group)
  /\ UNCHANGED <<tok, eaten, stack, crossed>>

-----------------------------------------------------------------------------
(* Values made of values.                                                  *)

\* peek_fn_call_end looks for a comma as long as parameters are left, over
\* the end of a line too; only then are that and the comma eaten.
LacksArgs == Group.mode = "call" /\ Len(Group.vals) < Group.argc

SkipToComma ==
  /\ pc = "next"
  /\ LacksArgs
  /\ tok = "EOL_comma"
  /\ EatTok
  /\ UNCHANGED <<groups, stack, pc>>

Comma ==
  /\ pc = "next"
  /\ LacksArgs
  /\ tok = "comma"
  /\ EatTok
  /\ pc' = "value"
  /\ UNCHANGED <<groups, stack>>

\* A call without its last arguments is returned too: an error is printed.
EndValue ==
  /\ pc = "next"
  /\ Group.mode \in {"call", "module"}
  /\ LacksArgs => tok \notin {"comma", "none"} \cup (Eols \ {"EOL"})
  /\ ReturnValue
  /\ UNCHANGED <<tok, eaten, crossed>>

\* parse_elem_init_value: a brace is looked for before each element.
ListElem ==
  /\ pc = "list"
  /\ tok \notin {"rbrace", "none"}
  /\ pc' = "value"
  /\ UNCHANGED <<tok, eaten, groups, stack, crossed>>

ListComma ==
  /\ pc = "next"
  /\ Group.mode = "list"
  /\ tok = "comma"
  /\ EatTok
  /\ pc' = "list"
  /\ UNCHANGED <<groups, stack>>

\* Return to parse_expr_value, parse_arr_elem_value or parse_elem_init_value,
\* which needs the closing token next.
Closer(g) == CASE g.mode = "elem" -> "]"
               [] g.mode = "list" -> "rbrace"
               [] OTHER -> ")"
Closing ==
  \/ pc = "return" /\ Inner
  \/ pc = "next" /\ Group.mode \in {"elem", "list"}

Close ==
  /\ Closing \/ pc = "list"
  /\ tok = Closer(Group)
  /\ EatTok
  /\ ReturnValue

NotClosed ==
  /\ Closing
  /\ tok \notin {Closer(Group), "none"}
  /\ ~(Group.mode = "list" /\ tok = "comma")
  /\ EatTok
  /\ ReturnNull

-----------------------------------------------------------------------------
(* parse_expr_with_mode                                                    *)

\* Faulty: peek_expr_op skips the end of any line.
SkipAnyEol ==
  /\ pc = "op"
  /\ tok \in Eols
  /\ EatTok
  /\ UNCHANGED <<groups, stack, pc>>

\* peek_expr_op: inside parentheses the end of a line is eaten.
SkipEol ==
  /\ pc = "op"
  /\ tok \in Eols
  /\ Inner
  /\ EatTok
  /\ UNCHANGED <<groups, stack, pc>>

IsOp == tok \in (IF Group.mode = "cmp" THEN Cmp ELSE Infix)

Operator ==
  /\ pc = "op"
  /\ IsOp
  /\ EatTok
  /\ groups' = [groups EXCEPT ![Cur].ops = Append(@, tok)]
  /\ pc' = "value"
  /\ UNCHANGED stack

NoOperator ==
  /\ pc = "op"
  /\ ~IsOp
  /\ tok # "none"
  /\ ~(tok \in Eols /\ Inner)
  /\ pc' = "return"
  /\ UNCHANGED <<tok, eaten, groups, stack, crossed>>

\* Return to the statement.
Done ==
  /\ pc = "return"
  /\ ~Inner
  /\ pc' = "done"
  /\ UNCHANGED <<tok, eaten, groups, stack, crossed>>

\* The tokens are used up: what peek_tok or eat_tok returns is dereferenced.
NullToken ==
  /\ \/ /\ pc \in {"value", "op", "dot", "name", "arr", "list"} \/ Closing
        /\ tok = "none"
     \/ /\ pc = "next" /\ LacksArgs
        /\ tok \in {"none", "EOL_end"}
  /\ pc' = "segv"
  /\ UNCHANGED <<tok, eaten, groups, stack, crossed>>

Next ==
  \/ Operand \/ OpenParen \/ OpenList \/ Call \/ Module \/ SkipWhite \/ Dot
  \/ ArrName \/ Index \/ NoIndex \/ NoOperand \/ FailFirst \/ FailLater
  \/ SkipToComma \/ Comma \/ EndValue \/ ListElem \/ ListComma
  \/ Close \/ NotClosed
  \/ SkipEol \/ Operator \/ NoOperator \/ Done \/ NullToken

Spec == Init /\ [][Next]_vars

\* One thread; nothing in the parser waits.
FairSpec == Spec /\ WF_vars(Next)

-----------------------------------------------------------------------------
(* Properties.                                                             *)

Refs == {"val", "op"} \X Nat
Vals == [kind : {"value", "type", "null", "expr"}, expr : Nat]
Groups == [mode : {"default", "cmp"} \cup Composite, argc : Nat, vals : Seq(Vals),
           ops : Seq(Infix \cup Cmp), lhs : Seq(Refs), rhs : Seq(Refs), root : Refs]

\* How many operators are in the tree, and what its pointers may point to.
Merged(g) == Len(g.lhs)
Within(ref, n) ==
  \/ ref[1] = "val" /\ ref[2] \in 1..(n + 1)
  \/ ref[1] = "op" /\ ref[2] \in 1..n

GroupOK(g) ==
  /\ g.mode = "default" => \A k \in 1..Len(g.ops) : g.ops[k] \in Infix
  /\ g.mode = "cmp" => Len(g.ops) <= 1
  /\ g.mode \in Composite => g.ops = <<>> /\ g.lhs = <<>>
  /\ Len(g.rhs) = Merged(g)
  /\ Within(g.root, Merged(g))
  /\ \A k \in 1..Merged(g) :
       Within(g.lhs[k], Merged(g)) /\ Within(g.rhs[k], Merged(g))

\* A group whose next operand is awaited, and one that has them all.
Fresh(g) == g.vals = <<>> /\ g.ops = <<>> /\ g.lhs = <<>> /\ g.root = Val(1)
Waiting(g) ==
  IF g.mode \in Composite THEN g.mode # "list" => Len(g.vals) < g.argc
  ELSE Fresh(g) \/ (Len(g.vals) = Merged(g) + 1 /\ Len(g.ops) = Merged(g) + 1)
Full(g) ==
  /\ g.mode \notin Composite
  /\ Len(g.vals) = Merged(g) + 1 /\ Len(g.ops) = Merged(g)

\* The type invariant.  It says too that a group is complete when its call
\* returns an expression, that a comparison is never merged ("in
\* CMP_EXPR_MODE, this branch never be ran"), and that a call has no more
\* arguments than parameters.
TypeOK ==
  /\ tok \in Tokens \cup {"EOL_end", "comma", "none"}
  /\ eaten \in Nat
  /\ pc \in {"value", "op", "return", "fail", "done", "null", "segv",
            "dot", "name", "arr", "list", "next"}
  /\ crossed \subseteq Nat
  /\ groups \in Seq(Groups)
  /\ \A id \in DOMAIN groups : GroupOK(groups[id])
  /\ stack \in Seq(DOMAIN groups) /\ stack # <<>>
  /\ \A i, j \in DOMAIN stack : i < j => stack[i] < stack[j]
  /\ \A i \in DOMAIN stack : i < Len(stack) => Waiting(groups[stack[i]])
  /\ groups[stack[1]].mode \notin Composite
  /\ pc \in {"value", "fail", "dot", "name", "arr", "list"} => Waiting(Group)
  /\ pc \in {"dot", "name"} => Group.mode = "module"
  /\ pc = "list" => Group.mode = "list"
  /\ pc = "next" => Group.mode \in Composite
  /\ pc \in {"op", "return", "done"} => Full(Group)
  /\ pc = "op" /\ Group.mode = "cmp" => Group.ops = <<>>
  /\ pc = "done" => Len(stack) = 1

\* A cast is only followed by casts.
CastsLast(g) ==
  \A j, k \in 1..Merged(g) : j < k /\ g.ops[j] = "as" => g.ops[k] = "as"

\* Operands a up to b are those of operator k, p being the powers: those
\* reached over operators that bind as tight on its left, and tighter on its
\* right.
Under(p, k, a, b) ==
  /\ \A j \in a..(k - 1) : p[j] >= p[k]
  /\ \A j \in (k + 1)..(b - 1) : p[j] > p[k]
Spans(p, n, k, a, b) ==
  /\ a \in 1..k /\ b \in (k + 1)..(n + 1)
  /\ Under(p, k, a, b)
  /\ a > 1 => p[a - 1] < p[k]
  /\ b <= n => p[b] <= p[k]

\* ref is the tree of operands a up to b: the one operand, or the last of
\* the operators that bind least.
IsTreeOf(p, ref, a, b) ==
  \/ a = b /\ ref = Val(a)
  \/ \E k \in a..(b - 1) : ref = Opr(k) /\ Under(p, k, a, b)

IsTree(p, n, root, lhs, rhs) ==
  /\ IsTreeOf(p, root, 1, n + 1)
  /\ \A k \in 1..n : \E a, b \in 1..(n + 1) :
       /\ Spans(p, n, k, a, b)
       /\ IsTreeOf(p, lhs[k], a, k)
       /\ IsTreeOf(p, rhs[k], k + 1, b)

Powers(g) == [k \in 1..Len(g.ops) |-> Power(g.ops[k])]
IsPrecedenceTree(g) == IsTree(Powers(g), Merged(g), g.root, g.lhs, g.rhs)

GroupRespectsPrecedence(g) ==
  g.mode = "default" /\ g.vals # <<>> /\ CastsLast(g) => IsPrecedenceTree(g)

\* merge_expr looks at the root and at no other operator.  That is enough
\* for the tree that the binding powers mean - left to right, and tighter
\* operators below - as long as casts come last.
PrecedenceRespected ==
  \A id \in DOMAIN groups : GroupRespectsPrecedence(groups[id])

\* The pointers of a group: the expression itself, and the two of each
\* operator.
Pointers(g) == {<<"root", 0>>} \cup ({"lhs", "rhs"} \X (1..Merged(g)))
Target(g, p) == CASE p[1] = "root" -> g.root
                  [] p[1] = "lhs" -> g.lhs[p[2]]
                  [] p[1] = "rhs" -> g.rhs[p[2]]

\* free_expr follows every pointer and frees what it finds.  Whatever the
\* source, no operand and no operator is found twice, none is its own
\* ancestor, what is left of an operator in the source is on its left in
\* the tree; and no parenthesised expression, call, element or list is an
\* operand of two others, or of one while it is being parsed.
TreesShareNothing ==
  /\ \A id \in DOMAIN groups :
       LET g == groups[id]
       IN  /\ \A p, q \in Pointers(g) : p # q => Target(g, p) # Target(g, q)
           /\ \A k, j \in 1..Merged(g) : /\ g.lhs[k] = Opr(j) => j < k
                                         /\ g.rhs[k] = Opr(j) => j > k
  /\ \A id, h \in DOMAIN groups : \A i \in DOMAIN groups[h].vals :
       groups[h].vals[i] = ExprValue(id) =>
         /\ h < id
         /\ \A s \in DOMAIN stack : stack[s] # id
         /\ \A l \in DOMAIN groups : \A j \in DOMAIN groups[l].vals :
              groups[l].vals[j] = ExprValue(id) => l = h /\ j = i

\* Operand i of group id is missing, or is made of values.
MayBreak(id, i) ==
  LET val == groups[id].vals[i]
  IN  val.kind = "null" \/ (val.kind = "expr" /\ groups[val.expr].mode \in Composite)

\* Outside parentheses the end of a line that an expression leaves behind
\* was eaten for one of its operands: it is missing, or it is itself written
\* over several lines, as a qualified name and the arguments of a call may
\* be, or what holds them.  No operator is ever taken from a later line.
EndsWithItsLine ==
  pc = "done" => \A i \in crossed : i \in DOMAIN Group.vals /\ MayBreak(Cur, i)

\* parse_expr returns, whatever the tokens.
Returns == <>(pc \in {"done", "null", "segv"})

RootOp == Group.ops[Group.root[2]]
RootIsOp == pc = "done" /\ Group.mode = "default" /\ Group.root[1] = "op"

\* What analyse_binary_expr_with_cast asserts of the expression a statement
\* hands to analyse_expr, for casts with a type after their "as".
CastHasType ==
  RootIsOp /\ RootOp = "as" /\ Group.vals[Group.root[2] + 1].kind = "type" =>
    LET rhs == Group.rhs[Group.root[2]]
    IN  rhs[1] = "val" /\ Group.vals[rhs[2]].kind = "type"

\* What analyse_value asserts of the operands analyse_binary_expr hands it.
OperandsPresent ==
  RootIsOp /\ RootOp # "as" =>
    \A ref \in {Group.lhs[Group.root[2]], Group.rhs[Group.root[2]]} :
      ref[1] = "val" => Group.vals[ref[2]].kind # "null"
=============================================================================
