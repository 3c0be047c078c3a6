------------------------------- MODULE MCExpr -------------------------------
(* Instances of Expr.  All kinds of tokens in one source would be too many  *)
(* for TLC: a source is written with those of operators and parentheses, or *)
(* with those that values are made of.                                      *)
EXTENDS Expr

CONSTANT MaxValueTokens   \* bound of the model: MaxTokens of a source of values

VARIABLE kinds            \* the kinds of tokens the source is written with

\* One operator of each binding power, a comparison, and every other kind of
\* token that is a value by itself or a parenthesis.
OperatorKinds ==
  {"as", "+", "*", "==", "int", "type", "bad", "(", ")", "EOL"}

\* The kinds that values are made of, with one operator.
ValueKinds ==
  {"+", "name", "arr", "fn", "module", ".", "comma", "(", ")", "[", "]", "lbrace", "rbrace",
   "EOL", "EOL_comma"}

Kinds == OperatorKinds \cup ValueKinds

Written ==
  \/ eaten' = eaten
  \/ tok' \in {"EOL_end", "none"}
  \/ tok' \in kinds /\ (kinds = ValueKinds => tok \in Eols \/ eaten' < MaxValueTokens)

WrittenInit == Init /\ kinds \in {OperatorKinds, ValueKinds} /\ tok \in kinds \cup {"EOL_end"}
WrittenNext == Next /\ Written /\ UNCHANGED kinds

WrittenSpec == WrittenInit /\ [][WrittenNext]_<<vars, kinds>>
FairWrittenSpec == WrittenSpec /\ WF_<<vars, kinds>>(WrittenNext)
=============================================================================
