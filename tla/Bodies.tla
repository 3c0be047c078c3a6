------------------------------- MODULE Bodies -------------------------------
(***************************************************************************)
(* The body of a zako function, as the parser leaves it (struct zako_stmt, *)
(* zako_if_stmt, zako_while_stmt): its statements in the order of the      *)
(* source.  last is the last statement in the block of an if or a while,   *)
(* and the statement itself where there is no block or an empty one.       *)
(***************************************************************************)
EXTENDS Integers, Sequences

Kinds == {"simple", "return", "if", "while"}

\* A body: a leaf is a block of its own, and blocks nest.
IsProgram(p) ==
  /\ p \in Seq([kind : Kinds, last : Nat])
  /\ \A i \in 1..Len(p) : i <= p[i].last /\ p[i].last <= Len(p)
  /\ \A i \in 1..Len(p) : p[i].kind \in {"simple", "return"} => p[i].last = i
  /\ \A i, j \in 1..Len(p) : i < j /\ j <= p[i].last => p[j].last <= p[i].last

\* The loops whose block ends with statement i.
LoopsEndedBy(p, i) ==
  {w \in 1..(i - 1) : p[w].kind = "while" /\ p[w].last = p[i].last}

\* What follows statement i: the innermost loop that its end is the end of,
\* or else the statement after it.
After(p, i) ==
  IF LoopsEndedBy(p, i) = {}
  THEN p[i].last + 1
  ELSE CHOOSE w \in LoopsEndedBy(p, i) : \A v \in LoopsEndedBy(p, i) : v <= w

\* Where the block of statement i begins; it may be empty.
Entry(p, i) ==
  IF p[i].last > i THEN i + 1
  ELSE IF p[i].kind = "while" THEN i
  ELSE After(p, i)
=============================================================================
