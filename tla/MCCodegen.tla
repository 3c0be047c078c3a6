----------------------------- MODULE MCCodegen -----------------------------
(***************************************************************************)
(* Codegen on every body of up to MaxStatements statements.                *)
(***************************************************************************)
EXTENDS Codegen, FiniteSets

CONSTANTS MaxStatements   \* bound on the length of a body

\* How n statements may nest: the last statement of the block of each.
Nestings(n) ==
  {last \in [1..n -> 1..n] :
     /\ \A i \in 1..n : i <= last[i]
     /\ \A i, j \in 1..n : i < j /\ j <= last[i] => last[j] <= last[i]}

KindsFor(n, last) ==
  {kind \in [1..n -> Kinds] :
     \A i \in 1..n : last[i] > i => kind[i] \in {"if", "while"}}

BodiesOf(n) ==
  UNION {{[i \in 1..n |-> [kind |-> kind[i], last |-> last[i]]]
            : kind \in KindsFor(n, last)} : last \in Nestings(n)}

AllBodies == UNION {BodiesOf(n) : n \in 0..MaxStatements}
=============================================================================
