----------------------------- MODULE Structured -----------------------------
(***************************************************************************)
(* What a zako function means: its statements run in the order and the     *)
(* nesting in which they are written, as often as the conditions say.      *)
(***************************************************************************)
EXTENDS Bodies

VARIABLES
  prog,     \* the body
  at,       \* the statement that runs next, Len(prog) + 1 at the end of the
            \* body, 0 once a return has run
  event     \* what ran last, how it went, and one bit that tells apart two
            \* runs of the same statement

vars == <<prog, at, event>>

Outcomes == {"none", "ran", "true", "false"}

Event(i, outcome) == [stmt |-> i, outcome |-> outcome, turn |-> 1 - event.turn]

Init ==
  /\ IsProgram(prog)
  /\ at = 1
  /\ event = [stmt |-> 0, outcome |-> "none", turn |-> 0]

Running(kind) == at \in 1..Len(prog) /\ prog[at].kind = kind

Simple ==
  /\ Running("simple")
  /\ event' = Event(at, "ran")
  /\ at' = After(prog, at)
  /\ UNCHANGED prog

Return ==
  /\ Running("return")
  /\ event' = Event(at, "ran")
  /\ at' = 0
  /\ UNCHANGED prog

\* if and while, by what the condition gives
Taken ==
  /\ Running("if") \/ Running("while")
  /\ event' = Event(at, "true")
  /\ at' = Entry(prog, at)
  /\ UNCHANGED prog

Skipped ==
  /\ Running("if") \/ Running("while")
  /\ event' = Event(at, "false")
  /\ at' = After(prog, at)
  /\ UNCHANGED prog

Next == Simple \/ Return \/ Taken \/ Skipped

Spec == Init /\ [][Next]_vars
=============================================================================
