--------------------------- MODULE CodegenProofs ---------------------------
(***************************************************************************)
(* The generated code of every body implements Structured.  The argument:  *)
(* wherever code falls through, it falls into an instruction that stands   *)
(* at the statement it should come to; while code is generated, what is    *)
(* appended next stands at the statement the end of the code owes.  What   *)
(* it owes when a statement is complete is what follows that statement,    *)
(* which depends on the blocks that end with it: those are on the stack of *)
(* calls in progress, and only those.                                      *)
(***************************************************************************)
EXTENDS Codegen, SequenceTheorems, TLAPS

\* The calls in progress are those of the blocks around the statement to be
\* compiled: none has gone too far, and no block around that statement, or
\* around a block in progress, is missing.
StackInv(p, calls, g) ==
  /\ calls \in Seq(Nat) /\ g \in 1..(Len(p) + 1)
  /\ \A k \in 1..Len(calls) : /\ calls[k] \in 1..(g - 1)
                              /\ p[calls[k]].kind \in {"if", "while"}
                              /\ g <= p[calls[k]].last + 1
  /\ \A k, l \in 1..Len(calls) : k < l => calls[k] < calls[l]
  /\ \A w \in 1..(g - 1) :
       g <= p[w].last => \E k \in 1..Len(calls) : calls[k] = w
  /\ \A w \in 1..(g - 1), l \in 1..Len(calls) :
       w < calls[l] /\ calls[l] <= p[w].last => \E k \in 1..Len(calls) : calls[k] = w

\* c is an instruction of one of the first g - 1 statements, and of its kind.
WellFormed(p, g, c) ==
  LET i == c.stmt
      kind == p[i].kind
  IN  /\ i \in 1..(g - 1)
      /\ \/ kind = "simple" /\ c = Op(i)
         \/ kind = "return" /\ c = Ret(i)
         \/ kind \in {"if", "while"} /\ c = Cmp(i)
         \/ kind = "if" /\ c \in {Branch(i, Label("on_true", i), Label("on_false", i)),
                                  Define(Label("on_true", i)), Define(Label("on_false", i))}
         \/ kind = "while" /\ c \in {Branch(i, Label("cont", i), Label("end", i)),
                                     Jmp(i, Label("begin", i)), Define(Label("begin", i)),
                                     Define(Label("cont", i)), Define(Label("end", i))}

\* The statement that what is appended next has to stand at.
Owed(p, calls, g) ==
  LET top == calls[Len(calls)] IN
  IF calls # <<>> /\ g > p[top].last
  THEN IF p[top].kind = "while" THEN top ELSE After(p, top)
  ELSE g

\* x is where an instruction that falls through has to lead.
Leads(p, c, x) ==
  /\ c.op \in {"cmp", "label"} => x = Where(p, c)
  /\ c.op = "op" => x = After(p, c.stmt)

\* Code that owes x starts at the first statement, and falls only into what it
\* has to lead to.
CodeInv(p, g, instrs, x) ==
  /\ instrs \in Seq(Instrs)
  /\ \A q \in 1..Len(instrs) : WellFormed(p, g, instrs[q])
  /\ IF instrs = <<>> THEN x = 1 ELSE Where(p, instrs[1]) = 1
  /\ \A q \in 1..Len(instrs) :
       Leads(p, instrs[q], IF q < Len(instrs) THEN Where(p, instrs[q + 1]) ELSE x)

\* Nothing runs while code is generated, and all is generated when it runs.
PhaseInv ==
  /\ phase \in {"generate", "run", "returned"}
  /\ pc \in 1..(Len(code) + 1)
  /\ phase = "generate" => pc = 1
  /\ phase # "generate" => open = <<>> /\ gen = Len(prog) + 1

IInv ==
  /\ IsProgram(prog)
  /\ StackInv(prog, open, gen)
  /\ CodeInv(prog, gen, code, Owed(prog, open, gen))
  /\ PhaseInv
  /\ flag \in BOOLEAN
  /\ event \in Events

-----------------------------------------------------------------------------
(* Bodies and the stack of calls.                                          *)

LEMMA Popped ==
  ASSUME NEW calls \in Seq(Nat), calls # <<>>
  PROVE  /\ SubSeq(calls, 1, Len(calls) - 1) \in Seq(Nat)
         /\ Len(SubSeq(calls, 1, Len(calls) - 1)) = Len(calls) - 1
         /\ \A k \in 1..(Len(calls) - 1) :
              SubSeq(calls, 1, Len(calls) - 1)[k] = calls[k]
<1> DEFINE n == Len(calls) - 1
<1>1. n \in Nat /\ \A k \in 1..n : calls[k] \in Nat
  OBVIOUS
<1> HIDE DEF n
<1>2. /\ SubSeq(calls, 1, n) \in Seq(Nat)
      /\ Len(SubSeq(calls, 1, n)) = IF 1 <= n THEN n - 1 + 1 ELSE 0
      /\ \A k \in 1..(n - 1 + 1) : SubSeq(calls, 1, n)[k] = calls[1 + k - 1]
  BY <1>1, SubSeqProperties
<1>3. /\ SubSeq(calls, 1, n) \in Seq(Nat)
      /\ Len(SubSeq(calls, 1, n)) = n
      /\ \A k \in 1..n : SubSeq(calls, 1, n)[k] = calls[k]
  BY <1>1, <1>2
<1> QED
  BY <1>3 DEF n

WellNested(p) ==
  /\ Len(p) \in Nat
  /\ \A i \in 1..Len(p) : /\ p[i].kind \in Kinds
                          /\ p[i].last \in Nat
                          /\ i <= p[i].last /\ p[i].last <= Len(p)
                          /\ p[i].kind \in {"simple", "return"} => p[i].last = i
  /\ \A i, j \in 1..Len(p) : i < j /\ j <= p[i].last => p[j].last <= p[i].last

LEMMA StatementFacts ==
  ASSUME NEW p, IsProgram(p)
  PROVE  WellNested(p)
<1>1. p \in Seq([kind : Kinds, last : Nat])
  BY DEF IsProgram
<1>2. Len(p) \in Nat
      /\ \A i \in 1..Len(p) : p[i].kind \in Kinds /\ p[i].last \in Nat
  <2> DEFINE S == [kind : Kinds, last : Nat]
  <2>1. p \in Seq(S)
    BY <1>1
  <2>2. Len(p) \in Nat /\ \A i \in 1..Len(p) : p[i] \in S
    <3> HIDE DEF S
    <3> QED
      BY <2>1
  <2> QED
    BY <2>2
<1>3. /\ \A i \in 1..Len(p) : i <= p[i].last /\ p[i].last <= Len(p)
      /\ \A i \in 1..Len(p) :
           p[i].kind \in {"simple", "return"} => p[i].last = i
      /\ \A i, j \in 1..Len(p) :
           i < j /\ j <= p[i].last => p[j].last <= p[i].last
  BY DEF IsProgram
<1> QED
  BY <1>2, <1>3 DEF WellNested

\* The blocks of the calls in progress lie within each other.
LEMMA StackFacts ==
  ASSUME NEW p, IsProgram(p), NEW calls, NEW g, StackInv(p, calls, g)
  PROVE  LET top == calls[Len(calls)] IN
         /\ Len(calls) \in Nat /\ (calls # <<>> <=> Len(calls) # 0)
         /\ \A k \in 1..Len(calls) : /\ calls[k] \in 1..Len(p)
                                     /\ p[calls[k]].last \in Nat
                                     /\ p[top].last <= p[calls[k]].last
                                     /\ calls[k] <= top
<1> DEFINE n == Len(calls)
           top == calls[n]
<1>1. /\ calls \in Seq(Nat) /\ g \in 1..(Len(p) + 1)
      /\ \A k \in 1..n : calls[k] \in 1..(g - 1) /\ g <= p[calls[k]].last + 1
      /\ \A k, l \in 1..n : k < l => calls[k] < calls[l]
  BY DEF StackInv
<1>2. n \in Nat /\ (calls # <<>> <=> n # 0)
  BY <1>1
<1>3. /\ Len(p) \in Nat
      /\ \A i \in 1..Len(p) : p[i].last \in Nat
      /\ \A i, j \in 1..Len(p) : i < j /\ j <= p[i].last => p[j].last <= p[i].last
  <2>1. WellNested(p)
    BY StatementFacts
  <2> QED
    BY <2>1 DEF WellNested
<1>4. g \in Nat /\ g - 1 <= Len(p)
  BY <1>1, <1>3
<1>5. ASSUME NEW k \in 1..n
      PROVE  calls[k] \in 1..Len(p) /\ calls[k] < g /\ p[calls[k]].last \in Nat
  <2>1. calls[k] \in 1..(g - 1)
    BY <1>1
  <2>2. calls[k] \in 1..Len(p) /\ calls[k] < g
    BY <2>1, <1>3, <1>4
  <2> QED
    BY <2>2, <1>3
<1>6. ASSUME NEW k \in 1..n
      PROVE  p[top].last <= p[calls[k]].last /\ calls[k] <= top
  <2>1. n \in 1..n /\ k <= n
    BY <1>2
  <2>2. /\ calls[k] \in 1..Len(p) /\ p[calls[k]].last \in Nat
        /\ top \in 1..Len(p) /\ top < g /\ p[top].last \in Nat
    BY <2>1, <1>5
  <2>3. CASE k = n
    BY <2>2, <2>3
  <2>4. CASE k < n
    <3>1. calls[k] < top
      BY <2>1, <2>4, <1>1
    <3>2. g <= p[calls[k]].last + 1
      BY <1>1
    <3>3. top <= p[calls[k]].last
      BY <2>2, <3>2, <1>4
    <3> QED
      BY <2>2, <3>1, <3>3, <1>3
  <2> QED
    BY <2>1, <2>3, <2>4, <1>2
<1> QED
  BY <1>2, <1>5, <1>6

-----------------------------------------------------------------------------
(* What follows a statement that is complete.                              *)

\* c is complete: all up to the end of its block is compiled, and the calls in
\* progress are those of the blocks around it.
Completed(p, calls, g, c) ==
  /\ c \in 1..Len(p) /\ g = p[c].last + 1
  /\ \A k \in 1..Len(calls) : /\ calls[k] \in 1..(c - 1)
                              /\ p[calls[k]].kind \in {"if", "while"}
                              /\ g <= p[calls[k]].last + 1
  /\ \A k, l \in 1..Len(calls) : k < l => calls[k] < calls[l]
  /\ \A w \in 1..(c - 1) : c <= p[w].last => \E k \in 1..Len(calls) : calls[k] = w

LEMMA FollowsCompleted ==
  ASSUME NEW p, IsProgram(p), NEW calls \in Seq(Nat), NEW g, NEW c,
         Completed(p, calls, g, c)
  PROVE  After(p, c) = Owed(p, calls, g)
<1> DEFINE E == LoopsEndedBy(p, c)
           n == Len(calls)
           top == calls[n]
<1>1. /\ c \in 1..Len(p) /\ g = p[c].last + 1
      /\ \A k \in 1..n : /\ calls[k] \in 1..(c - 1)
                         /\ p[calls[k]].kind \in {"if", "while"}
                         /\ g <= p[calls[k]].last + 1
      /\ \A k, l \in 1..n : k < l => calls[k] < calls[l]
      /\ \A w \in 1..(c - 1) : c <= p[w].last => \E k \in 1..n : calls[k] = w
  BY DEF Completed
<1>2. n \in Nat /\ (calls # <<>> <=> n # 0)
  OBVIOUS
<1>3. /\ Len(p) \in Nat
      /\ \A i \in 1..Len(p) : p[i].last \in Nat /\ i <= p[i].last
      /\ \A i, j \in 1..Len(p) : i < j /\ j <= p[i].last => p[j].last <= p[i].last
  <2>1. WellNested(p)
    BY StatementFacts
  <2> QED
    BY <2>1 DEF WellNested
<1>4. ASSUME NEW w \in E
      PROVE  /\ w \in 1..(c - 1) /\ p[w].kind = "while" /\ p[w].last = p[c].last
             /\ \E k \in 1..n : calls[k] = w
  <2>1. w \in 1..(c - 1) /\ p[w].kind = "while" /\ p[w].last = p[c].last
    BY DEF LoopsEndedBy
  <2> QED
    BY <2>1, <1>1, <1>3
<1>5. ASSUME NEW k \in 1..n
      PROVE  /\ n \in 1..n
             /\ calls[k] <= top
             /\ p[top].last <= p[calls[k]].last
             /\ p[calls[k]].last \in Nat
  <2>1. n \in 1..n /\ k <= n
    BY <1>2
  <2>2. calls[k] \in 1..Len(p) /\ top \in 1..Len(p) /\ top < c /\ c \in 1..Len(p)
    BY <2>1, <1>1, <1>3, SMTT(30)
  <2>3. c <= p[calls[k]].last /\ p[calls[k]].last \in Nat /\ p[top].last \in Nat
    <3>1. p[calls[k]].last \in Nat /\ p[top].last \in Nat
      BY <2>2, <1>3
    <3>2. c <= p[c].last /\ p[c].last \in Nat /\ c \in Nat
      BY <2>2, <1>3
    <3>3. p[c].last + 1 <= p[calls[k]].last + 1
      BY <1>1
    <3> QED
      BY <3>1, <3>2, <3>3, SMTT(30)
  <2>4. CASE k = n
    BY <2>1, <2>2, <2>3, <2>4
  <2>5. CASE k < n
    <3>1. calls[k] < top
      BY <2>1, <2>5, <1>1
    <3> QED
      BY <2>1, <2>2, <2>3, <3>1, <1>3, SMTT(30)
  <2> QED
    BY <2>1, <2>4, <2>5, <1>2
<1>6. CASE E = {} /\ (n = 0 \/ g <= p[top].last)
  <2>1. After(p, c) = g
    BY <1>1, <1>6 DEF After
  <2>2. ~(calls # <<>> /\ g > p[top].last)
    BY <1>1, <1>2, <1>3, <1>5, <1>6, SMTT(30)
  <2> QED
    BY <2>1, <2>2 DEF Owed
<1>7. n = 0 \/ g <= p[top].last => E = {}
  <2> SUFFICES ASSUME n = 0 \/ g <= p[top].last, NEW w \in E PROVE FALSE
    OBVIOUS
  <2>1. PICK k \in 1..n : calls[k] = w
    BY <1>4
  <2>2. n # 0 /\ p[top].last <= p[c].last
    BY <2>1, <1>2, <1>4, <1>5
  <2>3. p[c].last \in Nat /\ p[top].last \in Nat
    BY <2>1, <1>1, <1>3, <1>5
  <2> QED
    BY <2>2, <2>3, <1>1, SMTT(30)
<1>8. CASE n # 0 /\ ~(g <= p[top].last)
  <2>1. /\ n \in 1..n /\ top \in 1..(c - 1) /\ p[top].kind \in {"if", "while"}
        /\ g <= p[top].last + 1 /\ p[top].last \in Nat
    BY <1>1, <1>2, <1>5, <1>8
  <2>2. p[top].last = p[c].last /\ p[c].last \in Nat
    BY <2>1, <1>1, <1>3, <1>8, SMTT(30)
  <2>3. calls # <<>> /\ g > p[top].last
    BY <2>1, <2>2, <1>1, <1>2, <1>8
  <2>4. CASE p[top].kind = "while"
    <3>1. top \in E
      BY <2>1, <2>2, <2>4 DEF LoopsEndedBy
    <3>2. \A w \in E : w <= top
      BY <1>4, <1>5
    <3>3. \A w \in E : w \in Nat
      BY <1>4, <1>1
    <3>4. top = CHOOSE w \in E : \A v \in E : v <= w
      <4> HIDE DEF E
      <4>1. \E w \in E : \A v \in E : v <= w
        BY <3>1, <3>2
      <4>2. \A w \in E : (\A v \in E : v <= w) => w = top
        BY <3>1, <3>2, <3>3
      <4> QED
        BY <4>1, <4>2
    <3>5. After(p, c) = top
      BY <3>1, <3>4 DEF After
    <3> QED
      BY <3>5, <2>3, <2>4 DEF Owed
  <2>5. CASE p[top].kind = "if"
    <3>1. ASSUME NEW w \in E PROVE w \in LoopsEndedBy(p, top)
      <4>1. w \in 1..(c - 1) /\ p[w].kind = "while" /\ p[w].last = p[top].last
        BY <1>4, <2>2
      <4>2. w <= top
        BY <1>4, <1>5
      <4>3. w # top
        BY <4>1, <2>5
      <4> QED
        BY <4>1, <4>2, <4>3, <2>1, <1>1 DEF LoopsEndedBy
    <3>2. ASSUME NEW w \in LoopsEndedBy(p, top) PROVE w \in E
      BY <2>1, <2>2, <1>1 DEF LoopsEndedBy
    <3>3. LoopsEndedBy(p, top) = LoopsEndedBy(p, c)
      BY <3>1, <3>2
    <3>4. After(p, top) = After(p, c)
      BY <3>3, <2>2 DEF After
    <3> QED
      BY <3>4, <2>3, <2>5 DEF Owed
  <2> QED
    BY <2>1, <2>4, <2>5
<1> QED
  BY <1>6, <1>7, <1>8

-----------------------------------------------------------------------------
(* The stack of calls, over the three ways it changes.                     *)

\* The innermost call has another statement to compile.
GoesOn(p, calls, g) ==
  g <= Len(p) /\ (calls # <<>> => g <= p[calls[Len(calls)]].last)

LEMMA RoomLeft ==
  ASSUME NEW p, IsProgram(p), NEW calls, NEW g, StackInv(p, calls, g),
         GoesOn(p, calls, g)
  PROVE  \A k \in 1..Len(calls) : p[calls[k]].last \in Nat /\ g <= p[calls[k]].last
<1> SUFFICES ASSUME NEW k \in 1..Len(calls)
             PROVE  p[calls[k]].last \in Nat /\ g <= p[calls[k]].last
  OBVIOUS
<1> DEFINE n == Len(calls)
<1>1. /\ n \in Nat /\ (calls # <<>> <=> n # 0)
      /\ \A m \in 1..n : p[calls[m]].last \in Nat /\ p[calls[n]].last <= p[calls[m]].last
  BY StackFacts
<1>2. n \in 1..n /\ calls # <<>>
  BY <1>1
<1>3. g <= p[calls[n]].last
  BY <1>2 DEF GoesOn
<1>4. g \in Int
  <2>1. g \in 1..(Len(p) + 1)
    BY DEF StackInv
  <2> QED
    BY <2>1
<1> QED
  BY <1>1, <1>2, <1>3, <1>4

LEMMA LeafStep ==
  ASSUME NEW p, IsProgram(p), NEW calls, NEW g, StackInv(p, calls, g),
         GoesOn(p, calls, g), p[g].kind \in {"simple", "return"}
  PROVE  StackInv(p, calls, g + 1) /\ Completed(p, calls, g + 1, g)
<1> DEFINE n == Len(calls)
<1>1. /\ calls \in Seq(Nat) /\ g \in 1..(Len(p) + 1)
      /\ \A k \in 1..n : /\ calls[k] \in 1..(g - 1)
                         /\ p[calls[k]].kind \in {"if", "while"}
      /\ \A k, l \in 1..n : k < l => calls[k] < calls[l]
      /\ \A w \in 1..(g - 1) : g <= p[w].last => \E k \in 1..n : calls[k] = w
      /\ \A w \in 1..(g - 1), l \in 1..n :
           w < calls[l] /\ calls[l] <= p[w].last => \E k \in 1..n : calls[k] = w
  BY DEF StackInv
<1>2. /\ Len(p) \in Nat
      /\ \A i \in 1..Len(p) : p[i].last \in Nat
      /\ p[g].last = g /\ g \in 1..Len(p) /\ g \in Nat
  <2>1. WellNested(p)
    BY StatementFacts
  <2>2. g \in 1..Len(p) /\ Len(p) \in Nat
    BY <2>1, <1>1 DEF WellNested, GoesOn
  <2> QED
    BY <2>1, <2>2 DEF WellNested
<1>3. \A k \in 1..n : p[calls[k]].last \in Nat /\ g <= p[calls[k]].last
  BY RoomLeft
<1>4. \A w \in 1..g : g + 1 <= p[w].last => \E k \in 1..n : calls[k] = w
  <2> SUFFICES ASSUME NEW w \in 1..g, g + 1 <= p[w].last
               PROVE  \E k \in 1..n : calls[k] = w
    OBVIOUS
  <2>1. w # g /\ p[w].last \in Nat
    BY <1>2
  <2>2. w \in 1..(g - 1) /\ g <= p[w].last
    BY <2>1, <1>2
  <2> QED
    BY <2>2, <1>1
<1>5. \A w \in 1..g, l \in 1..n :
        w < calls[l] /\ calls[l] <= p[w].last => \E k \in 1..n : calls[k] = w
  <2> SUFFICES ASSUME NEW w \in 1..g, NEW l \in 1..n,
                      w < calls[l], calls[l] <= p[w].last
               PROVE  \E k \in 1..n : calls[k] = w
    OBVIOUS
  <2>1. calls[l] \in 1..(g - 1)
    BY <1>1
  <2>2. w \in 1..(g - 1)
    BY <2>1, <1>2
  <2> QED
    BY <2>2, <1>1
<1>6. \A k \in 1..n : calls[k] \in 1..g /\ g + 1 <= p[calls[k]].last + 1
  BY <1>1, <1>2, <1>3, SMTT(30)
<1>7. g + 1 \in 1..(Len(p) + 1) /\ (g + 1) - 1 = g
  BY <1>2
<1>8. StackInv(p, calls, g + 1)
  BY <1>1, <1>4, <1>5, <1>6, <1>7 DEF StackInv
<1>9. Completed(p, calls, g + 1, g)
  BY <1>1, <1>2, <1>6 DEF Completed
<1> QED
  BY <1>8, <1>9

LEMMA PushStep ==
  ASSUME NEW p, IsProgram(p), NEW calls, NEW g, StackInv(p, calls, g),
         GoesOn(p, calls, g), p[g].kind \in {"if", "while"}
  PROVE  StackInv(p, Append(calls, g), g + 1)
<1> DEFINE n == Len(calls)
           new == Append(calls, g)
<1>1. /\ calls \in Seq(Nat) /\ g \in 1..(Len(p) + 1)
      /\ \A k \in 1..n : /\ calls[k] \in 1..(g - 1)
                         /\ p[calls[k]].kind \in {"if", "while"}
      /\ \A k, l \in 1..n : k < l => calls[k] < calls[l]
      /\ \A w \in 1..(g - 1) : g <= p[w].last => \E k \in 1..n : calls[k] = w
      /\ \A w \in 1..(g - 1), l \in 1..n :
           w < calls[l] /\ calls[l] <= p[w].last => \E k \in 1..n : calls[k] = w
  BY DEF StackInv
<1>2. /\ Len(p) \in Nat
      /\ \A i \in 1..Len(p) : p[i].last \in Nat
      /\ g <= p[g].last /\ g \in 1..Len(p) /\ g \in Nat
  <2>1. WellNested(p)
    BY StatementFacts
  <2>2. g \in 1..Len(p) /\ Len(p) \in Nat
    BY <2>1, <1>1 DEF WellNested, GoesOn
  <2> QED
    BY <2>1, <2>2 DEF WellNested
<1>3. \A k \in 1..n : p[calls[k]].last \in Nat /\ g <= p[calls[k]].last
  BY RoomLeft
<1>4. /\ n \in Nat /\ new \in Seq(Nat) /\ Len(new) = n + 1 /\ new[n + 1] = g
      /\ \A k \in 1..n : new[k] = calls[k]
  BY <1>1, <1>2
<1> HIDE DEF new
<1>5. \A k \in 1..Len(new) : k \in 1..n \/ k = n + 1
  BY <1>4
<1>6. \A k \in 1..n : k \in 1..Len(new)
  BY <1>4
<1>7. ASSUME NEW k \in 1..Len(new)
      PROVE  /\ new[k] \in 1..g /\ p[new[k]].kind \in {"if", "while"}
             /\ g + 1 <= p[new[k]].last + 1
  <2>1. CASE k \in 1..n
    <3>1. /\ new[k] = calls[k] /\ calls[k] \in 1..(g - 1)
          /\ p[calls[k]].kind \in {"if", "while"}
      BY <2>1, <1>1, <1>4
    <3>2. p[calls[k]].last \in Nat /\ g <= p[calls[k]].last
      BY <2>1, <1>3
    <3> QED
      BY <3>1, <3>2, <1>2
  <2>2. CASE k = n + 1
    <3>1. new[k] = g
      BY <2>2, <1>4
    <3>2. p[g].last \in Nat
      BY <1>2
    <3> QED
      BY <3>1, <3>2, <1>2
  <2> QED
    BY <2>1, <2>2, <1>5
<1>8. ASSUME NEW k \in 1..Len(new), NEW l \in 1..Len(new), k < l
      PROVE  new[k] < new[l]
  <2>1. k \in 1..n /\ calls[k] \in 1..(g - 1) /\ new[k] = calls[k]
    <3>1. k \in 1..n
      BY <1>4, <1>8
    <3> QED
      BY <3>1, <1>1, <1>4
  <2>2. CASE l \in 1..n
    BY <2>1, <2>2, <1>1, <1>4, <1>8
  <2>3. CASE l = n + 1
    BY <2>1, <2>3, <1>2, <1>4
  <2> QED
    BY <2>2, <2>3, <1>5
<1>9. \A w \in 1..g : g + 1 <= p[w].last => \E k \in 1..Len(new) : new[k] = w
  <2> SUFFICES ASSUME NEW w \in 1..g, g + 1 <= p[w].last
               PROVE  \E k \in 1..Len(new) : new[k] = w
    OBVIOUS
  <2>1. CASE w = g
    <3>1. n + 1 \in 1..Len(new)
      BY <1>4
    <3> QED
      BY <3>1, <2>1, <1>4
  <2>2. CASE w # g
    <3>1. p[w].last \in Nat
      BY <1>2
    <3>2. w \in 1..(g - 1) /\ g <= p[w].last
      BY <3>1, <2>2, <1>2
    <3> QED
      BY <3>2, <1>1, <1>4, <1>6
  <2> QED
    BY <2>1, <2>2
<1>10. \A w \in 1..g, l \in 1..Len(new) :
         w < new[l] /\ new[l] <= p[w].last => \E k \in 1..Len(new) : new[k] = w
  <2> SUFFICES ASSUME NEW w \in 1..g, NEW l \in 1..Len(new),
                      w < new[l], new[l] <= p[w].last
               PROVE  \E k \in 1..Len(new) : new[k] = w
    OBVIOUS
  <2>1. new[l] \in 1..g
    BY <1>7
  <2>2. w \in 1..(g - 1)
    BY <2>1, <1>2
  <2>3. CASE l \in 1..n
    BY <2>2, <2>3, <1>1, <1>4, <1>6
  <2>4. CASE l = n + 1
    BY <2>2, <2>4, <1>1, <1>4, <1>6
  <2> QED
    BY <2>3, <2>4, <1>5
<1>11. g + 1 \in 1..(Len(p) + 1) /\ (g + 1) - 1 = g
  BY <1>2
<1>12. StackInv(p, new, g + 1)
  BY <1>4, <1>7, <1>8, <1>9, <1>10, <1>11 DEF StackInv
<1> QED
  BY <1>12 DEF new

LEMMA PopStep ==
  ASSUME NEW p, IsProgram(p), NEW calls, NEW g, StackInv(p, calls, g),
         calls # <<>>, g > p[calls[Len(calls)]].last
  PROVE  LET new == SubSeq(calls, 1, Len(calls) - 1)
         IN  StackInv(p, new, g) /\ Completed(p, new, g, calls[Len(calls)])
<1> DEFINE n == Len(calls)
           top == calls[n]
           new == SubSeq(calls, 1, n - 1)
<1>1. /\ calls \in Seq(Nat) /\ g \in 1..(Len(p) + 1)
      /\ \A k \in 1..n : /\ calls[k] \in 1..(g - 1)
                         /\ p[calls[k]].kind \in {"if", "while"}
                         /\ g <= p[calls[k]].last + 1
      /\ \A k, l \in 1..n : k < l => calls[k] < calls[l]
      /\ \A w \in 1..(g - 1) : g <= p[w].last => \E k \in 1..n : calls[k] = w
      /\ \A w \in 1..(g - 1), l \in 1..n :
           w < calls[l] /\ calls[l] <= p[w].last => \E k \in 1..n : calls[k] = w
  BY DEF StackInv
<1>2. /\ n \in Nat /\ (calls # <<>> <=> n # 0)
      /\ \A k \in 1..n : calls[k] \in 1..Len(p) /\ p[calls[k]].last \in Nat
  BY StackFacts
<1>3. n \in 1..n /\ n \in Nat /\ n - 1 \in Nat /\ \A k \in 1..(n - 1) : k \in 1..n /\ k < n
  BY <1>2
<1>4. /\ new \in Seq(Nat) /\ Len(new) = n - 1
      /\ \A k \in 1..(n - 1) : new[k] = calls[k]
  BY <1>1, Popped
<1> HIDE DEF new
<1>5. top \in 1..(g - 1) /\ top \in 1..Len(p) /\ p[top].last \in Nat /\ g \in Nat
  BY <1>1, <1>2, <1>3
<1>6. g = p[top].last + 1
  <2>1. g <= p[top].last + 1
    BY <1>1, <1>3
  <2>2. g > p[top].last
    OBVIOUS
  <2> QED
    BY <2>1, <2>2, <1>5
<1>7. \A k \in 1..n : k \in 1..(n - 1) \/ k = n
  BY <1>3
<1>8. ASSUME NEW k \in 1..(n - 1)
      PROVE  /\ calls[k] \in 1..(top - 1) /\ calls[k] \in 1..(g - 1)
             /\ p[calls[k]].kind \in {"if", "while"}
             /\ g <= p[calls[k]].last + 1
  <2>1. k \in 1..n /\ k < n
    BY <1>3
  <2>2. calls[k] < top /\ calls[k] \in 1..(g - 1)
    BY <2>1, <1>1, <1>3
  <2>3. calls[k] \in 1..(top - 1)
    BY <2>2, <1>5
  <2> QED
    BY <2>1, <2>2, <2>3, <1>1
<1>9. ASSUME NEW w \in 1..(g - 1), w # top, \E k \in 1..n : calls[k] = w
      PROVE  \E k \in 1..Len(new) : new[k] = w
  <2>1. PICK k \in 1..n : calls[k] = w
    BY <1>9
  <2>2. k \in 1..(n - 1)
    BY <2>1, <1>7, <1>9
  <2> QED
    BY <2>1, <2>2, <1>4
<1>10. ASSUME NEW w \in 1..(g - 1), g <= p[w].last
       PROVE  \E k \in 1..Len(new) : new[k] = w
  <2>1. w # top
    BY <1>5, <1>6, <1>10
  <2> QED
    BY <2>1, <1>1, <1>9, <1>10
<1>11. ASSUME NEW w \in 1..(g - 1), NEW l \in 1..(n - 1),
              w < calls[l], calls[l] <= p[w].last
       PROVE  \E k \in 1..Len(new) : new[k] = w
  <2>1. l \in 1..n /\ calls[l] \in 1..(top - 1)
    BY <1>3, <1>8
  <2>2. w # top
    BY <2>1, <1>5, <1>11
  <2>3. \E k \in 1..n : calls[k] = w
    BY <2>1, <1>1, <1>11
  <2> QED
    BY <2>2, <2>3, <1>9
<1>12. ASSUME NEW w \in 1..(top - 1), top <= p[w].last
       PROVE  \E k \in 1..Len(new) : new[k] = w
  <2>1. w \in 1..(g - 1) /\ w < top /\ w # top
    BY <1>5
  <2>2. \E k \in 1..n : calls[k] = w
    BY <2>1, <1>1, <1>3, <1>12
  <2> QED
    BY <2>1, <2>2, <1>9
<1>13. \A k, l \in 1..Len(new) : k < l => new[k] < new[l]
  BY <1>1, <1>3, <1>4
<1>14. StackInv(p, new, g)
  BY <1>1, <1>4, <1>8, <1>10, <1>11, <1>13 DEF StackInv
<1>15. Completed(p, new, g, top)
  BY <1>4, <1>5, <1>6, <1>8, <1>12, <1>13 DEF Completed
<1> QED
  BY <1>14, <1>15 DEF new

-----------------------------------------------------------------------------
(* The code, over what an action appends to it.                            *)

\* What is appended stands where the code before it leads, and owes y.
Fits(p, g, s, x, y) ==
  /\ s \in Seq(Instrs) /\ s # <<>>
  /\ \A q \in 1..Len(s) : WellFormed(p, g, s[q])
  /\ Where(p, s[1]) = x
  /\ \A q \in 1..(Len(s) - 1) : Leads(p, s[q], Where(p, s[q + 1]))
  /\ Leads(p, s[Len(s)], y)

LEMMA EmitStep ==
  ASSUME NEW p, NEW g \in Nat, NEW h \in Nat, g <= h,
         NEW instrs, NEW s, NEW x, NEW y,
         CodeInv(p, g, instrs, x), Fits(p, h, s, x, y)
  PROVE  CodeInv(p, h, instrs \o s, y)
<1> DEFINE m == Len(instrs)
           n == Len(s)
           new == instrs \o s
<1>1. /\ instrs \in Seq(Instrs)
      /\ \A q \in 1..m : WellFormed(p, g, instrs[q])
      /\ IF instrs = <<>> THEN x = 1 ELSE Where(p, instrs[1]) = 1
      /\ \A q \in 1..m :
           Leads(p, instrs[q], IF q < m THEN Where(p, instrs[q + 1]) ELSE x)
  BY DEF CodeInv
<1>2. /\ s \in Seq(Instrs) /\ s # <<>>
      /\ \A q \in 1..n : WellFormed(p, h, s[q])
      /\ Where(p, s[1]) = x
      /\ \A q \in 1..(n - 1) : Leads(p, s[q], Where(p, s[q + 1]))
      /\ Leads(p, s[n], y)
  BY DEF Fits
<1>3. m \in Nat /\ n \in Nat \ {0} /\ (instrs = <<>> <=> m = 0)
  BY <1>1, <1>2
<1>4. /\ new \in Seq(Instrs) /\ Len(new) = m + n
      /\ \A q \in 1..m : new[q] = instrs[q]
      /\ \A q \in 1..n : new[m + q] = s[q]
  BY <1>1, <1>2
<1> HIDE DEF new, m, n
<1>5. \A q \in 1..Len(new) : q \in 1..m \/ \E r \in 1..n : q = m + r
  <2> SUFFICES ASSUME NEW q \in 1..Len(new), q \notin 1..m
               PROVE  \E r \in 1..n : q = m + r
    OBVIOUS
  <2>1. q - m \in 1..n /\ q = m + (q - m)
    BY <1>3, <1>4
  <2> QED
    BY <2>1
<1>6. \A q \in 1..m : WellFormed(p, h, instrs[q])
  <2> SUFFICES ASSUME NEW q \in 1..m PROVE WellFormed(p, h, instrs[q])
    OBVIOUS
  <2>1. WellFormed(p, g, instrs[q])
    BY <1>1
  <2>2. instrs[q].stmt \in 1..(g - 1) => instrs[q].stmt \in 1..(h - 1)
    OBVIOUS
  <2> QED
    BY <2>1, <2>2 DEF WellFormed
<1>7. \A q \in 1..Len(new) : WellFormed(p, h, new[q])
  BY <1>2, <1>4, <1>5, <1>6
<1>8. new # <<>> /\ Where(p, new[1]) = 1
  <2>1. CASE m = 0
    <3>1. 1 \in 1..n /\ m + 1 = 1
      BY <2>1, <1>3
    <3>2. new[1] = s[1] /\ x = 1
      BY <3>1, <2>1, <1>1, <1>3, <1>4
    <3> QED
      BY <3>2, <1>2, <1>3, <1>4
  <2>2. CASE m # 0
    <3>1. 1 \in 1..m
      BY <2>2, <1>3
    <3> QED
      BY <3>1, <2>2, <1>1, <1>3, <1>4
  <2> QED
    BY <2>1, <2>2
<1>9. ASSUME NEW q \in 1..Len(new)
      PROVE  Leads(p, new[q], IF q < Len(new) THEN Where(p, new[q + 1]) ELSE y)
  <2>1. CASE q \in 1..m /\ q < m
    <3>1. q + 1 \in 1..m /\ q < Len(new)
      BY <2>1, <1>3, <1>4
    <3> QED
      BY <3>1, <2>1, <1>1, <1>4
  <2>2. CASE q = m /\ q \in 1..m
    <3>1. 1 \in 1..n /\ q < Len(new)
      BY <2>2, <1>3, <1>4
    <3>2. new[q + 1] = s[1] /\ new[q] = instrs[q] /\ ~(q < m)
      BY <3>1, <2>2, <1>3, <1>4
    <3>3. Leads(p, instrs[q], x)
      BY <3>2, <2>2, <1>1
    <3> QED
      BY <3>1, <3>2, <3>3, <1>2
  <2>3. ASSUME NEW r \in 1..n, q = m + r
        PROVE  Leads(p, new[q], IF q < Len(new) THEN Where(p, new[q + 1]) ELSE y)
    <3>1. CASE r < n
      <4>1. r \in 1..(n - 1) /\ r + 1 \in 1..n /\ q + 1 = m + (r + 1) /\ q < Len(new)
        BY <3>1, <2>3, <1>3, <1>4
      <4>2. new[q + 1] = s[r + 1] /\ new[q] = s[r]
        BY <4>1, <2>3, <1>4
      <4> QED
        BY <4>1, <4>2, <1>2
    <3>2. CASE r = n
      <4>1. ~(q < Len(new)) /\ new[q] = s[n]
        BY <3>2, <2>3, <1>3, <1>4
      <4> QED
        BY <4>1, <1>2
    <3> QED
      BY <3>1, <3>2, <1>3
  <2>4. q \in 1..m => q < m \/ q = m
    BY <1>3
  <2> QED
    BY <2>1, <2>2, <2>3, <2>4, <1>5
<1>10. CodeInv(p, h, new, y)
  BY <1>4, <1>7, <1>8, <1>9 DEF CodeInv
<1> QED
  BY <1>10 DEF new

\* What each kind of instruction stands at and leads to.
LEMMA InstrFacts ==
  ASSUME NEW p, NEW i \in Nat, NEW x
  PROVE  /\ Where(p, Op(i)) = i /\ Where(p, Ret(i)) = i /\ Where(p, Cmp(i)) = i
         /\ \A l, m : Where(p, Branch(i, l, m)) = i
         /\ \A l : Where(p, Jmp(i, l)) = i
         /\ Where(p, Define(Label("begin", i))) = i
         /\ \A name \in {"on_true", "cont"} : Where(p, Define(Label(name, i))) = Entry(p, i)
         /\ \A name \in {"on_false", "end"} : Where(p, Define(Label(name, i))) = After(p, i)
         /\ Leads(p, Op(i), x) <=> x = After(p, i)
         /\ Leads(p, Ret(i), x)
         /\ Leads(p, Cmp(i), x) <=> x = i
         /\ \A l, m : Leads(p, Branch(i, l, m), x)
         /\ \A l : Leads(p, Jmp(i, l), x)
         /\ \A name : Leads(p, Define(Label(name, i)), x)
                        <=> x = Where(p, Define(Label(name, i)))
BY DEF Where, Leads, Op, Ret, Cmp, Branch, Jmp, Define, Label, Instr, NoLabel

LEMMA InstrTypes ==
  ASSUME NEW i \in Nat
  PROVE  /\ Op(i) \in Instrs /\ Ret(i) \in Instrs /\ Cmp(i) \in Instrs
         /\ \A l, m \in LabelNames : Branch(i, Label(l, i), Label(m, i)) \in Instrs
         /\ \A l \in LabelNames : Jmp(i, Label(l, i)) \in Instrs
         /\ \A l \in LabelNames : Define(Label(l, i)) \in Instrs
<1>1. \A l \in LabelNames : Label(l, i) \in Labels
  BY DEF Label, Labels
<1>2. NoLabel \in Labels
  BY DEF NoLabel, Label, Labels, LabelNames
<1> QED
  BY <1>1, <1>2 DEF Label, Labels, Instrs, Ops, Instr, Op, Ret, Cmp, Branch, Jmp, Define

LEMMA StmtOf ==
  ASSUME NEW i
  PROVE  /\ Op(i).stmt = i /\ Ret(i).stmt = i /\ Cmp(i).stmt = i
         /\ \A l, m : Branch(i, l, m).stmt = i
         /\ \A l : Jmp(i, l).stmt = i
         /\ \A name : Define(Label(name, i)).stmt = i
BY DEF Label, Instr, Op, Ret, Cmp, Branch, Jmp, Define

LEMMA LeafFits ==
  ASSUME NEW p, NEW g \in Nat \ {0}
  PROVE  /\ p[g].kind = "simple" => Fits(p, g + 1, <<Op(g)>>, g, After(p, g))
         /\ p[g].kind = "return" => \A y : Fits(p, g + 1, <<Ret(g)>>, g, y)
<1>1. ASSUME NEW c \in Instrs, NEW y, WellFormed(p, g + 1, c), Where(p, c) = g, Leads(p, c, y)
      PROVE  Fits(p, g + 1, <<c>>, g, y)
  BY <1>1 DEF Fits
<1>2. ASSUME p[g].kind = "simple" PROVE Fits(p, g + 1, <<Op(g)>>, g, After(p, g))
  <2>1. WellFormed(p, g + 1, Op(g))
    BY <1>2, StmtOf DEF WellFormed
  <2> QED
    BY <2>1, <1>1, InstrFacts, InstrTypes
<1>3. ASSUME p[g].kind = "return", NEW y PROVE Fits(p, g + 1, <<Ret(g)>>, g, y)
  <2>1. WellFormed(p, g + 1, Ret(g))
    BY <1>3, StmtOf DEF WellFormed
  <2>2. Where(p, Ret(g)) = g /\ Leads(p, Ret(g), y) /\ Ret(g) \in Instrs
    BY InstrTypes DEF Where, Leads, Ret, Instr
  <2> QED
    BY <2>1, <2>2, <1>1
<1> QED
  BY <1>2, <1>3

LEMMA BlockFits ==
  ASSUME NEW p, NEW g \in Nat \ {0}
  PROVE  /\ p[g].kind = "if"
              => Fits(p, g + 1,
                      <<Cmp(g), Branch(g, Label("on_true", g), Label("on_false", g)),
                        Define(Label("on_true", g))>>, g, Entry(p, g))
         /\ p[g].kind = "while"
              => Fits(p, g + 1,
                      <<Define(Label("begin", g)), Cmp(g),
                        Branch(g, Label("cont", g), Label("end", g)),
                        Define(Label("cont", g))>>, g, Entry(p, g))
<1> DEFINE a == Define(Label("begin", g))
           b == Cmp(g)
           cif == Branch(g, Label("on_true", g), Label("on_false", g))
           cwh == Branch(g, Label("cont", g), Label("end", g))
           dif == Define(Label("on_true", g))
           dwh == Define(Label("cont", g))
<1>1. a \in Instrs /\ b \in Instrs /\ cif \in Instrs /\ cwh \in Instrs
      /\ dif \in Instrs /\ dwh \in Instrs
  BY InstrTypes DEF LabelNames
<1>2. /\ Where(p, a) = g /\ Where(p, b) = g /\ Where(p, cif) = g /\ Where(p, cwh) = g
      /\ Leads(p, a, g) /\ Leads(p, b, g)
      /\ \A x : Leads(p, cif, x) /\ Leads(p, cwh, x)
      /\ Leads(p, dif, Entry(p, g)) /\ Leads(p, dwh, Entry(p, g))
  <2>1. Where(p, dif) = Entry(p, g) /\ Where(p, dwh) = Entry(p, g)
    BY InstrFacts
  <2> QED
    BY <2>1 DEF Where, Leads, Op, Ret, Cmp, Branch, Jmp, Define, Label, Instr, NoLabel
<1>3. p[g].kind = "if" => /\ WellFormed(p, g + 1, b) /\ WellFormed(p, g + 1, cif)
                          /\ WellFormed(p, g + 1, dif)
  BY StmtOf DEF WellFormed
<1>4. p[g].kind = "while" => /\ WellFormed(p, g + 1, a) /\ WellFormed(p, g + 1, b)
                             /\ WellFormed(p, g + 1, cwh) /\ WellFormed(p, g + 1, dwh)
  BY StmtOf DEF WellFormed
<1> HIDE DEF a, b, cif, cwh, dif, dwh
<1>5. p[g].kind = "if" => Fits(p, g + 1, <<b, cif, dif>>, g, Entry(p, g))
  BY <1>1, <1>2, <1>3 DEF Fits
<1>6. p[g].kind = "while" => Fits(p, g + 1, <<a, b, cwh, dwh>>, g, Entry(p, g))
  BY <1>1, <1>2, <1>4 DEF Fits
<1> QED
  BY <1>5, <1>6 DEF a, b, cif, cwh, dif, dwh

LEMMA BlockEndFits ==
  ASSUME NEW p, NEW g \in Nat, NEW c \in 1..(g - 1)
  PROVE  /\ p[c].kind = "if"
              => Fits(p, g, <<Define(Label("on_false", c))>>, After(p, c), After(p, c))
         /\ p[c].kind = "while"
              => Fits(p, g, <<Jmp(c, Label("begin", c)), Define(Label("end", c))>>,
                      c, After(p, c))
<1> DEFINE a == Define(Label("on_false", c))
           j == Jmp(c, Label("begin", c))
           e == Define(Label("end", c))
<1>1. a \in Instrs /\ j \in Instrs /\ e \in Instrs
  BY InstrTypes DEF LabelNames
<1>2. /\ Where(p, a) = After(p, c) /\ Where(p, j) = c
      /\ Leads(p, a, After(p, c)) /\ Leads(p, e, After(p, c))
      /\ \A x : Leads(p, j, x)
  <2>1. Where(p, a) = After(p, c) /\ Where(p, e) = After(p, c)
    BY InstrFacts
  <2> QED
    BY <2>1 DEF Where, Leads, Op, Ret, Cmp, Branch, Jmp, Define, Label, Instr, NoLabel
<1>3. p[c].kind = "if" => WellFormed(p, g, a)
  BY StmtOf DEF WellFormed
<1>4. p[c].kind = "while" => WellFormed(p, g, j) /\ WellFormed(p, g, e)
  BY StmtOf DEF WellFormed
<1> HIDE DEF a, j, e
<1>5. p[c].kind = "if" => Fits(p, g, <<a>>, After(p, c), After(p, c))
  BY <1>1, <1>2, <1>3 DEF Fits
<1>6. p[c].kind = "while" => Fits(p, g, <<j, e>>, c, After(p, c))
  BY <1>1, <1>2, <1>4 DEF Fits
<1> QED
  BY <1>5, <1>6 DEF a, j, e

\* Owed, where it is plain.
LEMMA OwedFacts ==
  ASSUME NEW p, NEW calls \in Seq(Nat), NEW g \in Nat
  PROVE  /\ GoesOn(p, calls, g) /\ (calls # <<>> => p[calls[Len(calls)]].last \in Nat)
              => Owed(p, calls, g) = g
         /\ p[g].last \in Nat /\ g <= p[g].last /\ p[g].kind \in {"if", "while"}
              => Owed(p, Append(calls, g), g + 1) = Entry(p, g)
<1>1. GoesOn(p, calls, g) /\ (calls # <<>> => p[calls[Len(calls)]].last \in Nat)
        => Owed(p, calls, g) = g
  BY DEF GoesOn, Owed
<1>2. ASSUME p[g].last \in Nat, g <= p[g].last, p[g].kind \in {"if", "while"}
      PROVE  Owed(p, Append(calls, g), g + 1) = Entry(p, g)
  <2> DEFINE new == Append(calls, g)
  <2>1. new # <<>> /\ new[Len(new)] = g
    OBVIOUS
  <2> HIDE DEF new
  <2>2. CASE p[g].last > g
    <3>1. ~(g + 1 > p[g].last)
      BY <2>2, <1>2
    <3> QED
      BY <2>1, <2>2, <3>1 DEF Owed, Entry, new
  <2>3. CASE ~(p[g].last > g)
    <3>1. g + 1 > p[g].last
      BY <2>3, <1>2
    <3>2. Owed(p, new, g + 1) = IF p[g].kind = "while" THEN g ELSE After(p, g)
      BY <2>1, <3>1 DEF Owed
    <3> QED
      BY <2>3, <3>2 DEF Entry, new
  <2> QED
    BY <2>2, <2>3
<1> QED
  BY <1>1, <1>2

-----------------------------------------------------------------------------
(* The invariant, action by action.                                        *)

LEMMA GenerateStep ==
  ASSUME IInv, phase = "generate", NEW s, NEW h \in Nat, gen <= h, gen' = h,
         Emit(s), StackInv(prog, open', h),
         Fits(prog, h, s, Owed(prog, open, gen), Owed(prog, open', h))
  PROVE  IInv'
<1>1. /\ IsProgram(prog) /\ CodeInv(prog, gen, code, Owed(prog, open, gen))
      /\ pc = 1 /\ flag \in BOOLEAN /\ event \in Events
  BY DEF IInv, PhaseInv
<1>2. /\ code' = code \o s
      /\ prog' = prog /\ phase' = phase /\ pc' = pc /\ flag' = flag /\ event' = event
  BY DEF Emit
<1>3. gen \in Nat
  <2>1. gen \in 1..(Len(prog) + 1)
    BY DEF IInv, StackInv
  <2> QED
    BY <2>1
<1>4. CodeInv(prog, h, code \o s, Owed(prog, open', h))
  BY <1>1, <1>3, EmitStep
<1>5. code' \in Seq(Instrs)
  BY <1>2, <1>4 DEF CodeInv
<1>6. 1 \in 1..(Len(code') + 1)
  BY <1>5
<1>7. PhaseInv'
  BY <1>1, <1>2, <1>6 DEF PhaseInv
<1> QED
  BY <1>1, <1>2, <1>4, <1>7 DEF IInv

\* What IInv says of the stack while the innermost call goes on, and when it
\* has no statement left.
LEMMA GoingOn ==
  ASSUME IInv, ~BlockEnds, gen <= Len(prog)
  PROVE  /\ IsProgram(prog) /\ StackInv(prog, open, gen)
         /\ GoesOn(prog, open, gen) /\ Owed(prog, open, gen) = gen
         /\ open \in Seq(Nat) /\ gen \in Nat \ {0}
         /\ gen \in 1..Len(prog) /\ prog[gen].last \in Nat /\ gen <= prog[gen].last
<1>1. IsProgram(prog) /\ StackInv(prog, open, gen)
  BY DEF IInv
<1>2. WellNested(prog)
  BY <1>1, StatementFacts
<1>3. open \in Seq(Nat) /\ gen \in 1..(Len(prog) + 1)
  BY <1>1 DEF StackInv
<1>4. gen \in Nat \ {0} /\ gen \in 1..Len(prog)
  BY <1>2, <1>3 DEF WellNested
<1>5. open # <<>> => prog[open[Len(open)]].last \in Nat
  <2>1. /\ Len(open) \in Nat /\ (open # <<>> <=> Len(open) # 0)
        /\ \A k \in 1..Len(open) : prog[open[k]].last \in Nat
    BY <1>1, StackFacts
  <2> QED
    BY <2>1
<1>6. GoesOn(prog, open, gen)
  BY <1>4, <1>5 DEF GoesOn, BlockEnds, InBlock, Top
<1>7. Owed(prog, open, gen) = gen
  BY <1>3, <1>4, <1>5, <1>6, OwedFacts
<1>8. prog[gen].last \in Nat /\ gen <= prog[gen].last
  BY <1>2, <1>4 DEF WellNested
<1> QED
  BY <1>1, <1>3, <1>4, <1>6, <1>7, <1>8

LEMMA Ending ==
  ASSUME IInv, BlockEnds
  PROVE  /\ IsProgram(prog) /\ StackInv(prog, Callers, gen)
         /\ gen \in Nat /\ Top \in 1..(gen - 1)
         /\ Owed(prog, open, gen)
              = IF prog[Top].kind = "while" THEN Top ELSE After(prog, Top)
         /\ Owed(prog, Callers, gen) = After(prog, Top)
<1>1. IsProgram(prog) /\ StackInv(prog, open, gen)
  BY DEF IInv
<1>2. open # <<>> /\ gen > prog[open[Len(open)]].last
  BY DEF BlockEnds, InBlock, Top
<1>3. StackInv(prog, Callers, gen) /\ Completed(prog, Callers, gen, Top)
  BY <1>1, <1>2, PopStep DEF Callers, Top
<1>4. Callers \in Seq(Nat) /\ open \in Seq(Nat) /\ gen \in 1..(Len(prog) + 1)
      /\ \A k \in 1..Len(open) : open[k] \in 1..(gen - 1)
  BY <1>1, <1>3 DEF StackInv
<1>5. Len(open) \in 1..Len(open) /\ gen \in Nat
  BY <1>2, <1>4
<1>6. Top \in 1..(gen - 1)
  BY <1>4, <1>5 DEF Top
<1>7. Owed(prog, Callers, gen) = After(prog, Top)
  BY <1>1, <1>3, <1>4, FollowsCompleted
<1>8. Owed(prog, open, gen) = IF prog[Top].kind = "while" THEN Top ELSE After(prog, Top)
  BY <1>2 DEF Owed, Top
<1> QED
  BY <1>1, <1>3, <1>5, <1>6, <1>7, <1>8

LEMMA GenerateInv ==
  ASSUME IInv, Generate
  PROVE  IInv'
<1>1. CASE SimpleStmt \/ ReturnStmt
  <2>1. /\ phase = "generate" /\ ~BlockEnds /\ gen <= Len(prog)
        /\ gen' = gen + 1 /\ open' = open
        /\ prog[gen].kind \in {"simple", "return"}
    BY <1>1 DEF SimpleStmt, ReturnStmt, Compiles
  <2>2. /\ IsProgram(prog) /\ StackInv(prog, open, gen)
        /\ GoesOn(prog, open, gen) /\ Owed(prog, open, gen) = gen
        /\ open \in Seq(Nat) /\ gen \in Nat \ {0}
    BY <2>1, GoingOn
  <2>3. StackInv(prog, open, gen + 1) /\ Completed(prog, open, gen + 1, gen)
    BY <2>1, <2>2, LeafStep
  <2>4. After(prog, gen) = Owed(prog, open, gen + 1)
    BY <2>2, <2>3, FollowsCompleted
  <2>5. gen + 1 \in Nat /\ gen <= gen + 1
    BY <2>2
  <2>6. CASE SimpleStmt
    <3>1. prog[gen].kind = "simple" /\ Emit(<<Op(gen)>>)
      BY <2>6 DEF SimpleStmt, Compiles
    <3>2. Fits(prog, gen + 1, <<Op(gen)>>, gen, Owed(prog, open, gen + 1))
      BY <3>1, <2>2, <2>4, LeafFits
    <3> QED
      BY <3>1, <3>2, <2>1, <2>2, <2>3, <2>5, GenerateStep
  <2>7. CASE ReturnStmt
    <3>1. prog[gen].kind = "return" /\ Emit(<<Ret(gen)>>)
      BY <2>7 DEF ReturnStmt, Compiles
    <3>2. Fits(prog, gen + 1, <<Ret(gen)>>, gen, Owed(prog, open, gen + 1))
      BY <3>1, <2>2, LeafFits
    <3> QED
      BY <3>1, <3>2, <2>1, <2>2, <2>3, <2>5, GenerateStep
  <2> QED
    BY <1>1, <2>6, <2>7
<1>2. CASE IfStmt \/ WhileStmt
  <2>1. /\ phase = "generate" /\ ~BlockEnds /\ gen <= Len(prog)
        /\ gen' = gen + 1 /\ open' = Append(open, gen)
        /\ prog[gen].kind \in {"if", "while"}
    BY <1>2 DEF IfStmt, WhileStmt, Compiles
  <2>2. /\ IsProgram(prog) /\ StackInv(prog, open, gen)
        /\ GoesOn(prog, open, gen) /\ Owed(prog, open, gen) = gen
        /\ open \in Seq(Nat) /\ gen \in Nat \ {0}
        /\ prog[gen].last \in Nat /\ gen <= prog[gen].last
    BY <2>1, GoingOn
  <2>3. StackInv(prog, Append(open, gen), gen + 1)
    BY <2>1, <2>2, PushStep
  <2>4. Owed(prog, Append(open, gen), gen + 1) = Entry(prog, gen)
    BY <2>1, <2>2, OwedFacts
  <2>5. gen + 1 \in Nat /\ gen <= gen + 1
    BY <2>2
  <2>6. CASE IfStmt
    <3> DEFINE s == <<Cmp(gen), Branch(gen, Label("on_true", gen), Label("on_false", gen)),
                      Define(Label("on_true", gen))>>
    <3>1. prog[gen].kind = "if" /\ Emit(s)
      BY <2>6 DEF IfStmt, Compiles
    <3>2. Fits(prog, gen + 1, s, gen, Entry(prog, gen))
      BY <3>1, <2>2, BlockFits
    <3> HIDE DEF s
    <3> QED
      BY <3>1, <3>2, <2>1, <2>2, <2>3, <2>4, <2>5, GenerateStep
  <2>7. CASE WhileStmt
    <3> DEFINE s == <<Define(Label("begin", gen)), Cmp(gen),
                      Branch(gen, Label("cont", gen), Label("end", gen)),
                      Define(Label("cont", gen))>>
    <3>1. prog[gen].kind = "while" /\ Emit(s)
      BY <2>7 DEF WhileStmt, Compiles
    <3>2. Fits(prog, gen + 1, s, gen, Entry(prog, gen))
      BY <3>1, <2>2, BlockFits
    <3> HIDE DEF s
    <3> QED
      BY <3>1, <3>2, <2>1, <2>2, <2>3, <2>4, <2>5, GenerateStep
  <2> QED
    BY <1>2, <2>6, <2>7
<1>3. CASE IfStmtEnd \/ WhileStmtEnd
  <2>1. /\ phase = "generate" /\ BlockEnds /\ gen' = gen /\ open' = Callers
    BY <1>3 DEF IfStmtEnd, WhileStmtEnd, Finishes
  <2>2. /\ IsProgram(prog) /\ StackInv(prog, Callers, gen)
        /\ gen \in Nat /\ Top \in 1..(gen - 1)
        /\ Owed(prog, open, gen)
              = IF prog[Top].kind = "while" THEN Top ELSE After(prog, Top)
        /\ Owed(prog, Callers, gen) = After(prog, Top)
    BY <2>1, Ending
  <2>3. gen <= gen
    BY <2>2
  <2>4. CASE IfStmtEnd
    <3> DEFINE s == <<Define(Label("on_false", Top))>>
    <3>1. prog[Top].kind = "if" /\ Emit(s)
      BY <2>4 DEF IfStmtEnd, Finishes
    <3>2. Fits(prog, gen, s, After(prog, Top), After(prog, Top))
      BY <3>1, <2>2, BlockEndFits
    <3> HIDE DEF s
    <3>3. Fits(prog, gen, s, Owed(prog, open, gen), Owed(prog, Callers, gen))
      BY <3>1, <3>2, <2>2
    <3> QED
      BY <3>1, <3>3, <2>1, <2>2, <2>3, GenerateStep
  <2>5. CASE WhileStmtEnd
    <3> DEFINE s == <<Jmp(Top, Label("begin", Top)), Define(Label("end", Top))>>
    <3>1. prog[Top].kind = "while" /\ Emit(s)
      BY <2>5 DEF WhileStmtEnd, Finishes
    <3>2. Fits(prog, gen, s, Top, After(prog, Top))
      BY <3>1, <2>2, BlockEndFits
    <3> HIDE DEF s
    <3>3. Fits(prog, gen, s, Owed(prog, open, gen), Owed(prog, Callers, gen))
      BY <3>1, <3>2, <2>2
    <3> QED
      BY <3>1, <3>3, <2>1, <2>2, <2>3, GenerateStep
  <2> QED
    BY <1>3, <2>4, <2>5
<1>4. CASE Output
  <2>1. /\ phase' = "run" /\ open = <<>> /\ gen > Len(prog)
        /\ prog' = prog /\ gen' = gen /\ open' = open /\ code' = code
        /\ pc' = pc /\ flag' = flag /\ event' = event
    BY <1>4 DEF Output, InBlock, genVars
  <2>2. gen \in 1..(Len(prog) + 1) /\ Len(prog) \in Nat
    <3>1. WellNested(prog)
      BY StatementFacts DEF IInv
    <3> QED
      BY <3>1 DEF IInv, StackInv, WellNested
  <2>3. gen = Len(prog) + 1
    BY <2>1, <2>2
  <2> QED
    BY <2>1, <2>3 DEF IInv, PhaseInv
<1> QED
  BY <1>1, <1>2, <1>3, <1>4 DEF Generate

LEMMA InitInv ==
  ASSUME Init
  PROVE  IInv
<1>1. /\ IsProgram(prog) /\ gen = 1 /\ open = <<>> /\ code = <<>>
      /\ phase = "generate" /\ pc = 1 /\ flag = FALSE
      /\ event = [stmt |-> 0, outcome |-> "none", turn |-> 0]
  BY ProgramsAssumption DEF Init
<1>2. Len(prog) \in Nat
  BY <1>1, StatementFacts DEF WellNested
<1>3. StackInv(prog, <<>>, 1)
  BY <1>2 DEF StackInv
<1>4. Owed(prog, <<>>, 1) = 1
  BY DEF Owed
<1>5. CodeInv(prog, 1, <<>>, 1)
  BY DEF CodeInv
<1>6. PhaseInv
  BY <1>1 DEF PhaseInv
<1>7. event \in Events
  BY <1>1 DEF Events
<1> QED
  BY <1>1, <1>3, <1>4, <1>5, <1>6, <1>7 DEF IInv

\* The instruction that runs, and where all is generated.
LEMMA Running ==
  ASSUME IInv, phase = "run", pc \in DOMAIN code
  PROVE  /\ IsProgram(prog) /\ code \in Seq(Instrs) /\ DOMAIN code = 1..Len(code)
         /\ Len(code) \in Nat /\ pc \in 1..Len(code) /\ pc \in Nat
         /\ Owed(prog, open, gen) = Len(prog) + 1
         /\ code[pc].stmt \in 1..Len(prog)
         /\ WellFormed(prog, gen, code[pc])
         /\ StatementAt = Where(prog, code[pc])
<1>1. /\ IsProgram(prog) /\ open = <<>> /\ gen = Len(prog) + 1
      /\ CodeInv(prog, gen, code, Owed(prog, open, gen))
  BY DEF IInv, PhaseInv
<1>2. code \in Seq(Instrs) /\ \A q \in 1..Len(code) : WellFormed(prog, gen, code[q])
  BY <1>1 DEF CodeInv
<1>3. DOMAIN code = 1..Len(code) /\ Len(code) \in Nat /\ pc \in 1..Len(code) /\ pc \in Nat
  BY <1>2
<1>4. Len(prog) \in Nat
  BY <1>1, StatementFacts DEF WellNested
<1>5. code[pc].stmt \in 1..(gen - 1) /\ gen - 1 = Len(prog)
  BY <1>1, <1>2, <1>3, <1>4 DEF WellFormed
<1>6. StatementAt = Where(prog, code[pc])
  BY DEF StatementAt
<1> QED
  BY <1>1, <1>2, <1>3, <1>5, <1>6 DEF Owed

LEMMA FallThrough ==
  ASSUME IInv, phase = "run", pc \in DOMAIN code,
         phase' = "run", pc' = pc + 1, code' = code, prog' = prog
  PROVE  Leads(prog, code[pc], StatementAt')
<1>1. /\ DOMAIN code = 1..Len(code) /\ Len(code) \in Nat /\ pc \in 1..Len(code)
      /\ Owed(prog, open, gen) = Len(prog) + 1
  BY Running
<1>2. Leads(prog, code[pc], IF pc < Len(code) THEN Where(prog, code[pc + 1])
                            ELSE Len(prog) + 1)
  BY <1>1 DEF IInv, CodeInv
<1>3. StatementAt' = IF pc + 1 \in DOMAIN code THEN Where(prog, code[pc + 1])
                     ELSE Len(prog) + 1
  BY DEF StatementAt
<1>4. pc + 1 \in DOMAIN code <=> pc < Len(code)
  BY <1>1
<1> QED
  BY <1>2, <1>3, <1>4

LEMMA Jumped ==
  ASSUME IInv, phase = "run", NEW l, Goto(l),
         phase' = "run", code' = code, prog' = prog
  PROVE  StatementAt' = Where(prog, Define(l)) /\ pc' \in DOMAIN code
<1>1. PICK q \in DOMAIN code : code[q] = Define(l) /\ pc' = q
  BY DEF Goto
<1> QED
  BY <1>1 DEF StatementAt

LEMMA RunInv ==
  ASSUME IInv, Run
  PROVE  IInv'
<1>1. /\ phase = "run" /\ pc \in DOMAIN code
      /\ prog' = prog /\ gen' = gen /\ open' = open /\ code' = code
  BY DEF Run, RunOp, RunRet, RunCmp, RunBranch, RunJmp, RunLabel, At, genVars
<1>2. /\ code \in Seq(Instrs) /\ DOMAIN code = 1..Len(code) /\ Len(code) \in Nat
      /\ pc \in 1..Len(code) /\ code[pc].stmt \in Nat
  <2>1. code[pc].stmt \in 1..Len(prog)
    BY <1>1, Running
  <2> QED
    BY <2>1, <1>1, Running
<1>3. phase' \in {"run", "returned"}
  BY <1>1 DEF Run, RunOp, RunRet, RunCmp, RunBranch, RunJmp, RunLabel
<1>4. pc' \in 1..(Len(code) + 1)
  BY <1>1, <1>2 DEF Run, RunOp, RunRet, RunCmp, RunBranch, RunJmp, RunLabel, Goto
<1>5. flag' \in BOOLEAN
  BY DEF IInv, Run, RunOp, RunRet, RunCmp, RunBranch, RunJmp, RunLabel
<1>6. event' \in Events
  <2>1. event \in Events
    BY DEF IInv
  <2>2. ASSUME NEW o \in {"ran", "true", "false"}, Happens(o) PROVE event' \in Events
    BY <2>1, <2>2, <1>2 DEF Happens, Events
  <2>3. event' = event \/ \E o \in {"ran", "true", "false"} : Happens(o)
    BY DEF Run, RunOp, RunRet, RunCmp, RunBranch, RunJmp, RunLabel
  <2> QED
    BY <2>1, <2>2, <2>3
<1> QED
  BY <1>1, <1>3, <1>4, <1>5, <1>6 DEF IInv, PhaseInv

THEOREM Inductive == Spec => []IInv
<1>1. Init => IInv
  BY InitInv
<1>2. IInv /\ [Next]_vars => IInv'
  <2> SUFFICES ASSUME IInv, [Next]_vars PROVE IInv'
    OBVIOUS
  <2>1. CASE Generate
    BY <2>1, GenerateInv
  <2>2. CASE Run
    BY <2>2, RunInv
  <2>3. CASE UNCHANGED vars
    BY <2>3 DEF vars, genVars, IInv, PhaseInv
  <2> QED
    BY <2>1, <2>2, <2>3 DEF Next
<1> QED
  BY <1>1, <1>2, PTL DEF Spec

\* The variables have their types, whatever the bodies: no call of
\* compile_stmt goes past its block.
THEOREM TypeCorrect == Spec => []TypeOK
<1>1. IInv => TypeOK
  <2> SUFFICES ASSUME IInv PROVE TypeOK
    OBVIOUS
  <2>1. StackInv(prog, open, gen) /\ code \in Seq(Instrs)
    BY DEF IInv, CodeInv
  <2>2. open \in Seq(Nat) /\ gen \in 1..(Len(prog) + 1) /\ DOMAIN open = 1..Len(open)
    BY <2>1 DEF StackInv
  <2>3. CallsNest
    BY <2>1, <2>2 DEF StackInv, CallsNest
  <2> QED
    BY <2>1, <2>2, <2>3 DEF IInv, PhaseInv, TypeOK
<1> QED
  BY <1>1, Inductive, PTL

-----------------------------------------------------------------------------
(* The refinement.                                                         *)

LEMMA AbstractInit ==
  ASSUME Init
  PROVE  Abstract!Init
<1>1. IsProgram(prog)
  BY ProgramsAssumption DEF Init
<1>2. Abstract!IsProgram(prog)
  BY <1>1 DEF IsProgram, Abstract!IsProgram, Kinds, Abstract!Kinds
<1>3. StatementAt = 1
  BY DEF Init, StatementAt
<1> QED
  BY <1>2, <1>3 DEF Init, Abstract!Init

LEMMA SameAfter ==
  ASSUME NEW p, NEW i
  PROVE  Abstract!After(p, i) = After(p, i) /\ Abstract!Entry(p, i) = Entry(p, i)
BY DEF Abstract!After, After, Abstract!Entry, Entry, Abstract!LoopsEndedBy, LoopsEndedBy

LEMMA GenerateStutters ==
  ASSUME IInv, Generate
  PROVE  UNCHANGED Abstract!vars
<1>1. prog' = prog /\ event' = event /\ phase = "generate"
  BY DEF Generate, SimpleStmt, ReturnStmt, IfStmt, IfStmtEnd, WhileStmt, WhileStmtEnd,
         Output, Compiles, Finishes, Emit
<1>2. StatementAt = 1
  BY <1>1 DEF StatementAt
<1>3. CASE phase' = "generate"
  <2>1. StatementAt' = 1
    BY <1>3 DEF StatementAt
  <2> QED
    BY <2>1, <1>1, <1>2 DEF Abstract!vars
<1>4. CASE phase' # "generate"
  <2>1. Output
    BY <1>1, <1>4 DEF Generate, SimpleStmt, ReturnStmt, IfStmt, IfStmtEnd,
                      WhileStmt, WhileStmtEnd, Emit
  <2>2. /\ phase' = "run" /\ pc' = pc /\ pc = 1 /\ code' = code
        /\ open = <<>> /\ gen > Len(prog)
    BY <2>1, <1>1 DEF Output, InBlock, genVars, IInv, PhaseInv
  <2>3. CodeInv(prog, gen, code, Owed(prog, open, gen))
    BY DEF IInv
  <2>4. code \in Seq(Instrs) /\ DOMAIN code = 1..Len(code) /\ Len(code) \in Nat
    BY <2>3 DEF CodeInv
  <2>5. CASE code = <<>>
    <3>1. gen = 1
      BY <2>2, <2>3, <2>5 DEF CodeInv, Owed
    <3>2. gen \in 1..(Len(prog) + 1) /\ Len(prog) \in Nat
      <4>1. WellNested(prog)
        BY StatementFacts DEF IInv
      <4> QED
        BY <4>1 DEF IInv, StackInv, WellNested
    <3>3. Len(prog) + 1 = 1
      BY <3>1, <3>2, <2>2
    <3>4. StatementAt' = 1
      BY <3>3, <2>2, <2>5, <1>1 DEF StatementAt
    <3> QED
      BY <3>4, <1>1, <1>2 DEF Abstract!vars
  <2>6. CASE code # <<>>
    <3>1. Where(prog, code[1]) = 1
      BY <2>3, <2>6 DEF CodeInv
    <3>2. 1 \in DOMAIN code
      BY <2>4, <2>6
    <3>3. StatementAt' = 1
      BY <3>1, <3>2, <2>2, <1>1 DEF StatementAt
    <3> QED
      BY <3>3, <1>1, <1>2 DEF Abstract!vars
  <2> QED
    BY <2>5, <2>6
<1> QED
  BY <1>3, <1>4

\* The instructions by what they do.
LEMMA OpCases ==
  ASSUME NEW p, NEW g, NEW c, WellFormed(p, g, c)
  PROVE  LET i == c.stmt IN
         /\ c.op \in {"op", "ret", "cmp", "branch", "jmp"} => Where(p, c) = i
         /\ c.op = "op" => p[i].kind = "simple"
         /\ c.op = "ret" => p[i].kind = "return"
         /\ c.op = "branch" =>
              \/ /\ p[i].kind = "if"
                 /\ c.to = Label("on_true", i) /\ c.else = Label("on_false", i)
              \/ /\ p[i].kind = "while"
                 /\ c.to = Label("cont", i) /\ c.else = Label("end", i)
         /\ c.op = "jmp" => c.to = Label("begin", i)
BY DEF WellFormed, Where, Op, Ret, Cmp, Branch, Jmp, Define, Instr

LEMMA LabelsLead ==
  ASSUME NEW p, NEW i
  PROVE  /\ Where(p, Define(Label("begin", i))) = i
         /\ Where(p, Define(Label("on_true", i))) = Entry(p, i)
         /\ Where(p, Define(Label("cont", i))) = Entry(p, i)
         /\ Where(p, Define(Label("on_false", i))) = After(p, i)
         /\ Where(p, Define(Label("end", i))) = After(p, i)
BY DEF Where, Define, Label, Instr

LEMMA RunRefines ==
  ASSUME IInv, Run
  PROVE  [Abstract!Next]_(Abstract!vars)
<1> DEFINE c == code[pc]
           i == c.stmt
<1>1. phase = "run" /\ pc \in DOMAIN code /\ prog' = prog /\ code' = code
  BY DEF Run, RunOp, RunRet, RunCmp, RunBranch, RunJmp, RunLabel, At, genVars
<1>2. i \in 1..Len(prog) /\ WellFormed(prog, gen, c) /\ StatementAt = Where(prog, c)
  BY <1>1, Running
<1>3. /\ c.op \in {"op", "ret", "cmp", "branch", "jmp"} => StatementAt = i
      /\ c.op = "op" => prog[i].kind = "simple"
      /\ c.op = "ret" => prog[i].kind = "return"
      /\ c.op = "branch" =>
           \/ /\ prog[i].kind = "if"
              /\ c.to = Label("on_true", i) /\ c.else = Label("on_false", i)
           \/ /\ prog[i].kind = "while"
              /\ c.to = Label("cont", i) /\ c.else = Label("end", i)
      /\ c.op = "jmp" => c.to = Label("begin", i)
  BY <1>2, OpCases
<1>4. phase' = "run" /\ pc' = pc + 1 => Leads(prog, c, StatementAt')
  BY <1>1, FallThrough
<1> HIDE DEF c
<1>5. \A o : Happens(o) => event' = Abstract!Event(i, o)
  BY DEF Happens, Abstract!Event, c
<1>6. Abstract!After(prog, i) = After(prog, i) /\ Abstract!Entry(prog, i) = Entry(prog, i)
  BY SameAfter
<1>7. CASE RunOp
  <2>1. c.op = "op" /\ Happens("ran") /\ phase' = "run" /\ pc' = pc + 1
    BY <1>1, <1>7 DEF RunOp, At, c
  <2>2. StatementAt = i /\ prog[i].kind = "simple" /\ StatementAt' = After(prog, i)
    BY <2>1, <1>3, <1>4 DEF Leads
  <2>3. event' = Abstract!Event(i, "ran")
    BY <2>1, <1>5
  <2>4. Abstract!Simple
    BY <2>2, <2>3, <1>1, <1>2, <1>6 DEF Abstract!Simple, Abstract!Running
  <2> QED
    BY <2>4 DEF Abstract!Next
<1>8. CASE RunRet
  <2>1. c.op = "ret" /\ Happens("ran") /\ phase' = "returned"
    BY <1>8 DEF RunRet, At, c
  <2>2. StatementAt = i /\ prog[i].kind = "return" /\ StatementAt' = 0
    BY <2>1, <1>3 DEF StatementAt
  <2>3. event' = Abstract!Event(i, "ran")
    BY <2>1, <1>5
  <2>4. Abstract!Return
    BY <2>2, <2>3, <1>1, <1>2 DEF Abstract!Return, Abstract!Running
  <2> QED
    BY <2>4 DEF Abstract!Next
<1>9. CASE RunCmp
  <2>1. c.op = "cmp" /\ event' = event /\ phase' = "run" /\ pc' = pc + 1
    BY <1>1, <1>9 DEF RunCmp, At, c, genVars
  <2>2. StatementAt' = StatementAt
    BY <2>1, <1>2, <1>4 DEF Leads
  <2> QED
    BY <2>1, <2>2, <1>1 DEF Abstract!vars
<1>10. CASE RunBranch
  <2>1. c.op = "branch" /\ phase' = "run"
        /\ Happens(IF flag THEN "true" ELSE "false")
        /\ Goto(IF flag THEN c.to ELSE c.else)
    BY <1>1, <1>10 DEF RunBranch, At, c
  <2>2. /\ StatementAt = i /\ prog[i].kind \in {"if", "while"}
    BY <2>1, <1>3
  <2>3. CASE flag
    <3>1. Happens("true") /\ Goto(c.to)
      BY <2>1, <2>3
    <3>2. StatementAt' = Where(prog, Define(c.to))
      BY <2>1, <3>1, <1>1, Jumped
    <3>3. Where(prog, Define(c.to)) = Entry(prog, i)
      BY <2>1, <1>3, LabelsLead
    <3>4. event' = Abstract!Event(i, "true")
      BY <3>1, <1>5
    <3>5. Abstract!Taken
      BY <2>2, <3>2, <3>3, <3>4, <1>1, <1>2, <1>6 DEF Abstract!Taken, Abstract!Running
    <3> QED
      BY <3>5 DEF Abstract!Next
  <2>4. CASE ~flag
    <3>1. Happens("false") /\ Goto(c.else)
      BY <2>1, <2>4
    <3>2. StatementAt' = Where(prog, Define(c.else))
      BY <2>1, <3>1, <1>1, Jumped
    <3>3. Where(prog, Define(c.else)) = After(prog, i)
      BY <2>1, <1>3, LabelsLead
    <3>4. event' = Abstract!Event(i, "false")
      BY <3>1, <1>5
    <3>5. Abstract!Skipped
      BY <2>2, <3>2, <3>3, <3>4, <1>1, <1>2, <1>6 DEF Abstract!Skipped, Abstract!Running
    <3> QED
      BY <3>5 DEF Abstract!Next
  <2> QED
    BY <2>3, <2>4
<1>11. CASE RunJmp
  <2>1. c.op = "jmp" /\ Goto(c.to) /\ phase' = "run" /\ event' = event
    BY <1>1, <1>11 DEF RunJmp, At, c, genVars
  <2>2. StatementAt = i /\ c.to = Label("begin", i)
    BY <2>1, <1>3
  <2>3. StatementAt' = i
    <3>1. StatementAt' = Where(prog, Define(c.to))
      BY <2>1, <1>1, Jumped
    <3> QED
      BY <3>1, <2>2, LabelsLead
  <2> QED
    BY <2>1, <2>2, <2>3, <1>1 DEF Abstract!vars
<1>12. CASE RunLabel
  <2>1. c.op = "label" /\ event' = event /\ phase' = "run" /\ pc' = pc + 1
    BY <1>1, <1>12 DEF RunLabel, At, c, genVars
  <2>2. StatementAt' = StatementAt
    BY <2>1, <1>2, <1>4 DEF Leads
  <2> QED
    BY <2>1, <2>2, <1>1 DEF Abstract!vars
<1> QED
  BY <1>7, <1>8, <1>9, <1>10, <1>11, <1>12 DEF Run

\* Whatever the body, and however its blocks nest, the generated instructions
\* do what the body says (compile_stmt, compile_if_stmt, compile_while_stmt).
THEOREM Refines == Spec => ImplementsStructured
<1>1. Init => Abstract!Init
  BY AbstractInit
<1>2. IInv /\ [Next]_vars => [Abstract!Next]_(Abstract!vars)
  <2> SUFFICES ASSUME IInv, [Next]_vars PROVE [Abstract!Next]_(Abstract!vars)
    OBVIOUS
  <2>1. CASE Generate
    BY <2>1, GenerateStutters
  <2>2. CASE Run
    BY <2>2, RunRefines
  <2>3. CASE UNCHANGED vars
    <3>1. StatementAt' = StatementAt
      BY <2>3 DEF vars, genVars, StatementAt
    <3> QED
      BY <2>3, <3>1 DEF vars, Abstract!vars
  <2> QED
    BY <2>1, <2>2, <2>3 DEF Next
<1> QED
  BY <1>1, <1>2, Inductive, PTL DEF Spec, ImplementsStructured, Abstract!Spec

-----------------------------------------------------------------------------
(* The labels.  Of those of a call in progress one is not yet defined, the *)
(* one that closes its block; that one is defined when the call returns.   *)

Contents(c) == {c[q] : q \in 1..Len(c)}
LabelsDistinct(c) ==
  \A q, r \in 1..Len(c) : c[q].op = "label" /\ c[r] = c[q] => q = r

Closing(l) == l.name \in {"on_false", "end"}
Called(calls, i) == \E k \in 1..Len(calls) : calls[k] = i

\* A label that an instruction of C names is in C or is still to come.
LabelsOwed(calls, C) ==
  \A x \in C : \A l \in {x.to, x.else} :
    l = NoLabel \/ Define(l) \in C \/ (Closing(l) /\ Called(calls, l.stmt))

\* What a call in progress has to come to is not there yet.
NoneClosed(calls, C) ==
  \A x \in C : x.op = "label" /\ Closing(x.to) => ~Called(calls, x.stmt)

LabelsInv(calls, c) ==
  /\ LabelsDistinct(c)
  /\ LabelsOwed(calls, Contents(c))
  /\ NoneClosed(calls, Contents(c))

LEMMA ContentsAppended ==
  ASSUME NEW c \in Seq(Instrs), NEW s \in Seq(Instrs)
  PROVE  Contents(c \o s) = Contents(c) \cup Contents(s)
<1> DEFINE m == Len(c)
           n == Len(s)
           new == c \o s
<1>1. m \in Nat /\ n \in Nat /\ Len(new) = m + n
  OBVIOUS
<1>2. \A q \in 1..(m + n) : new[q] = IF q <= m THEN c[q] ELSE s[q - m]
  OBVIOUS
<1> HIDE DEF new
<1>3. ASSUME NEW q \in 1..Len(new) PROVE new[q] \in Contents(c) \cup Contents(s)
  <2>1. CASE q <= m
    <3>1. q \in 1..m /\ new[q] = c[q]
      BY <2>1, <1>1, <1>2
    <3> QED
      BY <3>1 DEF Contents
  <2>2. CASE ~(q <= m)
    <3>1. q - m \in 1..n /\ new[q] = s[q - m]
      BY <2>2, <1>1, <1>2
    <3> QED
      BY <3>1 DEF Contents
  <2> QED
    BY <2>1, <2>2
<1>4. ASSUME NEW q \in 1..m PROVE c[q] \in Contents(new)
  <2>1. q \in 1..Len(new) /\ new[q] = c[q]
    BY <1>1, <1>2
  <2> QED
    BY <2>1 DEF Contents
<1>5. ASSUME NEW q \in 1..n PROVE s[q] \in Contents(new)
  <2>1. m + q \in 1..Len(new) /\ ~(m + q <= m) /\ (m + q) - m = q
    BY <1>1
  <2>2. new[m + q] = s[q]
    BY <2>1, <1>1, <1>2
  <2> QED
    BY <2>1, <2>2 DEF Contents
<1>6. Contents(new) = Contents(c) \cup Contents(s)
  BY <1>3, <1>4, <1>5 DEF Contents
<1> QED
  BY <1>6 DEF new

LEMMA DistinctAppended ==
  ASSUME NEW c \in Seq(Instrs), NEW s \in Seq(Instrs),
         LabelsDistinct(c), LabelsDistinct(s),
         \A x \in Contents(s) : x.op = "label" => x \notin Contents(c)
  PROVE  LabelsDistinct(c \o s)
<1> DEFINE m == Len(c)
           n == Len(s)
           new == c \o s
<1>1. m \in Nat /\ n \in Nat /\ Len(new) = m + n
  OBVIOUS
<1>2. \A q \in 1..(m + n) : new[q] = IF q <= m THEN c[q] ELSE s[q - m]
  OBVIOUS
<1> HIDE DEF new
<1>3. \A q \in 1..(m + n) :
        \/ q \in 1..m /\ new[q] = c[q] /\ new[q] \in Contents(c)
        \/ /\ q \notin 1..m /\ q - m \in 1..n
           /\ new[q] = s[q - m] /\ new[q] \in Contents(s)
  BY <1>1, <1>2 DEF Contents
<1>4. ASSUME NEW q \in 1..(m + n), NEW r \in 1..(m + n),
             new[q].op = "label", new[r] = new[q]
      PROVE  q = r
  <2>1. CASE q \in 1..m /\ r \in 1..m
    BY <2>1, <1>3, <1>4 DEF LabelsDistinct
  <2>2. CASE q \notin 1..m /\ r \notin 1..m
    <3>1. /\ q - m \in 1..n /\ new[q] = s[q - m]
          /\ r - m \in 1..n /\ new[r] = s[r - m]
      BY <2>2, <1>3
    <3>2. q - m = r - m
      BY <3>1, <1>4 DEF LabelsDistinct
    <3> QED
      BY <3>2, <1>1
  <2>3. CASE q \in 1..m /\ r \notin 1..m
    BY <2>3, <1>3, <1>4
  <2>4. CASE q \notin 1..m /\ r \in 1..m
    BY <2>4, <1>3, <1>4
  <2> QED
    BY <2>1, <2>2, <2>3, <2>4
<1>5. LabelsDistinct(new)
  BY <1>1, <1>4 DEF LabelsDistinct
<1> QED
  BY <1>5 DEF new

\* What is appended may be asked for what the calls that return owe.
LEMMA LabelsStep ==
  ASSUME NEW calls, NEW calls2, NEW c \in Seq(Instrs), NEW s \in Seq(Instrs),
         LabelsInv(calls, c), LabelsDistinct(s),
         \A x \in Contents(s) : x.op = "label" => x \notin Contents(c),
         \A x \in Contents(s) : \A l \in {x.to, x.else} :
           \/ l = NoLabel \/ Define(l) \in Contents(c) \cup Contents(s)
           \/ Closing(l) /\ Called(calls2, l.stmt),
         \A x \in Contents(c) : \A l \in {x.to, x.else} :
           Closing(l) /\ Called(calls, l.stmt) =>
             Called(calls2, l.stmt) \/ Define(l) \in Contents(s),
         \A x \in Contents(c) \cup Contents(s) :
           x.op = "label" /\ Closing(x.to) => ~Called(calls2, x.stmt)
  PROVE  LabelsInv(calls2, c \o s)
<1>1. Contents(c \o s) = Contents(c) \cup Contents(s)
  BY ContentsAppended
<1>2. LabelsDistinct(c \o s)
  BY DistinctAppended DEF LabelsInv
<1>3. LabelsOwed(calls2, Contents(c) \cup Contents(s))
  <2>1. \A x \in Contents(c) : \A l \in {x.to, x.else} :
          l = NoLabel \/ Define(l) \in Contents(c) \/ (Closing(l) /\ Called(calls, l.stmt))
    BY DEF LabelsInv, LabelsOwed
  <2> QED
    BY <2>1 DEF LabelsOwed
<1>4. NoneClosed(calls2, Contents(c) \cup Contents(s))
  BY DEF NoneClosed
<1> QED
  BY <1>1, <1>2, <1>3, <1>4 DEF LabelsInv

\* The instructions of the body have the labels of their own statement.
LEMMA LabelsOf ==
  ASSUME NEW p, NEW g, NEW x, WellFormed(p, g, x)
  PROVE  LET i == x.stmt
             kind == p[i].kind
         IN  /\ i \in 1..(g - 1)
             /\ x.to = NoLabel \/ x.to.stmt = i
             /\ x.else = NoLabel \/ x.else.stmt = i
             /\ x.op = "label" => x = Define(x.to)
             /\ kind = "if" => /\ x.to = NoLabel \/ x.to = Label(x.to.name, i)
                               /\ x.to.name # "end" /\ x.else.name # "end"
                               /\ x.else = NoLabel \/ x.else = Label("on_false", i)
             /\ kind = "while" => /\ x.to = NoLabel \/ x.to = Label(x.to.name, i)
                                  /\ x.to.name # "on_false" /\ x.else.name # "on_false"
                                  /\ x.else = NoLabel \/ x.else = Label("end", i)
             /\ x.to.name \in {"on_false", "end"} => x.to = Label(x.to.name, i)
BY DEF WellFormed, Op, Ret, Cmp, Branch, Jmp, Define, Instr, Label, NoLabel

LEMMA CalledPushed ==
  ASSUME NEW calls \in Seq(Nat), NEW i \in Nat
  PROVE  \A j : Called(Append(calls, i), j) <=> Called(calls, j) \/ j = i
<1> DEFINE new == Append(calls, i)
<1>1. Len(calls) \in Nat /\ Len(new) = Len(calls) + 1 /\ new[Len(calls) + 1] = i
      /\ \A k \in 1..Len(calls) : new[k] = calls[k]
  OBVIOUS
<1> HIDE DEF new
<1>2. ASSUME NEW j, Called(new, j) PROVE Called(calls, j) \/ j = i
  <2>1. PICK k \in 1..Len(new) : new[k] = j
    BY <1>2 DEF Called
  <2>2. k \in 1..Len(calls) \/ k = Len(calls) + 1
    BY <1>1, <2>1
  <2> QED
    BY <1>1, <2>1, <2>2 DEF Called
<1>3. ASSUME NEW j, Called(calls, j) PROVE Called(new, j)
  <2>1. PICK k \in 1..Len(calls) : calls[k] = j
    BY <1>3 DEF Called
  <2>2. k \in 1..Len(new) /\ new[k] = j
    BY <1>1, <2>1
  <2> QED
    BY <2>2 DEF Called
<1>4. Called(new, i)
  <2>1. Len(calls) + 1 \in 1..Len(new)
    BY <1>1
  <2> QED
    BY <1>1, <2>1 DEF Called
<1> QED
  BY <1>2, <1>3, <1>4 DEF new

\* A call that begins: its labels are new, and all but the closing one defined.
LEMMA LabelsOpened ==
  ASSUME NEW calls \in Seq(Nat), NEW c \in Seq(Instrs), NEW s \in Seq(Instrs),
         NEW i \in Nat,
         LabelsInv(calls, c), LabelsDistinct(s),
         \A x \in Contents(c) : x.stmt # i,
         \A x \in Contents(s) :
           /\ x.stmt = i
           /\ x.op = "label" => ~Closing(x.to)
           /\ \A l \in {x.to, x.else} :
                l = NoLabel \/ Define(l) \in Contents(s) \/ (Closing(l) /\ l.stmt = i)
  PROVE  LabelsInv(Append(calls, i), c \o s)
<1> DEFINE new == Append(calls, i)
<1>1. \A j : Called(new, j) <=> Called(calls, j) \/ j = i
  BY CalledPushed
<1> HIDE DEF new
<1>2. NoneClosed(calls, Contents(c))
  BY DEF LabelsInv
<1>3. \A x \in Contents(c) \cup Contents(s) :
        x.op = "label" /\ Closing(x.to) => ~Called(new, x.stmt)
  BY <1>1, <1>2 DEF NoneClosed
<1>4. \A x \in Contents(s) : x.op = "label" => x \notin Contents(c)
  OBVIOUS
<1>5. \A x \in Contents(s) : \A l \in {x.to, x.else} :
        \/ l = NoLabel \/ Define(l) \in Contents(c) \cup Contents(s)
        \/ Closing(l) /\ Called(new, l.stmt)
  BY <1>1
<1>6. \A x \in Contents(c) : \A l \in {x.to, x.else} :
        Closing(l) /\ Called(calls, l.stmt) =>
          Called(new, l.stmt) \/ Define(l) \in Contents(s)
  BY <1>1
<1>7. LabelsInv(new, c \o s)
  BY <1>3, <1>4, <1>5, <1>6, LabelsStep
<1> QED
  BY <1>7 DEF new

\* A leaf has no labels.
LEMMA LabelsLeaf ==
  ASSUME NEW calls, NEW c \in Seq(Instrs), NEW x \in Instrs,
         LabelsInv(calls, c), x.op # "label", x.to = NoLabel, x.else = NoLabel
  PROVE  LabelsInv(calls, c \o <<x>>)
<1> DEFINE s == <<x>>
<1>1. s \in Seq(Instrs) /\ Contents(s) = {x} /\ Len(s) = 1 /\ s[1] = x
  BY DEF Contents
<1> HIDE DEF s
<1>2. LabelsDistinct(s)
  BY <1>1 DEF LabelsDistinct
<1>3. NoneClosed(calls, Contents(c))
  BY DEF LabelsInv
<1>4. \A y \in Contents(c) \cup Contents(s) :
        y.op = "label" /\ Closing(y.to) => ~Called(calls, y.stmt)
  BY <1>1, <1>3 DEF NoneClosed
<1>5. LabelsInv(calls, c \o s)
  BY <1>1, <1>2, <1>4, LabelsStep
<1> QED
  BY <1>5 DEF s

\* A call that returns: top is not in the calls it leaves, and what its block
\* asked for is in s.
Closes(calls, calls2, c, s, top, closing) ==
  /\ \A j : Called(calls, j) <=> Called(calls2, j) \/ j = top
  /\ ~Called(calls2, top)
  /\ Define(closing) \in Contents(s) /\ closing.stmt = top /\ Closing(closing)
  /\ \A x \in Contents(c) : \A l \in {x.to, x.else} :
       Closing(l) /\ l.stmt = top => l = closing
  /\ \A x \in Contents(s) :
       /\ x.stmt = top
       /\ x.op = "label" => Closing(x.to)
       /\ \A l \in {x.to, x.else} :
            l = NoLabel \/ Define(l) \in Contents(c) \cup Contents(s)

LEMMA LabelsClosed ==
  ASSUME NEW calls, NEW calls2, NEW c \in Seq(Instrs), NEW s \in Seq(Instrs),
         NEW top, NEW closing,
         LabelsInv(calls, c), LabelsDistinct(s),
         Closes(calls, calls2, c, s, top, closing)
  PROVE  LabelsInv(calls2, c \o s)
<1>1. NoneClosed(calls, Contents(c))
  BY DEF LabelsInv
<1>2. \A x \in Contents(s) : x.op = "label" => x \notin Contents(c)
  BY <1>1 DEF NoneClosed, Closes
<1>3. \A x \in Contents(c) \cup Contents(s) :
        x.op = "label" /\ Closing(x.to) => ~Called(calls2, x.stmt)
  BY <1>1 DEF NoneClosed, Closes
<1>4. \A x \in Contents(c) : \A l \in {x.to, x.else} :
        Closing(l) /\ Called(calls, l.stmt) =>
          Called(calls2, l.stmt) \/ Define(l) \in Contents(s)
  BY DEF Closes
<1>5. \A x \in Contents(s) : \A l \in {x.to, x.else} :
        \/ l = NoLabel \/ Define(l) \in Contents(c) \cup Contents(s)
        \/ Closing(l) /\ Called(calls2, l.stmt)
  BY DEF Closes
<1> QED
  BY <1>2, <1>3, <1>4, <1>5, LabelsStep

LEMMA CallsPopped ==
  ASSUME NEW p, IsProgram(p), NEW calls, NEW g, StackInv(p, calls, g), calls # <<>>
  PROVE  LET top == calls[Len(calls)]
             callers == SubSeq(calls, 1, Len(calls) - 1)
         IN  /\ \A j : Called(calls, j) <=> Called(callers, j) \/ j = top
             /\ ~Called(callers, top)
<1> DEFINE top == calls[Len(calls)]
           callers == SubSeq(calls, 1, Len(calls) - 1)
<1>1. /\ calls \in Seq(Nat)
      /\ \A k, l \in 1..Len(calls) : k < l => calls[k] < calls[l]
  BY DEF StackInv
<1>2. /\ Len(callers) = Len(calls) - 1
      /\ \A k \in 1..(Len(calls) - 1) : callers[k] = calls[k]
  BY <1>1, Popped
<1>3. Len(calls) \in Nat /\ Len(calls) # 0 /\ Len(calls) \in 1..Len(calls)
  BY <1>1
<1>4. \A k \in 1..Len(calls) : calls[k] \in Nat
  BY <1>1
<1> HIDE DEF callers
<1>5. \A k \in 1..Len(callers) :
        /\ k \in 1..Len(calls) /\ k < Len(calls)
        /\ callers[k] = calls[k]
  BY <1>2, <1>3
<1>6. \A k \in 1..Len(calls) : k \in 1..Len(callers) \/ k = Len(calls)
  BY <1>2, <1>3
<1>7. ASSUME NEW j, Called(calls, j) PROVE Called(callers, j) \/ j = top
  <2>1. PICK k \in 1..Len(calls) : calls[k] = j
    BY <1>7 DEF Called
  <2> QED
    BY <2>1, <1>5, <1>6 DEF Called
<1>8. ASSUME NEW j, Called(callers, j) \/ j = top PROVE Called(calls, j)
  BY <1>3, <1>5, <1>8 DEF Called
<1>9. ~Called(callers, top)
  <2> SUFFICES ASSUME NEW k \in 1..Len(callers), callers[k] = top PROVE FALSE
    BY DEF Called
  <2>1. calls[k] < top /\ calls[k] = top
    BY <1>1, <1>3, <1>5
  <2> QED
    BY <2>1, <1>3, <1>4
<1> QED
  BY <1>7, <1>8, <1>9 DEF callers

\* A loop that is compiled has where to go back to.
BeginsDefined(p, calls, C) ==
  \A i : Called(calls, i) /\ p[i].kind = "while" => Define(Label("begin", i)) \in C

AllLabels(p, calls, c) == LabelsInv(calls, c) /\ BeginsDefined(p, calls, Contents(c))

\* The labels within what one statement appends.
LEMMA OpenedIf ==
  ASSUME NEW i \in Nat
  PROVE  LET s == <<Cmp(i), Branch(i, Label("on_true", i), Label("on_false", i)),
                    Define(Label("on_true", i))>>
         IN  /\ s \in Seq(Instrs) /\ LabelsDistinct(s)
             /\ \A x \in Contents(s) :
                  /\ x.stmt = i
                  /\ x.op = "label" => ~Closing(x.to)
                  /\ \A l \in {x.to, x.else} :
                       l = NoLabel \/ Define(l) \in Contents(s) \/ (Closing(l) /\ l.stmt = i)
<1> DEFINE a == Cmp(i)
           b == Branch(i, Label("on_true", i), Label("on_false", i))
           d == Define(Label("on_true", i))
           s == <<a, b, d>>
<1>1. a \in Instrs /\ b \in Instrs /\ d \in Instrs
  BY InstrTypes DEF LabelNames
<1>2. /\ a.op = "cmp" /\ a.stmt = i /\ a.to = NoLabel /\ a.else = NoLabel
      /\ b.op = "branch" /\ b.stmt = i
      /\ b.to = Label("on_true", i) /\ b.else = Label("on_false", i)
      /\ d.op = "label" /\ d.stmt = i /\ d.to = Label("on_true", i) /\ d.else = NoLabel
  BY DEF Cmp, Branch, Define, Instr, Label
<1>3. ~Closing(Label("on_true", i)) /\ Closing(Label("on_false", i))
      /\ Label("on_false", i).stmt = i /\ Define(Label("on_true", i)) = d
  BY DEF Closing, Label
<1> HIDE DEF a, b, d
<1>4. /\ s \in Seq(Instrs) /\ Len(s) = 3 /\ s[1] = a /\ s[2] = b /\ s[3] = d
  BY <1>1
<1>5. Contents(s) = {a, b, d}
  <2> HIDE DEF s
  <2> QED
    BY <1>4 DEF Contents
<1> HIDE DEF s
<1>6. LabelsDistinct(s)
  BY <1>2, <1>4 DEF LabelsDistinct
<1>7. \A x \in {a, b, d} :
        /\ x.stmt = i
        /\ x.op = "label" => ~Closing(x.to)
        /\ \A l \in {x.to, x.else} :
             l = NoLabel \/ Define(l) \in {a, b, d} \/ (Closing(l) /\ l.stmt = i)
  BY <1>2, <1>3
<1> QED
  BY <1>4, <1>5, <1>6, <1>7 DEF s, a, b, d

LEMMA OpenedWhile ==
  ASSUME NEW i \in Nat
  PROVE  LET s == <<Define(Label("begin", i)), Cmp(i),
                    Branch(i, Label("cont", i), Label("end", i)),
                    Define(Label("cont", i))>>
         IN  /\ s \in Seq(Instrs) /\ LabelsDistinct(s)
             /\ Define(Label("begin", i)) \in Contents(s)
             /\ \A x \in Contents(s) :
                  /\ x.stmt = i
                  /\ x.op = "label" => ~Closing(x.to)
                  /\ \A l \in {x.to, x.else} :
                       l = NoLabel \/ Define(l) \in Contents(s) \/ (Closing(l) /\ l.stmt = i)
<1> DEFINE e == Define(Label("begin", i))
           a == Cmp(i)
           b == Branch(i, Label("cont", i), Label("end", i))
           d == Define(Label("cont", i))
           s == <<e, a, b, d>>
<1>1. e \in Instrs /\ a \in Instrs /\ b \in Instrs /\ d \in Instrs
  BY InstrTypes DEF LabelNames
<1>2. /\ a.op = "cmp" /\ a.stmt = i /\ a.to = NoLabel /\ a.else = NoLabel
      /\ b.op = "branch" /\ b.stmt = i
      /\ b.to = Label("cont", i) /\ b.else = Label("end", i)
      /\ d.op = "label" /\ d.stmt = i /\ d.to = Label("cont", i) /\ d.else = NoLabel
      /\ e.op = "label" /\ e.stmt = i /\ e.to = Label("begin", i) /\ e.else = NoLabel
      /\ e.to # d.to
  BY DEF Cmp, Branch, Define, Instr, Label
<1>3. /\ ~Closing(Label("cont", i)) /\ ~Closing(Label("begin", i))
      /\ Closing(Label("end", i))
      /\ Label("end", i).stmt = i
      /\ Define(Label("cont", i)) = d /\ Define(Label("begin", i)) = e
  BY DEF Closing, Label
<1> HIDE DEF a, b, d, e
<1>4. /\ s \in Seq(Instrs) /\ Len(s) = 4 
      /\ s[1] = e /\ s[2] = a /\ s[3] = b /\ s[4] = d
  BY <1>1
<1>5. Contents(s) = {e, a, b, d}
  <2> HIDE DEF s
  <2> QED
    BY <1>4 DEF Contents
<1> HIDE DEF s
<1>6. LabelsDistinct(s)
  BY <1>2, <1>4 DEF LabelsDistinct
<1>7. \A x \in {e, a, b, d} :
        /\ x.stmt = i
        /\ x.op = "label" => ~Closing(x.to)
        /\ \A l \in {x.to, x.else} :
             l = NoLabel \/ Define(l) \in {e, a, b, d} \/ (Closing(l) /\ l.stmt = i)
  BY <1>2, <1>3
<1> QED
  BY <1>3, <1>4, <1>5, <1>6, <1>7 DEF s, a, b, d, e

LEMMA ClosedIf ==
  ASSUME NEW i \in Nat
  PROVE  LET s == <<Define(Label("on_false", i))>>
         IN  /\ s \in Seq(Instrs) /\ LabelsDistinct(s)
             /\ Contents(s) = {Define(Label("on_false", i))}
<1> DEFINE d == Define(Label("on_false", i))
           s == <<d>>
<1>1. d \in Instrs
  BY InstrTypes DEF LabelNames
<1> HIDE DEF d
<1>2. s \in Seq(Instrs) /\ Len(s) = 1 /\ s[1] = d
  BY <1>1
<1> HIDE DEF s
<1>3. LabelsDistinct(s) /\ Contents(s) = {d}
  BY <1>2 DEF LabelsDistinct, Contents
<1> QED
  BY <1>2, <1>3 DEF s, d

LEMMA ClosedWhile ==
  ASSUME NEW i \in Nat
  PROVE  LET s == <<Jmp(i, Label("begin", i)), Define(Label("end", i))>>
         IN  /\ s \in Seq(Instrs) /\ LabelsDistinct(s)
             /\ Contents(s) = {Jmp(i, Label("begin", i)), Define(Label("end", i))}
<1> DEFINE j == Jmp(i, Label("begin", i))
           d == Define(Label("end", i))
           s == <<j, d>>
<1>1. j \in Instrs /\ d \in Instrs
  BY InstrTypes DEF LabelNames
<1>2. j.op = "jmp"
  BY DEF Jmp, Instr
<1>3. d.op = "label"
  BY DEF Define, Instr
<1> HIDE DEF d, j
<1>4. s \in Seq(Instrs) /\ Len(s) = 2 /\ s[1] = j /\ s[2] = d
  BY <1>1
<1> HIDE DEF s
<1>5. LabelsDistinct(s) /\ Contents(s) = {j, d}
  BY <1>2, <1>3, <1>4 DEF LabelsDistinct, Contents
<1> QED
  BY <1>4, <1>5 DEF s, d, j

\* What IInv says of the instructions that are there.
LEMMA CodeFacts ==
  ASSUME IInv
  PROVE  /\ code \in Seq(Instrs) /\ gen \in Nat
         /\ \A x \in Contents(code) : WellFormed(prog, gen, x)
<1>1. /\ CodeInv(prog, gen, code, Owed(prog, open, gen))
      /\ StackInv(prog, open, gen) /\ IsProgram(prog)
  BY DEF IInv
<1>2. gen \in 1..(Len(prog) + 1)
  BY <1>1 DEF StackInv
<1>3. gen \in Nat
  BY <1>2
<1> QED
  BY <1>1, <1>3 DEF CodeInv, Contents

LEMMA GenerateLabels ==
  ASSUME IInv, AllLabels(prog, open, code), Generate
  PROVE  AllLabels(prog, open', code')
<1>1. /\ code \in Seq(Instrs) /\ gen \in Nat
      /\ \A x \in Contents(code) : WellFormed(prog, gen, x)
  BY CodeFacts
<1>2. LabelsInv(open, code) /\ BeginsDefined(prog, open, Contents(code))
  BY DEF AllLabels
<1>3. CASE SimpleStmt \/ ReturnStmt
  <2>1. PICK x \in {Op(gen), Ret(gen)} : code' = code \o <<x>> /\ open' = open
    BY <1>3 DEF SimpleStmt, ReturnStmt, Emit
  <2>2. x \in Instrs
    BY <1>1, <2>1, InstrTypes
  <2>3. x.op # "label" /\ x.to = NoLabel /\ x.else = NoLabel
    BY <2>1 DEF Op, Ret, Instr
  <2>4. LabelsInv(open, code \o <<x>>)
    BY <1>1, <1>2, <2>2, <2>3, LabelsLeaf
  <2>5. <<x>> \in Seq(Instrs)
    BY <2>2
  <2>6. Contents(code \o <<x>>) = Contents(code) \cup Contents(<<x>>)
    BY <1>1, <2>5, ContentsAppended
  <2> QED
    BY <1>2, <2>1, <2>4, <2>6 DEF AllLabels, BeginsDefined
<1>4. ASSUME NEW s \in Seq(Instrs), LabelsDistinct(s),
             code' = code \o s, open' = Append(open, gen), open \in Seq(Nat),
             prog[gen].kind = "while" => Define(Label("begin", gen)) \in Contents(s),
             \A x \in Contents(s) :
               /\ x.stmt = gen
               /\ x.op = "label" => ~Closing(x.to)
               /\ \A l \in {x.to, x.else} :
                    l = NoLabel \/ Define(l) \in Contents(s) \/ (Closing(l) /\ l.stmt = gen)
      PROVE  AllLabels(prog, open', code')
  <2>1. \A x \in Contents(code) : x.stmt # gen
    BY <1>1, LabelsOf
  <2>2. LabelsInv(Append(open, gen), code \o s)
    BY <1>1, <1>2, <1>4, <2>1, LabelsOpened
  <2>3. \A j : Called(Append(open, gen), j) => Called(open, j) \/ j = gen
    BY <1>1, <1>4, CalledPushed
  <2>4. Contents(code \o s) = Contents(code) \cup Contents(s)
    BY <1>1, <1>4, ContentsAppended
  <2> QED
    BY <1>2, <1>4, <2>2, <2>3, <2>4 DEF AllLabels, BeginsDefined
<1>5. CASE IfStmt \/ WhileStmt
  <2>1. open' = Append(open, gen) /\ open \in Seq(Nat)
    BY <1>5 DEF IfStmt, WhileStmt, IInv, StackInv
  <2>2. CASE IfStmt
    <3> DEFINE s == <<Cmp(gen), Branch(gen, Label("on_true", gen), Label("on_false", gen)),
                      Define(Label("on_true", gen))>>
    <3>1. prog[gen].kind = "if" /\ Emit(s)
      BY <2>2 DEF IfStmt, Compiles
    <3>2. /\ s \in Seq(Instrs) /\ LabelsDistinct(s)
          /\ \A x \in Contents(s) :
               /\ x.stmt = gen
               /\ x.op = "label" => ~Closing(x.to)
               /\ \A l \in {x.to, x.else} :
                    l = NoLabel \/ Define(l) \in Contents(s) \/ (Closing(l) /\ l.stmt = gen)
      BY <1>1, OpenedIf
    <3> HIDE DEF s
    <3> QED
      BY <2>1, <3>1, <3>2, <1>4 DEF Emit
  <2>3. CASE WhileStmt
    <3> DEFINE s == <<Define(Label("begin", gen)), Cmp(gen),
                      Branch(gen, Label("cont", gen), Label("end", gen)),
                      Define(Label("cont", gen))>>
    <3>1. Emit(s)
      BY <2>3 DEF WhileStmt
    <3>2. /\ s \in Seq(Instrs) /\ LabelsDistinct(s)
          /\ Define(Label("begin", gen)) \in Contents(s)
          /\ \A x \in Contents(s) :
               /\ x.stmt = gen
               /\ x.op = "label" => ~Closing(x.to)
               /\ \A l \in {x.to, x.else} :
                    l = NoLabel \/ Define(l) \in Contents(s) \/ (Closing(l) /\ l.stmt = gen)
      BY <1>1, OpenedWhile
    <3> HIDE DEF s
    <3> QED
      BY <2>1, <3>1, <3>2, <1>4 DEF Emit
  <2> QED
    BY <1>5, <2>2, <2>3
<1>6. CASE IfStmtEnd \/ WhileStmtEnd
  <2>1. BlockEnds /\ open # <<>> /\ open' = Callers
    BY <1>6 DEF IfStmtEnd, WhileStmtEnd, Finishes, BlockEnds, InBlock
  <2>2. Top \in 1..(gen - 1)
    BY <2>1, Ending
  <2>3. Top \in Nat
    BY <1>1, <2>2
  <2>4. IsProgram(prog) /\ StackInv(prog, open, gen)
    BY DEF IInv
  <2>5. /\ \A j : Called(open, j) <=> Called(Callers, j) \/ j = Top
        /\ ~Called(Callers, Top)
    BY <2>1, <2>4, CallsPopped DEF Callers, Top
  <2>6. \A x \in Contents(code) : \A l \in {x.to, x.else} :
          Closing(l) /\ l.stmt = Top =>
            /\ prog[Top].kind = "if" => l = Label("on_false", Top)
            /\ prog[Top].kind = "while" => l = Label("end", Top)
    <3> SUFFICES ASSUME NEW x \in Contents(code), NEW l \in {x.to, x.else},
                        Closing(l), l.stmt = Top
                 PROVE  /\ prog[Top].kind = "if" => l = Label("on_false", Top)
                        /\ prog[Top].kind = "while" => l = Label("end", Top)
      OBVIOUS
    <3>1. l # NoLabel
      BY DEF Closing, NoLabel, Label
    <3>2. x.stmt = Top
      BY <1>1, <3>1, LabelsOf
    <3>3. WellFormed(prog, gen, x)
      BY <1>1
    <3>4. /\ prog[x.stmt].kind = "if" =>
               /\ x.to = NoLabel \/ x.to = Label(x.to.name, x.stmt)
               /\ x.to.name # "end" /\ x.else.name # "end"
               /\ x.else = NoLabel \/ x.else = Label("on_false", x.stmt)
          /\ prog[x.stmt].kind = "while" =>
               /\ x.to = NoLabel \/ x.to = Label(x.to.name, x.stmt)
               /\ x.to.name # "on_false" /\ x.else.name # "on_false"
               /\ x.else = NoLabel \/ x.else = Label("end", x.stmt)
      BY <3>3, LabelsOf
    <3>5. CASE prog[Top].kind = "if"
      <4>1. /\ l.name # "end"
            /\ l = Label(l.name, Top) \/ l = Label("on_false", Top)
        BY <3>1, <3>2, <3>5, <3>4
      <4> QED
        BY <4>1, <3>5 DEF Closing
    <3>6. CASE prog[Top].kind = "while"
      <4>1. /\ l.name # "on_false"
            /\ l = Label(l.name, Top) \/ l = Label("end", Top)
        BY <3>1, <3>2, <3>6, <3>4
      <4> QED
        BY <4>1, <3>6 DEF Closing
    <3> QED
      BY <3>5, <3>6
  <2>7. ASSUME NEW s \in Seq(Instrs), LabelsInv(Callers, code \o s), code' = code \o s
        PROVE  AllLabels(prog, open', code')
    <3>1. Contents(code \o s) = Contents(code) \cup Contents(s)
      BY <1>1, ContentsAppended
    <3> QED
      BY <1>2, <2>1, <2>5, <2>7, <3>1 DEF AllLabels, BeginsDefined
  <2>8. CASE IfStmtEnd
    <3> DEFINE l == Label("on_false", Top)
               s == <<Define(l)>>
    <3>1. prog[Top].kind = "if" /\ code' = code \o s
      BY <2>8 DEF IfStmtEnd, Finishes, Emit
    <3>2. s \in Seq(Instrs) /\ LabelsDistinct(s) /\ Contents(s) = {Define(l)}
      BY <2>3, ClosedIf
    <3>3. Closing(l) /\ l.stmt = Top
      BY DEF Closing, Label
    <3>4. Define(l).stmt = Top /\ Define(l).to = l /\ Define(l).else = NoLabel
      BY <3>3 DEF Define, Instr
    <3>5. \A x \in Contents(code) : \A m \in {x.to, x.else} :
            Closing(m) /\ m.stmt = Top => m = l
      BY <2>6, <3>1
    <3> HIDE DEF l, s
    <3>6. \A x \in Contents(s) :
            /\ x.stmt = Top
            /\ x.op = "label" => Closing(x.to)
            /\ \A m \in {x.to, x.else} :
                 m = NoLabel \/ Define(m) \in Contents(code) \cup Contents(s)
      BY <3>2, <3>3, <3>4
    <3>7. Define(l) \in Contents(s)
      BY <3>2
    <3>8. Closes(open, Callers, code, s, Top, l)
      BY <2>5, <3>3, <3>5, <3>6, <3>7 DEF Closes
    <3>9. LabelsInv(Callers, code \o s)
      BY <1>1, <1>2, <3>2, <3>8, LabelsClosed
    <3> QED
      BY <3>1, <3>2, <3>9, <2>7
  <2>9. CASE WhileStmtEnd
    <3> DEFINE l == Label("end", Top)
               j == Jmp(Top, Label("begin", Top))
               s == <<j, Define(l)>>
    <3>1. prog[Top].kind = "while" /\ code' = code \o s
      BY <2>9 DEF WhileStmtEnd, Finishes, Emit
    <3>2. s \in Seq(Instrs) /\ LabelsDistinct(s) /\ Contents(s) = {j, Define(l)}
      BY <2>3, ClosedWhile
    <3>3. Closing(l) /\ l.stmt = Top
      BY DEF Closing, Label
    <3>4. Define(l).stmt = Top /\ Define(l).to = l /\ Define(l).else = NoLabel
      BY <3>3 DEF Define, Instr
    <3>5. /\ j.stmt = Top /\ j.op = "jmp"
          /\ j.to = Label("begin", Top) /\ j.else = NoLabel
      BY DEF Jmp, Instr
    <3>6. \A x \in Contents(code) : \A m \in {x.to, x.else} :
            Closing(m) /\ m.stmt = Top => m = l
      BY <2>6, <3>1
    <3>7. Define(Label("begin", Top)) \in Contents(code)
      BY <1>2, <2>5, <3>1 DEF BeginsDefined
    <3> HIDE DEF l, s, j
    <3>8. \A x \in Contents(s) :
            /\ x.stmt = Top
            /\ x.op = "label" => Closing(x.to)
            /\ \A m \in {x.to, x.else} :
                 m = NoLabel \/ Define(m) \in Contents(code) \cup Contents(s)
      BY <3>2, <3>3, <3>4, <3>5, <3>7
    <3>9. Define(l) \in Contents(s)
      BY <3>2
    <3>10. Closes(open, Callers, code, s, Top, l)
      BY <2>5, <3>3, <3>6, <3>8, <3>9 DEF Closes
    <3>11. LabelsInv(Callers, code \o s)
      BY <1>1, <1>2, <3>2, <3>10, LabelsClosed
    <3> QED
      BY <3>1, <3>2, <3>11, <2>7
  <2> QED
    BY <1>6, <2>8, <2>9
<1>7. CASE Output
  BY <1>7 DEF Output, genVars
<1> QED
  BY <1>3, <1>5, <1>6, <1>7 DEF Generate

\* No label is defined twice, and when the function is done every label that
\* a branch or a jump names is defined (compile_if_stmt, compile_while_stmt).
THEOREM LabelsAreOnce == Spec => []LabelsOnce
<1>1. Init => AllLabels(prog, open, code)
  <2> SUFFICES ASSUME Init PROVE AllLabels(prog, open, code)
    OBVIOUS
  <2>1. open = <<>> /\ code = <<>>
    BY DEF Init
  <2>2. Contents(<<>>) = {} /\ \A j : ~Called(<<>>, j)
    BY DEF Contents, Called
  <2>3. LabelsDistinct(<<>>)
    BY DEF LabelsDistinct
  <2> QED
    BY <2>1, <2>2, <2>3
       DEF AllLabels, LabelsInv, LabelsOwed, NoneClosed, BeginsDefined
<1>2. IInv /\ AllLabels(prog, open, code) /\ [Next]_vars => AllLabels(prog, open, code)'
  <2> SUFFICES ASSUME IInv, AllLabels(prog, open, code), [Next]_vars
               PROVE  AllLabels(prog', open', code')
    BY DEF AllLabels, LabelsInv, LabelsDistinct, LabelsOwed, NoneClosed, BeginsDefined,
           Contents, Called
  <2>1. CASE Generate
    <3>1. prog' = prog
      BY <2>1 DEF Generate, SimpleStmt, ReturnStmt, IfStmt, IfStmtEnd,
                  WhileStmt, WhileStmtEnd, Output, Emit
    <3> QED
      BY <2>1, <3>1, GenerateLabels
  <2>2. CASE Run
    BY <2>2 DEF Run, RunOp, RunRet, RunCmp, RunBranch, RunJmp, RunLabel, genVars
  <2>3. CASE UNCHANGED vars
    BY <2>3 DEF vars, genVars
  <2> QED
    BY <2>1, <2>2, <2>3 DEF Next
<1>3. IInv /\ AllLabels(prog, open, code) => LabelsOnce
  <2> SUFFICES ASSUME IInv, AllLabels(prog, open, code) PROVE LabelsOnce
    OBVIOUS
  <2>1. code \in Seq(Instrs) /\ DOMAIN code = 1..Len(code)
    BY CodeFacts
  <2>2. LabelsDistinct(code) /\ LabelsOwed(open, Contents(code))
    BY DEF AllLabels, LabelsInv
  <2>3. ASSUME phase # "generate", NEW l \in Uses \ {NoLabel} PROVE Definitions(l) # {}
    <3>1. PICK x \in Contents(code) : l \in {x.to, x.else}
      BY <2>1 DEF Uses, Contents
    <3>2. open = <<>>
      BY <2>3 DEF IInv, PhaseInv
    <3>3. \A j : ~Called(open, j)
      BY <3>2 DEF Called
    <3>4. Define(l) \in Contents(code)
      BY <2>2, <2>3, <3>1, <3>3 DEF LabelsOwed
    <3> QED
      BY <2>1, <3>4 DEF Contents, Definitions
  <2>4. \A q, r \in DOMAIN code :
          code[q].op = "label" /\ code[r] = code[q] => q = r
    BY <2>1, <2>2 DEF LabelsDistinct
  <2> QED
    BY <2>3, <2>4 DEF LabelsOnce
<1> QED
  BY <1>1, <1>2, <1>3, Inductive, PTL DEF Spec
=============================================================================
