---------------------------- MODULE GetargProofs ----------------------------
(***************************************************************************)
(* Any command line is taken apart as Getarg says: the calls come to an    *)
(* end, none looks behind the arguments, and what is there is accounted    *)
(* for once.  What an option was cut out of is still an option, and what   *)
(* is cut out of it an end of it.                                          *)
(***************************************************************************)
EXTENDS Getarg, SequenceTheorems, TLAPS

Args == Seq(Symbols)

\* The place before at holds an option, the file, or an option's argument.
Covered(p) ==
  \/ IsOption(given[p])
  \/ given[p] = entry
  \/ p > 1 /\ Takes(given[p - 1], "STRING")

PassedOver ==
  /\ \A p \in 1..Len(given) : p < at => Covered(p)
  /\ at <= Len(given) /\ argv[at] # given[at] => IsOption(given[at])
  /\ status = "parsed" => at > Len(given)

IInv == given \in Seq(Args) /\ TypeOK /\ TakenOnce /\ PassedOver

-----------------------------------------------------------------------------
(* One argument.                                                           *)

LEMMA NoNull == NULL \notin Args
<1> SUFFICES ASSUME NULL \in Args PROVE FALSE
  OBVIOUS
<1>1. NULL[1] \in Symbols
  BY DEF NULL, Args
<1> QED
  BY <1>1 DEF NULL, Symbols

LEMMA Cut ==
  ASSUME NEW arg \in Args
  PROVE  /\ Attached(arg) \in Args
         /\ Attached(arg) # <<>> => /\ Len(Attached(arg)) = Len(arg) - 2
                                    /\ Attached(arg) = SubSeq(arg, 3, Len(arg))
                                    /\ Len(arg) > 2
<1>1. Len(arg) \in Nat
  BY DEF Args
<1> DEFINE n == Len(arg)
           end == SubSeq(arg, 3, n)
<1>2. end \in Args /\ Len(end) = IF 3 <= n THEN n - 3 + 1 ELSE 0
  <2>1. \A i \in 3..n : arg[i] \in Symbols
    BY DEF Args
  <2>2. n \in Int
    BY <1>1
  <2> HIDE DEF n
  <2> QED
    BY <2>1, <2>2, SubSeqProperties DEF Args
<1>3. <<>> \in Args
  BY DEF Args
<1>4. end # <<>> => Len(end) # 0
  BY <1>2 DEF Args
<1> HIDE DEF n
<1> HIDE DEF end
<1>5. Attached(arg) \in {<<>>, end} /\ n \in Nat
  BY <1>1 DEF Attached, end, n
<1>6. /\ Attached(arg) \in Args
      /\ Attached(arg) # <<>> => /\ Len(Attached(arg)) = n - 2
                                 /\ Attached(arg) = end
                                 /\ n > 2
  BY <1>2, <1>3, <1>4, <1>5
<1> QED
  BY <1>6 DEF n, end

LEMMA EndOfEnd ==
  ASSUME NEW arg \in Args, NEW text \in Args, IsSuffix(text, arg), Attached(text) # <<>>
  PROVE  IsSuffix(Attached(text), arg)
<1>1. PICK n \in 1..(Len(arg) + 1) : text = SubSeq(arg, n, Len(arg))
  BY DEF IsSuffix
<1>2. Len(arg) \in Nat /\ n \in Int /\ n >= 1 /\ Len(text) \in Nat
  BY DEF Args
<1>3. Attached(text) = SubSeq(text, 3, Len(text)) /\ Len(text) > 2
  BY Cut
<1> DEFINE m == Len(arg)
           k == Len(text)
<1>4. \A i \in n..m : arg[i] \in Symbols
  BY <1>2 DEF Args
<1> HIDE DEF m, k
<1>5. k = IF n <= m THEN m - n + 1 ELSE 0
  BY <1>1, <1>2, <1>4, SubSeqProperties DEF m, k
<1>6. k = m - n + 1 /\ m \in Int /\ k \in Int /\ k > 2
  BY <1>2, <1>3, <1>5 DEF m, k
<1>7. SubSeq(SubSeq(arg, n, m), 3, k) = SubSeq(arg, n + 3 - 1, n + k - 1)
  <2>1. 3 \in 1..(1 + m - n) /\ k \in 3..(1 + m - n)
    BY <1>2, <1>6
  <2> QED
    BY <2>1, <1>2, <1>4, <1>6, SubSeqOfSubSeq DEF Args
<1>8. n + k - 1 = m /\ n + 3 - 1 \in 1..(m + 1)
  BY <1>2, <1>6
<1>9. Attached(text) = SubSeq(arg, n + 3 - 1, m)
  BY <1>1, <1>3, <1>7, <1>8 DEF m, k
<1> QED
  BY <1>8, <1>9 DEF IsSuffix, m

LEMMA WholeIsEnd ==
  ASSUME NEW arg \in Args
  PROVE  IsSuffix(arg, arg)
<1>1. SubSeq(arg, 1, Len(arg)) = arg
  BY SubSeqFull DEF Args
<1>2. 1 \in 1..(Len(arg) + 1)
  BY DEF Args
<1> QED
  BY <1>1, <1>2 DEF IsSuffix

-----------------------------------------------------------------------------
(* What getarg looks at.                                                   *)

\* What IInv says of the argument that is looked at, and of what an option
\* there takes for its own.
AtFacts ==
  /\ given \in Seq(Args) /\ argv \in Seq(Args) /\ Len(argv) = Len(given)
  /\ Len(given) \in Nat /\ at \in 1..Len(given) /\ argc = Len(given) + 1 - at
  /\ Argv \in Args /\ given[at] \in Args
  /\ IsSuffix(Argv, given[at])
  /\ IsOption(Argv) => IsOption(given[at])
  /\ Argv # given[at] => IsOption(given[at])
  /\ TakeApart \in Seq(Args) /\ Len(TakeApart) = Len(given)
  /\ \A p \in (at + 1)..Len(given) : TakeApart[p] = given[p]
  /\ IsSuffix(TakeApart[at], given[at])

LEMMA Looked ==
  ASSUME IInv, AtArgument
  PROVE  AtFacts
<1>1. /\ given \in Seq(Args) /\ argv \in Seq(Args) /\ Len(argv) = Len(given)
      /\ at \in 1..(Len(given) + 2) /\ argc = Len(given) + 1 - at /\ argc > 0
  BY DEF IInv, TypeOK, AtArgument, Args
<1>2. Len(given) \in Nat /\ at \in 1..Len(given)
  BY <1>1
<1>3. Argv \in Args /\ given[at] \in Args
  BY <1>1, <1>2 DEF Argv
<1>4. IsSuffix(Argv, given[at]) /\ (Argv # given[at] => IsOption(given[at]))
  BY <1>1, <1>2 DEF IInv, TakenOnce, PassedOver, Argv
<1>5. Attached(Argv) \in Args
  BY <1>3, Cut
<1>6. TakeApart \in Seq(Args) /\ Len(TakeApart) = Len(given)
      /\ TakeApart[at] = (IF IsAttached THEN Attached(Argv) ELSE Argv)
      /\ \A p \in (at + 1)..Len(given) : TakeApart[p] = argv[p]
  <2>1. CASE IsAttached
    <3> DEFINE text == Attached(Argv)
    <3>1. TakeApart = [argv EXCEPT ![at] = text] /\ text \in Args
      BY <2>1, <1>5 DEF TakeApart
    <3> HIDE DEF text
    <3>2. \A p \in (at + 1)..Len(given) : p \in 1..Len(argv) /\ p # at
      BY <1>1, <1>2
    <3>3. TakeApart \in Seq(Args) /\ Len(TakeApart) = Len(argv)
      BY <3>1, <1>1
    <3>4. at \in DOMAIN argv /\ DOMAIN argv = 1..Len(argv)
      BY <1>1, <1>2
    <3>5. TakeApart[at] = text /\ \A p \in (at + 1)..Len(given) : TakeApart[p] = argv[p]
      BY <3>1, <3>2, <3>4
    <3> QED
      BY <3>3, <3>5, <2>1, <1>1 DEF text
  <2>2. CASE ~IsAttached
    BY <2>2, <1>1 DEF TakeApart, Argv
  <2> QED
    BY <2>1, <2>2
<1>7. \A p \in (at + 1)..Len(given) : argv[p] = given[p]
  BY DEF IInv, TakenOnce
<1>8. IsSuffix(TakeApart[at], given[at])
  BY <1>3, <1>4, <1>6, EndOfEnd DEF IsAttached
<1> QED
  BY <1>1, <1>2, <1>3, <1>4, <1>6, <1>7, <1>8 DEF AtFacts

\* The argument of the option, and where it stands.
LEMMA ArgumentFacts ==
  ASSUME AtFacts
  PROVE  /\ Behind \in {at, at + 1} /\ Behind \in 1..(Len(given) + 1)
         /\ Argument \in Args \cup {NULL}
         /\ Argument \in Args => Behind \in 1..Len(given)
         /\ Argument \in Args => IsSuffix(Argument, given[Behind])
<1>1. /\ given \in Seq(Args) /\ argv \in Seq(Args) /\ Len(argv) = Len(given)
      /\ Len(given) \in Nat /\ at \in 1..Len(given)
      /\ TakeApart \in Seq(Args) /\ Len(TakeApart) = Len(given)
      /\ \A p \in (at + 1)..Len(given) : TakeApart[p] = given[p]
      /\ IsSuffix(TakeApart[at], given[at])
  BY DEF AtFacts
<1>2. Behind \in {at, at + 1} /\ Behind \in 1..(Len(given) + 1)
  BY <1>1 DEF Behind
<1>3. CASE Behind <= Len(argv)
  <2>1. Behind \in 1..Len(given) /\ Argument = TakeApart[Behind] /\ Argument \in Args
    BY <1>1, <1>2, <1>3 DEF Argument
  <2>2. CASE Behind = at
    BY <2>1, <2>2, <1>1, <1>2
  <2>3. CASE Behind = at + 1
    <3>1. Behind \in (at + 1)..Len(given)
      BY <2>1, <2>3, <1>1
    <3>2. Argument = given[Behind]
      BY <2>1, <3>1, <1>1
    <3>3. IsSuffix(Argument, given[Behind])
      BY <2>1, <3>2, WholeIsEnd
    <3> QED
      BY <2>1, <3>3, <1>2
  <2> QED
    BY <2>2, <2>3, <1>2
<1>4. CASE ~(Behind <= Len(argv))
  BY <1>2, <1>4, NoNull DEF Argument
<1> QED
  BY <1>3, <1>4

-----------------------------------------------------------------------------
(* The texts that were taken.                                              *)

TakenFrom(texts, a) ==
  \E from \in [texts -> 1..Len(given)] :
    /\ \A t \in texts : from[t] < a /\ IsSuffix(t[2], given[from[t]])
    /\ \A t, u \in texts : from[t] = from[u] => t = u

LEMMA FewerTaken ==
  ASSUME NEW old, NEW new, new \subseteq old, NEW a \in Int, NEW b \in Int, a <= b,
         Len(given) \in Nat, TakenFrom(old, a)
  PROVE  TakenFrom(new, b)
<1>1. PICK from \in [old -> 1..Len(given)] :
        /\ \A t \in old : from[t] < a /\ IsSuffix(t[2], given[from[t]])
        /\ \A t, u \in old : from[t] = from[u] => t = u
  BY DEF TakenFrom
<1> DEFINE rest == [t \in new |-> from[t]]
<1>2. rest \in [new -> 1..Len(given)] /\ \A t \in new : rest[t] = from[t]
  BY <1>1
<1> HIDE DEF rest
<1>3. \A t \in new : rest[t] < b /\ IsSuffix(t[2], given[rest[t]])
  <2> SUFFICES ASSUME NEW t \in new PROVE rest[t] < b /\ IsSuffix(t[2], given[rest[t]])
    OBVIOUS
  <2>1. rest[t] = from[t] /\ from[t] < a /\ from[t] \in 1..Len(given)
        /\ IsSuffix(t[2], given[from[t]])
    BY <1>1, <1>2
  <2> QED
    BY <2>1
<1>4. \A t, u \in new : rest[t] = rest[u] => t = u
  BY <1>1, <1>2
<1> QED
  BY <1>2, <1>3, <1>4 DEF TakenFrom

LEMMA OneMoreTaken ==
  ASSUME NEW old, NEW new, NEW one,
         NEW a \in Int, NEW place \in 1..Len(given), a <= place,
         Len(given) \in Nat, TakenFrom(old, a),
         \A t \in new : t \in old \/ t = one,
         IsSuffix(one[2], given[place])
  PROVE  TakenFrom(new, place + 1)
<1>1. PICK from \in [old -> 1..Len(given)] :
        /\ \A t \in old : from[t] < a /\ IsSuffix(t[2], given[from[t]])
        /\ \A t, u \in old : from[t] = from[u] => t = u
  BY DEF TakenFrom
<1> DEFINE more == [t \in new |-> IF t = one THEN place ELSE from[t]]
<1>2. more \in [new -> 1..Len(given)]
      /\ \A t \in new : more[t] = IF t = one THEN place ELSE from[t]
  BY <1>1
<1> HIDE DEF more
<1>3. ASSUME NEW t \in new
      PROVE  /\ more[t] < place + 1 /\ IsSuffix(t[2], given[more[t]])
             /\ t # one => /\ t \in old /\ more[t] = from[t] /\ more[t] < place
  <2>1. CASE t = one
    BY <2>1, <1>2
  <2>2. CASE t # one
    <3>1. t \in old /\ more[t] = from[t]
      BY <2>2, <1>2
    <3>2. from[t] < a /\ from[t] \in 1..Len(given) /\ IsSuffix(t[2], given[from[t]])
      BY <3>1, <1>1
    <3> QED
      BY <3>1, <3>2
  <2> QED
    BY <2>1, <2>2
<1>4. ASSUME NEW t \in new, NEW u \in new, more[t] = more[u] PROVE t = u
  <2>1. CASE t # one /\ u # one
    BY <2>1, <1>1, <1>3, <1>4
  <2>2. CASE t = one /\ u # one
    <3>1. more[t] = place /\ more[u] < place
      BY <2>2, <1>2, <1>3
    <3> QED
      BY <3>1, <1>4
  <2>3. CASE t # one /\ u = one
    <3>1. more[u] = place /\ more[t] < place
      BY <2>3, <1>2, <1>3
    <3> QED
      BY <3>1, <1>4
  <2> QED
    BY <2>1, <2>2, <2>3
<1> QED
  BY <1>2, <1>3, <1>4 DEF TakenFrom

\* What was taken, when nothing more is, and when an option or the file takes
\* what it gets.
LEMMA SameTaken ==
  ASSUME entry' = entry, values' = values
  PROVE  Taken' = Taken
BY DEF Taken, Texts

LEMMA OptionTakes ==
  ASSUME NEW s \in Strings, NEW text, values \in [Strings -> Seq(Symbols) \cup {NULL}],
         values' = [values EXCEPT ![s] = text], entry' = entry
  PROVE  \A t \in Taken' : t \in Taken \/ (t = <<s, text>> /\ text # NULL)
<1> SUFFICES ASSUME NEW t \in Taken', t \notin Taken PROVE t = <<s, text>> /\ text # NULL
  OBVIOUS
<1>1. t[2] # NULL /\ (t = <<"file", entry>> \/ \E r \in Strings : t = <<r, values'[r]>>)
  BY DEF Taken, Texts
<1>2. t # <<"file", entry>>
  BY <1>1 DEF Taken, Texts
<1>3. PICK r \in Strings : t = <<r, values'[r]>>
  BY <1>1, <1>2
<1>4. r = s
  <2> SUFFICES ASSUME r # s PROVE FALSE
    OBVIOUS
  <2>1. values'[r] = values[r]
    OBVIOUS
  <2> QED
    BY <2>1, <1>1, <1>3 DEF Taken, Texts
<1>5. values'[s] = text
  OBVIOUS
<1> QED
  BY <1>1, <1>3, <1>4, <1>5

LEMMA FileTakes ==
  ASSUME NEW text, values' = values, entry' = text
  PROVE  \A t \in Taken' : t \in Taken \/ t = <<"file", text>>
BY DEF Taken, Texts

-----------------------------------------------------------------------------
(* The invariant, action by action.                                        *)

LEMMA TakesArgument ==
  ASSUME AtFacts, NEW opt, AtOption("STRING", opt), ~IsAttached
  PROVE  Takes(given[at], "STRING")
<1>1. given[at] \in Args /\ Argv \in Args /\ IsSuffix(Argv, given[at])
  BY DEF AtFacts
<1>2. IsOption(Argv) /\ Attached(Argv) = <<>> /\ opt \in Found(Argv) /\ opt.type = "STRING"
  BY DEF AtOption, IsAttached
<1> DEFINE arg == given[at]
<1>3. PICK n \in 1..(Len(arg) + 1) : Argv = SubSeq(arg, n, Len(arg))
  BY <1>1 DEF IsSuffix
<1>4. Len(arg) \in Nat /\ \A i \in 1..Len(arg) : arg[i] \in Symbols
  BY <1>1 DEF Args
<1> DEFINE m == Len(arg)
<1> HIDE DEF arg, m
<1>5. n <= m
  <2> SUFFICES ASSUME n > m PROVE FALSE
    BY <1>3, <1>4 DEF m
  <2>1. SubSeq(arg, n, m) = <<>>
    BY <1>3, <1>4, SubSeqEmpty DEF m
  <2> QED
    BY <2>1, <1>2, <1>3 DEF IsOption, m
<1>6. n \in DOMAIN arg
  BY <1>1, <1>4, <1>5 DEF m, arg, Args
<1> QED
  BY <1>2, <1>3, <1>6 DEF Takes, arg

\* Where getarg looks next, and what it has left behind.
Moved(place) ==
  /\ given' = given /\ argv' \in Seq(Args) /\ Len(argv') = Len(given)
  /\ at' = place /\ at' \in 1..(Len(given) + 2) /\ argc' = Len(given) + 1 - at'
  /\ \A p \in (at' + 1)..Len(given) : argv'[p] = given[p]
  /\ at' <= Len(given) => IsSuffix(argv'[at'], given[at'])
  /\ at' <= Len(given) /\ argv'[at'] # given[at'] => IsOption(given[at'])

LEMMA Moves ==
  ASSUME AtFacts, IsOption(Argv), NEW place \in {at, at + 1, at + 2}, place <= Len(given) + 2,
         given' = given, argv' = TakeApart, ShiftTo(place)
  PROVE  Moved(place)
<1>1. /\ given \in Seq(Args) /\ Len(given) \in Nat /\ at \in 1..Len(given)
      /\ argc = Len(given) + 1 - at
      /\ TakeApart \in Seq(Args) /\ Len(TakeApart) = Len(given)
      /\ \A p \in (at + 1)..Len(given) : TakeApart[p] = given[p]
      /\ IsSuffix(TakeApart[at], given[at])
      /\ IsOption(given[at])
  BY DEF AtFacts
<1>2. at' = place /\ at' \in 1..(Len(given) + 2) /\ argc' = Len(given) + 1 - at'
  BY <1>1 DEF ShiftTo
<1>3. \A p \in (at' + 1)..Len(given) : argv'[p] = given[p]
  BY <1>1, <1>2
<1>4. ASSUME place <= Len(given)
      PROVE  IsSuffix(argv'[place], given[place])
             /\ (argv'[place] # given[place] => IsOption(given[place]))
  <2>1. CASE place = at
    BY <2>1, <1>1
  <2>2. CASE place # at
    <3>1. place \in (at + 1)..Len(given) /\ place \in 1..Len(given)
      BY <2>2, <1>1, <1>4
    <3>2. argv'[place] = given[place] /\ given[place] \in Args
      BY <3>1, <1>1
    <3> QED
      BY <3>2, WholeIsEnd
  <2> QED
    BY <2>1, <2>2
<1> QED
  BY <1>1, <1>2, <1>3, <1>4 DEF Moved

LEMMA MovesOn ==
  ASSUME AtFacts, IInv, given' = given, argv' = argv, ShiftTo(at + 1)
  PROVE  Moved(at + 1)
<1>1. /\ given \in Seq(Args) /\ Len(given) \in Nat /\ at \in 1..Len(given)
      /\ argc = Len(given) + 1 - at /\ argv \in Seq(Args) /\ Len(argv) = Len(given)
  BY DEF AtFacts
<1>2. \A p \in (at + 1)..Len(given) : argv[p] = given[p]
  BY DEF IInv, TakenOnce
<1>3. at' = at + 1 /\ at' \in 1..(Len(given) + 2) /\ argc' = Len(given) + 1 - at'
  BY <1>1 DEF ShiftTo
<1>4. ASSUME at + 1 <= Len(given)
      PROVE  argv[at + 1] = given[at + 1] /\ IsSuffix(given[at + 1], given[at + 1])
  <2>1. at + 1 \in (at + 1)..Len(given) /\ at + 1 \in 1..Len(given)
    BY <1>1, <1>4
  <2> QED
    BY <2>1, <1>1, <1>2, WholeIsEnd
<1>5. \A p \in (at' + 1)..Len(given) : p \in (at + 1)..Len(given)
  BY <1>1, <1>3
<1> QED
  BY <1>1, <1>2, <1>3, <1>4, <1>5 DEF Moved

\* The steps that move, from what they take and what they leave covered.
LEMMA StepInv ==
  ASSUME IInv, NEW place, Moved(place),
         TakenFrom(Taken', at'),
         \A p \in 1..Len(given) : p < at' => Covered(p)',
         values' \in [Strings -> Seq(Symbols) \cup {NULL}],
         entry' \in Seq(Symbols) \cup {NULL},
         flags' \subseteq Flags,
         status' \in {"parsing", "failed"}
  PROVE  IInv'
<1>1. TypeOK'
  BY DEF Moved, TypeOK, Args
<1>2. TakenOnce'
  BY DEF Moved, TakenOnce, TakenFrom
<1>3. PassedOver'
  BY DEF Moved, PassedOver
<1>4. given' \in Seq(Args)
  BY DEF Moved, IInv
<1> QED
  BY <1>1, <1>2, <1>3, <1>4 DEF IInv

LEMMA StillCovered ==
  ASSUME IInv, given' = given, entry' = entry
  PROVE  \A p \in 1..Len(given) : p < at => Covered(p)'
BY DEF IInv, PassedOver, Covered

LEMMA InvTaken ==
  ASSUME IInv
  PROVE  /\ TakenFrom(Taken, at) /\ Len(given) \in Nat /\ at \in Nat
         /\ values \in [Strings -> Seq(Symbols) \cup {NULL}]
         /\ entry \in Seq(Symbols) \cup {NULL} /\ flags \subseteq Flags
<1>1. Len(given) \in Nat /\ at \in 1..(Len(given) + 2)
  BY DEF IInv, TypeOK, Args
<1>2. TakenFrom(Taken, at)
  BY DEF IInv, TakenOnce, TakenFrom
<1> QED
  BY <1>1, <1>2 DEF IInv, TypeOK

LEMMA OptionKinds ==
  ASSUME NEW opt \in Options
  PROVE  /\ opt.type = "STRING" => opt.long \in Strings
         /\ opt.type = "FLAG" => opt.long \in Flags
<1> DEFINE O(t, l, s) == Option(t, l, s)
<1>1. \/ opt = O("STRING", "cache-dir", "D") \/ opt = O("FLAG", "force-build", "F")
      \/ opt = O("STRING", "root-module", "M") \/ opt = O("FLAG", "output-ast", "")
      \/ opt = O("FLAG", "output-ir", "") \/ opt = O("FLAG", "output-lexer-tokens", "")
      \/ opt = O("HELP", "help", "h")
  BY DEF Options
<1>2. \A t, l, s : O(t, l, s).type = t /\ O(t, l, s).long = l
  BY DEF Option
<1> HIDE DEF O
<1>3. \A t, l, s :
        opt = O(t, l, s) /\ (t = "STRING" => l \in Strings) /\ (t = "FLAG" => l \in Flags) =>
          /\ opt.type = "STRING" => opt.long \in Strings
          /\ opt.type = "FLAG" => opt.long \in Flags
  BY <1>2
<1>4. {"cache-dir", "root-module"} \subseteq Strings
      /\ {"force-build", "output-ast", "output-ir", "output-lexer-tokens"} \subseteq Flags
  BY DEF Strings, Flags
<1> QED
  BY <1>1, <1>3, <1>4

LEMMA OptStringInv ==
  ASSUME IInv, NEW opt \in Options, OptString(opt)
  PROVE  IInv'
<1>1. /\ AtOption("STRING", opt) /\ IsOption(Argv)
      /\ values' = [values EXCEPT ![opt.long] = Argument]
      /\ argv' = TakeApart /\ ShiftTo(Behind + 1)
      /\ given' = given /\ flags' = flags /\ entry' = entry /\ status' = status
      /\ status = "parsing"
  BY DEF OptString, AtOption, AtArgument
<1>2. opt.long \in Strings
  BY <1>1, OptionKinds DEF AtOption
<1>3. AtFacts
  BY <1>1, Looked DEF AtOption
<1>4. /\ Behind \in {at, at + 1} /\ Behind \in 1..(Len(given) + 1)
      /\ Argument \in Args \cup {NULL}
      /\ Argument \in Args => Behind \in 1..Len(given)
      /\ Argument \in Args => IsSuffix(Argument, given[Behind])
  BY <1>3, ArgumentFacts
<1>5. Len(given) \in Nat /\ at \in 1..Len(given) /\ IsOption(given[at])
  BY <1>1, <1>3 DEF AtFacts
<1>6. Behind + 1 \in {at, at + 1, at + 2} /\ Behind + 1 <= Len(given) + 2
  BY <1>4, <1>5
<1>7. Moved(Behind + 1)
  BY <1>1, <1>3, <1>6, Moves
<1>8. at' = Behind + 1 /\ at <= Behind /\ Behind \in Int /\ at \in Int
  BY <1>4, <1>5, <1>7 DEF Moved
<1>9. values' \in [Strings -> Seq(Symbols) \cup {NULL}]
  BY <1>1, <1>2, <1>4, InvTaken DEF Args
<1>10. TakenFrom(Taken', at')
  <2>1. \A t \in Taken' : t \in Taken \/ (t = <<opt.long, Argument>> /\ Argument # NULL)
    BY <1>1, <1>2, InvTaken, OptionTakes
  <2>2. TakenFrom(Taken, at)
    BY InvTaken
  <2>3. CASE Argument = NULL
    <3>1. Taken' \subseteq Taken /\ at <= at' /\ at' \in Int
      BY <2>1, <2>3, <1>8
    <3> QED
      BY <2>2, <3>1, <1>5, <1>8, FewerTaken
  <2>4. CASE Argument # NULL
    <3> DEFINE one == <<opt.long, Argument>>
    <3>1. one[2] = Argument
      OBVIOUS
    <3>2. \A t \in Taken' : t \in Taken \/ t = one
      BY <2>1
    <3> HIDE DEF one
    <3>3. Behind \in 1..Len(given) /\ IsSuffix(one[2], given[Behind])
      BY <2>4, <3>1, <1>4
    <3>4. TakenFrom(Taken', Behind + 1)
      BY <2>2, <3>2, <3>3, <1>5, <1>8, OneMoreTaken
    <3> QED
      BY <3>4, <1>8
  <2> QED
    BY <2>3, <2>4
<1>11. ASSUME NEW p \in 1..Len(given), p < at' PROVE Covered(p)'
  <2>1. CASE p < at
    BY <2>1, <1>1, StillCovered
  <2>2. CASE p = at
    BY <2>2, <1>1, <1>5 DEF Covered
  <2>3. CASE p > at
    <3>1. p = at + 1 /\ Behind = at + 1 /\ p - 1 = at /\ p > 1
      BY <2>3, <1>4, <1>5, <1>8, <1>11
    <3>2. ~IsAttached
      BY <3>1, <1>5 DEF Behind
    <3>3. Takes(given[at], "STRING")
      BY <3>2, <1>1, <1>3, TakesArgument
    <3> QED
      BY <3>1, <3>3, <1>1 DEF Covered
  <2> QED
    BY <2>1, <2>2, <2>3, <1>5
<1> QED
  BY <1>1, <1>7, <1>9, <1>10, <1>11, InvTaken, StepInv

\* The steps of an option that takes nothing: the option is covered when it
\* is left behind.
LEMMA OptionLeft ==
  ASSUME IInv, AtFacts, IsOption(Argv), given' = given, argv' = TakeApart, ShiftTo(Behind),
         entry' = entry, values' = values, flags' \subseteq Flags,
         status' \in {"parsing", "failed"}
  PROVE  IInv'
<1>1. Behind \in {at, at + 1} /\ Behind \in 1..(Len(given) + 1)
  BY ArgumentFacts
<1>2. Len(given) \in Nat /\ at \in 1..Len(given) /\ IsOption(given[at])
  BY DEF AtFacts
<1>3. Behind \in {at, at + 1, at + 2} /\ Behind <= Len(given) + 2
  BY <1>1, <1>2
<1>4. Moved(Behind)
  BY <1>3, Moves
<1>5. at' = Behind /\ at <= Behind /\ Behind \in Int /\ at \in Int
  BY <1>1, <1>2, <1>4 DEF Moved
<1>6. TakenFrom(Taken', at')
  BY <1>2, <1>5, InvTaken, SameTaken, FewerTaken
<1>7. ASSUME NEW p \in 1..Len(given), p < at' PROVE Covered(p)'
  <2>1. CASE p < at
    BY <2>1, StillCovered
  <2>2. CASE p = at
    BY <2>2, <1>2 DEF Covered
  <2> QED
    BY <2>1, <2>2, <1>1, <1>2, <1>5, <1>7
<1> QED
  BY <1>4, <1>6, <1>7, InvTaken, StepInv

LEMMA FileInv ==
  ASSUME IInv, File
  PROVE  IInv'
<1>1. /\ AtArgument /\ ~IsOption(Argv) /\ entry = NULL /\ entry' = Argv
      /\ ShiftTo(at + 1) /\ given' = given /\ argv' = argv
      /\ values' = values /\ flags' = flags /\ status' = status /\ status = "parsing"
  BY DEF File, AtArgument
<1>2. AtFacts
  BY <1>1, Looked
<1>3. Len(given) \in Nat /\ at \in 1..Len(given) /\ Argv \in Args
      /\ IsSuffix(Argv, given[at]) /\ (Argv # given[at] => IsOption(given[at]))
      /\ given \in Seq(Args)
  BY <1>2 DEF AtFacts
<1>4. Moved(at + 1) /\ at' = at + 1
  BY <1>1, <1>2, MovesOn DEF Moved
<1>5. TakenFrom(Taken', at')
  <2> DEFINE one == <<"file", Argv>>
  <2>1. one[2] = Argv
    OBVIOUS
  <2>2. \A t \in Taken' : t \in Taken \/ t = one
    BY <1>1, FileTakes
  <2> HIDE DEF one
  <2>3. TakenFrom(Taken, at) /\ at \in Int /\ at <= at /\ IsSuffix(one[2], given[at])
    BY <2>1, <1>3, InvTaken
  <2>4. TakenFrom(Taken', at + 1)
    BY <2>2, <2>3, <1>3, OneMoreTaken
  <2> QED
    BY <2>4, <1>4
<1>6. ASSUME NEW p \in 1..Len(given), p < at' PROVE Covered(p)'
  <2>1. CASE p < at
    <3>1. Covered(p)
      BY <2>1 DEF IInv, PassedOver
    <3>2. given[p] # NULL
      BY <1>3, NoNull
    <3> QED
      BY <3>1, <3>2, <1>1 DEF Covered
  <2>2. CASE p = at
    BY <2>2, <1>1, <1>3 DEF Covered
  <2> QED
    BY <2>1, <2>2, <1>3, <1>4, <1>6
<1>7. entry' \in Seq(Symbols) \cup {NULL} /\ status' \in {"parsing", "failed"}
  BY <1>1, <1>3 DEF Args
<1> QED
  BY <1>1, <1>4, <1>5, <1>6, <1>7, InvTaken, StepInv

LEMMA NextInv ==
  ASSUME IInv, [Next]_vars
  PROVE  IInv'
<1>1. ASSUME NEW opt \in Options, OptFlag(opt) \/ OptHelp(opt) PROVE IInv'
  <2>1. /\ AtArgument /\ IsOption(Argv) /\ argv' = TakeApart /\ ShiftTo(Behind)
        /\ given' = given /\ values' = values /\ entry' = entry
    BY <1>1 DEF OptFlag, OptHelp, AtOption
  <2>2. flags' \subseteq Flags
    <3>1. flags \subseteq Flags
      BY InvTaken
    <3>2. CASE OptFlag(opt)
      <4>1. opt.long \in Flags
        BY <3>2, OptionKinds DEF OptFlag, AtOption
      <4> QED
        BY <4>1, <3>1, <3>2 DEF OptFlag
    <3>3. CASE OptHelp(opt)
      BY <3>1, <3>3 DEF OptHelp
    <3> QED
      BY <1>1, <3>2, <3>3
  <2>3. status' \in {"parsing", "failed"}
    BY <1>1 DEF OptFlag, OptHelp, AtOption, AtArgument
  <2> QED
    BY <2>1, <2>2, <2>3, Looked, OptionLeft
<1>2. CASE NotAnOption \/ SecondFile \/ End \/ Terminated \/ UNCHANGED vars
  <2>1. UNCHANGED <<given, argv, at, argc, values, flags, entry>>
    BY <1>2 DEF NotAnOption, SecondFile, End, Terminated, vars
  <2>2. /\ status' \in {"parsing", "parsed", "failed"}
        /\ status' = "parsed" => status = "parsed" \/ argc <= 0
    BY <1>2 DEF NotAnOption, SecondFile, End, Terminated, vars, IInv, TypeOK
  <2>3. TypeOK'
    BY <2>1, <2>2 DEF IInv, TypeOK
  <2>4. Taken' = Taken
    BY <2>1, SameTaken
  <2>5. TakenOnce'
    BY <2>1, <2>4 DEF IInv, TakenOnce
  <2>6. status' = "parsed" => at > Len(given)
    <3>1. argc = Len(given) + 1 - at /\ Len(given) \in Nat /\ at \in Nat
      BY InvTaken DEF IInv, TypeOK
    <3> QED
      BY <3>1, <2>2 DEF IInv, PassedOver
  <2>7. PassedOver'
    BY <2>1, <2>6 DEF IInv, PassedOver, Covered
  <2> QED
    BY <2>1, <2>3, <2>5, <2>7 DEF IInv
<1> QED
  BY <1>1, <1>2, OptStringInv, FileInv DEF Next

LEMMA InitInv ==
  ASSUME Init
  PROVE  IInv
<1>1. /\ given \in Seq(Args) /\ argv = given /\ at = 1 /\ argc = Len(given)
      /\ values = [s \in Strings |-> NULL] /\ flags = {} /\ entry = NULL
      /\ status = "parsing"
  BY GivenAssumption DEF Init, Args
<1>2. Len(given) \in Nat
  BY <1>1
<1>3. TypeOK
  BY <1>1, <1>2 DEF TypeOK, Args
<1>4. Taken = {}
  BY <1>1 DEF Taken, Texts
<1>5. \A p \in 1..Len(given) : IsSuffix(given[p], given[p])
  BY <1>1, WholeIsEnd
<1>6. TakenOnce
  <2>1. \E from \in [Taken -> 1..Len(given)] : TRUE
    <3>1. [t \in {} |-> 1] \in [{} -> 1..Len(given)]
      OBVIOUS
    <3> QED
      BY <3>1, <1>4
  <2>2. at <= Len(given) => at \in 1..Len(given)
    BY <1>1, <1>2
  <2> QED
    BY <2>1, <2>2, <1>1, <1>4, <1>5 DEF TakenOnce
<1>7. PassedOver
  BY <1>1, <1>2 DEF PassedOver
<1> QED
  BY <1>1, <1>3, <1>6, <1>7 DEF IInv

THEOREM Inductive == Spec => []IInv
<1>1. Init => IInv
  BY InitInv
<1>2. IInv /\ [Next]_vars => IInv'
  BY NextInv
<1> QED
  BY <1>1, <1>2, PTL DEF Spec

\* The variables have their types, whatever the command line: getarg looks no
\* further than the NULL behind the arguments, and argc counts what is left.
THEOREM TypeCorrect == Spec => []TypeOK
<1>1. IInv => TypeOK
  BY DEF IInv
<1> QED
  BY <1>1, Inductive, PTL

\* No two options take the same text, what is taken is the end of an argument,
\* and a command line with anything left over is not accepted (getarg,
\* parse_cmdline_args), whatever the command line.
THEOREM AllAccounted == Spec => []Accounted
<1>1. IInv => Accounted
  <2> SUFFICES ASSUME IInv PROVE Accounted
    OBVIOUS
  <2>1. TakenOnce
    BY DEF IInv
  <2>2. ASSUME status = "parsed", NEW p \in DOMAIN given PROVE Covered(p)
    <3>1. p \in 1..Len(given) /\ p < at
      BY <2>2, InvTaken DEF IInv, PassedOver
    <3> QED
      BY <3>1 DEF IInv, PassedOver
  <2>3. NothingIgnored
    BY <2>2 DEF NothingIgnored, Covered
  <2> QED
    BY <2>1, <2>3 DEF Accounted
<1> QED
  BY <1>1, Inductive, PTL

\* Every call of getarg gets on (main.c's loop comes to its end), whatever the
\* command line.
THEOREM Progress == Spec => CallsProgress
<1> DEFINE Shorter == \/ status' # "parsing" \/ argc' < argc
                      \/ argc' = argc /\ Len(argv'[at]) < Len(argv[at])
<1>1. IInv /\ [Next]_vars => [Shorter]_vars
  <2> SUFFICES ASSUME IInv, Next PROVE Shorter \/ UNCHANGED vars
    OBVIOUS
  <2>1. Len(given) \in Nat /\ at \in Nat /\ argc = Len(given) + 1 - at
    BY InvTaken DEF IInv, TypeOK
  <2>2. ASSUME NEW opt \in Options, OptString(opt) PROVE Shorter
    <3>1. AtFacts /\ ShiftTo(Behind + 1)
      BY <2>2, Looked DEF OptString, AtOption
    <3>2. Behind \in {at, at + 1}
      BY <3>1, ArgumentFacts
    <3> QED
      BY <3>1, <3>2, <2>1 DEF ShiftTo
  <2>3. ASSUME NEW opt \in Options, OptFlag(opt) PROVE Shorter
    <3>1. AtFacts /\ ShiftTo(Behind) /\ argv' = TakeApart
      BY <2>3, Looked DEF OptFlag, AtOption
    <3>2. CASE IsAttached
      <4>1. argc' = argc
        BY <3>1, <3>2, <2>1 DEF ShiftTo, Behind
      <4>2. Argv \in Args /\ at \in DOMAIN argv
        BY <3>1 DEF AtFacts
      <4>3. Len(Attached(Argv)) = Len(Argv) - 2 /\ Len(Argv) \in Nat
        BY <4>2, <3>2, Cut DEF IsAttached, Args
      <4>4. argv'[at] = Attached(Argv)
        BY <4>2, <3>1, <3>2 DEF TakeApart
      <4> QED
        BY <4>1, <4>3, <4>4 DEF Argv
    <3>3. CASE ~IsAttached
      BY <3>1, <3>3, <2>1 DEF ShiftTo, Behind
    <3> QED
      BY <3>2, <3>3
  <2>4. CASE File
    BY <2>4, <2>1 DEF File, ShiftTo
  <2>5. ASSUME NEW opt \in Options, OptHelp(opt) PROVE Shorter
    BY <2>5 DEF OptHelp
  <2>6. CASE NotAnOption \/ SecondFile \/ End
    BY <2>6 DEF NotAnOption, SecondFile, End
  <2>7. CASE Terminated
    BY <2>7 DEF Terminated
  <2> QED
    BY <2>2, <2>3, <2>4, <2>5, <2>6, <2>7 DEF Next
<1> QED
  BY <1>1, Inductive, PTL DEF Spec, CallsProgress
=============================================================================
