----------------------------- MODULE BuildProofs -----------------------------
(***************************************************************************)
(* Theorems about Build, for every set of files, every contents that edits *)
(* may give them, and any number of runs, edits and seconds: what the      *)
(* cache may hold, in which order modules are output, and what an exit     *)
(* status of 0 means.                                                      *)
(***************************************************************************)
EXTENDS Build, SequenceTheorems, TLAPS

\* The places of parse_file, what it returns, and the types of the state.
Places == {"check", "read", "parse", "cache", "write", "return"}
Results == {"null", "exports", "bare"}
Frames == [pc : Places, file : Files, cached : BOOLEAN, got : Seq(Results),
           content : Content, ver : Nat, readAt : Nat]
Outputs == [file : Files, ver : Nat, code : BOOLEAN, uses : SUBSET Files]
SrcFiles == [content : Content, ver : Nat, mtime : Nat]
Stubs == [text : {"empty", "sig", "cut"}, mtime : Nat, ver : Nat, readAt : Nat]

Typed ==
  /\ src \in [Files -> SrcFiles]
  /\ stub \in [Files -> Stubs \cup {NoStub}]
  /\ clock \in 1..MaxClock
  /\ flags \in [entry : Entries, cache : BOOLEAN, force : BOOLEAN, mode : Modes \cup {"asm"}]
  /\ stack \in Seq(Frames)
  /\ out \in Seq(Outputs)
  /\ status = "running" <=> stack # <<>>

-----------------------------------------------------------------------------
(* The invariant: the disk, the calls of parse_file in progress, and the   *)
(* output.  The properties say nothing of the calls; they hold because     *)
(* each call carries what it will need when it writes its output or stub.  *)

\* A version is of now, or an edit came after it was read.
ReadOf(f, ver, readAt) ==
  /\ ver \in 1..src[f].ver
  /\ ver # src[f].ver => readAt <= src[f].mtime

\* The version was compiled.
WasOutput(f, ver) == <<f, ver>> \in built \cup shown

\* A stub is of a version that was output, and stale only if there was an edit
\* since its source was read.
Disk ==
  \A f \in Files :
    /\ src[f].content \in Contents[f]
    /\ src[f].ver \in 1..(MaxEdits + 1)
    /\ src[f].mtime <= clock
    /\ stub[f] # NoStub => /\ stub[f].mtime \in 1..clock
                           /\ stub[f].readAt \in 1..stub[f].mtime
                           /\ ReadOf(f, stub[f].ver, stub[f].readAt)
                           /\ WasOutput(f, stub[f].ver)

\* What an import needs of a module that exports something.
InOut(f) ==
  \E j \in 1..Len(out) : /\ out[j].file = f
                         /\ flags.force \/ ~flags.cache => out[j].code

\* What the content of a file, or of its stub, may be.
ContentOK(f, c) ==
  \/ c \in Contents[f]
  \/ c.imports = <<>> /\ c.uses = {}

\* What a call of parse_file knows: it takes a stub only if there is one, it
\* reaches the cache only after its output, and each import that exports
\* something has been output.
FrameOK(fr) ==
  /\ fr.pc \in {"check", "read"} => fr.got = <<>>
  /\ fr.pc = "check" \/ fr.pc = "cache" \/ fr.pc = "write" => ~fr.cached
  /\ ContentOK(fr.file, fr.content)
  /\ Len(fr.got) <= Len(fr.content.imports)
  /\ fr.cached => stub[fr.file] # NoStub /\ flags.cache /\ ~flags.force
  /\ fr.readAt \in 1..clock
  /\ ~fr.cached => ReadOf(fr.file, fr.ver, fr.readAt)
  /\ fr.pc \in {"cache", "write"} => WasOutput(fr.file, fr.ver)
  /\ flags.mode # "ast" =>
       \A i \in 1..Len(fr.got) : fr.got[i] = "exports" => InOut(fr.content.imports[i])

\* Each call of parse_file is for the next import of the one before it.
Waits(fr, next) ==
  /\ fr.pc = "parse"
  /\ Len(fr.got) < Len(fr.content.imports)
  /\ next.file = fr.content.imports[Len(fr.got) + 1]

\* The outermost call is for the entry file, and each other one for an import.
Calls ==
  /\ Len(stack) <= MaxDepth
  /\ stack # <<>> => stack[1].file = flags.entry
  /\ \A i \in 1..Len(stack) : \A fr \in Frames : stack[i] = fr => FrameOK(fr)
  /\ \A i \in 1..(Len(stack) - 1) : Waits(stack[i], stack[i + 1])

\* The file is what was output last.
LastIs(f, cached) ==
  /\ out # <<>>
  /\ out[Len(out)].file = f
  /\ out[Len(out)].code = ~cached

\* From its output to its return, what a call has output is the last output.
Outs ==
  /\ flags.mode = "ast" => out = <<>>
  /\ flags.mode # "ast" /\ stack # <<>> /\ Top.pc \in {"cache", "write", "return"} =>
       LastIs(Top.file, Top.cached)

Inv == Disk /\ Calls /\ Outs /\ UsesPrecede /\ SuccessOutputsEntry

-----------------------------------------------------------------------------
(* The stack of calls.                                                     *)

LEMMA ContentKnown ==
  ASSUME NEW f \in Files, NEW c \in Content, ContentOK(f, c)
  PROVE  c.imports \in Seq(Files) /\ c.uses \subseteq 1..Len(c.imports)
BY ContentsAssumption DEF ContentOK, Content

LEMMA ElementTyped ==
  ASSUME NEW S, NEW s \in Seq(S), NEW k \in 1..Len(s)
  PROVE  s[k] \in S
OBVIOUS

LEMMA NotEmpty ==
  ASSUME NEW S, NEW s \in Seq(S)
  PROVE  /\ Len(s) \in Nat
         /\ s # <<>> <=> Len(s) >= 1
         /\ s # <<>> <=> Len(s) \in 1..Len(s)
BY EmptySeq

LEMMA TopKnown ==
  ASSUME Typed, status = "running"
  PROVE  /\ stack \in Seq(Frames) /\ Len(stack) \in Nat /\ Len(stack) >= 1
         /\ Len(stack) \in 1..Len(stack)
         /\ Top = stack[Len(stack)] /\ Top \in Frames /\ Top.file \in Files
<1>1. stack \in Seq(Frames) /\ stack # <<>>
  BY DEF Typed
<1>2. Len(stack) \in Nat /\ Len(stack) >= 1 /\ Len(stack) \in 1..Len(stack)
  BY <1>1, NotEmpty
<1>3. Top \in Frames
  BY <1>1, <1>2, ElementTyped DEF Top
<1> QED
  BY <1>1, <1>2, <1>3 DEF Top, Frames

LEMMA Put ==
  ASSUME NEW S, NEW s \in Seq(S), Len(s) >= 1, NEW x \in S,
         NEW t, t = [s EXCEPT ![Len(s)] = x]
  PROVE  /\ t \in Seq(S) /\ Len(t) = Len(s) /\ t[Len(s)] = x
         /\ \A i \in 1..Len(s) : i # Len(s) => t[i] = s[i]
<1> DEFINE n == Len(s)
<1>1. n \in Nat /\ n >= 1 /\ DOMAIN s = 1..n /\ \A k \in 1..n : s[k] \in S
  OBVIOUS
<1>2. t = [s EXCEPT ![n] = x]
  OBVIOUS
<1> HIDE DEF n
<1>3. t \in [1..n -> S]
  BY <1>1, <1>2
<1>4. t \in Seq(S) /\ Len(t) = n
  BY <1>1, <1>3
<1>5. t[n] = x /\ \A i \in 1..n : i # n => t[i] = s[i]
  BY <1>1, <1>2
<1> QED
  BY <1>4, <1>5 DEF n

LEMMA Pop ==
  ASSUME NEW S, NEW s \in Seq(S), Len(s) >= 2, NEW x \in S,
         NEW t, t = [SubSeq(s, 1, Len(s) - 1) EXCEPT ![Len(s) - 1] = x]
  PROVE  /\ t \in Seq(S) /\ Len(t) = Len(s) - 1 /\ t[Len(s) - 1] = x
         /\ \A i \in 1..(Len(s) - 1) : i # Len(s) - 1 => t[i] = s[i]
<1> DEFINE n == Len(s) - 1
           u == SubSeq(s, 1, n)
<1>1. n \in Nat /\ n >= 1 /\ \A i \in 1..n : s[i] \in S
  OBVIOUS
<1> HIDE DEF n
<1>2. u = [i \in 1..n |-> s[i]]
  BY <1>1
<1> HIDE DEF u
<1>3. u \in Seq(S) /\ Len(u) = n /\ Len(u) >= 1 /\ \A i \in 1..n : u[i] = s[i]
  BY <1>1, <1>2
<1>4. t = [u EXCEPT ![Len(u)] = x]
  BY <1>3 DEF u, n
<1>5. /\ t \in Seq(S) /\ Len(t) = Len(u) /\ t[Len(u)] = x
      /\ \A i \in 1..Len(u) : i # Len(u) => t[i] = u[i]
  BY <1>3, <1>4, Put
<1> QED
  BY <1>3, <1>5 DEF n

\* What holds of a call goes on holding when a source is edited, time passes,
\* stubs are written and files are output.
LEMMA CallStays ==
  ASSUME Typed, flags' = flags, clock' \in Nat, clock <= clock',
         \A f \in Files : \/ src'[f] = src[f]
                          \/ src'[f].ver = src[f].ver + 1 /\ src'[f].mtime = clock,
         \A f \in Files : stub[f] # NoStub => stub'[f] # NoStub,
         built \cup shown \subseteq built' \cup shown',
         \A f : InOut(f) => InOut(f)',
         NEW fr \in Frames, FrameOK(fr)
  PROVE  FrameOK(fr)'
<1>1. fr.file \in Files /\ fr.ver \in Nat /\ fr.readAt \in Nat /\ clock \in Nat
  BY DEF Frames, Typed
<1>2. src[fr.file].ver \in Nat /\ src[fr.file].mtime \in Nat
  BY <1>1 DEF Typed, SrcFiles
<1>3. ReadOf(fr.file, fr.ver, fr.readAt) /\ fr.readAt \in 1..clock
        => ReadOf(fr.file, fr.ver, fr.readAt)'
  BY <1>1, <1>2 DEF ReadOf
<1>4. fr.readAt \in 1..clock => fr.readAt \in 1..clock'
  BY <1>1
<1>5. \A f : WasOutput(f, fr.ver) => WasOutput(f, fr.ver)'
  BY DEF WasOutput
<1> QED
  BY <1>1, <1>3, <1>4, <1>5 DEF FrameOK, ContentOK

\* The calls when none begins or returns.
LEMMA CallsSame ==
  ASSUME Typed, Calls, stack' = stack, flags' = flags,
         \A fr \in Frames : FrameOK(fr) => FrameOK(fr)'
  PROVE  Calls'
BY DEF Calls, Waits

\* The calls when the innermost one goes on, in the same file.
LEMMA CallsPut ==
  ASSUME Typed, Calls, status = "running", flags' = flags,
         NEW top \in Frames, top.file = Top.file, stack' = SetTop(top),
         FrameOK(top)', \A fr \in Frames : FrameOK(fr) => FrameOK(fr)'
  PROVE  /\ Calls' /\ stack' \in Seq(Frames) /\ stack' # <<>> /\ Top' = top
<1> DEFINE n == Len(stack)
<1>1. stack \in Seq(Frames) /\ n \in Nat /\ n >= 1 /\ n \in 1..n /\ Top = stack[n]
  BY TopKnown
<1>2. /\ stack' \in Seq(Frames) /\ Len(stack') = n /\ stack'[n] = top
      /\ \A i \in 1..n : i # n => stack'[i] = stack[i]
  <2>1. stack' = [stack EXCEPT ![Len(stack)] = top] /\ Len(stack) >= 1
    BY <1>1 DEF SetTop
  <2> QED
    BY <1>1, <2>1, Put
<1>3. Top' = top
  BY <1>2 DEF Top
<1>4. /\ n <= MaxDepth /\ stack[1].file = flags.entry
      /\ \A i \in 1..n : \A fr \in Frames : stack[i] = fr => FrameOK(fr)
      /\ \A i \in 1..(n - 1) : Waits(stack[i], stack[i + 1])
  BY <1>1, NotEmpty DEF Calls, Typed
<1> HIDE DEF n
<1>5. \A i \in 1..(n - 1) : i \in 1..n /\ i # n /\ i + 1 \in 1..n
  BY <1>1
<1>6. ASSUME NEW i \in 1..n, NEW fr \in Frames, stack'[i] = fr PROVE FrameOK(fr)'
  <2>1. CASE i = n
    BY <1>2, <1>6, <2>1
  <2>2. CASE i # n
    BY <1>2, <1>4, <1>6, <2>2
  <2> QED
    BY <2>1, <2>2
<1>7. ASSUME NEW i \in 1..n PROVE stack'[i].file = stack[i].file
  BY <1>1, <1>2
<1>8. ASSUME NEW i \in 1..(n - 1) PROVE Waits(stack'[i], stack'[i + 1])
  <2>1. stack'[i] = stack[i] /\ stack'[i + 1].file = stack[i + 1].file
    BY <1>2, <1>5, <1>7
  <2>2. Waits(stack[i], stack[i + 1])
    BY <1>4
  <2> QED
    BY <2>1, <2>2 DEF Waits
<1>9. stack'[1].file = flags'.entry
  BY <1>1, <1>4, <1>7
<1>10. stack' # <<>>
  BY <1>1, <1>2, NotEmpty
<1>11. Calls'
  BY <1>2, <1>4, <1>6, <1>8, <1>9 DEF Calls, Waits
<1> QED
  BY <1>2, <1>3, <1>10, <1>11

\* The calls when an import begins.
LEMMA CallsPush ==
  ASSUME Typed, Calls, status = "running", flags' = flags,
         NEW top \in Frames, Waits(Top, top), stack' = Append(stack, top),
         Len(stack) < MaxDepth,
         FrameOK(top)', \A fr \in Frames : FrameOK(fr) => FrameOK(fr)'
  PROVE  /\ Calls' /\ stack' \in Seq(Frames) /\ stack' # <<>> /\ Top' = top
<1> DEFINE n == Len(stack)
<1>1. stack \in Seq(Frames) /\ n \in Nat /\ n >= 1 /\ n \in 1..n /\ Top = stack[n]
  BY TopKnown
<1>2. /\ stack' \in Seq(Frames) /\ Len(stack') = n + 1 /\ stack'[n + 1] = top
      /\ \A i \in 1..n : stack'[i] = stack[i]
  BY <1>1, AppendProperties
<1>3. Top' = top
  BY <1>2 DEF Top
<1>4. /\ n < MaxDepth /\ stack[1].file = flags.entry
      /\ \A i \in 1..n : \A fr \in Frames : stack[i] = fr => FrameOK(fr)
      /\ \A i \in 1..(n - 1) : Waits(stack[i], stack[i + 1])
  BY <1>1, NotEmpty DEF Calls, Typed
<1> HIDE DEF n
<1>5. /\ \A i \in 1..(n + 1) : i = n + 1 \/ i \in 1..n
      /\ \A i \in 1..n : i = n \/ (i \in 1..(n - 1) /\ i + 1 \in 1..n)
      /\ 1 \in 1..n /\ n + 1 - 1 = n
  BY <1>1
<1>6. ASSUME NEW i \in 1..(n + 1), NEW fr \in Frames, stack'[i] = fr PROVE FrameOK(fr)'
  BY <1>2, <1>4, <1>5, <1>6
<1>7. ASSUME NEW i \in 1..n PROVE Waits(stack'[i], stack'[i + 1])
  <2>1. CASE i = n
    BY <1>1, <1>2, <2>1
  <2>2. CASE i \in 1..(n - 1) /\ i + 1 \in 1..n
    BY <1>2, <1>4, <2>2
  <2> QED
    BY <1>5, <2>1, <2>2
<1>8. stack'[1].file = flags'.entry /\ n + 1 <= MaxDepth
  BY <1>1, <1>2, <1>4, <1>5, BoundsAssumption
<1>9. stack' # <<>>
  BY <1>1, <1>2, NotEmpty
<1>10. Calls'
  BY <1>2, <1>5, <1>6, <1>7, <1>8 DEF Calls
<1> QED
  BY <1>2, <1>3, <1>9, <1>10

\* The calls when one returns to the import that made it.
LEMMA CallsPop ==
  ASSUME Typed, Calls, status = "running", flags' = flags, Len(stack) # 1,
         NEW caller \in Frames, caller = stack[Len(stack) - 1],
         NEW result \in Results, NEW top, top = [caller EXCEPT !.got = Append(@, result)],
         stack' = [Caller EXCEPT ![Len(stack) - 1] = top],
         top \in Frames, FrameOK(top)', \A fr \in Frames : FrameOK(fr) => FrameOK(fr)'
  PROVE  /\ Calls' /\ stack' \in Seq(Frames) /\ stack' # <<>> /\ Top' = top
<1> DEFINE n == Len(stack)
           m == n - 1
<1>1. stack \in Seq(Frames) /\ n \in Nat /\ n >= 1 /\ n \in 1..n
  BY TopKnown
<1> HIDE DEF n
<1>2. n >= 2 /\ m \in Nat /\ m >= 1
  <2>1. n # 1
    BY DEF n
  <2> QED
    BY <1>1, <2>1
<1> USE DEF n
<1>3. /\ stack' \in Seq(Frames) /\ Len(stack') = m /\ stack'[m] = top
      /\ \A i \in 1..m : i # m => stack'[i] = stack[i]
  BY <1>1, <1>2, Pop DEF Caller
<1>4. /\ n <= MaxDepth /\ stack[1].file = flags.entry
      /\ \A i \in 1..n : \A fr \in Frames : stack[i] = fr => FrameOK(fr)
      /\ \A i \in 1..m : Waits(stack[i], stack[i + 1])
  BY <1>1, NotEmpty DEF Calls, Typed
<1>5. Top' = top
  BY <1>3 DEF Top
<1>6. top.file = caller.file /\ caller = stack[m]
  BY DEF Frames
<1> HIDE DEF m
<1>7. /\ \A i \in 1..(m - 1) : i \in 1..m /\ i # m /\ i + 1 \in 1..m
      /\ \A i \in 1..m : i \in 1..n
      /\ 1 \in 1..m
  BY <1>1, <1>2 DEF m
<1> HIDE DEF n
<1>8. ASSUME NEW i \in 1..m, NEW fr \in Frames, stack'[i] = fr PROVE FrameOK(fr)'
  <2>1. CASE i = m
    BY <1>3, <1>8, <2>1
  <2>2. CASE i # m
    BY <1>3, <1>4, <1>7, <1>8, <2>2
  <2> QED
    BY <2>1, <2>2
<1>9. ASSUME NEW i \in 1..m PROVE stack'[i].file = stack[i].file
  BY <1>3, <1>6
<1>10. ASSUME NEW i \in 1..(m - 1) PROVE Waits(stack'[i], stack'[i + 1])
  <2>1. stack'[i] = stack[i] /\ stack'[i + 1].file = stack[i + 1].file
    BY <1>3, <1>7, <1>9
  <2>2. Waits(stack[i], stack[i + 1])
    BY <1>4, <1>7
  <2> QED
    BY <2>1, <2>2 DEF Waits
<1>11. stack'[1].file = flags'.entry
  BY <1>4, <1>7, <1>9
<1>12. m <= MaxDepth
  BY <1>1, <1>2, <1>4, BoundsAssumption DEF m
<1>13. stack' # <<>>
  BY <1>2, <1>3, NotEmpty
<1>14. Calls'
  BY <1>3, <1>8, <1>10, <1>11, <1>12 DEF Calls
<1> QED
  BY <1>3, <1>5, <1>13, <1>14

-----------------------------------------------------------------------------
(* Steps.                                                                  *)

\* The inductive invariant.
Good == Typed /\ Inv

LEMMA TopOK ==
  ASSUME Good, status = "running"
  PROVE  FrameOK(Top)
<1>1. Len(stack) \in 1..Len(stack) /\ Top = stack[Len(stack)] /\ Top \in Frames
  BY TopKnown DEF Good
<1> QED
  BY <1>1 DEF Good, Inv, Calls

\* What a call does not touch.
Around == <<fsVars, clock, flags, out, history>>

LEMMA CallStaysAround ==
  ASSUME Typed, UNCHANGED Around
  PROVE  \A fr \in Frames : FrameOK(fr) => FrameOK(fr)'
<1>1. clock \in Nat
  BY DEF Typed
<1>2. \A f : InOut(f) => InOut(f)'
  BY DEF InOut, Around
<1> QED
  BY <1>1, <1>2, CallStays DEF Around, fsVars, history

LEMMA GoodCalls ==
  ASSUME Good, status' = status, status = "running", UNCHANGED Around,
         Calls', stack' \in Seq(Frames), stack' # <<>>,
         Top'.pc \in {"cache", "write", "return"} /\ flags.mode # "ast" =>
           LastIs(Top'.file, Top'.cached)
  PROVE  Good'
<1>1. Typed'
  BY DEF Good, Typed, Around, fsVars
<1>2. Disk'
  BY DEF Good, Inv, Disk, ReadOf, WasOutput, Around, fsVars, history
<1>3. Outs'
  BY DEF Good, Inv, Outs, LastIs, Around
<1>4. UsesPrecede' /\ SuccessOutputsEntry'
  BY DEF Good, Inv, UsesPrecede, SuccessOutputsEntry, Around
<1> QED
  BY <1>1, <1>2, <1>3, <1>4 DEF Good, Inv

LEMMA GoodDies ==
  ASSUME Good, NEW how, Dies(how), how # "running", UNCHANGED Around,
         how = "exit0" /\ flags.mode # "ast" =>
           \E cached \in BOOLEAN :
             LastIs(flags.entry, cached) /\ (cached => flags.cache /\ ~flags.force)
  PROVE  Good'
<1>1. status' = how /\ stack' = <<>>
  BY DEF Dies
<1>2. Typed'
  BY <1>1 DEF Good, Typed, Around, fsVars
<1>3. Disk'
  BY DEF Good, Inv, Disk, ReadOf, WasOutput, Around, fsVars, history
<1>4. Calls'
  BY <1>1, BoundsAssumption DEF Calls
<1>5. Outs'
  BY <1>1 DEF Good, Inv, Outs, Around
<1>6. UsesPrecede'
  BY DEF Good, Inv, UsesPrecede, Around
<1>7. SuccessOutputsEntry'
  BY <1>1 DEF SuccessOutputsEntry, LastIs, Around
<1> QED
  BY <1>2, <1>3, <1>4, <1>5, <1>6, <1>7 DEF Good, Inv

LEMMA GoodCheck == Good /\ Check => Good'
<1> SUFFICES ASSUME Good, Check PROVE Good'
  OBVIOUS
<1>1. /\ status = "running" /\ Top.pc = "check" /\ status' = status /\ UNCHANGED Around
      /\ stack' = SetTop([Top EXCEPT !.pc = "read", !.cached = UsesCache(Top.file)])
  BY DEF Check, At, Around
<1>2. Top \in Frames /\ FrameOK(Top) /\ UsesCache(Top.file) \in BOOLEAN
  BY <1>1, TopKnown, TopOK DEF Good, UsesCache
<1>3. UsesCache(Top.file) => flags.cache /\ ~flags.force /\ stub[Top.file] # NoStub
  BY DEF UsesCache, HasCache
<1>4. PICK top \in Frames : top = [Top EXCEPT !.pc = "read", !.cached = UsesCache(Top.file)]
  BY <1>2 DEF Frames, Places
<1>5. /\ top.pc = "read" /\ top.cached = UsesCache(Top.file) /\ top.file = Top.file
      /\ top.got = Top.got /\ top.content = Top.content /\ top.ver = Top.ver
      /\ top.readAt = Top.readAt
  BY <1>2, <1>4 DEF Frames
<1>6. FrameOK(top)
  BY <1>1, <1>2, <1>3, <1>5 DEF FrameOK
<1>7. \A fr \in Frames : FrameOK(fr) => FrameOK(fr)'
  BY <1>1, CallStaysAround DEF Good
<1>8. Calls' /\ stack' \in Seq(Frames) /\ stack' # <<>> /\ Top' = top
  <2>1. stack' = SetTop(top) /\ FrameOK(top)' /\ flags' = flags /\ Typed /\ Calls
    BY <1>1, <1>4, <1>6, <1>7 DEF Good, Inv, Around
  <2> QED
    BY <1>1, <1>5, <1>7, <2>1, CallsPut
<1> QED
  BY <1>1, <1>5, <1>8, GoodCalls

LEMMA GoodRead == Good /\ Read => Good'
<1> SUFFICES ASSUME Good, Read PROVE Good'
  OBVIOUS
<1> DEFINE f == Top.file
           content == IF Top.cached THEN StubContent(stub[f].text) ELSE src[f].content
           ver == IF Top.cached THEN stub[f].ver ELSE src[f].ver
<1>1. /\ status = "running" /\ Top.pc = "read" /\ status' = status /\ UNCHANGED Around
      /\ stack' = SetTop([Top EXCEPT !.pc = "parse", !.content = content, !.ver = ver,
                                     !.readAt = clock])
  BY DEF Read, At, Around
<1>2. Top \in Frames /\ FrameOK(Top) /\ f \in Files
  BY <1>1, TopKnown, TopOK DEF Good
<1>3. Top.cached => stub[f] \in Stubs /\ flags.cache /\ ~flags.force /\ stub[f] # NoStub
  BY <1>2 DEF FrameOK, Good, Typed
<1>4. /\ src[f] \in SrcFiles /\ src[f].content \in Contents[f]
      /\ clock \in Nat /\ clock >= 1 /\ src[f].ver \in 1..(MaxEdits + 1)
  BY <1>2 DEF Good, Typed, Inv, Disk
<1>5. content \in Content /\ ContentOK(f, content) /\ ver \in Nat
  <2>1. CASE Top.cached
    <3>1. StubContent(stub[f].text) \in Content /\ stub[f].ver \in Nat
      BY <1>3, <2>1 DEF Errors, StubContent, Content, Fns, Stubs
    <3>2. StubContent(stub[f].text).imports = <<>> /\ StubContent(stub[f].text).uses = {}
      BY DEF StubContent
    <3> QED
      BY <2>1, <3>1, <3>2 DEF ContentOK
  <2>2. CASE ~Top.cached
    BY <1>4, <2>2 DEF ContentOK, SrcFiles
  <2> QED
    BY <2>1, <2>2
<1>6. ~Top.cached => ver = src[f].ver
  OBVIOUS
<1> HIDE DEF content, ver
<1>7. PICK top \in Frames : top = [Top EXCEPT !.pc = "parse", !.content = content,
                                             !.ver = ver, !.readAt = clock]
  BY <1>2, <1>4, <1>5 DEF Frames, Places
<1>8. /\ top.pc = "parse" /\ top.cached = Top.cached /\ top.file = f
      /\ top.got = Top.got /\ top.content = content /\ top.ver = ver
      /\ top.readAt = clock
  BY <1>2, <1>7 DEF Frames
<1>9. top.got = <<>> /\ Len(top.got) = 0
  BY <1>1, <1>2, <1>8 DEF FrameOK
<1>10. FrameOK(top)
  <2>1. Len(content.imports) \in Nat
    BY <1>2, <1>5, ContentKnown
  <2>2. ~Top.cached => ReadOf(f, ver, clock)
    BY <1>4, <1>6 DEF ReadOf
  <2> QED
    BY <1>3, <1>4, <1>5, <1>8, <1>9, <2>1, <2>2 DEF FrameOK
<1>11. \A fr \in Frames : FrameOK(fr) => FrameOK(fr)'
  BY <1>1, CallStaysAround DEF Good
<1>12. Calls' /\ stack' \in Seq(Frames) /\ stack' # <<>> /\ Top' = top
  <2>1. stack' = SetTop(top) /\ FrameOK(top)' /\ flags' = flags /\ Typed /\ Calls
    BY <1>1, <1>7, <1>10, <1>11 DEF Good, Inv, Around
  <2> QED
    BY <1>1, <1>8, <1>11, <2>1, CallsPut
<1> QED
  BY <1>1, <1>8, <1>12, GoodCalls

LEMMA FrameTyped ==
  ASSUME NEW f \in Files, src[f] \in SrcFiles, clock \in Nat
  PROVE  Frame(f) \in Frames
<1>1. src[f].content \in Content /\ src[f].ver \in Nat
  BY DEF SrcFiles
<1>2. <<>> \in Seq(Results) /\ FALSE \in BOOLEAN /\ "check" \in Places
  BY DEF Places
<1> QED
  BY <1>1, <1>2 DEF Frame, Frames

LEMMA GoodImport == Good /\ Import => Good'
<1> SUFFICES ASSUME Good, Import PROVE Good'
  OBVIOUS
<1> DEFINE f == Top.content.imports[Len(Top.got) + 1]
<1>1. /\ status = "running" /\ Top.pc = "parse" /\ status' = status /\ UNCHANGED Around
      /\ ~ImportsParsed /\ Len(stack) < MaxDepth
      /\ stack' = Append(stack, Frame(f))
  BY DEF Import, At, Around
<1>2. Top \in Frames /\ FrameOK(Top) /\ Top.file \in Files
  BY <1>1, TopKnown, TopOK DEF Good
<1>3. /\ Top.content.imports \in Seq(Files) /\ Len(Top.got) \in Nat
      /\ Len(Top.got) <= Len(Top.content.imports)
  BY <1>2, ContentKnown DEF FrameOK, Frames
<1>4. Len(Top.got) < Len(Top.content.imports) /\ Len(Top.got) + 1 \in 1..Len(Top.content.imports)
  BY <1>1, <1>3 DEF ImportsParsed
<1>5. f \in Files
  BY <1>3, <1>4, ElementTyped
<1>6. /\ src[f] \in SrcFiles /\ src[f].content \in Contents[f]
      /\ clock \in Nat /\ clock >= 1 /\ src[f].ver \in 1..(MaxEdits + 1)
  BY <1>5 DEF Good, Typed, Inv, Disk
<1> HIDE DEF f
<1>7. PICK top \in Frames : top = Frame(f)
  BY <1>5, <1>6, FrameTyped
<1>8. /\ top.pc = "check" /\ top.cached = FALSE /\ top.file = f
      /\ top.got = <<>> /\ top.content = src[f].content /\ top.ver = src[f].ver
      /\ top.readAt = clock
  BY <1>7 DEF Frame
<1>9. FrameOK(top)
  <2>1. Len(top.got) = 0 /\ Len(top.content.imports) \in Nat
    BY <1>6, <1>8 DEF SrcFiles, Content
  <2>2. ReadOf(f, top.ver, clock)
    BY <1>6, <1>8 DEF ReadOf
  <2> QED
    BY <1>6, <1>8, <2>1, <2>2 DEF FrameOK, ContentOK
<1>10. \A fr \in Frames : FrameOK(fr) => FrameOK(fr)'
  BY <1>1, CallStaysAround DEF Good
<1>11. Waits(Top, top)
  BY <1>1, <1>4, <1>8 DEF Waits, f
<1>12. Calls' /\ stack' \in Seq(Frames) /\ stack' # <<>> /\ Top' = top
  <2>1. stack' = Append(stack, top) /\ FrameOK(top)' /\ flags' = flags /\ Typed /\ Calls
    BY <1>1, <1>7, <1>9, <1>10 DEF Good, Inv, Around
  <2> QED
    BY <1>1, <1>10, <1>11, <2>1, CallsPush
<1> QED
  BY <1>1, <1>8, <1>12, GoodCalls

\* cache_file writes nothing, or nothing more.
LEMMA GoodUnwritten ==
  ASSUME Good, status = "running", Top.pc \in {"cache", "write"}, status' = status,
         UNCHANGED Around, stack' = SetTop([Top EXCEPT !.pc = "return"])
  PROVE  Good'
<1>1. /\ status = "running" /\ Top.pc \in {"cache", "write"} /\ status' = status
      /\ UNCHANGED Around /\ stack' = SetTop([Top EXCEPT !.pc = "return"])
  OBVIOUS
<1>2. Top \in Frames /\ FrameOK(Top) /\ stack # <<>>
  BY <1>1, TopKnown, TopOK DEF Good, Typed
<1>3. PICK top \in Frames : top = [Top EXCEPT !.pc = "return"]
  BY <1>2 DEF Frames, Places
<1>4. /\ top.pc = "return" /\ top.cached = Top.cached /\ top.file = Top.file
      /\ top.got = Top.got /\ top.content = Top.content /\ top.ver = Top.ver
      /\ top.readAt = Top.readAt
  BY <1>2, <1>3 DEF Frames
<1>5. FrameOK(top)
  BY <1>1, <1>2, <1>4 DEF FrameOK
<1>6. \A fr \in Frames : FrameOK(fr) => FrameOK(fr)'
  BY <1>1, CallStaysAround DEF Good
<1>7. Calls' /\ stack' \in Seq(Frames) /\ stack' # <<>> /\ Top' = top
  <2>1. stack' = SetTop(top) /\ FrameOK(top)' /\ flags' = flags /\ Typed /\ Calls
    BY <1>1, <1>3, <1>5, <1>6 DEF Good, Inv, Around
  <2> QED
    BY <1>1, <1>4, <1>6, <2>1, CallsPut
<1>8. flags.mode # "ast" => LastIs(top.file, top.cached)
  BY <1>1, <1>2, <1>4 DEF Good, Inv, Outs
<1> QED
  BY <1>1, <1>7, <1>8, GoodCalls

LEMMA GoodCacheSkip == Good /\ CacheSkip => Good'
BY GoodUnwritten DEF CacheSkip, At, Around

\* parse_file returns.
LEMMA GoodReturns ==
  ASSUME Good, status = "running", UNCHANGED Around, NEW result \in Results, Returns(result),
         Top.pc \in {"parse", "return"}, result # "null" => Top.pc = "return"
  PROVE  Good'
<1>1. Top \in Frames /\ FrameOK(Top) /\ stack # <<>> /\ stack \in Seq(Frames)
  BY TopKnown, TopOK DEF Good, Typed
<1>2. Len(stack) \in Nat /\ Len(stack) >= 1
  BY TopKnown DEF Good
<1>3. Top.pc = "return" /\ flags.mode # "ast" => LastIs(Top.file, Top.cached)
  BY <1>1 DEF Good, Inv, Outs
<1>4. Top.cached => flags.cache /\ ~flags.force
  BY <1>1 DEF FrameOK
<1>5. CASE Len(stack) = 1
  <2>1. PICK how : Dies(how) /\ how = IF result = "null" THEN "exit1" ELSE "exit0"
    BY <1>5 DEF Returns
  <2>2. Top.file = flags.entry
    BY <1>1, <1>5 DEF Top, Good, Inv, Calls
  <2>3. Top.cached \in BOOLEAN
    BY <1>1 DEF Frames
  <2>4. how = "exit0" => Top.pc = "return"
    BY <2>1
  <2> QED
    BY <1>3, <1>4, <2>1, <2>2, <2>3, <2>4, GoodDies
<1>6. CASE Len(stack) # 1
  <2> DEFINE m == Len(stack) - 1
  <2>1. m \in 1..m /\ m \in 1..Len(stack) /\ m + 1 = Len(stack)
    <3> DEFINE n == Len(stack)
    <3>1. n \in Nat /\ n >= 1 /\ n # 1
      BY <1>2, <1>6
    <3> HIDE DEF n
    <3>2. n - 1 \in 1..(n - 1) /\ n - 1 \in 1..n /\ n - 1 + 1 = n
      BY <3>1
    <3> QED
      BY <3>2 DEF n
  <2>2. stack' = [Caller EXCEPT ![m] = [stack[m] EXCEPT !.got = Append(@, result)]] /\ status' = status
    BY <1>6 DEF Returns
  <2>3. stack[m] \in Frames
    BY <1>1, <2>1, ElementTyped
  <2>4. PICK caller \in Frames : caller = stack[m]
    BY <2>3
  <2>5. FrameOK(caller) /\ Waits(caller, Top)
    BY <2>1, <2>4 DEF Good, Inv, Calls, Top
  <2> HIDE DEF m
  <2>6. Append(caller.got, result) \in Seq(Results)
    BY DEF Frames
  <2>7. PICK top \in Frames : top = [caller EXCEPT !.got = Append(@, result)]
    BY <2>6 DEF Frames
  <2>8. /\ top.pc = caller.pc /\ top.cached = caller.cached /\ top.file = caller.file
        /\ top.got = Append(caller.got, result) /\ top.content = caller.content
        /\ top.ver = caller.ver /\ top.readAt = caller.readAt
    BY <2>7 DEF Frames
  <2> DEFINE k == Len(caller.got)
  <2>9. /\ k \in Nat /\ Len(top.got) = k + 1 /\ top.got[k + 1] = result
        /\ \A i \in 1..k : top.got[i] = caller.got[i]
        /\ k < Len(caller.content.imports) /\ Len(caller.content.imports) \in Nat
        /\ Top.file = caller.content.imports[k + 1] /\ caller.pc = "parse"
    BY <2>5, <2>8 DEF Waits, Frames, Content
  <2> HIDE DEF k
  <2>10. ASSUME result = "exports", flags.mode # "ast" PROVE InOut(Top.file)
    <3>1. LastIs(Top.file, Top.cached)
      BY <1>3, <2>10
    <3>2. out # <<>> /\ out \in Seq(Outputs)
      BY <3>1 DEF LastIs, Good, Typed
    <3>3. Len(out) \in 1..Len(out)
      BY <3>2, NotEmpty
    <3> QED
      BY <1>4, <3>1, <3>3 DEF LastIs, InOut
  <2>11. ASSUME flags.mode # "ast", NEW i \in 1..(k + 1), top.got[i] = "exports"
         PROVE  InOut(top.content.imports[i])
    <3>1. CASE i = k + 1
      BY <2>8, <2>9, <2>10, <2>11, <3>1
    <3>2. CASE i # k + 1
      <4>1. i \in 1..k
        BY <2>9, <3>2
      <4> QED
        BY <2>5, <2>8, <2>9, <2>11, <4>1 DEF FrameOK, k
    <3> QED
      BY <3>1, <3>2
  <2>12. FrameOK(top)
    BY <2>5, <2>8, <2>9, <2>11 DEF FrameOK
  <2>13. \A fr \in Frames : FrameOK(fr) => FrameOK(fr)'
    BY CallStaysAround DEF Good
  <2>14. Calls' /\ stack' \in Seq(Frames) /\ stack' # <<>> /\ Top' = top
    <3>1. /\ stack' = [Caller EXCEPT ![Len(stack) - 1] = top] /\ FrameOK(top)'
          /\ flags' = flags /\ Typed /\ Calls
      BY <2>2, <2>4, <2>7, <2>12, <2>13 DEF Good, Inv, Around, m
    <3>2. caller = stack[Len(stack) - 1]
      BY <2>4 DEF m
    <3> QED
      BY <1>6, <2>7, <2>13, <3>1, <3>2, CallsPop
  <2> QED
    BY <2>2, <2>8, <2>9, <2>14, GoodCalls
<1> QED
  BY <1>5, <1>6

LEMMA GoodReject == Good /\ Reject => Good'
<1> SUFFICES ASSUME Good, Reject PROVE Good'
  OBVIOUS
<1>1. status = "running" /\ Top.pc = "parse" /\ UNCHANGED Around /\ Returns("null")
  BY DEF Reject, At, Around
<1> QED
  BY <1>1, GoodReturns DEF Results

LEMMA GoodReturn == Good /\ Return => Good'
<1> SUFFICES ASSUME Good, Return PROVE Good'
  OBVIOUS
<1>1. PICK result \in Results \ {"null"} : Returns(result)
  BY DEF Return, Results
<1>2. status = "running" /\ Top.pc = "return" /\ UNCHANGED Around
  BY DEF Return, At, Around
<1> QED
  BY <1>1, <1>2, GoodReturns

\* The process ends without an exit status of 0.
LEMMA GoodFails ==
  Good /\ (StackOverflow \/ Panic \/ AssertStmts \/ Kill) => Good'
<1> SUFFICES ASSUME Good, StackOverflow \/ Panic \/ AssertStmts \/ Kill PROVE Good'
  OBVIOUS
<1>1. PICK how \in {"overflow", "panic", "abort", "killed"} : Dies(how)
  BY DEF StackOverflow, Panic, AssertStmts, Kill
<1>2. UNCHANGED Around
  BY DEF StackOverflow, Panic, AssertStmts, Kill, Around
<1> QED
  BY <1>1, <1>2, GoodDies

\* compile_file writes the code or the declarations of a file.
LEMMA OutGrows ==
  ASSUME out \in Seq(Outputs), NEW o \in Outputs, out' = Append(out, o), flags' = flags,
         UsesPrecede, \A g \in o.uses : InOut(g)
  PROVE  /\ out' \in Seq(Outputs) /\ UsesPrecede'
         /\ \A f : InOut(f) => InOut(f)'
         /\ out' # <<>> /\ out'[Len(out')] = o
<1> DEFINE n == Len(out)
<1>1. n \in Nat /\ n + 1 \in 1..(n + 1)
  OBVIOUS
<1>2. /\ out' \in Seq(Outputs) /\ Len(out') = n + 1 /\ out'[n + 1] = o
      /\ \A i \in 1..n : out'[i] = out[i]
  BY AppendProperties
<1>3. DOMAIN out = 1..n /\ DOMAIN out' = 1..(n + 1)
  BY <1>2
<1>4. out' # <<>>
  BY <1>1, <1>2, NotEmpty
<1>5. ASSUME NEW f, InOut(f) PROVE InOut(f)'
  <2>1. PICK j \in 1..n : out[j].file = f /\ (flags.force \/ ~flags.cache => out[j].code)
    BY <1>5 DEF InOut
  <2>2. j \in 1..Len(out') /\ out'[j] = out[j]
    BY <1>1, <1>2
  <2> QED
    BY <2>1, <2>2 DEF InOut
<1> HIDE DEF n
<1>6. ASSUME NEW i \in 1..(n + 1), NEW g \in out'[i].uses
      PROVE  \E j \in 1..(i - 1) : /\ out'[j].file = g
                                   /\ flags'.force \/ ~flags'.cache => out'[j].code
  <2>1. CASE i = n + 1
    <3>1. PICK j \in 1..n : out[j].file = g /\ (flags.force \/ ~flags.cache => out[j].code)
      BY <1>2, <1>6, <2>1 DEF InOut, n
    <3>2. j \in 1..(i - 1) /\ out'[j] = out[j]
      BY <1>1, <1>2, <2>1
    <3> QED
      BY <3>1, <3>2
  <2>2. CASE i # n + 1
    <3>1. i \in 1..n /\ out'[i] = out[i]
      BY <1>1, <1>2, <2>2
    <3>2. PICK j \in 1..(i - 1) : out[j].file = g /\ (flags.force \/ ~flags.cache => out[j].code)
      BY <1>3, <1>6, <3>1 DEF UsesPrecede
    <3>3. j \in 1..n /\ out'[j] = out[j]
      BY <1>1, <1>2, <3>1
    <3> QED
      BY <3>2, <3>3
  <2> QED
    BY <2>1, <2>2
<1>7. UsesPrecede'
  <2>1. \A i \in DOMAIN out' : \A g \in out'[i].uses : \E j \in 1..(i - 1) :
          out'[j].file = g /\ (flags'.force \/ ~flags'.cache => out'[j].code)
    BY <1>3, <1>6, Zenon
  <2> QED
    BY <2>1 DEF UsesPrecede
<1> QED
  BY <1>2, <1>4, <1>5, <1>7

LEMMA GoodCompile == Good /\ Compile => Good'
<1> SUFFICES ASSUME Good, Compile PROVE Good'
  OBVIOUS
<1> DEFINE next == IF Top.cached THEN "return" ELSE "cache"
<1>1. /\ status = "running" /\ Top.pc = "parse" /\ status' = status
      /\ src' = src /\ stub' = stub /\ clock' = clock /\ flags' = flags
      /\ ImportsParsed /\ Resolved
      /\ out' = IF flags.mode = "ast" THEN out ELSE Append(out, Output)
      /\ stack' = SetTop([Top EXCEPT !.pc = next])
  BY DEF Compile, Parsed, At, fsVars
<1>2. /\ built' \cup shown' = IF Top.cached THEN built \cup shown
                               ELSE built \cup shown \cup {<<Top.file, Top.ver>>}
  BY DEF Compile, Version
<1>3. Top \in Frames /\ FrameOK(Top) /\ Top.file \in Files
  BY <1>1, TopKnown, TopOK DEF Good
<1>4. /\ Top.content.imports \in Seq(Files)
      /\ Top.content.uses \subseteq 1..Len(Top.content.imports)
      /\ Top.content \in Content
  BY <1>3, ContentKnown DEF FrameOK, Frames
<1>5. flags.mode # "ast" => \A i \in Top.content.uses : InOut(Top.content.imports[i])
  BY <1>1, <1>3, <1>4 DEF ImportsParsed, Resolved, FrameOK
<1>6. PICK o : o = Output
  OBVIOUS
<1>7. o \in Outputs /\ o.file = Top.file /\ o.code = ~Top.cached
  <2>1. {Top.content.imports[i] : i \in Top.content.uses} \in SUBSET Files
    BY <1>4, ElementTyped
  <2> QED
    BY <1>3, <1>6, <2>1 DEF Output, Outputs, Frames
<1>8. flags.mode # "ast" => \A g \in o.uses : InOut(g)
  BY <1>5, <1>6 DEF Output
<1>9. /\ out' \in Seq(Outputs) /\ UsesPrecede'
      /\ \A f : InOut(f) => InOut(f)'
      /\ flags.mode # "ast" => (out' # <<>> /\ out'[Len(out')] = o)
  <2>1. out \in Seq(Outputs) /\ UsesPrecede
    BY DEF Good, Typed, Inv
  <2>2. CASE flags.mode = "ast"
    <3>1. out' = out
      BY <1>1, <2>2
    <3> QED
      BY <1>1, <2>1, <2>2, <3>1 DEF UsesPrecede, InOut
  <2>3. CASE flags.mode # "ast"
    <3>1. out' = Append(out, o) /\ \A g \in o.uses : InOut(g)
      BY <1>1, <1>6, <1>8, <2>3
    <3> QED
      BY <1>1, <1>7, <2>1, <3>1, OutGrows
  <2> QED
    BY <2>2, <2>3
<1>10. \A fr \in Frames : FrameOK(fr) => FrameOK(fr)'
  <2>1. clock \in Nat /\ Typed
    BY DEF Good, Typed
  <2>2. built \cup shown \subseteq built' \cup shown'
    BY <1>2
  <2> QED
    BY <1>1, <1>9, <2>1, <2>2, CallStays
<1>11. PICK top \in Frames : top = [Top EXCEPT !.pc = next]
  BY <1>3 DEF Frames, Places
<1>12. /\ top.pc = next /\ top.cached = Top.cached /\ top.file = Top.file
       /\ top.got = Top.got /\ top.content = Top.content /\ top.ver = Top.ver
       /\ top.readAt = Top.readAt
  BY <1>3, <1>11 DEF Frames
<1>13. FrameOK(top)'
  <2>1. FrameOK(Top)
    BY <1>3
  <2>2. PICK fr \in Frames : fr = Top
    BY <1>3
  <2>3. FrameOK(fr)'
    BY <1>10, <2>1, <2>2
  <2>4. top.pc \in {"cache", "return"} /\ (top.pc = "cache" => ~top.cached)
    BY <1>12
  <2>5. ~top.cached => WasOutput(top.file, top.ver)'
    BY <1>2, <1>12 DEF WasOutput
  <2>6. /\ top.cached = fr.cached /\ top.file = fr.file /\ top.got = fr.got
        /\ top.content = fr.content /\ top.ver = fr.ver /\ top.readAt = fr.readAt
    BY <1>12, <2>2
  <2> HIDE DEF next
  <2> QED
    BY <2>3, <2>4, <2>5, <2>6 DEF FrameOK
<1>14. Calls' /\ stack' \in Seq(Frames) /\ stack' # <<>> /\ Top' = top
  <2>1. stack' = SetTop(top) /\ Typed /\ Calls
    BY <1>1, <1>11 DEF Good, Inv
  <2> QED
    BY <1>1, <1>10, <1>12, <1>13, <2>1, CallsPut
<1>15. Typed'
  BY <1>1, <1>9, <1>14 DEF Good, Typed
<1>16. Disk'
  BY <1>1, <1>2 DEF Good, Inv, Disk, ReadOf, WasOutput
<1>17. Outs'
  <2>1. flags.mode = "ast" => out' = <<>>
    BY <1>1 DEF Good, Inv, Outs
  <2>2. flags.mode # "ast" =>
          out' # <<>> /\ out'[Len(out')].file = top.file /\ out'[Len(out')].code = ~top.cached
    BY <1>7, <1>9, <1>12
  <2> QED
    BY <1>1, <1>14, <2>1, <2>2 DEF Outs, LastIs
<1>18. SuccessOutputsEntry'
  BY <1>1 DEF SuccessOutputsEntry
<1> QED
  BY <1>9, <1>14, <1>15, <1>16, <1>17, <1>18 DEF Good, Inv

\* cache_file writes the stub of the file that was output.
LEMMA GoodStub ==
  ASSUME Good, status = "running", Top.pc \in {"cache", "write"}, status' = status,
         src' = src, clock' = clock, flags' = flags, out' = out, UNCHANGED history,
         NEW text \in {"empty", "sig", "cut"},
         stub' = [stub EXCEPT ![Top.file] = Stub(text)],
         NEW next \in {"write", "return"}, stack' = SetTop([Top EXCEPT !.pc = next])
  PROVE  Good'
<1>1. Top \in Frames /\ FrameOK(Top) /\ Top.file \in Files /\ stack # <<>>
  BY TopKnown, TopOK DEF Good, Typed
<1>2. /\ ~Top.cached /\ WasOutput(Top.file, Top.ver) /\ Top.readAt \in 1..clock
      /\ ReadOf(Top.file, Top.ver, Top.readAt) /\ Top.ver \in Nat
      /\ clock \in Nat /\ clock >= 1
  BY <1>1 DEF FrameOK, Good, Typed, Frames
<1>3. PICK x \in Stubs : x = Stub(text)
  BY <1>2 DEF Stub, Stubs
<1>4. /\ x.mtime = clock /\ x.ver = Top.ver /\ x.readAt = Top.readAt
      /\ x.text \in {"empty", "sig", "cut"}
  BY <1>3 DEF Stub
<1>5. /\ stub'[Top.file] = x
      /\ \A f \in Files : f # Top.file => stub'[f] = stub[f]
      /\ stub' \in [Files -> Stubs \cup {NoStub}]
  BY <1>1, <1>3 DEF Good, Typed
<1>6. \A f \in Files : stub[f] # NoStub => stub'[f] # NoStub
  BY <1>4, <1>5 DEF NoStub
<1>7. \A fr \in Frames : FrameOK(fr) => FrameOK(fr)'
  <2>1. \A f : InOut(f) => InOut(f)'
    BY DEF InOut
  <2>2. Typed /\ built \cup shown \subseteq built' \cup shown'
    BY DEF Good, history
  <2> QED
    BY <1>2, <1>6, <2>1, <2>2, CallStays
<1>8. PICK top \in Frames : top = [Top EXCEPT !.pc = next]
  BY <1>1 DEF Frames, Places
<1>9. /\ top.pc = next /\ top.cached = Top.cached /\ top.file = Top.file
      /\ top.got = Top.got /\ top.content = Top.content /\ top.ver = Top.ver
      /\ top.readAt = Top.readAt
  BY <1>1, <1>8 DEF Frames
<1>10. FrameOK(top)
  BY <1>1, <1>2, <1>9 DEF FrameOK
<1>11. Calls' /\ stack' \in Seq(Frames) /\ stack' # <<>> /\ Top' = top
  <2>1. stack' = SetTop(top) /\ FrameOK(top)' /\ Typed /\ Calls
    BY <1>7, <1>8, <1>10 DEF Good, Inv
  <2> QED
    BY <1>7, <1>9, <2>1, CallsPut
<1>12. Typed'
  BY <1>5, <1>11 DEF Good, Typed
<1>13. Disk'
  <2> SUFFICES ASSUME NEW f \in Files
               PROVE /\ src[f].content \in Contents[f]
                     /\ src[f].ver \in 1..(MaxEdits + 1)
                     /\ src[f].mtime <= clock
                     /\ stub'[f] # NoStub => /\ stub'[f].mtime \in 1..clock
                                             /\ stub'[f].readAt \in 1..stub'[f].mtime
                                             /\ ReadOf(f, stub'[f].ver, stub'[f].readAt)
                                             /\ WasOutput(f, stub'[f].ver)
    BY DEF Disk, ReadOf, WasOutput, history
  <2>1. CASE f = Top.file
    BY <1>2, <1>4, <1>5, <2>1 DEF Good, Inv, Disk
  <2>2. CASE f # Top.file
    BY <1>5, <2>2 DEF Good, Inv, Disk
  <2> QED
    BY <2>1, <2>2
<1>14. Outs'
  BY <1>1, <1>9, <1>11 DEF Good, Inv, Outs, LastIs
<1>15. UsesPrecede' /\ SuccessOutputsEntry'
  BY DEF Good, Inv, UsesPrecede, SuccessOutputsEntry
<1> QED
  BY <1>11, <1>12, <1>13, <1>14, <1>15 DEF Good, Inv

LEMMA GoodCacheOpen == Good /\ CacheOpen => Good'
<1> SUFFICES ASSUME Good, CacheOpen PROVE Good'
  OBVIOUS
<1>1. /\ status = "running" /\ Top.pc = "cache" /\ status' = status
      /\ src' = src /\ clock' = clock /\ flags' = flags /\ out' = out /\ UNCHANGED history
      /\ stub' = [stub EXCEPT ![Top.file] = Stub("empty")]
      /\ stack' = SetTop([Top EXCEPT !.pc = "write"])
  BY DEF CacheOpen, At
<1> QED
  BY <1>1, GoodStub

LEMMA GoodCacheClose == Good /\ CacheClose => Good'
<1> SUFFICES ASSUME Good, CacheClose PROVE Good'
  OBVIOUS
<1>1. PICK text \in {"empty", "sig", "cut"} : text = StubText(Top.content.fns)
  BY DEF StubText
<1>2. /\ status = "running" /\ Top.pc = "write" /\ status' = status
      /\ src' = src /\ clock' = clock /\ flags' = flags /\ out' = out /\ UNCHANGED history
      /\ runs' = runs
      /\ IF text = "empty" THEN stub' = stub
         ELSE stub' = [stub EXCEPT ![Top.file] = Stub(text)]
      /\ stack' = SetTop([Top EXCEPT !.pc = "return"])
  BY <1>1 DEF CacheClose, At
<1>3. CASE text = "empty"
  BY <1>2, <1>3, GoodUnwritten DEF Around, fsVars
<1>4. CASE text # "empty"
  BY <1>2, <1>4, GoodStub
<1> QED
  BY <1>3, <1>4

\* A source is edited, or a second passes.
LEMMA GoodAround ==
  ASSUME Good, UNCHANGED <<stub, status, flags, stack, out, built, shown>>,
         clock' \in 1..MaxClock, clock <= clock',
         src' \in [Files -> SrcFiles],
         \A f \in Files : /\ src'[f].content \in Contents[f]
                          /\ src'[f].ver \in 1..(MaxEdits + 1)
                          /\ src'[f].mtime <= clock'
                          /\ \/ src'[f] = src[f]
                             \/ src'[f].ver = src[f].ver + 1 /\ src'[f].mtime = clock
  PROVE  Good'
<1>1. /\ Typed /\ clock \in Nat /\ clock' \in Nat
      /\ src \in [Files -> SrcFiles] /\ stub \in [Files -> Stubs \cup {NoStub}]
  BY BoundsAssumption DEF Good, Typed
<1>2. Typed'
  BY <1>1 DEF Typed
<1>3. \A fr \in Frames : FrameOK(fr) => FrameOK(fr)'
  <2>1. \A f : InOut(f) => InOut(f)'
    BY DEF InOut
  <2> QED
    BY <1>1, <2>1, CallStays
<1>4. Calls'
  BY <1>1, <1>3, CallsSame DEF Good, Inv
<1>5. Disk'
  <2> SUFFICES ASSUME NEW f \in Files, stub[f] # NoStub
               PROVE  /\ stub[f].mtime \in 1..clock'
                      /\ stub[f].readAt \in 1..stub[f].mtime
                      /\ stub[f].ver \in 1..src'[f].ver
                      /\ stub[f].ver # src'[f].ver => stub[f].readAt <= src'[f].mtime
                      /\ WasOutput(f, stub[f].ver)
    BY DEF Disk, ReadOf, WasOutput
  <2>1. /\ stub[f].mtime \in 1..clock /\ stub[f].readAt \in 1..stub[f].mtime
        /\ stub[f].ver \in 1..src[f].ver /\ src[f].ver \in Nat
        /\ stub[f].ver # src[f].ver => stub[f].readAt <= src[f].mtime
        /\ WasOutput(f, stub[f].ver)
    BY <1>1 DEF Good, Inv, Disk, ReadOf, SrcFiles
  <2>2. stub[f].mtime \in 1..clock' /\ stub[f].readAt <= clock
    BY <1>1, <2>1
  <2>3. CASE src'[f] = src[f]
    BY <2>1, <2>2, <2>3
  <2>4. CASE src'[f].ver = src[f].ver + 1 /\ src'[f].mtime = clock
    BY <2>1, <2>2, <2>4
  <2> QED
    BY <2>3, <2>4
<1>6. Outs' /\ UsesPrecede' /\ SuccessOutputsEntry'
  BY DEF Good, Inv, Outs, LastIs, Top, UsesPrecede, SuccessOutputsEntry
<1> QED
  BY <1>2, <1>4, <1>5, <1>6 DEF Good, Inv

LEMMA GoodEdit == Good /\ Edit => Good'
<1> SUFFICES ASSUME Good, NEW f \in Files, NEW c \in Contents[f], src[f].ver <= MaxEdits,
                    src' = [src EXCEPT ![f] = [content |-> c, ver |-> @.ver + 1, mtime |-> clock]],
                    UNCHANGED <<stub, clock, status, flags, stack, out, history>>
             PROVE Good'
  BY DEF Edit
<1>1. /\ src \in [Files -> SrcFiles] /\ clock \in 1..MaxClock /\ clock \in Nat
      /\ c \in Content
      /\ \A g \in Files : /\ src[g].content \in Contents[g]
                          /\ src[g].ver \in 1..(MaxEdits + 1) /\ src[g].mtime <= clock
  BY ContentsAssumption, BoundsAssumption DEF Good, Typed, Inv, Disk
<1>2. src[f].ver + 1 \in 1..(MaxEdits + 1) /\ src[f].ver + 1 \in Nat
  BY <1>1, BoundsAssumption
<1>3. PICK x \in SrcFiles : x = [content |-> c, ver |-> src[f].ver + 1, mtime |-> clock]
  BY <1>1, <1>2 DEF SrcFiles
<1>4. /\ src' = [src EXCEPT ![f] = x]
      /\ x.content = c /\ x.ver = src[f].ver + 1 /\ x.mtime = clock
  BY <1>1, <1>3
<1>5. /\ src' \in [Files -> SrcFiles] /\ src'[f] = x
      /\ \A g \in Files : g # f => src'[g] = src[g]
  BY <1>1, <1>4
<1>6. clock' = clock /\ clock <= clock'
  BY <1>1
<1>7. ASSUME NEW g \in Files
      PROVE  /\ src'[g].content \in Contents[g]
             /\ src'[g].ver \in 1..(MaxEdits + 1)
             /\ src'[g].mtime <= clock'
             /\ \/ src'[g] = src[g]
                \/ src'[g].ver = src[g].ver + 1 /\ src'[g].mtime = clock
  BY <1>1, <1>2, <1>4, <1>5, <1>6
<1> QED
  BY <1>1, <1>5, <1>6, <1>7, GoodAround DEF history

LEMMA GoodTick == Good /\ Tick => Good'
<1> SUFFICES ASSUME Good, Tick PROVE Good'
  OBVIOUS
<1>1. clock \in 1..MaxClock /\ MaxClock \in Nat /\ clock < MaxClock /\ clock' = clock + 1
  BY BoundsAssumption DEF Good, Typed, Tick
<1>2. clock' \in 1..MaxClock /\ clock <= clock' /\ clock \in Nat
  BY <1>1
<1>3. src' = src /\ UNCHANGED <<stub, status, flags, stack, out, built, shown>>
  BY DEF Tick, fsVars, history
<1>4. /\ src \in [Files -> SrcFiles]
      /\ \A g \in Files : /\ src[g].content \in Contents[g]
                          /\ src[g].ver \in 1..(MaxEdits + 1) /\ src[g].mtime <= clock
                          /\ src[g].mtime \in Nat
  BY DEF Good, Typed, Inv, Disk, SrcFiles
<1>5. \A g \in Files : src[g].mtime <= clock'
  BY <1>2, <1>4
<1> QED
  BY <1>2, <1>3, <1>4, <1>5, GoodAround

LEMMA GoodMain == Good /\ Main => Good'
<1> SUFFICES ASSUME Good, Main PROVE Good'
  OBVIOUS
<1>1. /\ status' = "running" /\ src' = src /\ stub' = stub /\ clock' = clock
      /\ out' = <<>> /\ UNCHANGED history
  BY DEF Main, fsVars
<1>2. PICK f \in Entries, cache \in BOOLEAN, force \in BOOLEAN, mode \in Modes :
        /\ flags' = [entry |-> f, cache |-> cache, force |-> force, mode |-> mode]
        /\ stack' = <<Frame(f)>>
  BY DEF Main
<1>3. /\ flags'.entry = f
      /\ flags' \in [entry : Entries, cache : BOOLEAN, force : BOOLEAN, mode : Modes \cup {"asm"}]
  BY <1>2
<1>4. /\ f \in Files /\ src[f] \in SrcFiles /\ src[f].content \in Contents[f]
      /\ clock \in Nat /\ clock >= 1 /\ src[f].ver \in 1..(MaxEdits + 1)
  BY BoundsAssumption DEF Good, Typed, Inv, Disk
<1>5. PICK fr \in Frames : fr = Frame(f)
  BY <1>4, FrameTyped
<1>6. /\ fr.pc = "check" /\ fr.cached = FALSE /\ fr.file = f
      /\ fr.got = <<>> /\ fr.content = src[f].content /\ fr.ver = src[f].ver
      /\ fr.readAt = clock
  BY <1>5 DEF Frame
<1>7. FrameOK(fr)'
  <2>1. Len(fr.got) = 0 /\ Len(fr.content.imports) \in Nat
    BY <1>4, <1>6 DEF SrcFiles, Content
  <2>2. ReadOf(f, fr.ver, clock)'
    BY <1>1, <1>4, <1>6 DEF ReadOf
  <2>3. ContentOK(f, fr.content)
    BY <1>4, <1>6 DEF ContentOK
  <2> QED
    BY <1>1, <1>4, <1>6, <2>1, <2>2, <2>3 DEF FrameOK, ContentOK
<1>8. /\ stack' = <<fr>> /\ stack' \in Seq(Frames) /\ Len(stack') = 1 /\ stack'[1] = fr
      /\ stack' # <<>>
  BY <1>2, <1>5
<1>9. Top' = fr
  BY <1>8 DEF Top
<1>10. Calls'
  <2>1. \A i \in 1..Len(stack') : i = 1
    BY <1>8
  <2>2. \A i \in 1..(Len(stack') - 1) : FALSE
    BY <1>8
  <2>3. Len(stack') <= MaxDepth
    BY <1>8, BoundsAssumption
  <2>4. \A i \in 1..Len(stack') : \A g \in Frames : stack'[i] = g => FrameOK(g)'
    BY <1>7, <1>8, <2>1
  <2> QED
    BY <1>3, <1>6, <1>8, <2>2, <2>3, <2>4 DEF Calls
<1>11. Typed'
  BY <1>1, <1>3, <1>8 DEF Good, Typed
<1>12. Disk'
  BY <1>1 DEF Good, Inv, Disk, ReadOf, WasOutput, history
<1>13. Outs' /\ SuccessOutputsEntry'
  BY <1>1, <1>6, <1>9 DEF Outs, SuccessOutputsEntry
<1>14. UsesPrecede'
  BY <1>1 DEF UsesPrecede
<1> QED
  BY <1>10, <1>11, <1>12, <1>13, <1>14 DEF Good, Inv

LEMMA GoodInit == Init => Good
<1> SUFFICES ASSUME Init PROVE Good
  OBVIOUS
<1>1. PICK c \in [Files -> UNION {Contents[f] : f \in Files}] :
        /\ \A f \in Files : c[f] \in Contents[f]
        /\ src = [f \in Files |-> [content |-> c[f], ver |-> 1, mtime |-> 0]]
  BY DEF Init
<1>2. /\ stub = [f \in Files |-> NoStub] /\ clock = 1 /\ status = "idle"
      /\ stack = <<>> /\ out = <<>>
      /\ flags = [entry |-> CHOOSE f \in Entries : TRUE, cache |-> FALSE,
                  force |-> FALSE, mode |-> "asm"]
  BY DEF Init
<1>3. \A f \in Files : c[f] \in Content
  BY <1>1, ContentsAssumption
<1>4. \A f \in Files : /\ src[f] \in SrcFiles /\ src[f].content \in Contents[f]
                       /\ src[f].ver = 1 /\ src[f].mtime = 0
  BY <1>1, <1>3 DEF SrcFiles
<1>5. src \in [Files -> SrcFiles]
  BY <1>1, <1>4
<1>6. (CHOOSE f \in Entries : TRUE) \in Entries
  BY BoundsAssumption
<1>7. Typed
  <2>1. 1 \in 1..MaxClock
    BY BoundsAssumption
  <2>2. flags \in [entry : Entries, cache : BOOLEAN, force : BOOLEAN, mode : Modes \cup {"asm"}]
    BY <1>2, <1>6
  <2> QED
    BY <1>2, <1>5, <2>1, <2>2 DEF Typed
<1>8. Disk
  <2>1. 1 \in 1..(MaxEdits + 1)
    BY BoundsAssumption
  <2> QED
    BY <1>2, <1>4, <2>1 DEF Disk
<1>9. Calls
  BY <1>2, BoundsAssumption DEF Calls
<1>10. Outs /\ UsesPrecede /\ SuccessOutputsEntry
  BY <1>2 DEF Outs, UsesPrecede, SuccessOutputsEntry
<1> QED
  BY <1>7, <1>8, <1>9, <1>10 DEF Good, Inv

\* Every step of a run, and every step around it, preserves the invariant.
LEMMA GoodStep == Good /\ [Next]_vars => Good'
<1> SUFFICES ASSUME Good, [Next]_vars PROVE Good'
  OBVIOUS
<1>1. CASE Main
  BY <1>1, GoodMain
<1>2. CASE ParseFile
  <2>1. CASE Check
    BY <2>1, GoodCheck
  <2>2. CASE Read
    BY <2>2, GoodRead
  <2>3. CASE Import
    BY <2>3, GoodImport
  <2>4. CASE StackOverflow \/ Panic \/ AssertStmts
    BY <2>4, GoodFails
  <2>5. CASE Reject
    BY <2>5, GoodReject
  <2>6. CASE Compile
    BY <2>6, GoodCompile
  <2>7. CASE CacheSkip
    BY <2>7, GoodCacheSkip
  <2>8. CASE CacheOpen
    BY <2>8, GoodCacheOpen
  <2>9. CASE CacheClose
    BY <2>9, GoodCacheClose
  <2>10. CASE Return
    BY <2>10, GoodReturn
  <2> QED
    BY <1>2, <2>1, <2>2, <2>3, <2>4, <2>5, <2>6, <2>7, <2>8, <2>9, <2>10 DEF ParseFile
<1>3. CASE Edit
  BY <1>3, GoodEdit
<1>4. CASE Tick
  BY <1>4, GoodTick
<1>5. CASE Kill
  BY <1>5, GoodFails
<1>6. CASE UNCHANGED vars
  <2>1. UNCHANGED <<src, stub, clock, status, flags, stack, out, built, shown>>
    BY <1>6 DEF vars
  <2> QED
    BY <2>1 DEF Good, Typed, Inv, Disk, ReadOf, WasOutput, Calls, FrameOK, InOut, Outs, LastIs,
                Top, UsesPrecede, SuccessOutputsEntry
<1> QED
  BY <1>1, <1>2, <1>3, <1>4, <1>5, <1>6 DEF Next

\* The inductive invariant: whatever runs, edits, kills and seconds there are,
\* the cache is of versions that were compiled, and each call of parse_file
\* in progress is at the next import of the one that made it.
THEOREM GoodAlways == Spec => []Good
<1>1. Init => Good
  BY GoodInit
<1>2. Good /\ [Next]_vars => Good'
  BY GoodStep
<1> QED
  BY <1>1, <1>2, PTL DEF Spec

-----------------------------------------------------------------------------
(* Theorems.                                                               *)

\* The state of the driver has its types: sources and stubs have been written
\* in the past, and no call has parsed more imports than its file has.
THEOREM TypeCorrect == Spec => []TypeOK
<1>1. Good => TypeOK
  <2> SUFFICES ASSUME Good PROVE TypeOK
    OBVIOUS
  <2>1. ASSUME NEW f \in Files
        PROVE  /\ src[f].content \in Contents[f]
               /\ src[f].ver \in 1..(MaxEdits + 1)
               /\ src[f].mtime \in 0..clock
               /\ stub[f] # NoStub => /\ stub[f].mtime \in 1..clock
                                      /\ stub[f].readAt \in 1..stub[f].mtime
                                      /\ stub[f].ver \in 1..src[f].ver
    BY DEF Good, Typed, SrcFiles, Inv, Disk, ReadOf
  <2>2. ASSUME NEW i \in 1..Len(stack)
        PROVE  Len(stack[i].got) <= Len(stack[i].content.imports)
    <3>1. PICK fr \in Frames : fr = stack[i]
      BY ElementTyped DEF Good, Typed
    <3> QED
      BY <3>1 DEF Good, Inv, Calls, FrameOK
  <2>3. clock \in 1..MaxClock /\ (status = "running" <=> stack # <<>>) /\ Len(stack) <= MaxDepth
    BY DEF Good, Typed, Inv, Calls
  <2>4. DOMAIN stack = 1..Len(stack)
    BY DEF Good, Typed
  <2> QED
    BY <2>1, <2>2, <2>3, <2>4 DEF TypeOK
<1> QED
  BY <1>1, GoodAlways, PTL

\* has_cache takes a stub of an old version for fresh only if the source was
\* written between the second in which the build read it and the second in
\* which the build wrote the stub - through any runs one after another, forced
\* or killed among them, and any nesting of imports.
THEOREM StalenessBounded == Spec => []StaleOnlyInWindow
<1>1. Good => StaleOnlyInWindow
  BY DEF Good, Inv, Disk, ReadOf, StaleOnlyInWindow, HasCache
<1> QED
  BY <1>1, GoodAlways, PTL

\* cache_file writes stubs only of versions that were compiled before, so a
\* run killed at any point leaves none that would hide a file from later runs.
THEOREM CacheFollowsOutput == Spec => []OutputBeforeCache
<1>1. Good => OutputBeforeCache
  BY DEF Good, Inv, Disk, WasOutput, OutputBeforeCache
<1> QED
  BY <1>1, GoodAlways, PTL

\* What compile_file outputs refers only to modules output before it, by code
\* or by the declarations of their stubs, along any graph of imports.
THEOREM ModulesInOrder == Spec => []UsesPrecede
<1>1. Good => UsesPrecede
  BY DEF Good, Inv
<1> QED
  BY <1>1, GoodAlways, PTL

\* A run that exits with 0 has output its entry file last, and as code when the
\* cache was not to be used.
THEOREM SuccessMeansOutput == Spec => []SuccessOutputsEntry
<1>1. Good => SuccessOutputsEntry
  BY DEF Good, Inv
<1> QED
  BY <1>1, GoodAlways, PTL

-----------------------------------------------------------------------------
(* A file is output once.  This needs imports that cannot form a cycle,    *)
(* whatever the edits: if one breaks a cycle whose files are being parsed, *)
(* the inner and the outer call of parse_file output the same version.     *)

Acyclic(rank) ==
  \A f \in Files : \A c \in Contents[f] :
    \A i \in 1..Len(c.imports) : rank[c.imports[i]] < rank[f]

Caching == flags.cache /\ ~flags.force

NotOut(f, ver) ==
  \A j \in 1..Len(out) : ~(out[j].code /\ out[j].file = f /\ out[j].ver = ver)

\* A call that found no stub in time is to output a version for the first time.
ToOutput(fr) ==
  ~fr.cached => /\ fr.pc = "read" => NotOut(fr.file, src[fr.file].ver)
                /\ fr.pc = "parse" => NotOut(fr.file, fr.ver)

\* What was output is in the cache, or about to be, or there was an edit.
Remembered ==
  \A j \in 1..Len(out) : out[j].code =>
    /\ out[j].ver <= src[out[j].file].ver
    /\ out[j].ver = src[out[j].file].ver =>
         HasCache(out[j].file) \/ (Top.pc = "cache" /\ Top.file = out[j].file)

Descends(rank) ==
  \A i, j \in 1..Len(stack) : i < j => rank[stack[j].file] < rank[stack[i].file]

Once ==
  Caching =>
    /\ OutputOnce
    /\ stack # <<>> => Remembered
    /\ \A i \in 1..Len(stack) : \A fr \in Frames : stack[i] = fr => ToOutput(fr)

\* One step of a call: what was output stays, a call changes or begins, or
\* one returns.
Goes(top) ==
  \A i \in 1..Len(stack') :
    stack'[i] = top \/ (i \in 1..Len(stack) /\ stack'[i] = stack[i])

LEMMA PutGoes ==
  ASSUME Typed, status = "running", NEW top \in Frames, stack' = SetTop(top),
         top.file = Top.file
  PROVE  /\ Goes(top) /\ Len(stack') = Len(stack)
         /\ \A i \in 1..Len(stack') : stack'[i].file = stack[i].file
<1> DEFINE n == Len(stack)
<1>1. stack \in Seq(Frames) /\ n \in Nat /\ n >= 1 /\ Top = stack[n]
  BY TopKnown
<1>2. /\ Len(stack') = n /\ stack'[n] = top
      /\ \A i \in 1..n : i # n => stack'[i] = stack[i]
  BY <1>1, Put DEF SetTop
<1> HIDE DEF n
<1> QED
  BY <1>1, <1>2 DEF Goes, n

LEMMA PushGoes ==
  ASSUME Typed, status = "running", NEW top \in Frames, stack' = Append(stack, top)
  PROVE  /\ Goes(top) /\ Len(stack') = Len(stack) + 1 /\ stack'[Len(stack) + 1] = top
         /\ \A i \in 1..Len(stack) : stack'[i] = stack[i]
<1> DEFINE n == Len(stack)
<1>1. stack \in Seq(Frames) /\ n \in Nat
  BY TopKnown
<1>2. /\ Len(stack') = n + 1 /\ stack'[n + 1] = top
      /\ \A i \in 1..n : stack'[i] = stack[i]
  BY <1>1, AppendProperties
<1> HIDE DEF n
<1> QED
  BY <1>1, <1>2 DEF Goes, n

LEMMA PopGoes ==
  ASSUME Typed, status = "running", Len(stack) # 1,
         NEW caller \in Frames, caller = stack[Len(stack) - 1],
         NEW top \in Frames, top.file = caller.file,
         stack' = [Caller EXCEPT ![Len(stack) - 1] = top]
  PROVE  /\ Goes(top) /\ Len(stack') = Len(stack) - 1
         /\ \A i \in 1..Len(stack') : i \in 1..Len(stack) /\ stack'[i].file = stack[i].file
<1> DEFINE n == Len(stack)
           m == n - 1
<1>1. stack \in Seq(Frames) /\ n \in Nat /\ n >= 1
  BY TopKnown
<1> HIDE DEF n
<1>2. n >= 2 /\ m \in Nat /\ m >= 1
  <2>1. n # 1
    BY DEF n
  <2> QED
    BY <1>1, <2>1
<1> USE DEF n
<1>3. /\ Len(stack') = m /\ stack'[m] = top
      /\ \A i \in 1..m : i # m => stack'[i] = stack[i]
  BY <1>1, <1>2, Pop DEF Caller
<1>4. caller = stack[m]
  OBVIOUS
<1> HIDE DEF m, n
<1>5. \A i \in 1..m : i \in 1..n
  BY <1>1, <1>2 DEF m
<1>6. Len(stack) = n /\ m = Len(stack) - 1
  BY DEF m, n
<1> QED
  BY <1>3, <1>4, <1>5, <1>6 DEF Goes

LEMMA OnceGoes ==
  ASSUME Good, Once, status = "running", out' = out, src' = src, flags' = flags,
         \A f : HasCache(f) => HasCache(f)',
         \A f : Caching /\ Top.pc = "cache" /\ f = Top.file => HasCache(f)',
         NEW top \in Frames, Caching => ToOutput(top), Goes(top)
  PROVE  Once'
<1> SUFFICES ASSUME Caching PROVE OutputOnce' /\ Remembered' /\
               \A i \in 1..Len(stack') : \A fr \in Frames : stack'[i] = fr => ToOutput(fr)'
  BY DEF Once, Caching
<1>1. OutputOnce /\ Remembered
      /\ \A i \in 1..Len(stack) : \A fr \in Frames : stack[i] = fr => ToOutput(fr)
  BY DEF Once, Good, Typed
<1>2. OutputOnce'
  BY <1>1 DEF OutputOnce
<1>3. Remembered'
  <2> SUFFICES ASSUME NEW j \in 1..Len(out), out[j].code
               PROVE  /\ out[j].ver <= src[out[j].file].ver
                      /\ out[j].ver = src[out[j].file].ver => HasCache(out[j].file)'
    BY DEF Remembered, HasCache
  <2>1. /\ out[j].ver <= src[out[j].file].ver
        /\ out[j].ver = src[out[j].file].ver =>
             HasCache(out[j].file) \/ (Top.pc = "cache" /\ Top.file = out[j].file)
    BY <1>1 DEF Remembered
  <2>2. HasCache(out[j].file) => HasCache(out[j].file)'
    OBVIOUS
  <2>3. Top.pc = "cache" /\ Top.file = out[j].file => HasCache(out[j].file)'
    BY DEF HasCache
  <2> QED
    BY <2>1, <2>2, <2>3
<1>4. ASSUME NEW fr, ToOutput(fr) PROVE ToOutput(fr)'
  BY <1>4 DEF ToOutput, NotOut
<1>5. ASSUME NEW i \in 1..Len(stack'), NEW fr \in Frames, stack'[i] = fr PROVE ToOutput(fr)'
  <2>1. CASE stack'[i] = top
    BY <1>4, <1>5, <2>1
  <2>2. CASE i \in 1..Len(stack) /\ stack'[i] = stack[i]
    BY <1>1, <1>4, <1>5, <2>2
  <2> QED
    BY <2>1, <2>2 DEF Goes
<1> QED
  BY <1>2, <1>3, <1>5

LEMMA OnceDies ==
  ASSUME Good, Once, NEW how, Dies(how), UNCHANGED Around
  PROVE  Once'
<1>1. stack' = <<>> /\ out' = out /\ flags' = flags
  BY DEF Dies, Around
<1> QED
  BY <1>1 DEF Once, Caching, OutputOnce

LEMMA OnceCheck == Good /\ Once /\ Check => Once'
<1> SUFFICES ASSUME Good, Once, Check PROVE Once'
  OBVIOUS
<1>1. /\ status = "running" /\ Top.pc = "check" /\ UNCHANGED Around
      /\ stack' = SetTop([Top EXCEPT !.pc = "read", !.cached = UsesCache(Top.file)])
  BY DEF Check, At, Around
<1>2. Top \in Frames /\ UsesCache(Top.file) \in BOOLEAN /\ stack # <<>>
  BY <1>1, TopKnown DEF Good, UsesCache, Typed
<1>3. PICK top \in Frames : top = [Top EXCEPT !.pc = "read", !.cached = UsesCache(Top.file)]
  BY <1>2 DEF Frames, Places
<1>4. top.pc = "read" /\ top.cached = UsesCache(Top.file) /\ top.file = Top.file
  BY <1>2, <1>3 DEF Frames
<1>5. Caching => ToOutput(top)
  BY <1>1, <1>2, <1>4 DEF Once, Remembered, ToOutput, NotOut, UsesCache, Caching
<1>6. Goes(top)
  BY <1>1, <1>3, <1>4, PutGoes DEF Good
<1>7. \A f : HasCache(f) => HasCache(f)'
  BY <1>1 DEF HasCache, Around, fsVars
<1> QED
  BY <1>1, <1>5, <1>6, <1>7, OnceGoes DEF Around, fsVars

LEMMA PutTyped ==
  ASSUME Typed, status = "running", NEW top, stack' = SetTop(top), stack' \in Seq(Frames)
  PROVE  top \in Frames
<1> DEFINE n == Len(stack)
<1>1. stack \in Seq(Frames) /\ n \in 1..n
  BY TopKnown
<1>2. stack' = [stack EXCEPT ![n] = top] /\ n \in DOMAIN stack
  BY <1>1 DEF SetTop
<1>3. n \in DOMAIN stack' /\ stack'[n] = top /\ DOMAIN stack' = 1..Len(stack')
  BY <1>2
<1> QED
  BY <1>3, ElementTyped

LEMMA OnceRead == Good /\ Once /\ Read => Once'
<1> SUFFICES ASSUME Good, Once, Read PROVE Once'
  OBVIOUS
<1> DEFINE f == Top.file
           content == IF Top.cached THEN StubContent(stub[f].text) ELSE src[f].content
           ver == IF Top.cached THEN stub[f].ver ELSE src[f].ver
           top == [Top EXCEPT !.pc = "parse", !.content = content, !.ver = ver, !.readAt = clock]
<1>1. /\ status = "running" /\ Top.pc = "read" /\ UNCHANGED Around
      /\ stack' = SetTop(top) /\ Typed
  BY DEF Read, At, Around, Good
<1>2. /\ Top \in Frames /\ Len(stack) \in 1..Len(stack) /\ Top = stack[Len(stack)]
      /\ stack # <<>>
  BY <1>1, TopKnown DEF Typed
<1>3. top \in Frames
  <2>1. stack' \in Seq(Frames)
    BY GoodRead DEF Good, Typed
  <2> HIDE DEF top
  <2> QED
    BY <1>1, <2>1, PutTyped
<1>4. /\ top.pc = "parse" /\ top.cached = Top.cached /\ top.file = f
      /\ ~top.cached => top.ver = src[f].ver
  BY <1>2 DEF Frames
<1> HIDE DEF top
<1>5. Caching => ToOutput(top)
  <2>1. Caching => ToOutput(Top)
    BY <1>2 DEF Once
  <2> QED
    BY <1>1, <1>4, <2>1 DEF ToOutput
<1>6. Goes(top)
  BY <1>1, <1>3, <1>4, PutGoes
<1>7. \A g : HasCache(g) => HasCache(g)'
  BY <1>1 DEF HasCache, Around, fsVars
<1> QED
  BY <1>1, <1>3, <1>5, <1>6, <1>7, OnceGoes DEF Around, fsVars

LEMMA OnceImport == Good /\ Once /\ Import => Once'
<1> SUFFICES ASSUME Good, Once, Import PROVE Once'
  OBVIOUS
<1> DEFINE top == Frame(Top.content.imports[Len(Top.got) + 1])
<1>1. /\ status = "running" /\ Top.pc = "parse" /\ UNCHANGED Around
      /\ stack' = Append(stack, top) /\ Typed
  BY DEF Import, At, Around, Good
<1>2. top \in Frames
  <2> DEFINE n == Len(stack)
  <2>1. stack' \in Seq(Frames)
    BY GoodImport DEF Good, Typed
  <2>2. stack \in Seq(Frames) /\ n \in Nat
    BY <1>1, TopKnown
  <2> HIDE DEF top
  <2>3. n + 1 \in DOMAIN stack' /\ stack'[n + 1] = top
    BY <1>1, <2>2
  <2>4. DOMAIN stack' = 1..Len(stack')
    BY <2>1
  <2> QED
    BY <2>1, <2>3, <2>4, ElementTyped
<1>3. top.pc = "check"
  BY DEF Frame
<1> HIDE DEF top
<1>4. ToOutput(top)
  BY <1>3 DEF ToOutput
<1>5. Goes(top)
  BY <1>1, <1>2, PushGoes
<1>6. \A g : HasCache(g) => HasCache(g)'
  BY <1>1 DEF HasCache, Around, fsVars
<1> QED
  BY <1>1, <1>2, <1>4, <1>5, <1>6, OnceGoes DEF Around, fsVars

LEMMA OnceReturns ==
  ASSUME Good, Once, status = "running", UNCHANGED Around, NEW result \in Results,
         Returns(result), Top.pc \in {"parse", "return"}
  PROVE  Once'
<1>1. CASE Len(stack) = 1
  <2>1. PICK how : Dies(how)
    BY <1>1 DEF Returns
  <2> QED
    BY <2>1, OnceDies
<1>2. CASE Len(stack) # 1
  <2> DEFINE m == Len(stack) - 1
  <2>1. Len(stack) \in Nat /\ Len(stack) >= 1 /\ stack \in Seq(Frames)
    BY TopKnown DEF Good
  <2>2. m \in 1..m /\ m \in 1..Len(stack) /\ m + 1 = Len(stack)
    <3> DEFINE n == Len(stack)
    <3>1. n \in Nat /\ n >= 1 /\ n # 1
      BY <1>2, <2>1
    <3> HIDE DEF n
    <3>2. n - 1 \in 1..(n - 1) /\ n - 1 \in 1..n /\ n - 1 + 1 = n
      BY <3>1
    <3> QED
      BY <3>2 DEF n
  <2>3. stack' = [Caller EXCEPT ![m] = [stack[m] EXCEPT !.got = Append(@, result)]]
    BY <1>2 DEF Returns
  <2>4. PICK caller \in Frames : caller = stack[m]
    BY <2>1, <2>2, ElementTyped
  <2>5. Waits(caller, Top) /\ (Caching => ToOutput(caller))
    BY <2>2, <2>4 DEF Good, Inv, Calls, Top, Once
  <2> HIDE DEF m
  <2>6. Append(caller.got, result) \in Seq(Results)
    BY DEF Frames
  <2>7. PICK top \in Frames : top = [caller EXCEPT !.got = Append(@, result)]
    BY <2>6 DEF Frames
  <2>8. /\ top.pc = caller.pc /\ top.cached = caller.cached /\ top.file = caller.file
        /\ top.ver = caller.ver
    BY <2>7 DEF Frames
  <2>9. Caching => ToOutput(top)
    BY <2>5, <2>8 DEF ToOutput
  <2>10. Goes(top)
    <3>1. /\ stack' = [Caller EXCEPT ![Len(stack) - 1] = top]
          /\ caller = stack[Len(stack) - 1] /\ Typed
      BY <2>3, <2>4, <2>7 DEF m, Good
    <3> QED
      BY <1>2, <2>8, <3>1, PopGoes
  <2>11. \A g : HasCache(g) => HasCache(g)'
    BY DEF HasCache, Around, fsVars
  <2> QED
    BY <2>9, <2>10, <2>11, OnceGoes DEF Around, fsVars
<1> QED
  BY <1>1, <1>2

LEMMA OnceCacheSkip == Good /\ Once /\ CacheSkip => Once'
<1> SUFFICES ASSUME Good, Once, CacheSkip PROVE Once'
  OBVIOUS
<1> DEFINE top == [Top EXCEPT !.pc = "return"]
<1>1. /\ status = "running" /\ UNCHANGED Around /\ stack' = SetTop(top) /\ Typed
      /\ Caching => UsesCache(Top.file)
  BY DEF CacheSkip, At, Around, Good, Caching
<1>2. top \in Frames /\ top.pc = "return" /\ top.file = Top.file
  BY <1>1, TopKnown DEF Frames, Places
<1> HIDE DEF top
<1>3. ToOutput(top)
  BY <1>2 DEF ToOutput
<1>4. Goes(top)
  BY <1>1, <1>2, PutGoes
<1>5. \A g : HasCache(g) => HasCache(g)'
  BY <1>1 DEF HasCache, Around, fsVars
<1>6. \A g : Caching /\ g = Top.file => HasCache(g)'
  BY <1>1, <1>5 DEF UsesCache
<1> QED
  BY <1>1, <1>2, <1>3, <1>4, <1>5, <1>6, OnceGoes DEF Around, fsVars

LEMMA OnceStub ==
  ASSUME Good, Once, status = "running", src' = src, flags' = flags, out' = out,
         NEW text \in {"empty", "sig", "cut"},
         \/ stub' = [stub EXCEPT ![Top.file] = Stub(text)]
         \/ Top.pc = "write" /\ stub' = stub,
         NEW next \in {"write", "return"}, stack' = SetTop([Top EXCEPT !.pc = next])
  PROVE  Once'
<1> DEFINE top == [Top EXCEPT !.pc = next]
<1>1. Typed /\ Top \in Frames /\ Top.file \in Files
  BY TopKnown DEF Good
<1>2. top \in Frames /\ top.pc = next /\ top.file = Top.file
  BY <1>1 DEF Frames, Places
<1>3. stack' = SetTop(top)
  OBVIOUS
<1> HIDE DEF top
<1>4. ToOutput(top)
  BY <1>2 DEF ToOutput
<1>5. Goes(top)
  BY <1>1, <1>2, <1>3, PutGoes
<1>6. CASE stub' = [stub EXCEPT ![Top.file] = Stub(text)]
  <2>1. /\ stub'[Top.file] # NoStub /\ stub'[Top.file].mtime = clock
        /\ clock >= src[Top.file].mtime
        /\ \A g : g # Top.file => stub'[g] = stub[g]
    BY <1>1, <1>6 DEF Stub, NoStub, Good, Typed, SrcFiles, Inv, Disk
  <2>2. \A g : g = Top.file => HasCache(g)'
    BY <2>1 DEF HasCache
  <2>3. \A g : HasCache(g) => HasCache(g)'
    BY <2>1, <2>2 DEF HasCache
  <2> QED
    BY <1>2, <1>4, <1>5, <2>2, <2>3, OnceGoes
<1>7. CASE Top.pc = "write" /\ stub' = stub
  <2>1. \A g : HasCache(g) => HasCache(g)'
    BY <1>7 DEF HasCache
  <2> QED
    BY <1>2, <1>4, <1>5, <1>7, <2>1, OnceGoes
<1> QED
  BY <1>6, <1>7

LEMMA OnceCompile ==
  ASSUME NEW rank \in [Files -> Nat], Descends(rank), Good, Once, Compile
  PROVE  Once'
<1> DEFINE top == [Top EXCEPT !.pc = IF Top.cached THEN "return" ELSE "cache"]
           n == Len(stack)
           m == Len(out)
<1>1. /\ status = "running" /\ Top.pc = "parse" /\ Typed /\ stack' = SetTop(top)
      /\ src' = src /\ stub' = stub /\ flags' = flags
      /\ out' = IF flags.mode = "ast" THEN out ELSE Append(out, Output)
  BY DEF Compile, Parsed, At, fsVars, Good
<1>2. /\ Top \in Frames /\ stack \in Seq(Frames) /\ n \in Nat /\ n >= 1 /\ n \in 1..n
      /\ Top = stack[n] /\ FrameOK(Top) /\ Top.file \in Files /\ stack # <<>>
  BY <1>1, TopKnown, TopOK DEF Good, Typed
<1>3. /\ top \in Frames /\ top.file = Top.file
      /\ top.pc = IF Top.cached THEN "return" ELSE "cache"
  BY <1>2 DEF Frames, Places
<1> HIDE DEF top
<1>4. ToOutput(top)
  BY <1>3 DEF ToOutput
<1>5. \A g : HasCache(g) => HasCache(g)'
  BY <1>1 DEF HasCache
<1>6. CASE flags.mode = "ast"
  <2>1. Goes(top)
    BY <1>1, <1>3, PutGoes
  <2> QED
    BY <1>1, <1>3, <1>4, <1>5, <1>6, <2>1, OnceGoes
<1>7. CASE flags.mode # "ast"
  <2> SUFFICES ASSUME Caching PROVE OutputOnce' /\ Remembered' /\
                 \A i \in 1..Len(stack') : \A fr \in Frames : stack'[i] = fr => ToOutput(fr)'
    BY <1>1 DEF Once, Caching
  <2>1. /\ OutputOnce /\ Remembered
        /\ \A i \in 1..n : \A fr \in Frames : stack[i] = fr => ToOutput(fr)
    BY <1>2 DEF Once
  <2>2. PICK o \in Outputs : /\ out' = Append(out, o) /\ o.file = Top.file
                            /\ o.ver = Top.ver /\ o.code = ~Top.cached
    <3>1. Output.file = Top.file /\ Output.ver = Top.ver /\ Output.code = ~Top.cached
      BY DEF Output
    <3>2. {Top.content.imports[i] : i \in Top.content.uses} \in SUBSET Files
      <4>1. /\ Top.content.imports \in Seq(Files)
            /\ Top.content.uses \subseteq 1..Len(Top.content.imports)
        BY <1>2, ContentKnown DEF FrameOK, Frames
      <4> QED
        BY <4>1, ElementTyped
    <3>3. Output \in Outputs
      BY <1>2, <3>2 DEF Output, Outputs, Frames
    <3> QED
      BY <1>1, <1>7, <3>1, <3>3
  <2>3. /\ m \in Nat /\ Len(out') = m + 1 /\ out'[m + 1] = o
        /\ \A i \in 1..m : out'[i] = out[i]
        /\ DOMAIN out = 1..m /\ DOMAIN out' = 1..(m + 1)
    <3>1. out \in Seq(Outputs)
      BY DEF Good, Typed
    <3> QED
      BY <2>2, <3>1, AppendProperties
  <2>4. /\ Len(stack') = n /\ stack'[n] = top
        /\ \A i \in 1..n : i # n => stack'[i] = stack[i]
    BY <1>1, <1>2, <1>3, Put DEF SetTop
  <2> HIDE DEF m, n
  <2>5. Top' = top
    BY <2>4 DEF Top
  <2>6. o.code => NotOut(Top.file, Top.ver)
    <3>1. ToOutput(Top)
      BY <1>2, <2>1
    <3> QED
      BY <1>1, <2>2, <3>1 DEF ToOutput
  <2>7. OutputOnce'
    <3> SUFFICES ASSUME NEW i \in 1..(m + 1), NEW j \in 1..(m + 1),
                        out'[i].code, out'[j].code, out'[i].file = out'[j].file,
                        out'[i].ver = out'[j].ver
                 PROVE  i = j
      BY <2>3 DEF OutputOnce
    <3>1. \A k \in 1..(m + 1) : k = m + 1 \/ k \in 1..m
      BY <2>3
    <3>2. \A k \in 1..m : out'[k].code => ~(o.code /\ out'[k].file = o.file /\ out'[k].ver = o.ver)
      BY <2>2, <2>3, <2>6 DEF NotOut, m
    <3>3. CASE i \in 1..m /\ j \in 1..m
      BY <2>1, <2>3, <3>3 DEF OutputOnce, Caching
    <3> QED
      BY <2>3, <3>1, <3>2, <3>3
  <2>8. Remembered'
    <3> SUFFICES ASSUME NEW j \in 1..(m + 1), out'[j].code
                 PROVE  /\ out'[j].ver <= src[out'[j].file].ver
                        /\ out'[j].ver = src[out'[j].file].ver =>
                             \/ stub[out'[j].file] # NoStub
                                /\ stub[out'[j].file].mtime >= src[out'[j].file].mtime
                             \/ top.pc = "cache" /\ top.file = out'[j].file
      BY <1>1, <2>3, <2>5 DEF Remembered, HasCache
    <3>1. CASE j = m + 1
      <4>1. ~Top.cached /\ Top.ver <= src[Top.file].ver
        <5>1. ~Top.cached
          BY <2>2, <2>3, <3>1
        <5>2. ReadOf(Top.file, Top.ver, Top.readAt)
          BY <1>2, <5>1 DEF FrameOK
        <5>3. src[Top.file].ver \in Nat
          BY <1>2 DEF Good, Typed, SrcFiles
        <5> QED
          BY <5>1, <5>2, <5>3 DEF ReadOf
      <4> QED
        BY <1>3, <2>2, <2>3, <3>1, <4>1
    <3>2. CASE j \in 1..m
      BY <1>1, <2>1, <2>3, <3>2 DEF Remembered, HasCache, m
    <3> QED
      BY <2>3, <3>1, <3>2
  <2>9. ASSUME NEW i \in 1..n, NEW fr \in Frames, stack'[i] = fr PROVE ToOutput(fr)'
    <3>1. CASE i = n
      BY <1>3, <2>4, <2>9, <3>1 DEF ToOutput
    <3>2. CASE i # n
      <4>1. stack[i] = fr /\ ToOutput(fr) /\ i < n
        BY <1>2, <2>1, <2>4, <2>9, <3>2
      <4>2. fr.file # Top.file
        <5>1. rank[Top.file] < rank[fr.file]
          BY <1>2, <4>1 DEF Descends, n
        <5> QED
          BY <1>2, <5>1
      <4>3. \A v : NotOut(fr.file, v) => NotOut(fr.file, v)'
        <5> SUFFICES ASSUME NEW v, NotOut(fr.file, v), NEW j \in 1..(m + 1)
                     PROVE  ~(out'[j].code /\ out'[j].file = fr.file /\ out'[j].ver = v)
          BY <2>3 DEF NotOut
        <5>1. CASE j = m + 1
          BY <2>2, <2>3, <4>2, <5>1
        <5>2. CASE j \in 1..m
          BY <2>3, <5>2 DEF NotOut, m
        <5> QED
          BY <2>3, <5>1, <5>2
      <4> QED
        BY <1>1, <4>1, <4>3 DEF ToOutput
    <3> QED
      BY <3>1, <3>2
  <2> QED
    BY <2>4, <2>7, <2>8, <2>9
<1> QED
  BY <1>6, <1>7

LEMMA OnceEdit == Good /\ Once /\ Edit => Once'
<1> SUFFICES ASSUME Good, Once, NEW f \in Files, NEW c \in Contents[f],
                    src' = [src EXCEPT ![f] = [content |-> c, ver |-> @.ver + 1, mtime |-> clock]],
                    UNCHANGED <<stub, clock, status, flags, stack, out, history>>
             PROVE Once'
  BY DEF Edit
<1> SUFFICES ASSUME Caching
             PROVE  OutputOnce' /\ (stack # <<>> => Remembered') /\
               \A i \in 1..Len(stack) : \A fr \in Frames : stack[i] = fr => ToOutput(fr)'
  BY DEF Once, Caching
<1>1. /\ OutputOnce /\ (stack # <<>> => Remembered)
      /\ \A i \in 1..Len(stack) : \A fr \in Frames : stack[i] = fr => ToOutput(fr)
  BY DEF Once
<1>2. src'[f].ver = src[f].ver + 1 /\ \A g \in Files : g # f => src'[g] = src[g]
  BY DEF Good, Typed
<1>3. /\ \A g \in Files : src[g].ver \in Nat
      /\ out \in Seq(Outputs) /\ stack \in Seq(Frames)
  BY DEF Good, Typed, SrcFiles
<1>4. ASSUME NEW j \in 1..Len(out) PROVE out[j].file \in Files /\ out[j].ver \in Nat
  <2>1. out[j] \in Outputs
    BY <1>3, ElementTyped
  <2> QED
    BY <2>1 DEF Outputs
<1>5. OutputOnce'
  BY <1>1 DEF OutputOnce
<1>6. ASSUME stack # <<>> PROVE Remembered'
  <2> SUFFICES ASSUME NEW j \in 1..Len(out), out[j].code
               PROVE  /\ out[j].ver <= src'[out[j].file].ver
                      /\ out[j].ver = src'[out[j].file].ver =>
                           HasCache(out[j].file)' \/ (Top.pc = "cache" /\ Top.file = out[j].file)
    BY DEF Remembered, Top
  <2>1. /\ out[j].ver <= src[out[j].file].ver
        /\ out[j].ver = src[out[j].file].ver =>
             HasCache(out[j].file) \/ (Top.pc = "cache" /\ Top.file = out[j].file)
    BY <1>1, <1>6 DEF Remembered
  <2>2. CASE out[j].file = f
    BY <1>2, <1>3, <1>4, <2>1, <2>2
  <2>3. CASE out[j].file # f
    BY <1>2, <1>4, <2>1, <2>3 DEF HasCache
  <2> QED
    BY <2>2, <2>3
<1>7. ASSUME NEW i \in 1..Len(stack), NEW fr \in Frames, stack[i] = fr PROVE ToOutput(fr)'
  <2>1. ToOutput(fr) /\ fr.file \in Files /\ Remembered
    <3>1. ToOutput(fr)
      BY <1>1, <1>7
    <3>2. Len(stack) >= 1
      BY <1>3
    <3>3. stack # <<>>
      BY <1>3, <3>2, NotEmpty
    <3> QED
      BY <1>1, <3>1, <3>3 DEF Frames
  <2>2. CASE fr.file = f
    <3>1. NotOut(f, src'[f].ver)
      <4> SUFFICES ASSUME NEW j \in 1..Len(out), out[j].code, out[j].file = f
                   PROVE  out[j].ver # src'[f].ver
        BY DEF NotOut
      <4>1. out[j].ver <= src[f].ver
        BY <2>1 DEF Remembered
      <4> QED
        BY <1>2, <1>3, <1>4, <4>1
    <3> QED
      BY <2>1, <2>2, <3>1 DEF ToOutput, NotOut
  <2>3. CASE fr.file # f
    BY <1>2, <2>1, <2>3 DEF ToOutput, NotOut
  <2> QED
    BY <2>2, <2>3
<1> QED
  BY <1>5, <1>6, <1>7

\* The imports in progress descend.
LEMMA DescendsWithin ==
  ASSUME NEW rank \in [Files -> Nat], Descends(rank),
         Len(stack') \in Nat, Len(stack) \in Nat, Len(stack') <= Len(stack),
         \A i \in 1..Len(stack') : stack'[i].file = stack[i].file
  PROVE  Descends(rank)'
<1> SUFFICES ASSUME NEW i \in 1..Len(stack'), NEW j \in 1..Len(stack'), i < j
             PROVE  rank[stack'[j].file] < rank[stack'[i].file]
  BY DEF Descends
<1>1. i \in 1..Len(stack) /\ j \in 1..Len(stack)
  OBVIOUS
<1>2. rank[stack[j].file] < rank[stack[i].file]
  BY <1>1 DEF Descends
<1> QED
  BY <1>2

LEMMA DescendsImport ==
  ASSUME NEW rank \in [Files -> Nat], Acyclic(rank), Descends(rank), Good, Import
  PROVE  Descends(rank)'
<1> DEFINE n == Len(stack)
           f == Top.content.imports[Len(Top.got) + 1]
           top == Frame(f)
<1>1. status = "running" /\ Typed /\ stack' = Append(stack, top) /\ ~ImportsParsed
  BY DEF Import, At, Good
<1>2. /\ Top \in Frames /\ FrameOK(Top) /\ stack \in Seq(Frames) /\ n \in Nat
      /\ n \in 1..n /\ Top = stack[n] /\ Top.file \in Files
  BY <1>1, TopKnown, TopOK DEF Good
<1>3. /\ Top.content.imports \in Seq(Files) /\ Len(Top.got) \in Nat
      /\ Len(Top.got) <= Len(Top.content.imports)
  BY <1>2, ContentKnown DEF FrameOK, Frames
<1>4. Len(Top.got) + 1 \in 1..Len(Top.content.imports)
  BY <1>1, <1>3 DEF ImportsParsed
<1>5. f \in Files
  BY <1>3, <1>4, ElementTyped
<1>6. rank[f] < rank[Top.file]
  <2>1. Top.content \in Contents[Top.file]
    <3>1. ContentOK(Top.file, Top.content)
      BY <1>2 DEF FrameOK
    <3>2. Top.content.imports # <<>>
      BY <1>4
    <3> QED
      BY <3>1, <3>2 DEF ContentOK
  <2> QED
    BY <1>2, <1>4, <2>1 DEF Acyclic
<1>7. top.file = f
  BY DEF Frame
<1>8. /\ \A i \in 1..n : stack'[i] = stack[i]
      /\ stack'[n + 1] = top /\ Len(stack') = n + 1
  BY <1>1, <1>2, AppendProperties
<1> HIDE DEF n, f, top
<1> SUFFICES ASSUME NEW i \in 1..(n + 1), NEW j \in 1..(n + 1), i < j
             PROVE  rank[stack'[j].file] < rank[stack'[i].file]
  BY <1>8 DEF Descends
<1>9. i \in 1..n
  BY <1>2
<1>10. stack[i] \in Frames /\ stack[i].file \in Files /\ stack'[i] = stack[i]
  <2>1. stack[i] \in Frames
    BY <1>2, <1>9, ElementTyped DEF n
  <2> QED
    BY <1>8, <1>9, <2>1 DEF Frames
<1>11. CASE j = n + 1
  <2>1. i = n \/ i < n
    BY <1>2, <1>9
  <2>2. rank[Top.file] <= rank[stack[i].file]
    <3>1. CASE i = n
      BY <1>2, <3>1
    <3>2. CASE i < n
      BY <1>2, <1>9, <1>10, <3>2 DEF Descends, n
    <3> QED
      BY <2>1, <3>1, <3>2
  <2> QED
    BY <1>2, <1>5, <1>6, <1>7, <1>8, <1>10, <1>11, <2>2
<1>12. CASE j # n + 1
  <2>1. j \in 1..n
    BY <1>2, <1>12
  <2> QED
    BY <1>8, <1>9, <2>1 DEF Descends, n
<1> QED
  BY <1>11, <1>12

LEMMA DescendsReturns ==
  ASSUME NEW rank \in [Files -> Nat], Descends(rank), Good, status = "running",
         NEW result \in Results, Returns(result)
  PROVE  Descends(rank)'
<1>1. CASE Len(stack) = 1
  <2>1. stack' = <<>>
    BY <1>1 DEF Returns, Dies
  <2> QED
    BY <2>1 DEF Descends
<1>2. CASE Len(stack) # 1
  <2> DEFINE m == Len(stack) - 1
  <2>1. Len(stack) \in Nat /\ Len(stack) >= 1 /\ stack \in Seq(Frames)
    BY TopKnown DEF Good
  <2>2. m \in 1..Len(stack) /\ m \in Nat /\ m <= Len(stack)
    <3> DEFINE n == Len(stack)
    <3>1. n \in Nat /\ n >= 1 /\ n # 1
      BY <1>2, <2>1
    <3> HIDE DEF n
    <3>2. n - 1 \in 1..n /\ n - 1 \in Nat /\ n - 1 <= n
      BY <3>1
    <3> QED
      BY <3>2 DEF n
  <2>3. stack' = [Caller EXCEPT ![m] = [stack[m] EXCEPT !.got = Append(@, result)]]
    BY <1>2 DEF Returns
  <2>4. PICK caller \in Frames : caller = stack[m]
    BY <2>1, <2>2, ElementTyped
  <2> HIDE DEF m
  <2>5. Append(caller.got, result) \in Seq(Results)
    BY DEF Frames
  <2>6. PICK top \in Frames : top = [caller EXCEPT !.got = Append(@, result)]
    BY <2>5 DEF Frames
  <2>7. top.file = caller.file
    BY <2>6 DEF Frames
  <2>8. /\ Len(stack') = Len(stack) - 1
        /\ \A i \in 1..Len(stack') : stack'[i].file = stack[i].file
    <3>1. /\ stack' = [Caller EXCEPT ![Len(stack) - 1] = top]
          /\ caller = stack[Len(stack) - 1] /\ Typed
      BY <2>3, <2>4, <2>6 DEF m, Good
    <3> QED
      BY <1>2, <2>7, <3>1, PopGoes
  <2>9. Len(stack') \in Nat /\ Len(stack') <= Len(stack)
    BY <2>2, <2>8 DEF m
  <2> QED
    BY <2>1, <2>8, <2>9, DescendsWithin
<1> QED
  BY <1>1, <1>2

\* A call goes on, in the same file.
LEMMA DescendsPut ==
  ASSUME NEW rank \in [Files -> Nat], Descends(rank), Good, status = "running",
         stack' \in Seq(Frames), NEW top, stack' = SetTop(top), top.file = Top.file
  PROVE  Descends(rank)'
<1>1. top \in Frames /\ Typed
  BY PutTyped DEF Good
<1>2. Len(stack') = Len(stack) /\ \A i \in 1..Len(stack') : stack'[i].file = stack[i].file
  BY <1>1, PutGoes
<1>3. Len(stack) \in Nat
  BY DEF Good, Typed
<1> QED
  BY <1>2, <1>3, DescendsWithin

\* Without cycles each call in progress is for a file below those before it.
LEMMA DescendsStep ==
  ASSUME NEW rank \in [Files -> Nat], Acyclic(rank), Descends(rank), Good, [Next]_vars
  PROVE  Descends(rank)'
<1>1. stack' \in Seq(Frames) /\ (status = "running" => Top \in Frames)
  BY GoodStep, TopKnown DEF Good, Typed
<1>2. CASE Main
  <2>1. PICK x : stack' = <<x>>
    BY <1>2 DEF Main
  <2> QED
    BY <2>1 DEF Descends
<1>3. CASE StackOverflow \/ Panic \/ AssertStmts \/ Kill
  <2>1. stack' = <<>>
    BY <1>3 DEF StackOverflow, Panic, AssertStmts, Kill, Dies
  <2> QED
    BY <2>1 DEF Descends
<1>4. CASE Check \/ Read \/ Compile \/ CacheSkip \/ CacheOpen \/ CacheClose
  <2>1. status = "running"
    BY <1>4 DEF Check, Read, Compile, Parsed, CacheSkip, CacheOpen, CacheClose, At
  <2>2. Top \in Frames
    BY <1>1, <2>1
  <2>3. \E x : stack' = SetTop(x) /\ x.file = Top.file
    <3>1. CASE Check
      <4> DEFINE x == [Top EXCEPT !.pc = "read", !.cached = UsesCache(Top.file)]
      <4>1. stack' = SetTop(x) /\ x.file = Top.file
        BY <2>2, <3>1 DEF Check, Frames
      <4> HIDE DEF x
      <4> QED
        BY <4>1
    <3>2. CASE Read
      <4> DEFINE f == Top.file
                 x == [Top EXCEPT !.pc = "parse",
                         !.content = IF Top.cached THEN StubContent(stub[f].text)
                                     ELSE src[f].content,
                         !.ver = IF Top.cached THEN stub[f].ver ELSE src[f].ver,
                         !.readAt = clock]
      <4>1. stack' = SetTop(x)
        BY <3>2 DEF Read
      <4>2. x.file = Top.file
        BY <2>2 DEF Frames
      <4> HIDE DEF x
      <4> QED
        BY <4>1, <4>2
    <3>3. CASE Compile
      BY <2>2, <3>3 DEF Compile, Frames
    <3>4. CASE CacheSkip
      BY <2>2, <3>4 DEF CacheSkip, Frames
    <3>5. CASE CacheOpen
      BY <2>2, <3>5 DEF CacheOpen, Frames
    <3>6. CASE CacheClose
      BY <2>2, <3>6 DEF CacheClose, Frames
    <3> QED
      BY <1>4, <3>1, <3>2, <3>3, <3>4, <3>5, <3>6
  <2> QED
    BY <1>1, <2>1, <2>3, DescendsPut
<1>5. CASE Import
  BY <1>5, DescendsImport
<1>6. CASE Reject \/ Return
  <2>1. PICK result \in Results : status = "running" /\ Returns(result)
    BY <1>6 DEF Reject, Return, At, Results
  <2> QED
    BY <2>1, DescendsReturns
<1>7. CASE Edit \/ Tick \/ UNCHANGED vars
  <2>1. stack' = stack
    BY <1>7 DEF Edit, Tick, vars
  <2> QED
    BY <2>1 DEF Descends
<1> QED
  BY <1>2, <1>3, <1>4, <1>5, <1>6, <1>7 DEF Next, ParseFile

\* A version in the output is never output again: its stub is found, and a call
\* that found none is for a file that no call below it can output.
LEMMA OnceStep ==
  ASSUME NEW rank \in [Files -> Nat], Descends(rank), Good, Once, [Next]_vars
  PROVE  Once'
<1>1. CASE Main
  <2>1. out' = <<>> /\ \E f \in Entries : stack' = <<Frame(f)>>
    BY <1>1 DEF Main
  <2>2. PICK x : stack' = <<x>> /\ x.pc = "check"
    BY <2>1 DEF Frame
  <2>3. \A i \in 1..Len(stack') : stack'[i] = x
    BY <2>2
  <2>4. OutputOnce' /\ Remembered'
    BY <2>1 DEF OutputOnce, Remembered
  <2> QED
    BY <2>2, <2>3, <2>4 DEF Once, ToOutput
<1>2. CASE StackOverflow \/ Panic \/ AssertStmts \/ Kill
  <2>1. PICK how : Dies(how)
    BY <1>2 DEF StackOverflow, Panic, AssertStmts, Kill
  <2>2. UNCHANGED Around
    BY <1>2 DEF StackOverflow, Panic, AssertStmts, Kill, Around
  <2> QED
    BY <2>1, <2>2, OnceDies
<1>3. CASE Check
  BY <1>3, OnceCheck
<1>4. CASE Read
  BY <1>4, OnceRead
<1>5. CASE Import
  BY <1>5, OnceImport
<1>6. CASE Reject \/ Return
  <2>1. PICK result \in Results : Returns(result)
    BY <1>6 DEF Reject, Return, Results
  <2>2. status = "running" /\ UNCHANGED Around /\ Top.pc \in {"parse", "return"}
    BY <1>6 DEF Reject, Return, At, Around
  <2> QED
    BY <2>1, <2>2, OnceReturns
<1>7. CASE Compile
  BY <1>7, OnceCompile
<1>8. CASE CacheSkip
  BY <1>8, OnceCacheSkip
<1>9. CASE CacheOpen \/ CacheClose
  <2>1. PICK text \in {"empty", "sig", "cut"}, next \in {"write", "return"} :
          /\ \/ stub' = [stub EXCEPT ![Top.file] = Stub(text)]
             \/ Top.pc = "write" /\ stub' = stub
          /\ stack' = SetTop([Top EXCEPT !.pc = next])
    BY <1>9 DEF CacheOpen, CacheClose, StubText, At
  <2>2. status = "running" /\ src' = src /\ flags' = flags /\ out' = out
    BY <1>9 DEF CacheOpen, CacheClose, At
  <2> QED
    BY <2>1, <2>2, OnceStub
<1>10. CASE Edit
  BY <1>10, OnceEdit
<1>11. CASE Tick \/ UNCHANGED vars
  <2>1. UNCHANGED <<src, stub, flags, stack, out>>
    BY <1>11 DEF Tick, fsVars, vars
  <2> QED
    BY <2>1 DEF Once, Caching, OutputOnce, Remembered, HasCache, Top, ToOutput, NotOut
<1> QED
  BY <1>1, <1>2, <1>3, <1>4, <1>5, <1>6, <1>7, <1>8, <1>9, <1>10, <1>11 DEF Next, ParseFile

\* Within a run that uses the cache a version of a file is output as code at
\* most once, along however many paths it is imported, provided that imports
\* cannot form a cycle whatever is edited.
THEOREM NothingTwice ==
  ASSUME NEW rank \in [Files -> Nat], Acyclic(rank)
  PROVE  Spec => []OutputOnce
<1>1. Init => Once /\ Descends(rank)
  BY DEF Init, Once, Descends, OutputOnce
<1>2. Good /\ Once /\ Descends(rank) /\ [Next]_vars => (Once /\ Descends(rank))'
  BY OnceStep, DescendsStep
<1>3. Once => OutputOnce
  BY DEF Once, OutputOnce, Caching
<1> QED
  BY <1>1, <1>2, <1>3, GoodAlways, PTL DEF Spec
=============================================================================
