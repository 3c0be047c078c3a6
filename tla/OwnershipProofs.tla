--------------------------- MODULE OwnershipProofs ---------------------------
(***************************************************************************)
(* Proof about Parser that nothing is freed twice and that nothing is lost *)
(* but what is named: at every point of parse_file each thing allocated    *)
(* hangs in one of the lists that the end frees or in the function that is *)
(* being parsed, or is the module, or of a kind that nobody frees.         *)
(***************************************************************************)
EXTENDS ParserProofs

\* The module, and what nobody frees.
Apart(o) == o = Module \/ o.role \in Lost

InStmts(o) == \E k \in 1..Len(stmts) : o \in stmts[k]

\* A statement of the function being parsed, or a variable of it.
OfBody(o) == o.role \in {"statement", "local"} /\ o.top = Top

\* It hangs in a list of statements, or is the if or while around one.
InFrames(o) ==
  \E k \in 1..Len(calls) :
    \/ o \in calls[k].owns
    \/ k >= 2 /\ o = Statement(Top, calls[k].stmt)

\* What an error may leave behind.
Left(o) ==
  \/ OfBody(o)
  \/ o.role = "argument" /\ o.top = Top /\ body = <<>>
  \/ o = Scope(0) /\ body = <<>>

\* stmts and mod->scope own what hangs in them, and nothing of one another's.
ListsOwn ==
  /\ \A k \in 1..Len(stmts) : \A o \in stmts[k] :
       o \in live /\ o.top = k /\ o.role # "scope" /\ o \notin public
  /\ Module \in live
  /\ \A o \in public : /\ o \in live /\ o.top <= Top
                       /\ o.role \in {"function", "argument"}
                       /\ pc = "file" => o.top < Top

FileOwns ==
  pc \in {"file", "compiled"} =>
    /\ body = <<>> /\ Scope(0) \in live
    /\ \A o \in live : o = Scope(0) \/ Apart(o) \/ InStmts(o) \/ o \in public

CallsInOrder ==
  /\ \A k \in 2..Len(calls) : Statement(Top, calls[k].stmt) \in live
  /\ \A k, l \in 1..Len(calls) : k < l => calls[k].stmt < calls[l].stmt
  /\ \A k \in 1..Len(calls) : calls[k].stmt <= Len(body)

\* Until an error drops it, everything of the body hangs in some list.
CallsOwn ==
  /\ \A k \in 1..Len(calls) : \A o \in calls[k].owns : o \in live /\ OfBody(o)
  /\ \A o \in live : OfBody(o) => InFrames(o)

FunctionOwns ==
  pc \in {"open", "block", "unwind"} =>
    /\ Scope(0) \in live /\ Scope(Top) \in live
    /\ \A o \in fn.owns : /\ o.role \in {"toplevel", "function", "argument"}
                          /\ o.top = Top /\ o \in live /\ o \notin public
    /\ \A o \in live : \/ o = Scope(0) \/ o = Scope(Top) \/ Apart(o) \/ o \in fn.owns
                       \/ InStmts(o) \/ o \in public \/ OfBody(o)
    /\ CallsInOrder
    /\ pc # "unwind" => CallsOwn

FailedOwns ==
  pc = "failed" =>
    /\ Current \in live
    /\ \A o \in live : o = Current \/ Apart(o) \/ InStmts(o) \/ o \in public \/ Left(o)

Ends ==
  /\ pc = "done" => \A o \in live : o.role \in Lost
  /\ pc = "imported" => /\ TheModule \subseteq live
                        /\ \A o \in live : o.role \in Lost \/ o \in TheModule
  /\ pc = "rejected" => \A o \in live : o.role \in Lost \/ Left(o)

Over == pc \in {"done", "imported", "rejected", "crashed"}

Owns ==
  /\ again = {}
  /\ ~Over => ListsOwn
  /\ FileOwns /\ FunctionOwns /\ FailedOwns /\ Ends

-----------------------------------------------------------------------------
(* Objects and lists.                                                      *)

LEMMA Fields ==
  /\ \A t : Scope(t).role = "scope" /\ Scope(t).top = t
  /\ Module.role = "module" /\ Module.top = 0
  /\ ModScope.role = "modscope"
  /\ \A t : ImportName(t).role = "importname" /\ Imported(t).role = "imported"
  /\ \A t : Toplevel(t).role = "toplevel" /\ Toplevel(t).top = t
  /\ \A name, t : Function(name, t).role = "function" /\ Function(name, t).top = t
  /\ \A name, t, k : Argument(name, t, k).role = "argument" /\ Argument(name, t, k).top = t
  /\ \A name, t, i : Local(name, t, i).role = "local" /\ Local(name, t, i).top = t
  /\ \A t, i : /\ Statement(t, i).role = "statement" /\ Statement(t, i).top = t
               /\ Statement(t, i).stmt = i
BY DEF Scope, Module, ModScope, ImportName, Imported, Toplevel, Function, Argument, Local,
       Statement, Object

\* What hangs in no list is not freed as part of one.
LEMMA ApartFields ==
  /\ \A o : Apart(o) => o.role \in {"module", "modscope", "importname", "imported"}
  /\ \A o : Apart(o) => ~OfBody(o)
BY Fields DEF Apart, Lost, OfBody

LEMMA StmtsKnown ==
  ASSUME Typed
  PROVE  /\ Len(stmts) \in Nat /\ Top = Len(stmts) + 1 /\ DOMAIN stmts = 1..Len(stmts)
         /\ \A k \in 1..Len(stmts) : k # Top /\ k \in Nat
         /\ Scope(Top) # Scope(0)
<1>1. Len(stmts) \in Nat /\ DOMAIN stmts = 1..Len(stmts)
  BY DEF Typed, TypeOK
<1>2. Top = Len(stmts) + 1
  BY DEF Top
<1>3. Scope(Top).top = Top /\ Scope(0).top = 0 /\ Top # 0
  BY <1>1, <1>2, Fields
<1> QED
  BY <1>1, <1>2, <1>3

\* A top-level statement more.
LEMMA ListsGrow ==
  ASSUME Typed, Typed', ListsOwn, NEW more \in SUBSET Objects, stmts' = Append(stmts, more),
         \A o \in more : o \in live' /\ o.top = Top /\ o.role # "scope" /\ o \notin public',
         \A o \in live : o.role # "scope" => o \in live',
         \A o \in public' : \/ o \in public
                            \/ o.role \in {"function", "argument"} /\ o.top = Top /\ o \in live',
         \A o \in public : o.top <= Top
  PROVE  /\ ListsOwn'
         /\ \A o : InStmts(o)' <=> InStmts(o) \/ o \in more
<1> DEFINE n == Len(stmts)
<1>1. n \in Nat /\ Top = n + 1
  BY StmtsKnown
<1>2. /\ Len(stmts') = n + 1 /\ stmts'[n + 1] = more
      /\ \A k \in 1..n : stmts'[k] = stmts[k]
  <2>1. stmts \in Seq(SUBSET Objects)
    BY DEF Typed, TypeOK
  <2> QED
    BY <2>1, AppendProperties
<1>3. Top' = n + 2
  BY <1>1, <1>2 DEF Top
<1>4. \A k \in 1..n : \A o \in stmts[k] : o \in live /\ o.top = k /\ o.role # "scope" /\ o \notin public
  BY DEF ListsOwn
<1>5. \A o \in public : o \in live /\ o.role \in {"function", "argument"}
  BY DEF ListsOwn
<1> HIDE DEF n
<1>6. \A k \in 1..(n + 1) : k \in 1..n \/ k = n + 1
  BY <1>1
<1>7. \A k \in 1..n : k \in 1..(n + 1) /\ k # n + 1
  BY <1>1
<1>8. n + 1 \in 1..(n + 1)
  BY <1>1
<1>9. \A o : (\E k \in 1..(n + 1) : o \in stmts'[k]) <=> (\E k \in 1..n : o \in stmts[k]) \/ o \in more
  BY <1>2, <1>6, <1>7, <1>8
<1>10. \A o : InStmts(o)' <=> InStmts(o) \/ o \in more
  BY <1>2, <1>9 DEF InStmts, n
<1>11. ASSUME NEW k \in 1..(n + 1), NEW o \in stmts'[k]
       PROVE  o \in live' /\ o.top = k /\ o.role # "scope" /\ o \notin public'
  <2>1. CASE k \in 1..n
    <3>1. o \in live /\ o.top = k /\ o.role # "scope" /\ o \notin public
      BY <1>2, <1>4, <1>11, <2>1
    <3>2. o.top # Top
      BY <1>1, <1>7, <2>1, <3>1
    <3> QED
      BY <3>1, <3>2
  <2>2. CASE k = n + 1
    BY <1>1, <1>2, <1>11, <2>2
  <2> QED
    BY <1>6, <2>1, <2>2
<1>12. ASSUME NEW o \in public'
       PROVE  /\ o \in live' /\ o.top <= Top' /\ o.top < Top'
              /\ o.role \in {"function", "argument"}
  <2>1. o \in live' /\ o.role \in {"function", "argument"}
    BY <1>5, <1>12
  <2>2. o.top \in Nat /\ o.top <= Top
    <3>1. o \in Objects
      BY <1>12 DEF Typed, TypeOK
    <3>2. o.top \in Nat
      BY <3>1 DEF Objects
    <3> QED
      BY <1>1, <1>12, <3>2
  <2> QED
    BY <1>1, <1>3, <2>1, <2>2
<1>13. Module \in live'
  BY Fields DEF ListsOwn
<1> QED
  BY <1>2, <1>10, <1>11, <1>12, <1>13 DEF ListsOwn

\* The lists that are freed at the end.
LEMMA Around ==
  ASSUME NEW S, NEW s \in Seq(S), NEW a \in S, NEW z \in S, NEW t,
         t = <<a>> \o s \o <<z>>
  PROVE  /\ Len(s) \in Nat /\ DOMAIN t = 1..(Len(s) + 2)
         /\ t[1] = a /\ t[Len(s) + 2] = z
         /\ \A k \in 1..Len(s) : t[k + 1] = s[k]
<1> DEFINE n == Len(s)
           one == <<a>>
           last == <<z>>
           u == one \o s
<1>1. /\ one \in Seq(S) /\ Len(one) = 1 /\ one[1] = a
      /\ last \in Seq(S) /\ Len(last) = 1 /\ last[1] = z /\ n \in Nat
  OBVIOUS
<1> HIDE DEF one, last
<1>2. /\ u \in Seq(S) /\ Len(u) = 1 + n
      /\ \A i \in 1..(1 + n) : u[i] = IF i <= 1 THEN one[i] ELSE s[i - 1]
  <2>1. /\ one \o s \in Seq(S) /\ Len(one \o s) = Len(one) + Len(s)
        /\ \A i \in 1..(Len(one) + Len(s)) :
             (one \o s)[i] = IF i <= Len(one) THEN one[i] ELSE s[i - Len(one)]
    BY <1>1, ConcatProperties
  <2> QED
    BY <1>1, <2>1
<1>3. t = u \o last
  BY DEF one, last
<1> HIDE DEF u
<1>4. /\ t \in Seq(S) /\ Len(t) = 1 + n + 1
      /\ \A i \in 1..(1 + n + 1) : t[i] = IF i <= 1 + n THEN u[i] ELSE last[i - (1 + n)]
  <2>1. /\ u \o last \in Seq(S) /\ Len(u \o last) = Len(u) + Len(last)
        /\ \A i \in 1..(Len(u) + Len(last)) :
             (u \o last)[i] = IF i <= Len(u) THEN u[i] ELSE last[i - Len(u)]
    BY <1>1, <1>2, ConcatProperties
  <2> QED
    BY <1>1, <1>2, <1>3, <2>1
<1> HIDE DEF n
<1>5. DOMAIN t = 1..(n + 2)
  BY <1>1, <1>4
<1>6. 1 \in 1..(1 + n) /\ 1 \in 1..(1 + n + 1) /\ n + 2 \in 1..(1 + n + 1)
  BY <1>1
<1>7. t[1] = a
  BY <1>1, <1>2, <1>4, <1>6
<1>8. t[n + 2] = z
  BY <1>1, <1>4, <1>6
<1>9. ASSUME NEW k \in 1..n PROVE t[k + 1] = s[k]
  <2>1. k + 1 \in 1..(1 + n) /\ k + 1 \in 1..(1 + n + 1) /\ ~(k + 1 <= 1) /\ k + 1 - 1 = k
    BY <1>1
  <2> QED
    BY <1>1, <1>2, <1>4, <2>1
<1> QED
  BY <1>1, <1>5, <1>7, <1>8, <1>9 DEF n

LEMMA ReleasedIs ==
  ASSUME Typed, ListsOwn, NEW module, module = {} \/ module = TheModule
  PROVE  /\ \A o : o \in Released(module) <=> o = Current \/ InStmts(o) \/ o \in module
         /\ ReleasedTwice(module) = {}
<1> DEFINE n == Len(stmts)
           freed == Freed(module)
           released == Released(module)
<1>1. Current = Scope(0) \/ Current = Scope(Top)
  BY DEF Current
<1>2. Current.role = "scope" /\ {Current} \in SUBSET Objects
  BY <1>1, Fields, TopNat, ObjectsTyped DEF Typed
<1>3. /\ n \in Nat /\ DOMAIN freed = 1..(n + 2)
      /\ freed[1] = {Current} /\ freed[n + 2] = module
      /\ \A k \in 1..n : freed[k + 1] = stmts[k]
  <2> DEFINE S == SUBSET Objects
             first == {Current}
  <2>1. stmts \in Seq(S) /\ module \in S /\ first \in S
    BY <1>2, ObjectsTyped DEF Typed, TypeOK, TheModule
  <2>2. freed = <<first>> \o stmts \o <<module>>
    BY DEF Freed
  <2> HIDE DEF S, first, freed
  <2>3. /\ n \in Nat /\ DOMAIN freed = 1..(n + 2)
        /\ freed[1] = first /\ freed[n + 2] = module
        /\ \A k \in 1..n : freed[k + 1] = stmts[k]
    BY <2>1, <2>2, Around
  <2> QED
    BY <2>3 DEF first
<1>4. \A k \in 1..n : \A o \in stmts[k] : o.top = k /\ o.role # "scope" /\ o \notin module
  <2>1. \A k \in 1..n : \A o \in stmts[k] : o.top = k /\ o.role # "scope" /\ o \notin public
    BY DEF ListsOwn
  <2>2. Module.top = 0 /\ \A k \in 1..n : k # 0
    BY <1>3, Fields
  <2> QED
    BY <2>1, <2>2 DEF TheModule
<1>5. \A o \in module : o.role # "scope"
  BY Fields DEF ListsOwn, TheModule
<1>6. \A o : InStmts(o) <=> \E k \in 1..n : o \in stmts[k]
  BY DEF InStmts
<1> HIDE DEF n, freed, released
<1>7. \A k \in 1..(n + 2) : k = 1 \/ k = n + 2 \/ (k - 1 \in 1..n /\ k = (k - 1) + 1)
  BY <1>3
<1>8. \A k \in 1..n : k + 1 \in 1..(n + 2)
  BY <1>3
<1>9. 1 \in 1..(n + 2) /\ n + 2 \in 1..(n + 2) /\ 1 # n + 2
  BY <1>3
<1>10. ASSUME NEW o PROVE o \in released <=> o = Current \/ InStmts(o) \/ o \in module
  <2>1. ASSUME o \in released PROVE o = Current \/ InStmts(o) \/ o \in module
    <3>1. PICK k \in 1..(n + 2) : o \in freed[k]
      BY <1>3, <2>1 DEF Released, freed, released
    <3>2. CASE k - 1 \in 1..n /\ k = (k - 1) + 1
      <4>1. o \in stmts[k - 1]
        BY <1>3, <3>1, <3>2
      <4> QED
        BY <1>6, <3>2, <4>1
    <3>3. CASE k = 1 \/ k = n + 2
      BY <1>3, <3>1, <3>3
    <3> QED
      BY <1>7, <3>2, <3>3
  <2>2. ASSUME o = Current \/ o \in module PROVE o \in released
    BY <1>3, <1>9, <2>2 DEF Released, freed, released
  <2>3. ASSUME InStmts(o) PROVE o \in released
    <3>1. PICK k \in 1..n : o \in stmts[k]
      BY <1>6, <2>3
    <3>2. k + 1 \in DOMAIN freed /\ o \in freed[k + 1]
      BY <1>3, <1>8, <3>1
    <3> QED
      BY <3>2 DEF Released, freed, released
  <2> QED
    BY <2>1, <2>2, <2>3
<1>11. ASSUME NEW o, NEW k \in 1..(n + 2), NEW l \in 1..(n + 2), k < l, o \in freed[k], o \in freed[l]
       PROVE  FALSE
  <2>1. k # n + 2 /\ l # 1
    BY <1>3, <1>11
  <2>2. k = 1 \/ (k - 1 \in 1..n /\ o \in stmts[k - 1])
    BY <1>3, <1>7, <1>11, <2>1
  <2>3. l = n + 2 \/ (l - 1 \in 1..n /\ o \in stmts[l - 1])
    BY <1>3, <1>7, <1>11, <2>1
  <2>4. k = 1 => o.role = "scope"
    BY <1>2, <1>3, <1>11
  <2>5. k # 1 => o.role # "scope" /\ o \notin module /\ o.top = k - 1
    BY <1>4, <2>2
  <2>6. l = n + 2 => o \in module
    BY <1>3, <1>11
  <2>7. l # n + 2 => o.role # "scope" /\ o.top = l - 1
    BY <1>4, <2>3
  <2>8. k - 1 # l - 1
    BY <1>3, <1>11
  <2> QED
    BY <1>5, <2>4, <2>5, <2>6, <2>7, <2>8
<1>12. ReleasedTwice(module) = {}
  BY <1>3, <1>11 DEF ReleasedTwice, freed, released
<1> QED
  BY <1>10, <1>12 DEF released

-----------------------------------------------------------------------------
(* Steps.                                                                  *)

LEMMA SameStatements ==
  ASSUME stmts' = stmts
  PROVE  /\ Top' = Top
         /\ \A o : (InStmts(o)' <=> InStmts(o)) /\ (OfBody(o)' <=> OfBody(o))
BY DEF Top, InStmts, OfBody

LEMMA OwnsInit == Init => Owns
<1> SUFFICES ASSUME Init PROVE Owns
  OBVIOUS
<1>1. /\ pc = "file" /\ stmts = <<>> /\ public = {} /\ live = {Scope(0), Module, ModScope}
      /\ again = {}
      /\ body = <<>>
  BY DEF Init
<1>2. Len(stmts) = 0
  BY <1>1
<1>3. \A o \in live : o = Scope(0) \/ Apart(o)
  BY <1>1, Fields DEF Apart, Lost
<1> QED
  BY <1>1, <1>2, <1>3 DEF Owns, ListsOwn, FileOwns, FunctionOwns, FailedOwns, Ends, Over

\* The steps that only go somewhere else.
LEMMA OwnsMoves ==
  ASSUME Typed, Owns,
         \/ Unexpected \/ BlockBegin \/ BlockNotBegun \/ BadStmt \/ Crash \/ FileParsed
         \/ UNCHANGED vars
  PROVE  Owns'
<1>1. UNCHANGED <<calls, body, fn, scopes, public, stmts, live, again>>
  BY DEF Unexpected, BlockBegin, BlockNotBegun, BadStmt, Crash, FileParsed, vars,
         bodyVars, heapVars
<1>2. \/ pc' = pc \/ pc' = "crashed"
      \/ pc = "file" /\ pc' \in {"failed", "compiled"}
      \/ pc = "open" /\ pc' = "block"
      \/ pc \in {"open", "block"} /\ pc' = "unwind"
  BY DEF Unexpected, BlockBegin, BlockNotBegun, BadStmt, Crash, FileParsed, vars
<1>3. /\ Top' = Top
      /\ \A o : (InStmts(o)' <=> InStmts(o)) /\ (OfBody(o)' <=> OfBody(o))
  BY <1>1, SameStatements
<1>4. \A o : (InFrames(o)' <=> InFrames(o)) /\ (Left(o)' <=> Left(o))
  BY <1>1, <1>3 DEF InFrames, Left
<1>5. Current' = Current
  BY <1>1, <1>3 DEF Current
<1>6. ListsOwn /\ pc' # "file" => ListsOwn'
  BY <1>1, <1>3 DEF ListsOwn
<1>7. ListsOwn /\ pc' = pc => ListsOwn'
  BY <1>1, <1>3 DEF ListsOwn
<1>8. (CallsInOrder <=> CallsInOrder') /\ (CallsOwn <=> CallsOwn')
  BY <1>1, <1>3, <1>4 DEF CallsInOrder, CallsOwn
<1>9. again' = {}
  BY <1>1 DEF Owns
<1>10. ~Over' => ListsOwn'
  BY <1>2, <1>6, <1>7 DEF Owns, Over
<1>11. FileOwns'
  BY <1>1, <1>2, <1>3 DEF Owns, FileOwns
<1>12. FunctionOwns'
  BY <1>1, <1>2, <1>3, <1>8 DEF Owns, FunctionOwns
<1>13. FailedOwns'
  <2>1. CASE pc = "failed" /\ pc' = "failed"
    BY <1>1, <1>3, <1>4, <1>5, <2>1 DEF Owns, FailedOwns
  <2>2. CASE pc = "file" /\ pc' = "failed"
    <3>1. Current = Scope(0)
      BY <2>2 DEF Typed, Shape, Current
    <3> QED
      BY <1>1, <1>3, <1>5, <2>2, <3>1 DEF Owns, FileOwns, FailedOwns
  <2> QED
    BY <1>2, <2>1, <2>2 DEF FailedOwns
<1>14. Ends'
  BY <1>1, <1>2, <1>4 DEF Owns, Ends, TheModule
<1> QED
  BY <1>9, <1>10, <1>11, <1>12, <1>13, <1>14 DEF Owns

\* What a file owns once a top-level statement is complete.
LEMMA OwnsToplevel ==
  ASSUME Typed, Typed', Owns, NEW more \in SUBSET Objects, stmts' = Append(stmts, more),
         pc' = "file", body' = <<>>, again' = {},
         pc \in {"file", "block"},
         \A o \in more : o \in live' /\ o.top = Top /\ o.role # "scope" /\ o \notin public',
         \A o \in live : o.role # "scope" => o \in live',
         Scope(0) \in live',
         \A o \in public' : \/ o \in public
                            \/ o.role \in {"function", "argument"} /\ o.top = Top /\ o \in live',
         public \subseteq public',
         \A o \in live' : \/ o = Scope(0) \/ Apart(o) \/ InStmts(o) \/ o \in more \/ o \in public'
  PROVE  Owns'
<1>1. ListsOwn
  BY DEF Owns, Over
<1>2. \A o \in public : o.top <= Top
  BY <1>1 DEF ListsOwn
<1>3. ListsOwn' /\ \A o : InStmts(o)' <=> InStmts(o) \/ o \in more
  BY <1>1, <1>2, ListsGrow
<1>4. FileOwns'
  BY <1>3 DEF FileOwns
<1> QED
  BY <1>3, <1>4 DEF Owns, FunctionOwns, FailedOwns, Ends

LEMMA OwnsImport ==
  ASSUME Typed, Typed', Owns, ModuleImport
  PROVE  Owns'
<1> DEFINE new == Toplevel(Top)
           more == {new}
           name == ImportName(Top)
           import == Imported(Top)
<1>1. /\ pc = "file" /\ pc' = "file" /\ body' = body /\ public' = public
      /\ stmts' = Append(stmts, more)
  BY DEF ModuleImport, AtToplevel, bodyVars
<1>2. PICK returned \in {{}, {import}} : Heap({new, name} \cup returned, {})
  BY DEF ModuleImport
<1>3. new \in Objects /\ new.top = Top /\ new.role = "toplevel"
  BY Fields, TopNat, ObjectsTyped DEF Typed
<1>4. Apart(name) /\ Apart(import)
  BY Fields DEF Apart, Lost
<1> HIDE DEF new, name, import
<1>5. more \in SUBSET Objects /\ \A o \in more : o.top = Top /\ o.role = "toplevel"
  BY <1>3
<1>6. \A o \in public : o.role \in {"function", "argument"}
  BY <1>1 DEF Owns, ListsOwn, Over
<1>7. /\ \A o \in live : o \in live'
      /\ \A o \in more : o \in live'
      /\ \A o \in live' : o \in live \/ o \in more \/ Apart(o)
      /\ again' = {}
  BY <1>2, <1>4 DEF Heap, Owns
<1> HIDE DEF more
<1>8. /\ body = <<>> /\ Scope(0) \in live
      /\ \A o \in live : o = Scope(0) \/ Apart(o) \/ InStmts(o) \/ o \in public
  BY <1>1 DEF Owns, FileOwns
<1> QED
  BY <1>1, <1>5, <1>6, <1>7, <1>8, OwnsToplevel

\* An import that does not parse is freed, but for its name.
LEMMA OwnsImportUnexpected ==
  ASSUME Typed, Typed', Owns, ImportUnexpected
  PROVE  Owns'
<1> DEFINE new == Toplevel(Top)
           name == ImportName(Top)
<1>1. /\ pc = "file" /\ pc' = "failed" /\ Heap({new, name}, {new})
      /\ UNCHANGED <<body, scopes, public, stmts>>
  BY DEF ImportUnexpected, AtToplevel, bodyVars
<1>2. /\ Scope(0) \in live /\ ListsOwn
      /\ \A o \in live : o = Scope(0) \/ Apart(o) \/ InStmts(o) \/ o \in public
  BY <1>1 DEF Owns, FileOwns, Over
<1>3. Top' = Top /\ \A o : InStmts(o)' <=> InStmts(o)
  BY <1>1, SameStatements
<1>4. new.top = Top /\ new.role = "toplevel" /\ Apart(name)
  BY Fields DEF Apart, Lost
<1>5. /\ \A k \in 1..Len(stmts) : k # Top
      /\ Scope(0).role = "scope" /\ Module.role = "module"
  BY StmtsKnown, Fields
<1> HIDE DEF new, name
<1>6. live' = (live \cup {name}) \ {new} /\ again' = {}
  <2>1. live' = (live \cup {new, name}) \ {new}
    BY <1>1 DEF Heap
  <2> QED
    BY <1>1, <2>1 DEF Heap, Owns
<1>7. Module \in live' /\ Scope(0) \in live'
  BY <1>2, <1>4, <1>5, <1>6 DEF ListsOwn
<1>8. ListsOwn'
  <2>1. ASSUME NEW k \in 1..Len(stmts), NEW o \in stmts[k]
        PROVE  o \in live' /\ o.top = k /\ o.role # "scope" /\ o \notin public
    <3>1. o \in live /\ o.top = k /\ o.role # "scope" /\ o \notin public
      BY <1>2, <2>1 DEF ListsOwn
    <3> QED
      BY <1>4, <1>5, <1>6, <3>1
  <2>2. ASSUME NEW o \in public
        PROVE  o \in live' /\ o.top <= Top /\ o.role \in {"function", "argument"}
    <3>1. o \in live /\ o.top <= Top /\ o.role \in {"function", "argument"}
      BY <1>2, <2>2 DEF ListsOwn
    <3> QED
      BY <1>4, <1>6, <3>1
  <2> QED
    BY <1>1, <1>3, <1>7, <2>1, <2>2 DEF ListsOwn
<1>9. Current' = Scope(0)
  BY <1>1 DEF Typed, Shape, Current
<1>10. \A o \in live' : o = Scope(0) \/ Apart(o) \/ InStmts(o) \/ o \in public
  BY <1>2, <1>4, <1>6
<1>11. FailedOwns'
  BY <1>1, <1>3, <1>7, <1>9, <1>10 DEF FailedOwns
<1> QED
  BY <1>1, <1>6, <1>8, <1>11 DEF Owns, FileOwns, FunctionOwns, Ends

\* What a declaration allocates, and who gets it.
LEMMA DeclarationParts ==
  ASSUME Typed, NEW name \in Names, NEW names \in Signatures, NEW pub \in BOOLEAN,
         Publish(name, names, pub)
  PROVE  /\ Owned(name, names, pub) \in SUBSET Objects
         /\ \A o \in Owned(name, names, pub) :
              o.top = Top /\ o.role \in {"toplevel", "function", "argument"}
         /\ \A o \in {Toplevel(Top)} \cup Reached(name, names) :
              o \in Owned(name, names, pub) \/ o \in public'
         /\ Owned(name, names, pub) \subseteq {Toplevel(Top)} \cup Reached(name, names)
         /\ public \subseteq public'
         /\ \A o \in public' \ public :
              /\ o \in Reached(name, names)
              /\ o.role \in {"function", "argument"} /\ o.top = Top
         /\ pub \in BOOLEAN /\ (pub => Owned(name, names, pub) = {Toplevel(Top)})
         /\ ~pub => public' = public
<1>1. \A o \in Reached(name, names) : o.role \in {"function", "argument"} /\ o.top = Top
  BY Fields DEF Reached
<1>2. Owned(name, names, pub) \in SUBSET Objects
  BY DeclarationTyped DEF Typed
<1>3. \A o \in Owned(name, names, pub) :
        o.top = Top /\ o.role \in {"toplevel", "function", "argument"}
  BY <1>1, Fields DEF Owned
<1>4. \A o \in public' \ public : o \in Reached(name, names)
  BY DEF Publish
<1>5. public \subseteq public' /\ (pub => Reached(name, names) \subseteq public')
  BY DEF Publish
<1>6. \A o \in {Toplevel(Top)} \cup Reached(name, names) :
        o \in Owned(name, names, pub) \/ o \in public'
  BY <1>5 DEF Owned
<1>7. Owned(name, names, pub) \subseteq {Toplevel(Top)} \cup Reached(name, names)
  BY DEF Owned
<1>8. (pub => Owned(name, names, pub) = {Toplevel(Top)}) /\ (~pub => public' = public)
  BY DEF Owned, Publish
<1> QED
  BY <1>1, <1>2, <1>3, <1>4, <1>5, <1>6, <1>7, <1>8

\* The statement that is parsed at the top level shares nothing with mod->scope.
LEMMA OwnedApart ==
  ASSUME Typed, Owns, pc = "file",
         NEW name \in Names, NEW names \in Signatures, NEW pub \in BOOLEAN,
         Publish(name, names, pub)
  PROVE  \A o \in Owned(name, names, pub) : o \notin public'
<1>1. Top \in Nat
  BY TopNat DEF Typed
<1>2. \A o \in public : o.role \in {"function", "argument"} /\ o.top < Top
  BY DEF Owns, ListsOwn, Over
<1>3. /\ pub => Owned(name, names, pub) = {Toplevel(Top)}
      /\ ~pub => public' = public
      /\ \A o \in Owned(name, names, pub) : o.top = Top
      /\ \A o \in public' \ public : o.role \in {"function", "argument"}
      /\ pub \in BOOLEAN
  BY DeclarationParts
<1>4. Toplevel(Top).role = "toplevel"
  BY Fields
<1>5. CASE pub
  BY <1>2, <1>3, <1>4, <1>5
<1>6. CASE ~pub
  BY <1>1, <1>2, <1>3, <1>6
<1> QED
  BY <1>5, <1>6

LEMMA OwnsDeclaration ==
  ASSUME Typed, Typed', Owns,
         NEW name \in Names, NEW names \in Signatures, NEW pub \in BOOLEAN,
         FnDeclaration(name, names, pub)
  PROVE  Owns'
<1> DEFINE reached == {Toplevel(Top)} \cup Reached(name, names)
           more == Owned(name, names, pub)
<1>1. /\ pc = "file" /\ pc' = "file" /\ body' = body /\ stmts' = Append(stmts, more)
      /\ Heap({Toplevel(Top), Scope(Top)} \cup Reached(name, names), {Scope(Top)})
      /\ Publish(name, names, pub)
  BY DEF FnDeclaration, AtToplevel, bodyVars
<1>2. /\ more \in SUBSET Objects
      /\ \A o \in more : o.top = Top /\ o.role \in {"toplevel", "function", "argument"}
      /\ \A o \in reached : o \in more \/ o \in public'
      /\ more \subseteq reached /\ public \subseteq public'
      /\ \A o \in public' \ public :
           o \in reached /\ o.role \in {"function", "argument"} /\ o.top = Top
  BY <1>1, DeclarationParts
<1>3. \A o \in more : o \notin public'
  BY <1>1, OwnedApart
<1>4. {Toplevel(Top), Scope(Top)} \cup Reached(name, names) = reached \cup {Scope(Top)}
  OBVIOUS
<1>5. \A o \in reached : o.role # "scope"
  BY Fields DEF Reached
<1> HIDE DEF reached, more
<1>6. live' = (live \cup reached \cup {Scope(Top)}) \ {Scope(Top)} /\ again' = {}
  BY <1>1, <1>4 DEF Heap, Owns
<1>7. /\ body = <<>> /\ Scope(0) \in live
      /\ \A o \in live : o = Scope(0) \/ Apart(o) \/ InStmts(o) \/ o \in public
  BY <1>1 DEF Owns, FileOwns
<1>8. Scope(Top).role = "scope" /\ Scope(0) # Scope(Top)
  BY Fields, StmtsKnown
<1>9. Scope(0) \in live' /\ \A o \in live : o.role # "scope" => o \in live'
  BY <1>6, <1>7, <1>8
<1>10. \A o \in reached : o \in live'
  BY <1>5, <1>6, <1>8
<1>11. \A o \in live' : o = Scope(0) \/ Apart(o) \/ InStmts(o) \/ o \in more \/ o \in public'
  BY <1>2, <1>6, <1>7
<1>12. \A o \in more : o \in live' /\ o.top = Top /\ o.role # "scope" /\ o \notin public'
  BY <1>2, <1>3, <1>10
<1>13. \A o \in public' : \/ o \in public
                          \/ o.role \in {"function", "argument"} /\ o.top = Top /\ o \in live'
  BY <1>2, <1>10
<1> QED
  BY <1>1, <1>2, <1>6, <1>7, <1>9, <1>11, <1>12, <1>13, OwnsToplevel

LEMMA OwnsDefinition ==
  ASSUME Typed, Typed', Owns,
         NEW name \in Names, NEW names \in Signatures, NEW pub \in BOOLEAN,
         FnDefinition(name, names, pub)
  PROVE  Owns'
<1> DEFINE reached == {Toplevel(Top)} \cup Reached(name, names)
           more == Owned(name, names, pub)
           frame == [stmt |-> 0, owns |-> {}]
<1>1. /\ pc = "file" /\ pc' = "open" /\ body' = <<>> /\ stmts' = stmts
      /\ Heap({Toplevel(Top), Scope(Top)} \cup Reached(name, names), {})
      /\ Publish(name, names, pub)
      /\ fn'.owns = more /\ calls' = <<frame>>
  BY DEF FnDefinition, AtToplevel
<1>2. /\ \A o \in more : o.top = Top /\ o.role \in {"toplevel", "function", "argument"}
      /\ \A o \in reached : o \in more \/ o \in public'
      /\ more \subseteq reached /\ public \subseteq public'
      /\ \A o \in public' \ public :
           o \in reached /\ o.role \in {"function", "argument"} /\ o.top = Top
  BY <1>1, DeclarationParts
<1>3. \A o \in more : o \notin public'
  BY <1>1, OwnedApart
<1>4. {Toplevel(Top), Scope(Top)} \cup Reached(name, names) = reached \cup {Scope(Top)}
  OBVIOUS
<1>5. \A o \in reached : o.role \in {"toplevel", "function", "argument"}
  BY Fields DEF Reached
<1>6. /\ Len(calls') = 1 /\ calls'[1].stmt = 0 /\ calls'[1].owns = {}
  BY <1>1
<1> HIDE DEF reached, more, frame
<1>7. live' = live \cup reached \cup {Scope(Top)} /\ again' = {}
  BY <1>1, <1>4 DEF Heap, Owns
<1>8. /\ Scope(0) \in live
      /\ \A o \in live : o = Scope(0) \/ Apart(o) \/ InStmts(o) \/ o \in public
      /\ ListsOwn
  BY <1>1 DEF Owns, FileOwns, Over
<1>9. /\ Top' = Top
      /\ \A o : (InStmts(o)' <=> InStmts(o)) /\ (OfBody(o)' <=> OfBody(o))
  BY <1>1, SameStatements
<1>10. /\ Top \in Nat /\ Top = Len(stmts) + 1 /\ Len(stmts) \in Nat
       /\ \A k \in 1..Len(stmts) : k # Top
  BY StmtsKnown
<1>11. ListsOwn'
  <2>1. ASSUME NEW k \in 1..Len(stmts), NEW o \in stmts[k]
        PROVE  o \in live' /\ o.top = k /\ o.role # "scope" /\ o \notin public'
    <3>1. o \in live /\ o.top = k /\ o.role # "scope" /\ o \notin public
      BY <1>8, <2>1 DEF ListsOwn
    <3>2. o.top # Top
      BY <1>10, <3>1
    <3> QED
      BY <1>2, <1>7, <3>1, <3>2
  <2>2. ASSUME NEW o \in public'
        PROVE  o \in live' /\ o.top <= Top /\ o.role \in {"function", "argument"}
    <3>1. CASE o \in public
      BY <1>7, <1>8, <3>1 DEF ListsOwn
    <3>2. CASE o \notin public
      BY <1>2, <1>7, <1>10, <2>2, <3>2
    <3> QED
      BY <3>1, <3>2
  <2>3. Module \in live'
    BY <1>7, <1>8 DEF ListsOwn
  <2> QED
    BY <1>1, <1>9, <2>1, <2>2, <2>3 DEF ListsOwn
<1>12. \A o \in live' : ~OfBody(o)
  <2>1. \A o \in live : ~OfBody(o)
    <3>1. Scope(0).role = "scope"
      BY Fields
    <3>2. \A o : InStmts(o) => o.top # Top
      BY <1>8, <1>10 DEF InStmts, ListsOwn
    <3>3. \A o \in public : o.role \in {"function", "argument"}
      BY <1>8 DEF ListsOwn
    <3>4. \A o : InStmts(o) => ~OfBody(o)
      BY <3>2 DEF OfBody
    <3>5. \A o \in public : ~OfBody(o)
      BY <3>3 DEF OfBody
    <3>6. ~OfBody(Scope(0))
      BY <3>1 DEF OfBody
    <3> QED
      BY <1>8, <3>4, <3>5, <3>6, ApartFields
  <2>2. \A o \in reached : ~OfBody(o)
    BY <1>5 DEF OfBody
  <2>3. ~OfBody(Scope(Top))
    BY Fields DEF OfBody
  <2> QED
    BY <1>7, <2>1, <2>2, <2>3
<1>13. CallsInOrder' /\ CallsOwn'
  <2>1. \A k \in 1..Len(calls') : k = 1
    BY <1>6
  <2>2. \A k \in 2..Len(calls') : FALSE
    BY <1>6
  <2>3. Len(body') = 0
    BY <1>1
  <2>4. CallsInOrder'
    BY <1>6, <2>1, <2>2, <2>3 DEF CallsInOrder
  <2>5. CallsOwn'
    BY <1>6, <1>9, <1>12, <2>1 DEF CallsOwn
  <2> QED
    BY <2>4, <2>5
<1>14. /\ Scope(0) \in live' /\ Scope(Top) \in live'
       /\ \A o \in more : /\ o.role \in {"toplevel", "function", "argument"}
                          /\ o.top = Top /\ o \in live' /\ o \notin public'
       /\ \A o \in live' : \/ o = Scope(0) \/ o = Scope(Top) \/ Apart(o) \/ o \in more
                           \/ InStmts(o) \/ o \in public'
  BY <1>2, <1>3, <1>7, <1>8
<1>15. FunctionOwns'
  BY <1>1, <1>9, <1>13, <1>14 DEF FunctionOwns
<1> QED
  BY <1>1, <1>7, <1>11, <1>15 DEF Owns, FileOwns, FailedOwns, Ends

LEMMA OwnsUnexpected ==
  ASSUME Typed, Typed', Owns,
         NEW name \in Names, NEW names \in Signatures, NEW pub \in BOOLEAN,
         FnUnexpected(name, names, pub)
  PROVE  Owns'
<1> DEFINE reached == {Toplevel(Top)} \cup Reached(name, names)
           more == Owned(name, names, pub)
<1>1. /\ pc = "file" /\ pc' = "failed" /\ stmts' = stmts
      /\ Heap({Toplevel(Top), Scope(Top)} \cup Reached(name, names), {Scope(Top)} \cup more)
      /\ Publish(name, names, pub)
      /\ scopes' = ExitScope(EnterScope(Declared(name, pub), ArgumentsOf(names, Top)))
  BY DEF FnUnexpected, AtToplevel
<1>2. /\ \A o \in more : o.top = Top /\ o.role \in {"toplevel", "function", "argument"}
      /\ \A o \in reached : o \in more \/ o \in public'
      /\ more \subseteq reached /\ public \subseteq public'
      /\ \A o \in public' \ public :
           o \in reached /\ o.role \in {"function", "argument"} /\ o.top = Top
  BY <1>1, DeclarationParts
<1>3. \A o \in more : o \notin public'
  BY <1>1, OwnedApart
<1>4. {Toplevel(Top), Scope(Top)} \cup Reached(name, names) = reached \cup {Scope(Top)}
  OBVIOUS
<1>5. Len(scopes') = 1
  BY <1>1, DeclaredTyped
<1> HIDE DEF reached, more
<1>6. live' = (live \cup reached \cup {Scope(Top)}) \ ({Scope(Top)} \cup more) /\ again' = {}
  <2>1. Heap(reached \cup {Scope(Top)}, {Scope(Top)} \cup more)
    BY <1>1, <1>4
  <2>2. live' = (live \cup (reached \cup {Scope(Top)})) \ ({Scope(Top)} \cup more)
    BY <2>1 DEF Heap
  <2>3. ({Scope(Top)} \cup more) \ (live \cup (reached \cup {Scope(Top)})) = {}
    BY <1>2
  <2> QED
    BY <2>1, <2>2, <2>3 DEF Heap, Owns
<1>7. /\ Scope(0) \in live
      /\ \A o \in live : o = Scope(0) \/ Apart(o) \/ InStmts(o) \/ o \in public
      /\ ListsOwn
  BY <1>1 DEF Owns, FileOwns, Over
<1>8. Top' = Top /\ \A o : InStmts(o)' <=> InStmts(o)
  BY <1>1, SameStatements
<1>9. /\ Top \in Nat /\ \A k \in 1..Len(stmts) : k # Top
      /\ Scope(0) # Scope(Top) /\ Scope(0).role = "scope" /\ Scope(Top).role = "scope"
  BY StmtsKnown, Fields
<1>10. ListsOwn'
  <2>1. ASSUME NEW k \in 1..Len(stmts), NEW o \in stmts[k]
        PROVE  o \in live' /\ o.top = k /\ o.role # "scope" /\ o \notin public'
    <3>1. o \in live /\ o.top = k /\ o.role # "scope" /\ o \notin public
      BY <1>7, <2>1 DEF ListsOwn
    <3>2. o.top # Top
      BY <1>9, <3>1
    <3> QED
      BY <1>2, <1>6, <1>9, <3>1, <3>2
  <2>2. ASSUME NEW o \in public'
        PROVE  o \in live' /\ o.top <= Top /\ o.role \in {"function", "argument"}
    <3>1. CASE o \in public
      <4>1. o \in live /\ o.top <= Top /\ o.role \in {"function", "argument"}
        BY <1>7, <3>1 DEF ListsOwn
      <4> QED
        BY <1>3, <1>6, <1>9, <2>2, <4>1
    <3>2. CASE o \notin public
      BY <1>2, <1>3, <1>6, <1>9, <2>2, <3>2
    <3> QED
      BY <3>1, <3>2
  <2>3. Module \in live'
    <3>1. Module.role = "module" /\ Module \in live
      BY <1>7, Fields DEF ListsOwn
    <3> QED
      BY <1>2, <1>6, <1>9, <3>1
  <2> QED
    BY <1>1, <1>8, <2>1, <2>2, <2>3 DEF ListsOwn
<1>11. Current' = Scope(0)
  BY <1>5 DEF Current
<1>12. Scope(0) \in live'
  BY <1>2, <1>6, <1>7, <1>9
<1>13. \A o \in live' : o = Scope(0) \/ Apart(o) \/ InStmts(o) \/ o \in public'
  BY <1>2, <1>6, <1>7
<1>14. FailedOwns'
  BY <1>8, <1>11, <1>12, <1>13 DEF FailedOwns
<1> QED
  BY <1>1, <1>6, <1>10, <1>14 DEF Owns, FileOwns, FunctionOwns, Ends

LEMMA OwnsUndeclared ==
  ASSUME Typed, Typed', Owns, NEW names \in Signatures, FnUndeclared(names)
  PROVE  Owns'
<1> DEFINE new == {Argument(names[k], Top, k) : k \in DOMAIN names}
<1>1. /\ pc = "file" /\ pc' = "failed" /\ stmts' = stmts /\ public' = public /\ body' = body
      /\ Heap({Scope(Top)} \cup new, {})
      /\ scopes' = EnterScope(scopes, <<>>)
  BY DEF FnUndeclared, AtToplevel, bodyVars
<1>2. \A o \in new : o.role = "argument" /\ o.top = Top
  BY Fields
<1>3. Len(scopes') = 2
  <2>1. scopes \in Seq(Seq(Objects)) /\ <<>> \in Seq(Objects)
    BY DEF Typed, TypeOK
  <2>2. Len(EnterScope(scopes, <<>>)) = Len(scopes) + 1
    BY <2>1, ScopesTyped
  <2>3. Len(scopes) = 1
    BY <1>1 DEF Typed, Shape
  <2> QED
    BY <1>1, <2>2, <2>3
<1> HIDE DEF new
<1>4. live' = live \cup {Scope(Top)} \cup new /\ again' = {}
  BY <1>1 DEF Heap, Owns
<1>5. /\ body = <<>>
      /\ \A o \in live : o = Scope(0) \/ Apart(o) \/ InStmts(o) \/ o \in public
      /\ ListsOwn
  BY <1>1 DEF Owns, FileOwns, Over
<1>6. Top' = Top /\ \A o : InStmts(o)' <=> InStmts(o)
  BY <1>1, SameStatements
<1>7. Current' = Scope(Top)
  BY <1>3, <1>6 DEF Current
<1>8. ListsOwn'
  BY <1>1, <1>4, <1>5, <1>6 DEF ListsOwn
<1>9. \A o \in live' : o = Scope(Top) \/ Apart(o) \/ InStmts(o) \/ o \in public \/ Left(o)'
  BY <1>1, <1>2, <1>4, <1>5, <1>6 DEF Left
<1>10. FailedOwns'
  BY <1>1, <1>4, <1>6, <1>7, <1>9 DEF FailedOwns
<1> QED
  BY <1>1, <1>4, <1>8, <1>10 DEF Owns, FileOwns, FunctionOwns, Ends

\* A step inside a body that keeps everything outside it as it was.
LEMMA OwnsBody ==
  ASSUME Typed, Owns, pc \in {"open", "block", "unwind"}, pc' \in {"open", "block", "unwind"},
         UNCHANGED <<fn, public, stmts>>, again' = {},
         \A o \in live : ~OfBody(o) => o \in live',
         \A o \in live' : o \in live \/ OfBody(o),
         CallsInOrder', pc' # "unwind" => CallsOwn'
  PROVE  Owns'
<1>1. /\ Top' = Top
      /\ \A o : (InStmts(o)' <=> InStmts(o)) /\ (OfBody(o)' <=> OfBody(o))
  BY SameStatements
<1>2. ListsOwn
  BY DEF Owns, Over
<1>3. /\ Scope(0) \in live /\ Scope(Top) \in live
      /\ \A o \in fn.owns : /\ o.role \in {"toplevel", "function", "argument"}
                            /\ o.top = Top /\ o \in live /\ o \notin public
      /\ \A o \in live : \/ o = Scope(0) \/ o = Scope(Top) \/ Apart(o) \/ o \in fn.owns
                         \/ InStmts(o) \/ o \in public \/ OfBody(o)
  BY DEF Owns, FunctionOwns
<1>4. ~OfBody(Scope(0)) /\ ~OfBody(Scope(Top))
  BY Fields DEF OfBody
<1>5. \A o \in fn.owns : ~OfBody(o)
  BY <1>3 DEF OfBody
<1>6. \A o \in public : ~OfBody(o)
  BY <1>2 DEF ListsOwn, OfBody
<1>7. \A k \in 1..Len(stmts) : \A o \in stmts[k] : ~OfBody(o)
  <2>1. \A k \in 1..Len(stmts) : k # Top
    BY StmtsKnown
  <2> QED
    BY <1>2, <2>1 DEF ListsOwn, OfBody
<1>8. ListsOwn'
  <2>1. Module \in live'
    BY <1>2, Fields DEF ListsOwn, OfBody
  <2> QED
    BY <1>1, <1>2, <1>6, <1>7, <2>1 DEF ListsOwn
<1>9. FunctionOwns'
  <2>1. Scope(0) \in live' /\ Scope(Top) \in live'
    BY <1>3, <1>4
  <2>2. \A o \in fn.owns : /\ o.role \in {"toplevel", "function", "argument"}
                           /\ o.top = Top /\ o \in live' /\ o \notin public
    BY <1>3, <1>5
  <2>3. \A o \in live' : \/ o = Scope(0) \/ o = Scope(Top) \/ Apart(o) \/ o \in fn.owns
                         \/ InStmts(o) \/ o \in public \/ OfBody(o)
    BY <1>3
  <2> QED
    BY <1>1, <2>1, <2>2, <2>3 DEF FunctionOwns
<1> QED
  BY <1>8, <1>9 DEF Owns, FileOwns, FailedOwns, Ends

\* The frames after a statement of no block, or a block, has been kept.
LEMMA KeptFrames ==
  ASSUME NEW frames \in Seq(Frames), NEW n, n = Len(frames), n >= 1,
         NEW new \in SUBSET Objects, NEW after, after = Keeps(frames, new)
  PROVE  /\ n \in Nat /\ Len(after) = n
         /\ \A k \in 1..n : after[k].stmt = frames[k].stmt
         /\ \A k \in 1..n : \A o : o \in after[k].owns <=>
              o \in frames[k].owns \/ (k = n /\ o \in new)
<1>1. /\ Len(after) = n
      /\ \A k \in 1..n : after[k].stmt = frames[k].stmt
      /\ \A k \in 1..(n - 1) : after[k] = frames[k]
      /\ after[n].owns = frames[n].owns \cup new
  BY KeepsTyped
<1>2. n \in Nat
  OBVIOUS
<1> HIDE DEF Keeps
<1>3. \A k \in 1..n : k = n \/ (k # n /\ k \in 1..(n - 1))
  BY <1>2
<1> QED
  BY <1>1, <1>2, <1>3

\* Where there is a function, what is known of its calls.
LEMMA CallsKnown ==
  ASSUME Typed, Owns, pc \in {"open", "block", "unwind"}, NEW n, n = Len(calls)
  PROVE  /\ calls \in Seq(Frames) /\ n \in Nat /\ n >= 1
         /\ \A k \in 1..n : calls[k].stmt \in Nat /\ calls[k].owns \in SUBSET Objects
         /\ \A k \in 2..n : Statement(Top, calls[k].stmt) \in live
         /\ \A k, l \in 1..n : k < l => calls[k].stmt < calls[l].stmt
         /\ \A k \in 1..n : calls[k].stmt <= Len(body)
         /\ pc # "unwind" =>
              /\ \A k \in 1..n : \A o \in calls[k].owns : o \in live /\ OfBody(o)
              /\ \A o \in live : OfBody(o) => InFrames(o)
         /\ Len(body) \in Nat /\ Top \in Nat
<1>1. calls # <<>>
  BY DEF Typed, Shape
<1>2. calls \in Seq(Frames) /\ n \in Nat /\ n >= 1
  BY <1>1, FrameTyped
<1>3. \A k \in 1..n : calls[k] \in Frames
  BY <1>2, ElementTyped
<1>4. \A k \in 1..n : calls[k].stmt \in Nat /\ calls[k].owns \in SUBSET Objects
  BY <1>3 DEF Frames
<1>5. CallsInOrder /\ (pc # "unwind" => CallsOwn)
  BY DEF Owns, FunctionOwns
<1>6. Len(body) \in Nat /\ Top \in Nat
  BY TopNat DEF Typed, TypeOK
<1> QED
  BY <1>2, <1>4, <1>5, <1>6 DEF CallsInOrder, CallsOwn

LEMMA OwnsLeaf ==
  ASSUME Typed, Typed', Owns, AtStatement, NEW kind, Parsed(kind),
         NEW new \in SUBSET Objects, \A o \in new : OfBody(o),
         Heap(new, {}), calls' = Keeps(calls, new), UNCHANGED <<pc, public, stmts>>
  PROVE  Owns'
<1> DEFINE n == Len(calls)
<1>1. pc = "block" /\ pc' = "block"
  BY DEF AtStatement
<1>2. /\ calls \in Seq(Frames) /\ n \in Nat /\ n >= 1
      /\ \A k \in 2..n : Statement(Top, calls[k].stmt) \in live
      /\ \A k, l \in 1..n : k < l => calls[k].stmt < calls[l].stmt
      /\ \A k \in 1..n : calls[k].stmt \in Nat /\ calls[k].stmt <= Len(body)
      /\ \A k \in 1..n : \A o \in calls[k].owns : o \in live /\ OfBody(o)
      /\ \A o \in live : OfBody(o) => InFrames(o)
      /\ Len(body) \in Nat
  BY <1>1, CallsKnown
<1>3. live' = live \cup new /\ again' = {}
  BY DEF Heap, Owns
<1>4. Len(body') = Len(body) + 1 /\ fn' = fn
  BY DEF Parsed, Typed, TypeOK
<1>5. Top' = Top /\ \A o : OfBody(o)' <=> OfBody(o)
  BY SameStatements
<1>6. /\ Len(calls') = n
      /\ \A k \in 1..n : calls'[k].stmt = calls[k].stmt
      /\ \A k \in 1..n : \A o : o \in calls'[k].owns <=>
           o \in calls[k].owns \/ (k = n /\ o \in new)
  BY <1>2, KeptFrames
<1>7. \A o : InFrames(o) <=> \E k \in 1..n : o \in calls[k].owns \/ (k >= 2 /\ o = Statement(Top, calls[k].stmt))
  BY DEF InFrames
<1>8. \A o : InFrames(o)' <=> \E k \in 1..n : o \in calls'[k].owns \/ (k >= 2 /\ o = Statement(Top, calls'[k].stmt))
  BY <1>5, <1>6 DEF InFrames
<1> HIDE DEF n
<1>9. n \in 1..n /\ \A k \in 2..n : k \in 1..n
  BY <1>2
<1>10. CallsInOrder'
  <2>1. \A k \in 2..n : Statement(Top, calls'[k].stmt) \in live'
    BY <1>2, <1>3, <1>6, <1>9
  <2>2. \A k, l \in 1..n : k < l => calls'[k].stmt < calls'[l].stmt
    BY <1>2, <1>6
  <2>3. \A k \in 1..n : calls'[k].stmt <= Len(body')
    BY <1>2, <1>4, <1>6
  <2> QED
    BY <1>5, <1>6, <2>1, <2>2, <2>3 DEF CallsInOrder
<1>11. CallsOwn'
  <2>1. \A k \in 1..n : \A o \in calls'[k].owns : o \in live' /\ OfBody(o)
    BY <1>2, <1>3, <1>6
  <2>2. \A o : InFrames(o) \/ o \in new => InFrames(o)'
    BY <1>6, <1>7, <1>8, <1>9
  <2>3. \A o \in live' : OfBody(o) => InFrames(o)'
    BY <1>2, <1>3, <2>2
  <2> QED
    BY <1>5, <1>6, <2>1, <2>3 DEF CallsOwn
<1>12. (\A o \in live : o \in live') /\ \A o \in live' : o \in live \/ OfBody(o)
  BY <1>3
<1> QED
  BY <1>1, <1>3, <1>4, <1>10, <1>11, <1>12, OwnsBody

LEMMA OwnsHeader ==
  ASSUME Typed, Typed', Owns, NEW kind, Header(kind)
  PROVE  Owns'
<1> DEFINE n == Len(calls)
           new == Statement(Top, Here)
           frame == [stmt |-> Here, owns |-> {}]
<1>1. /\ pc = "block" /\ pc' = "open" /\ Parsed(kind) /\ Heap({new}, {})
      /\ calls' = Append(calls, frame)
      /\ UNCHANGED <<scopes, public, stmts>>
  BY DEF Header, AtStatement
<1>2. /\ calls \in Seq(Frames) /\ n \in Nat /\ n >= 1
      /\ \A k \in 2..n : Statement(Top, calls[k].stmt) \in live
      /\ \A k, l \in 1..n : k < l => calls[k].stmt < calls[l].stmt
      /\ \A k \in 1..n : calls[k].stmt \in Nat /\ calls[k].stmt <= Len(body)
      /\ \A k \in 1..n : \A o \in calls[k].owns : o \in live /\ OfBody(o)
      /\ \A o \in live : OfBody(o) => InFrames(o)
      /\ Len(body) \in Nat
  BY <1>1, CallsKnown
<1>3. live' = live \cup {new} /\ again' = {}
  BY <1>1 DEF Heap, Owns
<1>4. Len(body') = Len(body) + 1 /\ fn' = fn /\ Here = Len(body) + 1
  BY <1>1 DEF Parsed, Typed, TypeOK, Here
<1>5. Top' = Top /\ \A o : OfBody(o)' <=> OfBody(o)
  BY <1>1, SameStatements
<1>6. OfBody(new)
  BY Fields DEF OfBody
<1>7. frame \in Frames /\ frame.stmt = Here /\ frame.owns = {}
  BY <1>2, <1>4 DEF Frames
<1> HIDE DEF frame
<1>8. /\ Len(calls') = n + 1 /\ calls'[n + 1] = frame
      /\ \A k \in 1..n : calls'[k] = calls[k]
  BY <1>1, <1>2, <1>7, AppendProperties
<1>9. \A o : InFrames(o) <=> \E k \in 1..n : o \in calls[k].owns \/ (k >= 2 /\ o = Statement(Top, calls[k].stmt))
  BY DEF InFrames
<1>10. \A o : InFrames(o)' <=> \E k \in 1..(n + 1) : o \in calls'[k].owns \/ (k >= 2 /\ o = Statement(Top, calls'[k].stmt))
  BY <1>5, <1>8 DEF InFrames
<1>11. new = Statement(Top, Here)
  OBVIOUS
<1> HIDE DEF n, new
<1>12. /\ \A k \in 1..(n + 1) : k \in 1..n \/ k = n + 1
       /\ \A k \in 1..n : k \in 1..(n + 1) /\ k # n + 1
       /\ n + 1 \in 1..(n + 1) /\ n + 1 >= 2
       /\ \A k \in 2..(n + 1) : k \in 2..n \/ k = n + 1
       /\ \A k \in 2..n : k \in 1..n
  BY <1>2
<1>13. CallsInOrder'
  <2>1. \A k \in 2..(n + 1) : Statement(Top, calls'[k].stmt) \in live'
    BY <1>2, <1>3, <1>7, <1>8, <1>11, <1>12
  <2>2. ASSUME NEW k \in 1..(n + 1), NEW l \in 1..(n + 1), k < l
        PROVE  calls'[k].stmt < calls'[l].stmt
    <3>1. k \in 1..n
      BY <1>2, <2>2
    <3>2. CASE l \in 1..n
      BY <1>2, <1>8, <2>2, <3>1, <3>2
    <3>3. CASE l = n + 1
      BY <1>2, <1>4, <1>7, <1>8, <3>1, <3>3
    <3> QED
      BY <1>12, <3>2, <3>3
  <2>3. \A k \in 1..(n + 1) : calls'[k].stmt <= Len(body')
    BY <1>2, <1>4, <1>7, <1>8, <1>12
  <2> QED
    BY <1>5, <1>8, <2>1, <2>2, <2>3 DEF CallsInOrder
<1>14. CallsOwn'
  <2>1. \A k \in 1..(n + 1) : \A o \in calls'[k].owns : o \in live' /\ OfBody(o)
    BY <1>2, <1>3, <1>7, <1>8, <1>12
  <2>2. ASSUME NEW o, o = new PROVE InFrames(o)'
    <3>1. o = Statement(Top, calls'[n + 1].stmt)
      BY <1>7, <1>8, <1>11, <2>2
    <3> QED
      BY <1>10, <1>12, <3>1
  <2>3. ASSUME NEW o, InFrames(o) PROVE InFrames(o)'
    BY <1>8, <1>9, <1>10, <1>12, <2>3
  <2>4. \A o \in live' : OfBody(o) => InFrames(o)'
    BY <1>2, <1>3, <2>2, <2>3
  <2> QED
    BY <1>5, <1>8, <2>1, <2>4 DEF CallsOwn
<1>15. (\A o \in live : o \in live') /\ \A o \in live' : o \in live \/ OfBody(o)
  BY <1>3, <1>6
<1> QED
  BY <1>1, <1>3, <1>4, <1>13, <1>14, <1>15, OwnsBody

LEMMA OwnsBlockEnd ==
  ASSUME Typed, Typed', Owns, BlockEnd
  PROVE  Owns'
<1> DEFINE n == Len(calls)
           last == Statement(Top, Frame.stmt)
           new == {last} \cup Frame.owns
<1>1. /\ pc = "block" /\ pc' = "block" /\ n > 1
      /\ calls' = Keeps(Callers, new)
      /\ body' = [body EXCEPT ![Frame.stmt].last = Len(body)]
      /\ UNCHANGED <<fn, scopes, public, stmts, live, again>>
  BY DEF BlockEnd, heapVars
<1>2. /\ calls \in Seq(Frames) /\ n \in Nat /\ n >= 1
      /\ \A k \in 2..n : Statement(Top, calls[k].stmt) \in live
      /\ \A k, l \in 1..n : k < l => calls[k].stmt < calls[l].stmt
      /\ \A k \in 1..n : calls[k].stmt \in Nat /\ calls[k].stmt <= Len(body)
      /\ \A k \in 1..n : calls[k].owns \in SUBSET Objects
      /\ \A k \in 1..n : \A o \in calls[k].owns : o \in live /\ OfBody(o)
      /\ \A o \in live : OfBody(o) => InFrames(o)
      /\ Len(body) \in Nat
  BY <1>1, CallsKnown
<1>3. Top' = Top /\ \A o : OfBody(o)' <=> OfBody(o)
  BY <1>1, SameStatements
<1>4. Len(body') = Len(body)
  <2>1. body \in Seq(Statements) /\ body' = Ended(body, Frame.stmt, Len(body))
    BY <1>1 DEF Typed, TypeOK, Statements, Ended
  <2> QED
    BY <1>2, <2>1, LastTyped
<1>5. calls # <<>>
  BY <1>1 DEF Typed, Shape
<1>6. /\ Callers \in Seq(Frames) /\ Len(Callers) = n - 1
      /\ \A k \in 1..(n - 1) : Callers[k] = calls[k]
  BY <1>5, FrameTyped
<1>7. Frame = calls[n]
  BY DEF Frame
<1>8. n \in 2..n /\ n \in 1..n
  BY <1>1, <1>2
<1>9. last \in live /\ OfBody(last) /\ last \in Objects
  <2>1. last \in live
    BY <1>2, <1>7, <1>8
  <2> QED
    BY <2>1, Fields DEF OfBody, Typed, TypeOK
<1>10. new \in SUBSET Objects /\ \A o \in new : o \in live /\ OfBody(o)
  BY <1>2, <1>7, <1>8, <1>9
<1>11. \A o : o \in new <=> o = Statement(Top, calls[n].stmt) \/ o \in calls[n].owns
  BY <1>7
<1>12. \A o : InFrames(o) <=> \E k \in 1..n : o \in calls[k].owns \/ (k >= 2 /\ o = Statement(Top, calls[k].stmt))
  BY DEF InFrames
<1> HIDE DEF n, new, last
<1>13. n - 1 >= 1 /\ n - 1 \in Nat
  BY <1>1, <1>2
<1>14. /\ Len(calls') = n - 1
       /\ \A k \in 1..(n - 1) : calls'[k].stmt = calls[k].stmt
       /\ \A k \in 1..(n - 1) : \A o : o \in calls'[k].owns <=>
            o \in calls[k].owns \/ (k = n - 1 /\ o \in new)
  <2> DEFINE m == n - 1
             frames == Callers
  <2>1. frames \in Seq(Frames) /\ m = Len(frames) /\ m >= 1 /\ new \in SUBSET Objects /\ calls' = Keeps(frames, new)
    BY <1>1, <1>6, <1>10, <1>13
  <2> HIDE DEF m, frames
  <2>2. /\ m \in Nat /\ Len(calls') = m
        /\ \A k \in 1..m : calls'[k].stmt = frames[k].stmt
        /\ \A k \in 1..m : \A o : o \in calls'[k].owns <=>
             o \in frames[k].owns \/ (k = m /\ o \in new)
    BY <2>1, KeptFrames
  <2> QED
    BY <1>6, <2>2 DEF m, frames
<1>15. \A o : InFrames(o)' <=> \E k \in 1..(n - 1) : o \in calls'[k].owns \/ (k >= 2 /\ o = Statement(Top, calls'[k].stmt))
  BY <1>3, <1>14 DEF InFrames
<1>16. /\ \A k \in 1..(n - 1) : k \in 1..n
       /\ \A k \in 1..n : k \in 1..(n - 1) \/ k = n
       /\ \A k \in 2..(n - 1) : k \in 2..n /\ k \in 1..(n - 1)
       /\ n - 1 \in 1..(n - 1)
  BY <1>1, <1>2
<1>17. CallsInOrder'
  <2>1. \A k \in 2..(n - 1) : Statement(Top, calls'[k].stmt) \in live'
    BY <1>1, <1>2, <1>14, <1>16
  <2>2. \A k, l \in 1..(n - 1) : k < l => calls'[k].stmt < calls'[l].stmt
    BY <1>2, <1>14, <1>16
  <2>3. \A k \in 1..(n - 1) : calls'[k].stmt <= Len(body')
    BY <1>2, <1>4, <1>14, <1>16
  <2> QED
    BY <1>3, <1>14, <2>1, <2>2, <2>3 DEF CallsInOrder
<1>18. CallsOwn'
  <2>1. \A k \in 1..(n - 1) : \A o \in calls'[k].owns : o \in live' /\ OfBody(o)
    BY <1>1, <1>2, <1>10, <1>14, <1>16
  <2>2. ASSUME NEW o, InFrames(o) PROVE InFrames(o)'
    <3>1. PICK k \in 1..n : o \in calls[k].owns \/ (k >= 2 /\ o = Statement(Top, calls[k].stmt))
      BY <1>12, <2>2
    <3>2. CASE k \in 1..(n - 1)
      BY <1>14, <1>15, <3>1, <3>2
    <3>3. CASE k = n
      BY <1>11, <1>14, <1>15, <1>16, <3>1, <3>3
    <3> QED
      BY <1>16, <3>2, <3>3
  <2>3. \A o \in live' : OfBody(o) => InFrames(o)'
    BY <1>1, <1>2, <2>2
  <2> QED
    BY <1>3, <1>14, <2>1, <2>3 DEF CallsOwn
<1>19. (\A o \in live : o \in live') /\ (\A o \in live' : o \in live \/ OfBody(o)) /\ again' = {}
  BY <1>1 DEF Owns
<1> QED
  BY <1>1, <1>17, <1>18, <1>19, OwnsBody

LEMMA OwnsUnwind ==
  ASSUME Typed, Typed', Owns, Unwind
  PROVE  Owns'
<1> DEFINE n == Len(calls)
           last == Statement(Top, Frame.stmt)
<1>1. /\ pc = "unwind" /\ pc' = "unwind" /\ n > 1
      /\ calls' = Callers /\ Heap({}, {last})
      /\ UNCHANGED <<body, fn, scopes, public, stmts>>
  BY DEF Unwind
<1>2. /\ n \in Nat
      /\ \A k \in 2..n : Statement(Top, calls[k].stmt) \in live
      /\ \A k, l \in 1..n : k < l => calls[k].stmt < calls[l].stmt
      /\ \A k \in 1..n : calls[k].stmt \in Nat /\ calls[k].stmt <= Len(body)
      /\ Len(body) \in Nat
  BY <1>1, CallsKnown
<1>3. Top' = Top
  BY <1>1, SameStatements
<1>4. calls # <<>>
  BY <1>1 DEF Typed, Shape
<1>5. Len(Callers) = n - 1 /\ \A k \in 1..(n - 1) : Callers[k] = calls[k]
  BY <1>4, FrameTyped
<1>6. last = Statement(Top, calls[n].stmt) /\ OfBody(last)
  BY Fields DEF Frame, OfBody
<1> HIDE DEF n, last
<1>7. n \in 2..n /\ n \in 1..n /\ \A k \in 2..(n - 1) : k \in 2..n /\ k \in 1..n /\ k < n /\ k \in 1..(n - 1)
  BY <1>1, <1>2
<1>8. last \in live
  BY <1>2, <1>6, <1>7
<1>9. live' = live \ {last} /\ again' = {}
  BY <1>1, <1>8 DEF Heap, Owns
<1>10. ASSUME NEW k \in 2..(n - 1) PROVE Statement(Top, calls'[k].stmt) \in live'
  <2>1. calls'[k] = calls[k] /\ Statement(Top, calls[k].stmt) \in live
    BY <1>1, <1>2, <1>5, <1>7
  <2>2. calls[k].stmt < calls[n].stmt /\ calls[k].stmt \in Nat /\ calls[n].stmt \in Nat
    BY <1>2, <1>7
  <2>3. Statement(Top, calls[k].stmt).stmt = calls[k].stmt /\ last.stmt = calls[n].stmt
    BY <1>6, Fields
  <2> QED
    BY <1>9, <2>1, <2>2, <2>3
<1>11. \A k \in 1..(n - 1) : k \in 1..n
  BY <1>2
<1>12. CallsInOrder'
  BY <1>1, <1>2, <1>3, <1>5, <1>10, <1>11 DEF CallsInOrder
<1>13. (\A o \in live : ~OfBody(o) => o \in live') /\ \A o \in live' : o \in live
  BY <1>6, <1>9
<1> QED
  BY <1>1, <1>9, <1>12, <1>13, OwnsBody

\* parse_fn_definition gives what its function has to the file.
LEMMA OwnsFnEnd ==
  ASSUME Typed, Typed', Owns, FnEnd
  PROVE  Owns'
<1> DEFINE n == Len(calls)
           kept == calls[1].owns
           more == fn.owns \cup kept
           scope == Scope(Top)
<1>1. /\ pc = "block" /\ pc' = "file" /\ body' = <<>> /\ n = 1
      /\ stmts' = Append(stmts, fn.owns \cup Frame.owns)
      /\ Heap({}, {scope}) /\ public' = public
  BY DEF FnEnd
<1>2. Frame = calls[1] /\ stmts' = Append(stmts, more)
  BY <1>1 DEF Frame
<1>3. /\ n \in Nat
      /\ \A k \in 1..n : calls[k].stmt \in Nat /\ calls[k].owns \in SUBSET Objects
      /\ \A k \in 1..n : \A o \in calls[k].owns : o \in live /\ OfBody(o)
      /\ \A o \in live : OfBody(o) => InFrames(o)
  BY <1>1, CallsKnown
<1>4. kept \in SUBSET Objects /\ \A o \in kept : o \in live /\ OfBody(o)
  BY <1>1, <1>3
<1>5. \A o \in live : OfBody(o) => o \in kept
  <2>1. \A k \in 1..n : k = 1
    BY <1>1
  <2> QED
    BY <1>3, <2>1 DEF InFrames
<1>6. /\ Scope(0) \in live /\ scope \in live
      /\ \A o \in fn.owns : /\ o.role \in {"toplevel", "function", "argument"}
                            /\ o.top = Top /\ o \in live /\ o \notin public
      /\ \A o \in live : \/ o = Scope(0) \/ o = scope \/ Apart(o) \/ o \in fn.owns
                         \/ InStmts(o) \/ o \in public \/ OfBody(o)
  BY <1>1 DEF Owns, FunctionOwns
<1>7. \A o \in public : o \in live /\ o.role \in {"function", "argument"}
  BY <1>1 DEF Owns, Over, ListsOwn
<1>8. fn.owns \in SUBSET Objects
  BY DEF Typed, TypeOK
<1>9. scope.role = "scope" /\ Scope(0) # scope
  BY Fields, StmtsKnown
<1>10. \A o \in kept : o.role \in {"statement", "local"} /\ o.top = Top
  BY <1>4 DEF OfBody
<1> HIDE DEF n, kept, scope
<1>11. live' = live \ {scope} /\ again' = {}
  BY <1>1, <1>6 DEF Heap, Owns
<1>12. more \in SUBSET Objects /\ \A o : o \in more <=> o \in fn.owns \/ o \in kept
  BY <1>4, <1>8
<1> HIDE DEF more
<1>13. \A o \in more : o \in live' /\ o.top = Top /\ o.role # "scope" /\ o \notin public'
  BY <1>1, <1>4, <1>6, <1>7, <1>9, <1>10, <1>11, <1>12
<1>14. \A o \in live : o.role # "scope" => o \in live'
  BY <1>9, <1>11
<1>15. Scope(0) \in live'
  BY <1>6, <1>9, <1>11
<1>16. \A o \in live' : o = Scope(0) \/ Apart(o) \/ InStmts(o) \/ o \in more \/ o \in public'
  BY <1>1, <1>5, <1>6, <1>11, <1>12
<1> QED
  BY <1>1, <1>2, <1>11, <1>12, <1>13, <1>14, <1>15, <1>16, OwnsToplevel

\* parse_fn_definition frees its function, whose statements are lost.
LEMMA OwnsFnUnwind ==
  ASSUME Typed, Typed', Owns, FnUnwind
  PROVE  Owns'
<1> DEFINE scope == Scope(Top)
<1>1. /\ pc = "unwind" /\ pc' = "failed" /\ scopes' = ExitScope(scopes)
      /\ Heap({}, fn.owns \cup {scope})
      /\ UNCHANGED <<body, public, stmts>>
  BY DEF FnUnwind
<1>2. Len(scopes') = 1
  <2>1. scopes \in Seq(Seq(Objects))
    BY DEF Typed, TypeOK
  <2>2. Len(scopes) = 2
    BY <1>1 DEF Typed, Shape
  <2>3. Len(scopes) >= 1
    BY <2>2
  <2>4. Len(ExitScope(scopes)) = Len(scopes) - 1
    BY <2>1, <2>3, ExitTyped
  <2> QED
    BY <1>1, <2>2, <2>4
<1>3. /\ Scope(0) \in live /\ scope \in live
      /\ \A o \in fn.owns : /\ o.role \in {"toplevel", "function", "argument"}
                            /\ o.top = Top /\ o \in live /\ o \notin public
      /\ \A o \in live : \/ o = Scope(0) \/ o = scope \/ Apart(o) \/ o \in fn.owns
                         \/ InStmts(o) \/ o \in public \/ OfBody(o)
      /\ ListsOwn
  BY <1>1 DEF Owns, FunctionOwns, Over
<1>4. /\ Top' = Top
      /\ \A o : (InStmts(o)' <=> InStmts(o)) /\ (OfBody(o)' <=> OfBody(o))
  BY <1>1, SameStatements
<1>5. scope.role = "scope" /\ Scope(0) # scope /\ Scope(0).role = "scope"
  BY Fields, StmtsKnown
<1>6. \A k \in 1..Len(stmts) : k # Top
  BY StmtsKnown
<1> HIDE DEF scope
<1>7. live' = live \ (fn.owns \cup {scope}) /\ again' = {}
  BY <1>1, <1>3 DEF Heap, Owns
<1>8. Current' = Scope(0)
  BY <1>2 DEF Current
<1>9. ListsOwn'
  <2>1. ASSUME NEW k \in 1..Len(stmts), NEW o \in stmts[k]
        PROVE  o \in live' /\ o.top = k /\ o.role # "scope" /\ o \notin public
    <3>1. o \in live /\ o.top = k /\ o.role # "scope" /\ o \notin public
      BY <1>3, <2>1 DEF ListsOwn
    <3> QED
      BY <1>3, <1>5, <1>6, <1>7, <3>1
  <2>2. ASSUME NEW o \in public
        PROVE  o \in live' /\ o.top <= Top /\ o.role \in {"function", "argument"}
    <3>1. o \in live /\ o.top <= Top /\ o.role \in {"function", "argument"}
      BY <1>3, <2>2 DEF ListsOwn
    <3> QED
      BY <1>3, <1>5, <1>7, <2>2, <3>1
  <2>3. Module \in live'
    <3>1. Module.role = "module" /\ Module \in live
      BY <1>3, Fields DEF ListsOwn
    <3> QED
      BY <1>3, <1>5, <1>7, <3>1
  <2> QED
    BY <1>1, <1>4, <2>1, <2>2, <2>3 DEF ListsOwn
<1>10. Scope(0) \in live'
  BY <1>3, <1>5, <1>7
<1>11. \A o \in live' : o = Scope(0) \/ Apart(o) \/ InStmts(o) \/ o \in public \/ OfBody(o)
  BY <1>3, <1>7
<1>12. FailedOwns'
  BY <1>1, <1>4, <1>8, <1>10, <1>11 DEF FailedOwns, Left
<1> QED
  BY <1>1, <1>7, <1>9, <1>12 DEF Owns, FileOwns, FunctionOwns, Ends

\* The end of parse_file, and of main.
LEMMA OwnsEnds ==
  ASSUME Typed, Owns, FileEnd \/ FileImported \/ FileRejected
  PROVE  Owns'
<1>1. PICK module \in {{}, TheModule} :
        /\ \/ pc = "compiled" /\ pc' = "done" /\ module = TheModule
           \/ pc = "compiled" /\ pc' = "imported" /\ module = {}
           \/ pc = "failed" /\ pc' = "rejected" /\ module = TheModule
        /\ Release(module)
  BY DEF FileEnd, FileImported, FileRejected
<1>2. UNCHANGED <<body, stmts, public>>
  BY DEF FileEnd, FileImported, FileRejected, bodyVars
<1>3. ListsOwn
  BY <1>1 DEF Owns, Over
<1>4. /\ \A o : o \in Released(module) <=> o = Current \/ InStmts(o) \/ o \in module
      /\ ReleasedTwice(module) = {}
  BY <1>1, <1>3, ReleasedIs
<1>5. \A o : InStmts(o) \/ o \in module => o \in live
  BY <1>1, <1>3 DEF ListsOwn, InStmts, TheModule
<1>6. Current \in live
  <2>1. CASE pc = "compiled"
    BY <2>1 DEF Owns, FileOwns, Typed, Shape, Current
  <2>2. CASE pc = "failed"
    BY <2>2 DEF Owns, FailedOwns
  <2> QED
    BY <1>1, <2>1, <2>2
<1>7. live' = live \ Released(module) /\ again' = {}
  <2>1. Released(module) \ live = {}
    BY <1>4, <1>5, <1>6
  <2> QED
    BY <1>1, <1>4, <2>1 DEF Release, Owns
<1>8. Top' = Top /\ \A o : OfBody(o)' <=> OfBody(o)
  BY <1>2, SameStatements
<1>9. \A o : Apart(o) => o.role \in Lost \/ o \in TheModule
  BY DEF Apart, TheModule
<1>10. public \subseteq TheModule
  BY DEF TheModule
<1>11. ASSUME pc = "compiled"
       PROVE  \A o \in live : o = Current \/ o.role \in Lost \/ InStmts(o) \/ o \in TheModule
  <2>1. \A o \in live : o = Current \/ Apart(o) \/ InStmts(o) \/ o \in public
    BY <1>11 DEF Owns, FileOwns, Typed, Shape, Current
  <2> QED
    BY <1>9, <1>10, <2>1
<1>12. ASSUME pc' = "done" PROVE \A o \in live' : o.role \in Lost
  BY <1>1, <1>4, <1>7, <1>11, <1>12
<1>13. ASSUME pc' = "imported"
       PROVE  /\ TheModule \subseteq live'
              /\ \A o \in live' : o.role \in Lost \/ o \in TheModule
  <2>1. \A o \in TheModule : o \in live /\ o # Current /\ ~InStmts(o)
    <3>1. Current.role = "scope"
      BY Fields DEF Current
    <3>2. /\ Module \in live
          /\ \A o \in public : o \in live /\ o.role \in {"function", "argument"} /\ ~InStmts(o)
      BY <1>3 DEF ListsOwn, InStmts
    <3>3. Module.role = "module" /\ ~InStmts(Module)
      BY <1>3, Fields, StmtsKnown DEF ListsOwn, InStmts
    <3> QED
      BY <3>1, <3>2, <3>3 DEF TheModule
  <2>2. module = {}
    BY <1>1, <1>13
  <2>3. TheModule \subseteq live'
    BY <1>4, <1>7, <2>1, <2>2
  <2> QED
    BY <1>1, <1>4, <1>7, <1>11, <1>13, <2>3
<1>14. ASSUME pc' = "rejected" PROVE \A o \in live' : o.role \in Lost \/ Left(o)'
  <2>1. \A o \in live : o = Current \/ Apart(o) \/ InStmts(o) \/ o \in public \/ Left(o)
    BY <1>1, <1>14 DEF Owns, FailedOwns
  <2>2. \A o : Left(o)' <=> Left(o)
    BY <1>2, <1>8 DEF Left
  <2>3. module = TheModule
    BY <1>1, <1>14
  <2> QED
    BY <1>4, <1>7, <1>9, <1>10, <2>1, <2>2, <2>3
<1>15. TheModule' = TheModule
  BY <1>2 DEF TheModule
<1> QED
  BY <1>1, <1>7, <1>12, <1>13, <1>14, <1>15
  DEF Owns, Over, FileOwns, FunctionOwns, FailedOwns, Ends

\* The statements without a block of their own.
LEMMA OwnsSimple ==
  ASSUME Typed, Typed', Owns, ReturnStmt \/ \E name \in Names : ExprStmt(name)
  PROVE  Owns'
<1> DEFINE new == {Statement(Top, Here)}
<1>1. \A o \in new : OfBody(o)
  BY Fields DEF OfBody
<1>2. new \in SUBSET Objects
  BY TopNat, ObjectsTyped DEF Typed, TypeOK, Here
<1>3. /\ AtStatement /\ Heap(new, {}) /\ calls' = Keeps(calls, new)
      /\ UNCHANGED <<pc, public, stmts>>
      /\ Parsed("simple") \/ Parsed("return")
  BY DEF ExprStmt, ReturnStmt
<1> HIDE DEF new
<1> QED
  BY <1>1, <1>2, <1>3, OwnsLeaf

LEMMA OwnsLet ==
  ASSUME Typed, Typed', Owns, NEW name \in Names, LetStmt(name)
  PROVE  Owns'
<1> DEFINE local == Local(name, Top, Here)
           new == {Statement(Top, Here), local}
<1>1. \A o \in new : OfBody(o)
  BY Fields DEF OfBody
<1>2. new \in SUBSET Objects
  <2>1. Top \in Nat /\ Here \in Nat
    BY TopNat DEF Typed, TypeOK, Here
  <2>2. Statement(Top, Here) \in Objects /\ local \in Objects
    BY <2>1, ObjectsTyped
  <2> QED
    BY <2>2
<1>3. /\ AtStatement /\ Heap(new, {}) /\ calls' = Keeps(calls, new)
      /\ UNCHANGED <<pc, public, stmts>> /\ Parsed("simple")
  BY DEF LetStmt
<1> HIDE DEF new
<1> QED
  BY <1>1, <1>2, <1>3, OwnsLeaf

LEMMA OwnsStep == Typed /\ Owns /\ [Next]_vars => Owns'
<1> SUFFICES ASSUME Typed, Owns, [Next]_vars PROVE Owns'
  OBVIOUS
<1>1. Typed'
  BY TypedStep
<1>2. CASE ParseToplevel
  BY <1>1, <1>2, OwnsImport, OwnsImportUnexpected, OwnsDeclaration, OwnsDefinition,
     OwnsUnexpected, OwnsUndeclared, OwnsMoves DEF ParseToplevel
<1>3. CASE ParseBlock
  <2>1. CASE BlockBegin \/ BlockNotBegun \/ BadStmt
    BY <2>1, OwnsMoves
  <2>2. CASE ReturnStmt \/ \E name \in Names : ExprStmt(name)
    BY <1>1, <2>2, OwnsSimple
  <2>3. ASSUME NEW name \in Names, LetStmt(name) PROVE Owns'
    BY <1>1, <2>3, OwnsLet
  <2>4. ASSUME NEW kind, Header(kind) PROVE Owns'
    BY <1>1, <2>4, OwnsHeader
  <2>5. CASE BlockEnd \/ FnEnd \/ Unwind \/ FnUnwind
    BY <1>1, <2>5, OwnsBlockEnd, OwnsFnEnd, OwnsUnwind, OwnsFnUnwind
  <2> QED
    BY <1>3, <2>1, <2>2, <2>3, <2>4, <2>5 DEF ParseBlock
<1>4. CASE Crash \/ FileParsed \/ FileEnd \/ FileImported \/ FileRejected \/ UNCHANGED vars
  BY <1>4, OwnsMoves, OwnsEnds
<1> QED
  BY <1>2, <1>3, <1>4 DEF Next

\* Nothing is freed twice, whatever is parsed and wherever an error ends it;
\* what is left at the end is what the code loses in every file that it is given
\* (mod->scope, the names and modules of imports), the module itself if it was
\* parsed for an import, and after an error parts of the function it was in.
THEOREM FreedAtMostOnce == Spec => []FreedOnce
<1>1. Spec => [](Typed /\ Owns)
  BY TypedInit, TypedStep, OwnsInit, OwnsStep, PTL DEF Spec
<1>2. Owns => FreedOnce
  BY DEF Owns, Ends, Left, OfBody, FreedOnce
<1> QED
  BY <1>1, <1>2, PTL
=============================================================================
