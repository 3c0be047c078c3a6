---------------------------- MODULE ParserProofs ----------------------------
(***************************************************************************)
(* Proofs about Parser: that its variables have their types; that a name   *)
(* is only ever looked up among identifiers that have not been freed; that *)
(* what a name means in a function stays what it is; and that statements   *)
(* nest as their lines are indented.                                       *)
(***************************************************************************)
EXTENDS Parser, SequenceTheorems, WellFoundedInduction, TLAPS

\* How many scopes there are, and that the lexer closes what it has opened.
Shape ==
  /\ ahead = "END" => depth > 0
  /\ pc \in {"file", "compiled"} => Len(scopes) = 1
  /\ pc \in {"open", "block", "unwind"} => Len(scopes) = 2 /\ calls # <<>>

Typed == TypeOK /\ Shape

-----------------------------------------------------------------------------
(* Objects.                                                                *)

LEMMA ObjectTyped ==
  ASSUME NEW role \in Roles, NEW name \in Names \cup {""}, NEW t \in Nat, NEW i \in Nat
  PROVE  Object(role, name, t, i) \in Objects
BY DEF Object, Objects

LEMMA TopNat ==
  ASSUME TypeOK
  PROVE  Top \in Nat /\ Here \in Nat
BY DEF TypeOK, Top, Here

\* The objects of a top-level statement and of a statement.
LEMMA ObjectsTyped ==
  ASSUME NEW t \in Nat, NEW i \in Nat
  PROVE  /\ Toplevel(t) \in Objects /\ Scope(t) \in Objects
         /\ Module \in Objects /\ ModScope \in Objects
         /\ ImportName(t) \in Objects /\ Imported(t) \in Objects
         /\ Statement(t, i) \in Objects
         /\ \A name \in Names :
              /\ Function(name, t) \in Objects
              /\ Argument(name, t, i) \in Objects
              /\ Local(name, t, i) \in Objects
BY ObjectTyped DEF Toplevel, Scope, Module, ModScope, ImportName, Imported, Statement,
                   Function, Argument, Local, Roles

LEMMA SignatureTyped ==
  ASSUME NEW names \in Signatures
  PROVE  /\ names \in Seq(Names)
         /\ \A k \in DOMAIN names : names[k] \in Names /\ k \in Nat
<1>1. names \in Seq(Names)
  BY SignaturesAssumption
<1>2. DOMAIN names = 1..Len(names) /\ Len(names) \in Nat
  BY <1>1
<1> QED
  BY <1>1, <1>2

\* What a declaration makes.
LEMMA DeclarationTyped ==
  ASSUME TypeOK, NEW name \in Names, NEW names \in Signatures, NEW pub \in BOOLEAN
  PROVE  /\ ArgumentsOf(names, Top) \in Seq(Objects)
         /\ Reached(name, names) \subseteq Objects
         /\ Owned(name, names, pub) \subseteq Objects
         /\ {Argument(names[k], Top, k) : k \in DOMAIN names} \subseteq Objects
<1>1. Top \in Nat
  BY TopNat
<1>2. names \in Seq(Names) /\ \A k \in DOMAIN names : names[k] \in Names /\ k \in Nat
  BY SignatureTyped
<1>3. \A k \in DOMAIN names : Argument(names[k], Top, k) \in Objects
  BY <1>1, <1>2, ObjectsTyped
<1>4. Toplevel(Top) \in Objects /\ Function(name, Top) \in Objects
  BY <1>1, ObjectsTyped
<1>5. ArgumentsOf(names, Top) \in Seq(Objects)
  <2>1. DOMAIN names = 1..Len(names) /\ Len(names) \in Nat
    BY <1>2
  <2>2. ArgumentsOf(names, Top) \in [1..Len(names) -> Objects]
    BY <1>3, <2>1 DEF ArgumentsOf
  <2> QED
    BY <2>1, <2>2
<1>6. Reached(name, names) \subseteq Objects
  BY <1>3, <1>4 DEF Reached
<1> QED
  BY <1>3, <1>4, <1>5, <1>6 DEF Owned

LEMMA HeapTyped ==
  ASSUME TypeOK, NEW allocated \in SUBSET Objects, NEW freed \in SUBSET Objects,
         Heap(allocated, freed)
  PROVE  live' \subseteq Objects /\ again' \subseteq Objects
BY DEF TypeOK, Heap

LEMMA AdvanceTyped ==
  ASSUME TypeOK, NEW d \in Int, Advance(d), d >= 0
  PROVE  /\ ahead' \in Tokens /\ depth' \in Nat /\ tail' \in BOOLEAN
         /\ ahead' = "END" => depth' > 0
BY DEF TypeOK, Advance

LEMMA ScopesTyped ==
  ASSUME NEW chain \in Seq(Seq(Objects)), NEW idents \in Seq(Objects)
  PROVE  /\ EnterScope(chain, idents) \in Seq(Seq(Objects))
         /\ Len(EnterScope(chain, idents)) = Len(chain) + 1
         /\ ExitScope(EnterScope(chain, idents)) = chain
<1>1. Len(chain) \in Nat /\ Len(Append(chain, idents)) = Len(chain) + 1
  BY DEF EnterScope
<1>2. SubSeq(Append(chain, idents), 1, Len(chain)) = chain
  BY <1>1, AppendProperties, SubSeqProperties, SubSeqFull, HeadTailAppend
<1> QED
  BY <1>1, <1>2 DEF EnterScope, ExitScope

LEMMA Shortened ==
  ASSUME NEW S, NEW s \in Seq(S), Len(s) >= 1
  PROVE  /\ SubSeq(s, 1, Len(s) - 1) \in Seq(S)
         /\ Len(SubSeq(s, 1, Len(s) - 1)) = Len(s) - 1
         /\ \A k \in 1..(Len(s) - 1) : SubSeq(s, 1, Len(s) - 1)[k] = s[k]
<1>1. Len(s) \in Nat /\ \A k \in 1..Len(s) : s[k] \in S
  OBVIOUS
<1> DEFINE n == Len(s) - 1
<1>2. n \in Int /\ 1 \in Int /\ n >= 0 /\ \A k \in 1..n : s[k] \in S
  BY <1>1
<1> HIDE DEF n
<1>3. /\ SubSeq(s, 1, n) \in Seq(S)
      /\ Len(SubSeq(s, 1, n)) = IF 1 <= n THEN n - 1 + 1 ELSE 0
      /\ \A k \in 1..(n - 1 + 1) : SubSeq(s, 1, n)[k] = s[1 + k - 1]
  BY <1>2, SubSeqProperties
<1>4. Len(SubSeq(s, 1, n)) = n
  BY <1>2, <1>3
<1>5. \A k \in 1..n : SubSeq(s, 1, n)[k] = s[k]
  BY <1>2, <1>3
<1> QED
  BY <1>3, <1>4, <1>5 DEF n

LEMMA ElementTyped ==
  ASSUME NEW S, NEW s \in Seq(S), NEW k \in 1..Len(s)
  PROVE  s[k] \in S
OBVIOUS

LEMMA ExitTyped ==
  ASSUME NEW chain \in Seq(Seq(Objects)), Len(chain) >= 1
  PROVE  ExitScope(chain) \in Seq(Seq(Objects)) /\ Len(ExitScope(chain)) = Len(chain) - 1
BY Shortened DEF ExitScope

-----------------------------------------------------------------------------
(* The types of the variables.                                             *)

LEMMA TypedInit == Init => Typed
<1> SUFFICES ASSUME Init PROVE Typed
  OBVIOUS
<1>1. Scope(0) \in Objects /\ Module \in Objects /\ ModScope \in Objects
  BY ObjectsTyped
<1>2. scopes \in Seq(Seq(Objects)) /\ Len(scopes) = 1
  BY DEF Init, EnterScope
<1> QED
  BY <1>1, <1>2 DEF Init, Typed, TypeOK, Shape, Tokens, Places

\* What the steps at the top level have in common.
LEMMA ScopesDeclared ==
  ASSUME Typed, pc = "file", NEW name \in Names, NEW pub \in BOOLEAN
  PROVE  Declared(name, pub) \in Seq(Seq(Objects)) /\ Len(Declared(name, pub)) = 1
<1>1. scopes \in Seq(Seq(Objects)) /\ Len(scopes) = 1
  BY DEF Typed, TypeOK, Shape
<1>2. scopes[1] \in Seq(Objects)
  <2>1. 1 \in 1..Len(scopes)
    BY <1>1
  <2> QED
    BY <1>1, <2>1, ElementTyped
<1>3. Function(name, Top) \in Objects
  BY TopNat, ObjectsTyped DEF Typed
<1> QED
  BY <1>1, <1>2, <1>3 DEF Declared

LEMMA PublishTyped ==
  ASSUME TypeOK, NEW name \in Names, NEW names \in Signatures, NEW pub \in BOOLEAN,
         Publish(name, names, pub)
  PROVE  public' \subseteq Objects
BY DeclarationTyped DEF TypeOK, Publish

LEMMA TypedModuleImport == Typed /\ ModuleImport => Typed'
<1> SUFFICES ASSUME Typed, ModuleImport PROVE Typed'
  OBVIOUS
<1>1. /\ Toplevel(Top) \in Objects
      /\ ImportName(Top) \in Objects /\ Imported(Top) \in Objects
  BY TopNat, ObjectsTyped DEF Typed
<1>2. live' \subseteq Objects /\ again' \subseteq Objects
  <2>1. PICK returned \in {{}, {Imported(Top)}} :
          Heap({Toplevel(Top), ImportName(Top)} \cup returned, {})
    BY DEF ModuleImport
  <2>2. {Toplevel(Top), ImportName(Top)} \cup returned \in SUBSET Objects
    BY <1>1
  <2> QED
    BY <2>1, <2>2, HeapTyped DEF Typed
<1>3. /\ ahead' \in Tokens /\ depth' \in Nat /\ tail' \in BOOLEAN
      /\ ahead' = "END" => depth' > 0
  BY AdvanceTyped DEF ModuleImport, Typed
<1>4. stmts' \in Seq(SUBSET Objects)
  BY <1>1 DEF ModuleImport, Typed, TypeOK
<1> QED
  BY <1>2, <1>3, <1>4 DEF ModuleImport, AtToplevel, Typed, TypeOK, Shape, bodyVars

LEMMA TypedImportUnexpected == Typed /\ ImportUnexpected => Typed'
<1> SUFFICES ASSUME Typed, ImportUnexpected PROVE Typed'
  OBVIOUS
<1>1. {Toplevel(Top), ImportName(Top)} \in SUBSET Objects /\ {Toplevel(Top)} \in SUBSET Objects
  BY TopNat, ObjectsTyped DEF Typed
<1>2. live' \subseteq Objects /\ again' \subseteq Objects
  BY <1>1, HeapTyped DEF ImportUnexpected, Typed
<1> QED
  BY <1>2 DEF ImportUnexpected, Typed, TypeOK, Shape, Places, bodyVars, lexVars

\* The scopes after a declaration, in the function and outside it.
LEMMA DeclaredTyped ==
  ASSUME Typed, pc = "file", NEW name \in Names, NEW names \in Signatures,
         NEW pub \in BOOLEAN, NEW inner, NEW outer,
         inner = EnterScope(Declared(name, pub), ArgumentsOf(names, Top)),
         outer = ExitScope(inner)
  PROVE  /\ inner \in Seq(Seq(Objects)) /\ Len(inner) = 2
         /\ outer \in Seq(Seq(Objects)) /\ Len(outer) = 1
         /\ outer = Declared(name, pub)
<1>1. ArgumentsOf(names, Top) \in Seq(Objects)
  BY DeclarationTyped DEF Typed
<1>2. Declared(name, pub) \in Seq(Seq(Objects)) /\ Len(Declared(name, pub)) = 1
  BY ScopesDeclared
<1> DEFINE idents == ArgumentsOf(names, Top)
           chain == Declared(name, pub)
<1>3. idents \in Seq(Objects) /\ chain \in Seq(Seq(Objects)) /\ Len(chain) = 1
  BY <1>1, <1>2
<1>4. inner = EnterScope(chain, idents) /\ outer = ExitScope(EnterScope(chain, idents))
  OBVIOUS
<1> HIDE DEF idents, chain
<1>5. /\ EnterScope(chain, idents) \in Seq(Seq(Objects))
      /\ Len(EnterScope(chain, idents)) = Len(chain) + 1
      /\ ExitScope(EnterScope(chain, idents)) = chain
  BY <1>3, ScopesTyped
<1>6. outer = Declared(name, pub)
  BY <1>4, <1>5 DEF chain
<1> QED
  BY <1>2, <1>3, <1>4, <1>5, <1>6

LEMMA DeclarationHeap ==
  ASSUME Typed, NEW name \in Names, NEW names \in Signatures, NEW pub \in BOOLEAN,
         NEW freed, freed \subseteq {Scope(Top)} \cup Owned(name, names, pub),
         Heap({Toplevel(Top), Scope(Top)} \cup Reached(name, names), freed)
  PROVE  live' \subseteq Objects /\ again' \subseteq Objects
<1>1. Toplevel(Top) \in Objects /\ Scope(Top) \in Objects
  BY TopNat, ObjectsTyped DEF Typed
<1>2. Reached(name, names) \subseteq Objects /\ Owned(name, names, pub) \subseteq Objects
  BY DeclarationTyped DEF Typed
<1> DEFINE allocated == {Toplevel(Top), Scope(Top)} \cup Reached(name, names)
<1>3. allocated \in SUBSET Objects /\ freed \in SUBSET Objects
  BY <1>1, <1>2
<1> HIDE DEF allocated
<1>4. Heap(allocated, freed)
  BY DEF allocated
<1> QED
  BY <1>3, <1>4, HeapTyped DEF Typed

LEMMA TypedFnDeclaration ==
  ASSUME Typed, NEW name \in Names, NEW names \in Signatures, NEW pub \in BOOLEAN,
         FnDeclaration(name, names, pub)
  PROVE  Typed'
<1>1. scopes' \in Seq(Seq(Objects)) /\ Len(scopes') = 1
  BY DeclaredTyped DEF FnDeclaration, AtToplevel
<1>2. live' \subseteq Objects /\ again' \subseteq Objects
  BY DeclarationHeap DEF FnDeclaration
<1>3. /\ ahead' \in Tokens /\ depth' \in Nat /\ tail' \in BOOLEAN
      /\ ahead' = "END" => depth' > 0
  BY AdvanceTyped DEF FnDeclaration, Typed
<1>4. public' \subseteq Objects
  BY PublishTyped DEF FnDeclaration, Typed
<1>5. stmts' \in Seq(SUBSET Objects)
  <2>1. Owned(name, names, pub) \in SUBSET Objects
    BY DeclarationTyped DEF Typed
  <2> QED
    BY <2>1 DEF FnDeclaration, Typed, TypeOK
<1> QED
  BY <1>1, <1>2, <1>3, <1>4, <1>5 DEF FnDeclaration, AtToplevel, Typed, TypeOK, Shape, bodyVars

LEMMA TypedFnDefinition ==
  ASSUME Typed, NEW name \in Names, NEW names \in Signatures, NEW pub \in BOOLEAN,
         FnDefinition(name, names, pub)
  PROVE  Typed'
<1>1. scopes' \in Seq(Seq(Objects)) /\ Len(scopes') = 2
  BY DeclaredTyped DEF FnDefinition, AtToplevel
<1>2. live' \subseteq Objects /\ again' \subseteq Objects
  BY DeclarationHeap DEF FnDefinition
<1>3. /\ ahead' \in Tokens /\ depth' \in Nat /\ tail' \in BOOLEAN
      /\ ahead' = "END" => depth' > 0
  BY AdvanceTyped DEF FnDefinition, Typed
<1>4. public' \subseteq Objects
  BY PublishTyped DEF FnDefinition, Typed
<1>5. fn' \in [owns : SUBSET Objects, typed : BOOLEAN]
  BY DeclarationTyped DEF FnDefinition, Typed
<1>6. calls' \in Seq([stmt : Nat, owns : SUBSET Objects]) /\ calls' # <<>>
  BY DEF FnDefinition
<1> QED
  BY <1>1, <1>2, <1>3, <1>4, <1>5, <1>6
  DEF FnDefinition, AtToplevel, Typed, TypeOK, Shape, Places

LEMMA TypedFnUnexpected ==
  ASSUME Typed, NEW name \in Names, NEW names \in Signatures, NEW pub \in BOOLEAN,
         FnUnexpected(name, names, pub)
  PROVE  Typed'
<1>1. scopes' \in Seq(Seq(Objects))
  BY DeclaredTyped DEF FnUnexpected, AtToplevel
<1>2. live' \subseteq Objects /\ again' \subseteq Objects
  BY DeclarationHeap DEF FnUnexpected
<1>3. public' \subseteq Objects
  BY PublishTyped DEF FnUnexpected, Typed
<1> QED
  BY <1>1, <1>2, <1>3
  DEF FnUnexpected, AtToplevel, Typed, TypeOK, Shape, Places, bodyVars, lexVars

LEMMA TypedFnUndeclared ==
  ASSUME Typed, NEW names \in Signatures, FnUndeclared(names)
  PROVE  Typed'
<1>1. scopes' \in Seq(Seq(Objects))
  <2>1. <<>> \in Seq(Objects) /\ scopes \in Seq(Seq(Objects))
    BY DEF Typed, TypeOK
  <2> QED
    BY <2>1, ScopesTyped DEF FnUndeclared
<1>2. {Scope(Top)} \cup {Argument(names[k], Top, k) : k \in DOMAIN names} \in SUBSET Objects
  <2>1. \A k \in DOMAIN names : names[k] \in Names /\ k \in Nat
    BY SignatureTyped
  <2>2. Top \in Nat
    BY TopNat DEF Typed
  <2> QED
    BY <2>1, <2>2, ObjectsTyped
<1>3. live' \subseteq Objects /\ again' \subseteq Objects
  BY <1>2, HeapTyped DEF FnUndeclared, Typed
<1> QED
  BY <1>1, <1>3 DEF FnUndeclared, Typed, TypeOK, Shape, Places, bodyVars, lexVars

\* The steps that only go somewhere else.
LEMMA TypedMoves ==
  ASSUME Typed, Unexpected \/ BlockNotBegun \/ BadStmt \/ Crash \/ FileParsed
  PROVE  Typed'
BY DEF Unexpected, BlockNotBegun, BadStmt, Crash, FileParsed, Typed, TypeOK, Shape,
       Places, bodyVars, lexVars, heapVars

LEMMA TypedBlockBegin == Typed /\ BlockBegin => Typed'
<1> SUFFICES ASSUME Typed, BlockBegin PROVE Typed'
  OBVIOUS
<1>1. depth + 1 \in Int /\ depth + 1 >= 0
  BY DEF Typed, TypeOK
<1>2. /\ ahead' \in Tokens /\ depth' \in Nat /\ tail' \in BOOLEAN
      /\ ahead' = "END" => depth' > 0
  BY <1>1, AdvanceTyped DEF BlockBegin, Typed
<1> QED
  BY <1>2 DEF BlockBegin, Typed, TypeOK, Shape, Places, bodyVars, heapVars

Frames == [stmt : Nat, owns : SUBSET Objects]

LEMMA KeepsTyped ==
  ASSUME NEW frames \in Seq(Frames), Len(frames) >= 1, NEW objects \in SUBSET Objects
  PROVE  /\ Keeps(frames, objects) \in Seq(Frames)
         /\ Len(Keeps(frames, objects)) = Len(frames)
         /\ \A k \in 1..Len(frames) : Keeps(frames, objects)[k].stmt = frames[k].stmt
         /\ \A k \in 1..(Len(frames) - 1) : Keeps(frames, objects)[k] = frames[k]
         /\ Keeps(frames, objects)[Len(frames)].owns = frames[Len(frames)].owns \cup objects
<1> DEFINE n == Len(frames)
<1>1. n \in Nat /\ n \in 1..n /\ n \in DOMAIN frames /\ DOMAIN frames = 1..n
  OBVIOUS
<1>2. \A k \in 1..n : frames[k] \in Frames
  OBVIOUS
<1>3. Keeps(frames, objects) = [frames EXCEPT ![n] = [frames[n] EXCEPT !.owns = @ \cup objects]]
  BY DEF Keeps
<1>4. frames[n] \in Frames
  BY <1>1, <1>2
<1> DEFINE frame == [frames[n] EXCEPT !.owns = @ \cup objects]
<1>5. /\ frame \in Frames /\ frame.stmt = frames[n].stmt
      /\ frame.owns = frames[n].owns \cup objects
  BY <1>4 DEF Frames
<1>6. Keeps(frames, objects) = [frames EXCEPT ![n] = frame]
  BY <1>3
<1> HIDE DEF n, frame
<1>7. [frames EXCEPT ![n] = frame] \in [1..n -> Frames]
  BY <1>1, <1>2, <1>5
<1>8. [frames EXCEPT ![n] = frame] \in Seq(Frames) /\ Len([frames EXCEPT ![n] = frame]) = n
  BY <1>1, <1>7
<1>9. \A k \in 1..n : [frames EXCEPT ![n] = frame][k] = IF k = n THEN frame ELSE frames[k]
  BY <1>1
<1>10. \A k \in 1..(n - 1) : k \in 1..n /\ k # n
  BY <1>1
<1>11. \A k \in 1..n : Keeps(frames, objects)[k].stmt = frames[k].stmt
  BY <1>5, <1>6, <1>9
<1>12. \A k \in 1..(n - 1) : Keeps(frames, objects)[k] = frames[k]
  BY <1>6, <1>9, <1>10
<1>13. Keeps(frames, objects)[n].owns = frames[n].owns \cup objects
  BY <1>1, <1>5, <1>6, <1>9
<1> QED
  BY <1>6, <1>8, <1>11, <1>12, <1>13 DEF n

\* What a step of a statement leaves as it is, or appends to.
LEMMA StatementTyped ==
  ASSUME Typed, AtStatement, NEW kind \in Kinds, Parsed(kind)
  PROVE  /\ body' \in Seq([kind : Kinds, last : Nat]) /\ level' \in Seq(Nat)
         /\ fn' \in [owns : SUBSET Objects, typed : BOOLEAN]
         /\ Statement(Top, Here) \in Objects
         /\ calls \in Seq(Frames) /\ Len(calls) \in Nat /\ Len(calls) >= 1
         /\ Top \in Nat /\ Here \in Nat
<1>1. Top \in Nat /\ Here \in Nat
  BY TopNat DEF Typed
<1>2. calls \in Seq(Frames) /\ calls # <<>>
  BY DEF Typed, TypeOK, Shape, AtStatement, Frames
<1>3. Len(calls) >= 1
  BY <1>2, EmptySeq
<1>4. [kind |-> kind, last |-> Here] \in [kind : Kinds, last : Nat]
  BY <1>1
<1>5. body \in Seq([kind : Kinds, last : Nat]) /\ level \in Seq(Nat) /\ depth \in Nat
  BY DEF Typed, TypeOK
<1>6. body' \in Seq([kind : Kinds, last : Nat])
  BY <1>4, <1>5 DEF Parsed
<1>7. level' \in Seq(Nat)
  BY <1>5 DEF Parsed
<1> QED
  BY <1>1, <1>2, <1>3, <1>6, <1>7, ObjectsTyped DEF Parsed, Typed, TypeOK

LEMMA AdvancesTyped ==
  ASSUME Typed, Advance(depth)
  PROVE  /\ ahead' \in Tokens /\ depth' \in Nat /\ tail' \in BOOLEAN
         /\ ahead' = "END" => depth' > 0
<1>1. depth \in Int /\ depth >= 0
  BY DEF Typed, TypeOK
<1> QED
  BY <1>1, AdvanceTyped DEF Typed

LEMMA TypedLeaf ==
  ASSUME Typed,
         ReturnStmt \/ \E name \in Names : ExprStmt(name)
  PROVE  Typed'
<1> DEFINE kind == IF ReturnStmt THEN "return" ELSE "simple"
           new == {Statement(Top, Here)}
<1>1. /\ AtStatement /\ Advance(depth) /\ Parsed(kind) /\ kind \in Kinds
      /\ calls' = Keeps(calls, new)
      /\ Heap(new, {})
      /\ UNCHANGED <<pc, scopes, public, stmts>>
  BY DEF ReturnStmt, ExprStmt, Kinds
<1> HIDE DEF kind
<1>2. /\ body' \in Seq([kind : Kinds, last : Nat]) /\ level' \in Seq(Nat)
      /\ fn' \in [owns : SUBSET Objects, typed : BOOLEAN]
      /\ new \in SUBSET Objects /\ {} \in SUBSET Objects
      /\ calls \in Seq(Frames) /\ Len(calls) >= 1
  BY <1>1, StatementTyped
<1> HIDE DEF new
<1>3. calls' \in Seq(Frames) /\ calls' # <<>>
  BY <1>1, <1>2, KeepsTyped, EmptySeq
<1>4. live' \subseteq Objects /\ again' \subseteq Objects
  BY <1>1, <1>2, HeapTyped DEF Typed
<1> QED
  BY <1>1, <1>2, <1>3, <1>4, AdvancesTyped DEF Typed, TypeOK, Shape, Frames

LEMMA LastReplaced ==
  ASSUME NEW S, NEW s \in Seq(S), Len(s) >= 1, NEW e \in S
  PROVE  /\ [s EXCEPT ![Len(s)] = e] \in Seq(S)
         /\ Len([s EXCEPT ![Len(s)] = e]) = Len(s)
         /\ \A k \in 1..(Len(s) - 1) : [s EXCEPT ![Len(s)] = e][k] = s[k]
         /\ [s EXCEPT ![Len(s)] = e][Len(s)] = e
<1> DEFINE n == Len(s)
<1>1. n \in Nat /\ n >= 1 /\ DOMAIN s = 1..n /\ \A k \in 1..n : s[k] \in S
  OBVIOUS
<1> HIDE DEF n
<1>2. [s EXCEPT ![n] = e] \in [1..n -> S]
  BY <1>1
<1>3. [s EXCEPT ![n] = e] \in Seq(S) /\ Len([s EXCEPT ![n] = e]) = n
  BY <1>1, <1>2
<1>4. \A k \in 1..(n - 1) : k \in 1..n /\ k # n
  BY <1>1
<1>5. \A k \in 1..(n - 1) : [s EXCEPT ![n] = e][k] = s[k]
  BY <1>1, <1>4
<1>6. [s EXCEPT ![n] = e][n] = e
  BY <1>1
<1> QED
  BY <1>3, <1>5, <1>6 DEF n

\* A scope with one more identifier.
Bound(chain, local) == [chain EXCEPT ![Len(chain)] = Append(@, local)]

LEMMA LetScopes ==
  ASSUME NEW chain \in Seq(Seq(Objects)), Len(chain) = 2, NEW local \in Objects
  PROVE  /\ Bound(chain, local) \in Seq(Seq(Objects)) /\ Len(Bound(chain, local)) = 2
         /\ Bound(chain, local)[1] = chain[1]
         /\ Bound(chain, local)[2] = Append(chain[2], local)
<1> DEFINE last == Append(chain[Len(chain)], local)
           new == [chain EXCEPT ![Len(chain)] = last]
<1>1. Len(chain) \in 1..Len(chain) /\ Len(chain) >= 1
  OBVIOUS
<1>2. chain[Len(chain)] \in Seq(Objects)
  BY <1>1, ElementTyped
<1>3. last \in Seq(Objects)
  BY <1>2
<1>4. Bound(chain, local) = new
  BY DEF Bound
<1> HIDE DEF last
<1>5. /\ new \in Seq(Seq(Objects)) /\ Len(new) = Len(chain)
      /\ \A k \in 1..(Len(chain) - 1) : new[k] = chain[k]
      /\ new[Len(chain)] = last
  BY <1>1, <1>3, LastReplaced
<1> HIDE DEF new
<1>6. new[1] = chain[1] /\ new[2] = last /\ Len(new) = 2
  BY <1>5
<1> QED
  BY <1>4, <1>5, <1>6 DEF last

LEMMA TypedLet ==
  ASSUME Typed, NEW name \in Names, LetStmt(name)
  PROVE  Typed'
<1> DEFINE local == Local(name, Top, Here)
           new == {Statement(Top, Here), local}
<1>1. /\ AtStatement /\ Advance(depth) /\ Parsed("simple") /\ "simple" \in Kinds
      /\ scopes' = [scopes EXCEPT ![Len(scopes)] = Append(@, local)]
      /\ calls' = Keeps(calls, new)
      /\ Heap(new, {})
      /\ UNCHANGED <<pc, public, stmts>>
  BY DEF LetStmt, Kinds
<1>2. /\ body' \in Seq([kind : Kinds, last : Nat]) /\ level' \in Seq(Nat)
      /\ fn' \in [owns : SUBSET Objects, typed : BOOLEAN]
      /\ local \in Objects /\ new \in SUBSET Objects /\ {} \in SUBSET Objects
      /\ calls \in Seq(Frames) /\ Len(calls) >= 1
  BY <1>1, StatementTyped, ObjectsTyped
<1> HIDE DEF local, new
<1>3. calls' \in Seq(Frames) /\ calls' # <<>>
  BY <1>1, <1>2, KeepsTyped, EmptySeq
<1>4. live' \subseteq Objects /\ again' \subseteq Objects
  BY <1>1, <1>2, HeapTyped DEF Typed
<1>5. scopes' \in Seq(Seq(Objects)) /\ Len(scopes') = Len(scopes)
  <2>1. scopes \in Seq(Seq(Objects)) /\ Len(scopes) = 2
    BY <1>1 DEF Typed, TypeOK, Shape, AtStatement
  <2>2. scopes' = Bound(scopes, local)
    BY <1>1 DEF Bound
  <2> QED
    BY <1>2, <2>1, <2>2, LetScopes
<1> QED
  BY <1>1, <1>2, <1>3, <1>4, <1>5, AdvancesTyped DEF Typed, TypeOK, Shape, Frames

LEMMA TypedHeader ==
  ASSUME Typed, NEW kind \in {"if", "while"}, Header(kind)
  PROVE  Typed'
<1> DEFINE new == {Statement(Top, Here)}
           frame == [stmt |-> Here, owns |-> {}]
<1>1. /\ AtStatement /\ Advance(depth) /\ Parsed(kind) /\ kind \in Kinds
      /\ calls' = Append(calls, frame)
      /\ pc' = "open"
      /\ Heap(new, {})
      /\ UNCHANGED <<scopes, public, stmts>>
  BY DEF Header, Kinds
<1>2. /\ body' \in Seq([kind : Kinds, last : Nat]) /\ level' \in Seq(Nat)
      /\ fn' \in [owns : SUBSET Objects, typed : BOOLEAN]
      /\ new \in SUBSET Objects /\ {} \in SUBSET Objects
      /\ calls \in Seq(Frames) /\ frame \in Frames
  BY <1>1, StatementTyped DEF Frames
<1> HIDE DEF new, frame
<1>3. calls' \in Seq(Frames) /\ calls' # <<>>
  BY <1>1, <1>2, AppendProperties
<1>4. live' \subseteq Objects /\ again' \subseteq Objects
  BY <1>1, <1>2, HeapTyped DEF Typed
<1> QED
  BY <1>1, <1>2, <1>3, <1>4, AdvancesTyped
  DEF Typed, TypeOK, Shape, Frames, Places, AtStatement

\* The call of parse_stmt_block that ends.
LEMMA FrameTyped ==
  ASSUME Typed, calls # <<>>
  PROVE  /\ calls \in Seq(Frames) /\ Len(calls) \in Nat /\ Len(calls) >= 1
         /\ Frame \in Frames
         /\ Callers \in Seq(Frames) /\ Len(Callers) = Len(calls) - 1
         /\ \A k \in 1..Len(Callers) : Callers[k] = calls[k]
<1>1. calls \in Seq(Frames) /\ Len(calls) \in Nat
  BY DEF Typed, TypeOK, Frames
<1>2. Len(calls) >= 1
  BY <1>1, EmptySeq
<1>3. Len(calls) \in 1..Len(calls)
  BY <1>1, <1>2
<1>4. Frame \in Frames
  BY <1>1, <1>3, ElementTyped DEF Frame
<1> QED
  BY <1>1, <1>2, <1>4, Shortened DEF Callers

Statements == [kind : Kinds, last : Nat]

\* A body in which the block of statement i has come to its end.
Ended(b, i, n) == [b EXCEPT ![i].last = n]

LEMMA LastTyped ==
  ASSUME NEW b \in Seq(Statements), NEW i, NEW n \in Nat
  PROVE  /\ Ended(b, i, n) \in Seq(Statements) /\ Len(Ended(b, i, n)) = Len(b)
         /\ \A j \in 1..Len(b) :
              /\ Ended(b, i, n)[j].kind = b[j].kind
              /\ Ended(b, i, n)[j].last = IF j = i THEN n ELSE b[j].last
<1> DEFINE one == [b[i] EXCEPT !.last = n]
           c == Ended(b, i, n)
<1>1. c = [b EXCEPT ![i] = one]
  BY DEF Ended
<1>2. Len(b) \in Nat /\ DOMAIN b = 1..Len(b) /\ \A j \in 1..Len(b) : b[j] \in Statements
  OBVIOUS
<1>3. i \in 1..Len(b) =>
        one \in Statements /\ one.kind = b[i].kind /\ one.last = n
  BY <1>2 DEF Statements
<1> HIDE DEF one, c
<1>4. c \in [1..Len(b) -> Statements]
  BY <1>1, <1>2, <1>3
<1>5. c \in Seq(Statements) /\ Len(c) = Len(b)
  BY <1>2, <1>4
<1>6. \A j \in 1..Len(b) : c[j] = IF j = i THEN one ELSE b[j]
  BY <1>1, <1>2
<1>7. \A j \in 1..Len(b) :
        c[j].kind = b[j].kind /\ c[j].last = IF j = i THEN n ELSE b[j].last
  BY <1>3, <1>6
<1> QED
  BY <1>5, <1>7 DEF c

LEMMA TypedBlockEnd == Typed /\ BlockEnd => Typed'
<1> SUFFICES ASSUME Typed, BlockEnd PROVE Typed'
  OBVIOUS
<1> DEFINE kept == {Statement(Top, Frame.stmt)} \cup Frame.owns
<1>1. /\ pc = "block" /\ ahead = "END" /\ Len(calls) > 1
      /\ Advance(depth - 1)
      /\ body' = [body EXCEPT ![Frame.stmt].last = Len(body)]
      /\ calls' = Keeps(Callers, kept)
      /\ UNCHANGED <<pc, level, fn, scopes, public, stmts, heapVars>>
  BY DEF BlockEnd
<1>2. /\ calls \in Seq(Frames) /\ Frame \in Frames
      /\ Callers \in Seq(Frames) /\ Len(Callers) >= 1
  <2>1. calls # <<>>
    BY <1>1 DEF Typed, Shape
  <2> QED
    BY <1>1, <2>1, FrameTyped
<1>3. kept \in SUBSET Objects
  <2>1. Frame.stmt \in Nat /\ Frame.owns \in SUBSET Objects
    BY <1>2 DEF Frames
  <2>2. Top \in Nat
    BY TopNat DEF Typed
  <2> QED
    BY <2>1, <2>2, ObjectsTyped
<1> HIDE DEF kept
<1>4. calls' \in Seq(Frames) /\ calls' # <<>>
  BY <1>1, <1>2, <1>3, KeepsTyped, EmptySeq
<1>5. body' \in Seq([kind : Kinds, last : Nat])
  <2>1. body \in Seq(Statements) /\ Len(body) \in Nat
    BY DEF Typed, TypeOK, Statements
  <2>2. body' = Ended(body, Frame.stmt, Len(body))
    BY <1>1 DEF Ended
  <2> QED
    BY <2>1, <2>2, LastTyped DEF Statements
<1>6. /\ ahead' \in Tokens /\ depth' \in Nat /\ tail' \in BOOLEAN
      /\ ahead' = "END" => depth' > 0
  <2>1. depth - 1 \in Int /\ depth - 1 >= 0
    BY <1>1 DEF Typed, TypeOK, Shape
  <2> QED
    BY <1>1, <2>1, AdvanceTyped DEF Typed
<1> QED
  BY <1>1, <1>4, <1>5, <1>6 DEF Typed, TypeOK, Shape, Frames, heapVars

LEMMA TypedFnEnd == Typed /\ FnEnd => Typed'
<1> SUFFICES ASSUME Typed, FnEnd PROVE Typed'
  OBVIOUS
<1>1. scopes' \in Seq(Seq(Objects)) /\ Len(scopes') = 1
  <2>1. scopes \in Seq(Seq(Objects)) /\ Len(scopes) = 2 /\ Len(scopes) >= 1
    BY DEF FnEnd, Typed, TypeOK, Shape
  <2>2. scopes' = ExitScope(scopes)
    BY DEF FnEnd
  <2>3. ExitScope(scopes) \in Seq(Seq(Objects)) /\ Len(ExitScope(scopes)) = Len(scopes) - 1
    BY <2>1, ExitTyped
  <2> QED
    BY <2>1, <2>2, <2>3
<1>2. fn.owns \cup Frame.owns \in SUBSET Objects
  <2>1. calls # <<>>
    BY DEF FnEnd, Typed, Shape
  <2>2. Frame \in Frames
    BY <2>1, FrameTyped
  <2> QED
    BY <2>2 DEF Frames, Typed, TypeOK
<1>3. stmts' \in Seq(SUBSET Objects)
  BY <1>2 DEF FnEnd, Typed, TypeOK
<1>4. live' \subseteq Objects /\ again' \subseteq Objects
  <2>1. {Scope(Top)} \in SUBSET Objects
    BY TopNat, ObjectsTyped DEF Typed
  <2> QED
    BY <2>1, HeapTyped DEF FnEnd, Typed
<1>5. /\ ahead' \in Tokens /\ depth' \in Nat /\ tail' \in BOOLEAN
      /\ ahead' = "END" => depth' > 0
  <2>1. depth - 1 \in Int /\ depth - 1 >= 0
    BY DEF FnEnd, Typed, TypeOK, Shape
  <2> QED
    BY <2>1, AdvanceTyped DEF FnEnd, Typed
<1> QED
  BY <1>1, <1>3, <1>4, <1>5 DEF FnEnd, Typed, TypeOK, Shape, Places

LEMMA TypedUnwind == Typed /\ Unwind => Typed'
<1> SUFFICES ASSUME Typed, Unwind PROVE Typed'
  OBVIOUS
<1>1. calls # <<>>
  BY DEF Unwind, Typed, Shape
<1>2. Frame \in Frames /\ Callers \in Seq(Frames) /\ Callers # <<>>
  BY <1>1, FrameTyped, EmptySeq DEF Unwind
<1>3. {Statement(Top, Frame.stmt)} \in SUBSET Objects
  <2>1. Frame.stmt \in Nat /\ Top \in Nat
    BY <1>2, TopNat DEF Frames, Typed
  <2> QED
    BY <2>1, ObjectsTyped
<1>4. live' \subseteq Objects /\ again' \subseteq Objects
  BY <1>3, HeapTyped DEF Unwind, Typed
<1> QED
  BY <1>2, <1>4 DEF Unwind, Typed, TypeOK, Shape, Frames, lexVars

LEMMA TypedFnUnwind == Typed /\ FnUnwind => Typed'
<1> SUFFICES ASSUME Typed, FnUnwind PROVE Typed'
  OBVIOUS
<1>1. scopes' \in Seq(Seq(Objects))
  BY ExitTyped DEF FnUnwind, Typed, TypeOK, Shape
<1>2. fn.owns \cup {Scope(Top)} \in SUBSET Objects
  BY TopNat, ObjectsTyped DEF Typed, TypeOK
<1>3. live' \subseteq Objects /\ again' \subseteq Objects
  BY <1>2, HeapTyped DEF FnUnwind, Typed
<1> QED
  BY <1>1, <1>3 DEF FnUnwind, Typed, TypeOK, Shape, Places, lexVars

LEMMA ReleaseTyped ==
  ASSUME TypeOK, NEW module \in SUBSET Objects, Release(module)
  PROVE  live' \subseteq Objects /\ again' \subseteq Objects
<1>1. Scope(0) \in Objects /\ Scope(Top) \in Objects
  BY TopNat, ObjectsTyped
<1>2. {Current} \in SUBSET Objects
  BY <1>1 DEF Current
<1> DEFINE freed == Freed(module)
<1>3. freed \in Seq(SUBSET Objects)
  <2> DEFINE S == SUBSET Objects
  <2>1. stmts \in Seq(S) /\ {Current} \in S /\ module \in S
    BY <1>2 DEF TypeOK
  <2> HIDE DEF S
  <2>2. <<{Current}>> \o stmts \o <<module>> \in Seq(S)
    BY <2>1
  <2> QED
    BY <2>2 DEF Freed, S
<1>4. Released(module) \subseteq Objects
  <2> HIDE DEF freed
  <2>1. \A k \in DOMAIN freed : freed[k] \in SUBSET Objects
    BY <1>3
  <2> QED
    BY <2>1 DEF Released, freed
<1>5. ReleasedTwice(module) \subseteq Objects
  BY <1>4 DEF ReleasedTwice
<1> QED
  BY <1>4, <1>5 DEF Release, TypeOK

LEMMA TypedEnds == Typed /\ (FileEnd \/ FileImported \/ FileRejected) => Typed'
<1> SUFFICES ASSUME Typed, FileEnd \/ FileImported \/ FileRejected PROVE Typed'
  OBVIOUS
<1>1. live' \subseteq Objects /\ again' \subseteq Objects
  <2>1. TheModule \in SUBSET Objects /\ {} \in SUBSET Objects
    BY ObjectsTyped DEF Typed, TypeOK, TheModule
  <2> QED
    BY <2>1, ReleaseTyped DEF FileEnd, FileImported, FileRejected, Typed
<1>2. scopes' \in Seq(Seq(Objects))
  <2>1. scopes \in Seq(Seq(Objects)) /\ Len(scopes) \in Nat
    BY DEF Typed, TypeOK
  <2>2. scopes' = SubSeq(scopes, 1, Len(scopes) - 1)
    BY DEF FileEnd, FileImported, FileRejected, ExitScope
  <2>3. CASE Len(scopes) >= 1
    BY <2>1, <2>2, <2>3, Shortened
  <2>4. CASE Len(scopes) = 0
    BY <2>1, <2>2, <2>4, SubSeqEmpty
  <2> QED
    BY <2>1, <2>3, <2>4
<1> QED
  BY <1>1, <1>2
  DEF FileEnd, FileImported, FileRejected, Typed, TypeOK, Shape, Places, bodyVars, lexVars

LEMMA TypedStep == Typed /\ [Next]_vars => Typed'
<1> SUFFICES ASSUME Typed, [Next]_vars PROVE Typed'
  OBVIOUS
<1>1. CASE ParseToplevel
  BY <1>1, TypedModuleImport, TypedImportUnexpected, TypedFnDeclaration, TypedFnDefinition,
     TypedFnUnexpected, TypedFnUndeclared, TypedMoves DEF ParseToplevel
<1>2. CASE ParseBlock
  BY <1>2, TypedBlockBegin, TypedMoves, TypedLeaf, TypedLet, TypedHeader,
     TypedBlockEnd, TypedFnEnd, TypedUnwind, TypedFnUnwind DEF ParseBlock
<1>3. CASE Crash \/ FileParsed \/ FileEnd \/ FileImported \/ FileRejected
  BY <1>3, TypedMoves, TypedEnds
<1>4. CASE UNCHANGED vars
  BY <1>4 DEF Typed, TypeOK, Shape, vars, lexVars, bodyVars, heapVars
<1> QED
  BY <1>1, <1>2, <1>3, <1>4 DEF Next

\* parse_file and its callees keep the variables in their types: there is a
\* scope to leave, and a block to end, whenever one is left or ended.
THEOREM TypeCorrect == Spec => []TypeOK
<1>1. Spec => []Typed
  BY TypedInit, TypedStep, PTL DEF Spec
<1> QED
  BY <1>1, PTL DEF Typed

-----------------------------------------------------------------------------
(* What names are looked up among.                                         *)

\* Every identifier of these scopes is in this heap, and none is a scope:
\* scopes are freed while there is more to parse.
SafeIn(chain, heap) ==
  \A s \in DOMAIN chain : \A k \in DOMAIN chain[s] :
    chain[s][k] \in heap /\ chain[s][k].role # "scope"

Safe == pc \in {"file", "open", "block", "compiled"} => SafeIn(scopes, live)

\* A heap that has all of another but scopes.
Keeping(heap, other) == \A o \in heap : o.role # "scope" => o \in other

LEMMA SafeKeeps ==
  ASSUME NEW chain, NEW heap, NEW other, SafeIn(chain, heap), Keeping(heap, other)
  PROVE  SafeIn(chain, other)
BY DEF SafeIn, Keeping

LEMMA SafeAppend ==
  ASSUME NEW chain \in Seq(Seq(Objects)), NEW idents \in Seq(Objects), NEW heap,
         SafeIn(chain, heap),
         \A k \in DOMAIN idents : idents[k] \in heap /\ idents[k].role # "scope"
  PROVE  SafeIn(Append(chain, idents), heap)
<1>1. /\ Len(chain) \in Nat /\ DOMAIN Append(chain, idents) = 1..(Len(chain) + 1)
      /\ \A s \in 1..Len(chain) : Append(chain, idents)[s] = chain[s]
      /\ Append(chain, idents)[Len(chain) + 1] = idents
      /\ DOMAIN chain = 1..Len(chain)
  BY AppendProperties
<1>2. ASSUME NEW s \in DOMAIN Append(chain, idents),
             NEW k \in DOMAIN Append(chain, idents)[s]
      PROVE  /\ Append(chain, idents)[s][k] \in heap
             /\ Append(chain, idents)[s][k].role # "scope"
  <2>1. CASE s = Len(chain) + 1
    BY <1>1, <2>1
  <2>2. CASE s \in 1..Len(chain)
    BY <1>1, <2>2 DEF SafeIn
  <2> QED
    BY <1>1, <2>1, <2>2
<1> QED
  BY <1>2 DEF SafeIn

LEMMA SafeOne ==
  ASSUME NEW idents \in Seq(Objects), NEW ident \in Objects, NEW heap,
         ident \in heap /\ ident.role # "scope",
         \A k \in DOMAIN idents : idents[k] \in heap /\ idents[k].role # "scope"
  PROVE  \A k \in DOMAIN Append(idents, ident) :
           Append(idents, ident)[k] \in heap /\ Append(idents, ident)[k].role # "scope"
<1>1. /\ Len(idents) \in Nat /\ DOMAIN Append(idents, ident) = 1..(Len(idents) + 1)
      /\ \A k \in 1..Len(idents) : Append(idents, ident)[k] = idents[k]
      /\ Append(idents, ident)[Len(idents) + 1] = ident
      /\ DOMAIN idents = 1..Len(idents)
  BY AppendProperties
<1> QED
  BY <1>1

\* A declaration that stays in force: in the file, with its arguments.
LEMMA SafeDeclaration ==
  ASSUME Typed, pc = "file", SafeIn(scopes, live),
         NEW name \in Names, NEW names \in Signatures, NEW pub \in BOOLEAN,
         NEW heap, Keeping(live, heap), Reached(name, names) \subseteq heap
  PROVE  /\ SafeIn(Declared(name, pub), heap)
         /\ SafeIn(EnterScope(Declared(name, pub), ArgumentsOf(names, Top)), heap)
<1>1. SafeIn(scopes, heap)
  BY SafeKeeps
<1>2. scopes \in Seq(Seq(Objects)) /\ Len(scopes) = 1
  BY DEF Typed, TypeOK, Shape
<1>3. scopes[1] \in Seq(Objects) /\ 1 \in DOMAIN scopes
  <2>1. 1 \in 1..Len(scopes)
    BY <1>2
  <2>2. DOMAIN scopes = 1..Len(scopes)
    BY <1>2
  <2> QED
    BY <1>2, <2>1, <2>2, ElementTyped
<1>4. Function(name, Top) \in Objects
  BY TopNat, ObjectsTyped DEF Typed
<1>5. Function(name, Top) \in heap /\ Function(name, Top).role # "scope"
  BY DEF Reached, Function, Object
<1>6. SafeIn(Declared(name, pub), heap)
  <2>1. CASE pub
    BY <1>1, <2>1 DEF Declared
  <2>2. CASE ~pub
    <3> DEFINE idents == Append(scopes[1], Function(name, Top))
    <3>1. \A k \in DOMAIN idents : idents[k] \in heap /\ idents[k].role # "scope"
      BY <1>1, <1>3, <1>4, <1>5, SafeOne DEF SafeIn
    <3> HIDE DEF idents
    <3>2. SafeIn(<<idents>>, heap)
      BY <3>1 DEF SafeIn
    <3> QED
      BY <2>2, <3>2 DEF Declared, idents
  <2> QED
    BY <2>1, <2>2
<1>7. \A k \in DOMAIN ArgumentsOf(names, Top) :
        /\ ArgumentsOf(names, Top)[k] \in heap
        /\ ArgumentsOf(names, Top)[k].role # "scope"
  BY DEF ArgumentsOf, Reached, Argument, Object
<1>8. /\ ArgumentsOf(names, Top) \in Seq(Objects)
      /\ Declared(name, pub) \in Seq(Seq(Objects))
  BY DeclarationTyped, ScopesDeclared DEF Typed
<1>9. SafeIn(Append(Declared(name, pub), ArgumentsOf(names, Top)), heap)
  BY <1>6, <1>7, <1>8, SafeAppend
<1> QED
  BY <1>6, <1>9 DEF EnterScope

LEMMA HeapKeeps ==
  ASSUME NEW allocated, NEW freed, Heap(allocated, freed),
         \A o \in freed : o.role = "scope"
  PROVE  Keeping(live, live') /\ Keeping(allocated, live')
BY DEF Heap, Keeping

LEMMA ScopeRole == \A t : Scope(t).role = "scope"
BY DEF Scope, Object

LEMMA SafeInit == Init => Safe
<1> SUFFICES ASSUME Init PROVE SafeIn(scopes, live)
  BY DEF Safe
<1>1. scopes = << <<>> >>
  BY DEF Init, EnterScope
<1> QED
  BY <1>1 DEF SafeIn

\* Declarations and the steps that enter a function or leave it.
LEMMA SafeDeclares ==
  ASSUME Typed, Safe, NEW name \in Names, NEW names \in Signatures, NEW pub \in BOOLEAN,
         FnDeclaration(name, names, pub) \/ FnDefinition(name, names, pub)
  PROVE  Safe'
<1> DEFINE allocated == {Toplevel(Top), Scope(Top)} \cup Reached(name, names)
           chain == Declared(name, pub)
           inner == EnterScope(chain, ArgumentsOf(names, Top))
<1>1. pc = "file" /\ SafeIn(scopes, live)
  BY DEF FnDeclaration, FnDefinition, AtToplevel, Safe
<1>2. Keeping(live, live') /\ Keeping(allocated, live')
  <2>1. CASE FnDeclaration(name, names, pub)
    <3>1. Heap(allocated, {Scope(Top)})
      BY <2>1 DEF FnDeclaration
    <3> HIDE DEF allocated
    <3> QED
      BY <3>1, HeapKeeps, ScopeRole
  <2>2. CASE FnDefinition(name, names, pub)
    <3>1. Heap(allocated, {})
      BY <2>2 DEF FnDefinition
    <3> HIDE DEF allocated
    <3> QED
      BY <3>1, HeapKeeps
  <2> QED
    BY <2>1, <2>2
<1>3. Reached(name, names) \subseteq live'
  <2>1. \A o \in Reached(name, names) : o.role # "scope"
    BY DEF Reached, Function, Argument, Object
  <2> QED
    BY <1>2, <2>1 DEF Keeping
<1>4. SafeIn(chain, live') /\ SafeIn(inner, live')
  BY <1>1, <1>2, <1>3, SafeDeclaration
<1>5. ExitScope(inner) = chain
  BY <1>1, DeclaredTyped
<1> HIDE DEF inner, chain
<1>6. scopes' = ExitScope(inner) \/ scopes' = inner
  BY DEF FnDeclaration, FnDefinition, inner, chain
<1> QED
  BY <1>4, <1>5, <1>6 DEF Safe

\* Steps that leave the scopes alone.
LEMMA SafeAllocates ==
  ASSUME Safe, NEW allocated, Heap(allocated, {}), scopes' = scopes,
         pc \in {"file", "open", "block"}
  PROVE  Safe'
BY HeapKeeps, SafeKeeps DEF Safe

LEMMA SafeLet ==
  ASSUME Typed, Safe, NEW name \in Names, LetStmt(name)
  PROVE  Safe'
<1> DEFINE local == Local(name, Top, Here)
           new == {Statement(Top, Here), local}
<1>1. /\ pc = "block" /\ Heap(new, {})
      /\ scopes' = Bound(scopes, local)
  BY DEF LetStmt, AtStatement, Bound
<1>2. local \in Objects /\ local.role # "scope"
  BY TopNat, ObjectsTyped DEF Typed, Local, Object
<1>3. local \in new
  OBVIOUS
<1> HIDE DEF new, local
<1>4. Keeping(live, live') /\ local \in live'
  BY <1>1, <1>2, <1>3, HeapKeeps DEF Keeping
<1>5. scopes \in Seq(Seq(Objects)) /\ Len(scopes) = 2
  BY <1>1 DEF Typed, TypeOK, Shape
<1>6. SafeIn(scopes, live')
  BY <1>1, <1>4, SafeKeeps DEF Safe
<1>7. 1 \in 1..Len(scopes) /\ 2 \in 1..Len(scopes) /\ DOMAIN scopes = 1..Len(scopes)
  BY <1>5
<1>8. scopes[2] \in Seq(Objects)
  BY <1>5, <1>7, ElementTyped
<1>9. \A k \in DOMAIN Append(scopes[2], local) :
        Append(scopes[2], local)[k] \in live' /\ Append(scopes[2], local)[k].role # "scope"
  BY <1>2, <1>4, <1>6, <1>7, <1>8, SafeOne DEF SafeIn
<1>10. /\ scopes' \in Seq(Seq(Objects)) /\ Len(scopes') = 2
       /\ scopes'[1] = scopes[1] /\ scopes'[2] = Append(scopes[2], local)
  BY <1>1, <1>2, <1>5, LetScopes
<1>11. DOMAIN scopes' = {1, 2}
  BY <1>10
<1>12. SafeIn(scopes', live')
  BY <1>6, <1>7, <1>9, <1>10, <1>11 DEF SafeIn
<1> QED
  BY <1>12 DEF Safe

LEMMA SafeFnEnd == Typed /\ Safe /\ FnEnd => Safe'
<1> SUFFICES ASSUME Typed, Safe, FnEnd PROVE Safe'
  OBVIOUS
<1>1. pc = "block" /\ Heap({}, {Scope(Top)}) /\ scopes' = ExitScope(scopes)
  BY DEF FnEnd
<1>2. scopes \in Seq(Seq(Objects)) /\ Len(scopes) = 2
  BY <1>1 DEF Typed, TypeOK, Shape
<1>3. SafeIn(scopes, live')
  BY <1>1, HeapKeeps, ScopeRole, SafeKeeps DEF Safe
<1>4. /\ scopes' \in Seq(Seq(Objects)) /\ Len(scopes') = Len(scopes) - 1
      /\ \A k \in 1..(Len(scopes) - 1) : scopes'[k] = scopes[k]
  <2>1. Len(scopes) >= 1
    BY <1>2
  <2> QED
    BY <1>1, <1>2, <2>1, Shortened DEF ExitScope
<1>5. DOMAIN scopes' \subseteq DOMAIN scopes /\ \A s \in DOMAIN scopes' : scopes'[s] = scopes[s]
  BY <1>2, <1>4
<1> QED
  BY <1>3, <1>5 DEF Safe, SafeIn

LEMMA SafeStep == Typed /\ Safe /\ [Next]_vars => Safe'
<1> SUFFICES ASSUME Typed, Safe, [Next]_vars PROVE Safe'
  OBVIOUS
<1>1. CASE ModuleImport \/ ReturnStmt \/ \E name \in Names : ExprStmt(name)
  <2>1. pc \in {"file", "open", "block"} /\ scopes' = scopes
    BY <1>1 DEF ModuleImport, AtToplevel, ReturnStmt, ExprStmt, AtStatement
  <2>2. \E new : Heap(new, {})
    BY <1>1 DEF ModuleImport, ReturnStmt, ExprStmt
  <2> QED
    BY <2>1, <2>2, SafeAllocates
<1>2. CASE \E kind \in {"if", "while"} : Header(kind)
  <2>1. pc \in {"file", "open", "block"} /\ scopes' = scopes
    BY <1>2 DEF Header, AtStatement
  <2>2. \E new : Heap(new, {})
    BY <1>2 DEF Header
  <2> QED
    BY <2>1, <2>2, SafeAllocates
<1>3. CASE \E name \in Names, names \in Signatures, pub \in BOOLEAN :
             FnDeclaration(name, names, pub) \/ FnDefinition(name, names, pub)
  BY <1>3, SafeDeclares
<1>4. CASE \E name \in Names : LetStmt(name)
  BY <1>4, SafeLet
<1>5. CASE FnEnd
  BY <1>5, SafeFnEnd
<1>6. CASE BlockBegin \/ BlockEnd \/ FileParsed \/ UNCHANGED vars
  BY <1>6 DEF BlockBegin, BlockEnd, FileParsed, vars, heapVars, bodyVars, Safe
<1>7. CASE \/ \E name \in Names, names \in Signatures, pub \in BOOLEAN :
                FnUnexpected(name, names, pub)
           \/ \E names \in Signatures : FnUndeclared(names)
           \/ Unexpected \/ BlockNotBegun \/ BadStmt \/ Unwind \/ FnUnwind
           \/ ImportUnexpected \/ Crash \/ FileEnd \/ FileImported \/ FileRejected
  BY <1>7 DEF FnUnexpected, FnUndeclared, Unexpected, BlockNotBegun, BadStmt, Unwind,
              FnUnwind, ImportUnexpected, Crash, FileEnd, FileImported, FileRejected, Safe
<1> QED
  BY <1>1, <1>2, <1>3, <1>4, <1>5, <1>6, <1>7 DEF Next, ParseToplevel, ParseBlock

\* As long as anything is parsed or compiled, every identifier that a name may
\* be looked up as has not been freed: an error path that frees what it has
\* bound (parse_fn_definition) leads out of parse_file.
THEOREM LookupIsSafe == Spec => []LookupSafe
<1>1. Spec => [](Typed /\ Safe)
  BY TypedInit, TypedStep, SafeInit, SafeStep, PTL DEF Spec
<1>2. Safe => LookupSafe
  BY DEF Safe, SafeIn, LookupSafe
<1> QED
  BY <1>1, <1>2, PTL

-----------------------------------------------------------------------------
(* What a name means in a function.                                        *)

LEMMA BindingsAppend ==
  ASSUME NEW name, NEW idents \in Seq(Objects), NEW local \in Objects
  PROVE  /\ Bindings(name, idents) \subseteq 1..Len(idents)
         /\ Bindings(name, Append(idents, local)) \ Bindings(name, idents)
              \subseteq {Len(idents) + 1}
         /\ Bindings(name, idents) \subseteq Bindings(name, Append(idents, local))
         /\ \A k \in Bindings(name, idents) : Append(idents, local)[k] = idents[k]
<1>1. /\ Len(idents) \in Nat /\ DOMAIN Append(idents, local) = 1..(Len(idents) + 1)
      /\ \A k \in 1..Len(idents) : Append(idents, local)[k] = idents[k]
      /\ DOMAIN idents = 1..Len(idents)
  BY AppendProperties
<1>2. \A k \in 1..(Len(idents) + 1) : k \in 1..Len(idents) \/ k = Len(idents) + 1
  BY <1>1
<1>3. \A k \in 1..Len(idents) : k \in 1..(Len(idents) + 1)
  BY <1>1
<1> QED
  BY <1>1, <1>2, <1>3 DEF Bindings

LEMMA Least ==
  ASSUME NEW S \in SUBSET Nat, S # {}
  PROVE  \E k \in S : \A l \in S : k <= l
<1>1. PICK k \in S : \A l \in S : ~(<<l, k>> \in OpToRel(<, Nat))
  BY NatLessThanWellFounded, WFMin
<1>2. \A l \in S : ~(l < k)
  BY <1>1 DEF OpToRel
<1> QED
  BY <1>2

\* The first binding of a name in a scope.
First(name, idents) ==
  CHOOSE k \in Bindings(name, idents) : \A l \in Bindings(name, idents) : k <= l

LEMMA FirstStays ==
  ASSUME NEW name, NEW idents \in Seq(Objects), NEW local \in Objects,
         Bindings(name, idents) # {}
  PROVE  /\ First(name, Append(idents, local)) = First(name, idents)
         /\ First(name, idents) \in Bindings(name, idents)
<1> DEFINE old == Bindings(name, idents)
           new == Bindings(name, Append(idents, local))
           n == Len(idents)
<1>1. n \in Nat /\ old \subseteq 1..n /\ new \ old \subseteq {n + 1} /\ old \subseteq new
  BY BindingsAppend
<1>2. old # {}
  OBVIOUS
<1>3. /\ First(name, idents) = CHOOSE k \in old : \A l \in old : k <= l
      /\ First(name, Append(idents, local)) = CHOOSE k \in new : \A l \in new : k <= l
  BY DEF First
<1> HIDE DEF old, new, n
<1>4. old \in SUBSET Nat /\ new \in SUBSET Nat /\ new # {}
  <2>1. \A k \in old : k \in Nat
    BY <1>1
  <2>2. \A k \in new : k \in old \/ k = n + 1
    BY <1>1
  <2>3. \A k \in new : k \in Nat
    BY <1>1, <2>1, <2>2
  <2>4. new # {}
    BY <1>1, <1>2
  <2> QED
    BY <2>1, <2>3, <2>4
<1> DEFINE a == CHOOSE k \in old : \A l \in old : k <= l
           b == CHOOSE k \in new : \A l \in new : k <= l
<1>5. a \in old /\ \A l \in old : a <= l
  <2>1. \E k \in old : \A l \in old : k <= l
    BY <1>2, <1>4, Least
  <2> QED
    BY <2>1
<1>6. b \in new /\ \A l \in new : b <= l
  <2>1. \E k \in new : \A l \in new : k <= l
    BY <1>4, Least
  <2> QED
    BY <2>1
<1> HIDE DEF a, b
<1>7. a = b
  <2>1. b <= a
    BY <1>1, <1>5, <1>6
  <2>2. a <= n /\ a \in Nat /\ b \in Nat
    BY <1>1, <1>4, <1>5, <1>6
  <2>3. b # n + 1
    BY <1>1, <2>1, <2>2
  <2>4. b \in old
    BY <1>1, <1>6, <2>3
  <2>5. a <= b
    BY <1>5, <2>4
  <2> QED
    BY <2>1, <2>2, <2>5
<1>8. First(name, idents) = a /\ First(name, Append(idents, local)) = b
  BY <1>3 DEF a, b
<1> QED
  BY <1>5, <1>7, <1>8 DEF old

\* With a binding in the function, that is where a name is found.
LEMMA FoundInFunction ==
  ASSUME NEW name, NEW chain \in Seq(Seq(Objects)), Len(chain) = 2,
         Bindings(name, chain[2]) # {}
  PROVE  Find(name, chain) = chain[2][First(name, chain[2])]
<1> DEFINE innermost == CHOOSE s \in Scopes(name, chain) :
                          \A r \in Scopes(name, chain) : r <= s
<1>1. DOMAIN chain = 1..2
  OBVIOUS
<1>2. 2 \in Scopes(name, chain) /\ \A r \in Scopes(name, chain) : r \in {1, 2}
  BY <1>1 DEF Scopes
<1>3. innermost = 2
  <2>1. \E s \in Scopes(name, chain) : \A r \in Scopes(name, chain) : r <= s
    BY <1>2
  <2>2. innermost \in Scopes(name, chain) /\ \A r \in Scopes(name, chain) : r <= innermost
    BY <2>1
  <2> HIDE DEF innermost
  <2>3. innermost \in {1, 2} /\ 2 <= innermost
    BY <1>2, <2>2
  <2> QED
    BY <2>3
<1>4. Scopes(name, chain) # {}
  BY <1>2
<1>5. Find(name, chain) = chain[innermost][First(name, chain[innermost])]
  BY <1>4 DEF Find, First
<1> HIDE DEF innermost
<1> QED
  BY <1>3, <1>5

LEMMA FoundAfterLet ==
  ASSUME Typed, NEW name \in Names, LetStmt(name), NEW other \in Names, Within(other)
  PROVE  Find(other, scopes') = Find(other, scopes)
<1> DEFINE local == Local(name, Top, Here)
<1>1. pc = "block" /\ scopes' = Bound(scopes, local)
  BY DEF LetStmt, AtStatement, Bound
<1>2. local \in Objects
  BY TopNat, ObjectsTyped DEF Typed
<1>3. scopes \in Seq(Seq(Objects)) /\ Len(scopes) = 2
  BY <1>1 DEF Typed, TypeOK, Shape
<1> HIDE DEF local
<1>4. /\ scopes' \in Seq(Seq(Objects)) /\ Len(scopes') = 2
      /\ scopes'[2] = Append(scopes[2], local)
  BY <1>1, <1>2, <1>3, LetScopes
<1>5. scopes[2] \in Seq(Objects)
  <2>1. 2 \in 1..Len(scopes)
    BY <1>3
  <2> QED
    BY <1>3, <2>1, ElementTyped
<1>6. Bindings(other, scopes[2]) # {}
  BY DEF Within
<1>7. /\ First(other, scopes'[2]) = First(other, scopes[2])
      /\ First(other, scopes[2]) \in Bindings(other, scopes[2])
  BY <1>2, <1>4, <1>5, <1>6, FirstStays
<1>8. /\ Bindings(other, scopes[2]) \subseteq Bindings(other, scopes'[2])
      /\ \A k \in Bindings(other, scopes[2]) : scopes'[2][k] = scopes[2][k]
  BY <1>2, <1>4, <1>5, BindingsAppend
<1>9. Find(other, scopes) = scopes[2][First(other, scopes[2])]
  BY <1>3, <1>6, FoundInFunction
<1>10. Find(other, scopes') = scopes'[2][First(other, scopes'[2])]
  BY <1>4, <1>6, <1>8, FoundInFunction
<1> QED
  BY <1>7, <1>8, <1>9, <1>10

LEMMA BindingsStep ==
  ASSUME Typed, [Next]_vars, NEW name \in Names, Within(name), Len(scopes') = 2
  PROVE  Find(name, scopes') = Find(name, scopes)
<1>1. Len(scopes) = 2 /\ scopes \in Seq(Seq(Objects))
  BY DEF Within, Typed, TypeOK
<1>2. pc # "file"
  BY <1>1 DEF Typed, Shape
<1>3. CASE \E other \in Names : LetStmt(other)
  BY <1>3, FoundAfterLet
<1>4. CASE scopes' = scopes
  BY <1>4
<1>5. scopes' # ExitScope(scopes)
  <2>1. Len(scopes) >= 1
    BY <1>1
  <2>2. Len(ExitScope(scopes)) = Len(scopes) - 1
    BY <1>1, <2>1, ExitTyped
  <2> QED
    BY <1>1, <2>2
<1>6. CASE ParseToplevel
  BY <1>2, <1>6 DEF ParseToplevel, ModuleImport, FnDeclaration, FnDefinition, FnUnexpected,
                    FnUndeclared, ImportUnexpected, Unexpected, AtToplevel
<1>7. CASE ParseBlock
  BY <1>3, <1>4, <1>5, <1>7 DEF ParseBlock, BlockBegin, BlockNotBegun, ExprStmt, ReturnStmt,
     Header, BadStmt, BlockEnd, FnEnd, Unwind, FnUnwind
<1>8. CASE Crash \/ FileParsed \/ FileEnd \/ FileImported \/ FileRejected \/ UNCHANGED vars
  BY <1>4, <1>5, <1>8 DEF Crash, FileParsed, FileEnd, FileImported, FileRejected, vars
<1> QED
  BY <1>6, <1>7, <1>8 DEF Next

\* A name that means an argument or a local means it to the end of the
\* function: parse_let_stmt appends, and find_ident_in_scope takes the first.
THEOREM BindingsAreStable == Spec => BindingsStable
<1>1. Typed /\ [Next]_vars =>
        [\A name \in Names :
           Within(name) /\ Len(scopes') = 2 => Find(name, scopes') = Find(name, scopes)]_vars
  BY BindingsStep
<1>2. Spec => []Typed
  BY TypedInit, TypedStep, PTL DEF Spec
<1> QED
  BY <1>1, <1>2, PTL DEF Spec, BindingsStable

-----------------------------------------------------------------------------
(* How statements nest.  st are the statements whose blocks are being      *)
(* parsed, outermost first, 0 for the body of the function.                *)

OpenOf(st) == {st[k] : k \in 1..Len(st)}
LastIn(b, st, i) == IF i \in OpenOf(st) THEN Len(b) ELSE b[i].last

NestTyped(b, lv, st) ==
  /\ b \in Seq(Statements) /\ lv \in Seq(Nat) /\ st \in Seq(Nat)
  /\ Len(b) \in Nat /\ Len(st) \in Nat
  /\ Len(lv) = Len(b) /\ Len(st) >= 1

\* The calls of parse_stmt_block are of ifs and whiles, each one level deeper
\* than the last and around all that has come after it.
CallsNest(b, lv, st) ==
  /\ st[1] = 0
  /\ \A k \in 2..Len(st) : /\ st[k] \in 1..Len(b) /\ lv[st[k]] = k - 1
                           /\ b[st[k]].kind \in {"if", "while"}
  /\ \A k, l \in 1..Len(st) : k < l => st[k] < st[l]
  /\ \A k \in 1..Len(st) : \A i \in (st[k] + 1)..Len(b) : lv[i] >= k

\* The next statement will not be in the block of one that is complete.
ClosedStay(b, lv, st) ==
  \A i \in 1..Len(b) : i \notin OpenOf(st) =>
    \/ lv[i] >= Len(st)
    \/ \E j \in (i + 1)..Len(b) : lv[j] <= lv[i]

BlocksNest(b, st) ==
  /\ \A i \in 1..Len(b) : i <= LastIn(b, st, i) /\ LastIn(b, st, i) <= Len(b)
  /\ \A i \in 1..Len(b) : b[i].kind \in {"simple", "return"} => LastIn(b, st, i) = i
  /\ \A i, j \in 1..Len(b) :
       i < j /\ j <= LastIn(b, st, i) => LastIn(b, st, j) <= LastIn(b, st, i)

BlocksAsIndented(b, lv, st) ==
  \A i, j \in 1..Len(b) :
    i < j => (j <= LastIn(b, st, i) <=> \A k \in (i + 1)..j : lv[k] > lv[i])

Nesting(b, lv, st) ==
  /\ NestTyped(b, lv, st)
  /\ CallsNest(b, lv, st)
  /\ ClosedStay(b, lv, st)
  /\ BlocksNest(b, st)
  /\ BlocksAsIndented(b, lv, st)

\* A body with one more statement, which may begin a block.
Longer(b, lv, st, kind, b2, lv2, st2) ==
  /\ b2 = Append(b, [kind |-> kind, last |-> Len(b) + 1])
  /\ lv2 = Append(lv, Len(st))
  /\ kind \in Kinds
  /\ \/ st2 = st
     \/ st2 = Append(st, Len(b) + 1) /\ kind \in {"if", "while"}

\* What it has at each place.
LongerAt(b, lv, st, kind, b2, lv2, st2) ==
  /\ Len(b2) = Len(b) + 1
  /\ \A i \in 1..Len(b2) : i \in 1..Len(b) \/ i = Len(b) + 1
  /\ \A i \in 1..Len(b) : i \in 1..Len(b2) /\ b2[i] = b[i] /\ lv2[i] = lv[i]
  /\ Len(b) + 1 \in 1..Len(b2)
  /\ b2[Len(b) + 1].kind = kind /\ b2[Len(b) + 1].last = Len(b) + 1
  /\ lv2[Len(b) + 1] = Len(st)
  /\ \A k \in 1..Len(st) : k \in 1..Len(st2) /\ st2[k] = st[k]
  /\ \/ Len(st2) = Len(st)
     \/ /\ Len(st2) = Len(st) + 1 /\ st2[Len(st) + 1] = Len(b) + 1
        /\ kind \in {"if", "while"}
  /\ \A i \in 1..Len(b) : i \in OpenOf(st2) <=> i \in OpenOf(st)
  /\ \A i \in 1..Len(b) :
       LastIn(b2, st2, i) = IF i \in OpenOf(st) THEN Len(b) + 1 ELSE b[i].last
  /\ LastIn(b2, st2, Len(b) + 1) = Len(b) + 1

LEMMA LongerTyped ==
  ASSUME NEW b, NEW lv, NEW st, NEW kind, NEW b2, NEW lv2, NEW st2,
         NestTyped(b, lv, st), Longer(b, lv, st, kind, b2, lv2, st2)
  PROVE  NestTyped(b2, lv2, st2)
<1> DEFINE x == [kind |-> kind, last |-> Len(b) + 1]
<1>1. x \in Statements
  BY DEF NestTyped, Longer, Statements
<1>2. b2 = Append(b, x) /\ lv2 = Append(lv, Len(st))
  BY DEF Longer
<1> HIDE DEF x
<1>3. /\ b \in Seq(Statements) /\ lv \in Seq(Nat) /\ st \in Seq(Nat)
      /\ Len(b) \in Nat /\ Len(st) \in Nat /\ Len(lv) = Len(b) /\ Len(st) >= 1
  BY DEF NestTyped
<1>4. b2 \in Seq(Statements) /\ Len(b2) = Len(b) + 1
  BY <1>1, <1>2, <1>3, AppendProperties
<1>5. lv2 \in Seq(Nat) /\ Len(lv2) = Len(b) + 1
  BY <1>2, <1>3, AppendProperties
<1>6. st2 \in Seq(Nat) /\ Len(st2) \in Nat /\ Len(st2) >= 1
  <2>1. CASE st2 = st
    BY <1>3, <2>1
  <2>2. CASE st2 = Append(st, Len(b) + 1)
    <3>1. Len(b) + 1 \in Nat
      BY <1>3
    <3> QED
      BY <1>3, <2>2, <3>1, AppendProperties
  <2> QED
    BY <2>1, <2>2 DEF Longer
<1> QED
  BY <1>3, <1>4, <1>5, <1>6 DEF NestTyped

LEMMA LongerPlaces ==
  ASSUME NEW b, NEW lv, NEW st, NEW kind, NEW b2, NEW lv2, NEW st2,
         NestTyped(b, lv, st), Longer(b, lv, st, kind, b2, lv2, st2)
  PROVE  LongerAt(b, lv, st, kind, b2, lv2, st2)
<1> DEFINE n == Len(b)
           m == Len(st)
           x == [kind |-> kind, last |-> n + 1]
<1>1. /\ b \in Seq(Statements) /\ lv \in Seq(Nat) /\ st \in Seq(Nat)
      /\ n \in Nat /\ m \in Nat /\ Len(lv) = n /\ m >= 1
  BY DEF NestTyped
<1>2. b2 = Append(b, x) /\ lv2 = Append(lv, m)
  BY DEF Longer
<1>3. x \in Statements /\ x.kind = kind /\ x.last = n + 1
  BY <1>1 DEF Longer, Statements
<1> HIDE DEF x
<1>4. Len(b2) = n + 1 /\ (\A i \in 1..n : b2[i] = b[i]) /\ b2[n + 1] = x
  BY <1>1, <1>2, <1>3, AppendProperties
<1>5. (\A i \in 1..n : lv2[i] = lv[i]) /\ lv2[n + 1] = m
  BY <1>1, <1>2, AppendProperties
<1>6. /\ \A k \in 1..m : k \in 1..Len(st2) /\ st2[k] = st[k]
      /\ \/ st2 = st
         \/ Len(st2) = m + 1 /\ st2[m + 1] = n + 1 /\ kind \in {"if", "while"}
  <2>1. CASE st2 = st
    BY <2>1
  <2>2. CASE st2 = Append(st, n + 1) /\ kind \in {"if", "while"}
    <3>1. /\ Len(st2) = m + 1 /\ st2[m + 1] = n + 1
          /\ \A k \in 1..m : st2[k] = st[k]
      BY <1>1, <2>2, AppendProperties
    <3>2. \A k \in 1..m : k \in 1..(m + 1)
      BY <1>1
    <3> QED
      BY <2>2, <3>1, <3>2
  <2> QED
    BY <2>1, <2>2 DEF Longer
<1> HIDE DEF n, m
<1>7. \A i \in 1..(n + 1) : i \in 1..n \/ i = n + 1
  BY <1>1
<1>8. (\A i \in 1..n : i \in 1..(n + 1) /\ i # n + 1) /\ n + 1 \in 1..(n + 1)
  BY <1>1
<1>9. \A i \in 1..n : i \in OpenOf(st2) <=> i \in OpenOf(st)
  <2>1. CASE st2 = st
    BY <2>1
  <2>2. CASE Len(st2) = m + 1 /\ st2[m + 1] = n + 1
    <3>1. \A k \in 1..Len(st2) : k \in 1..m \/ k = m + 1
      BY <1>1, <2>2
    <3>2. ASSUME NEW i \in 1..n, i \in OpenOf(st2) PROVE i \in OpenOf(st)
      <4>1. PICK k \in 1..Len(st2) : i = st2[k]
        BY <3>2 DEF OpenOf
      <4>2. k \in 1..m
        BY <1>8, <2>2, <3>1, <4>1
      <4> QED
        BY <1>6, <4>1, <4>2 DEF OpenOf, m
    <3>3. ASSUME NEW i \in 1..n, i \in OpenOf(st) PROVE i \in OpenOf(st2)
      BY <1>6, <3>3 DEF OpenOf, m
    <3> QED
      BY <3>2, <3>3
  <2> QED
    BY <1>6, <2>1, <2>2
<1>10. \A i \in 1..n :
         LastIn(b2, st2, i) = IF i \in OpenOf(st) THEN n + 1 ELSE b[i].last
  BY <1>4, <1>9 DEF LastIn
<1>11. LastIn(b2, st2, n + 1) = n + 1
  BY <1>3, <1>4 DEF LastIn
<1>12. Len(st2) = m \/ (Len(st2) = m + 1 /\ st2[m + 1] = n + 1 /\ kind \in {"if", "while"})
  BY <1>6 DEF m
<1> QED
  BY <1>3, <1>4, <1>5, <1>6, <1>7, <1>8, <1>9, <1>10, <1>11, <1>12 DEF LongerAt, n, m

\* Where the open blocks begin.
LEMMA OpenBounds ==
  ASSUME NEW b, NEW lv, NEW st, NestTyped(b, lv, st), CallsNest(b, lv, st)
  PROVE  /\ \A k \in 1..Len(st) : st[k] \in Nat /\ st[k] <= Len(b)
         /\ \A i \in OpenOf(st) : i \in Nat /\ i <= Len(b)
<1>1. Len(b) \in Nat /\ Len(st) \in Nat
  BY DEF NestTyped
<1>2. st[1] = 0 /\ \A k \in 2..Len(st) : st[k] \in 1..Len(b)
  BY DEF CallsNest
<1>3. \A k \in 1..Len(st) : k = 1 \/ k \in 2..Len(st)
  BY <1>1
<1>4. \A k \in 1..Len(st) : st[k] \in Nat /\ st[k] <= Len(b)
  BY <1>1, <1>2, <1>3
<1> QED
  BY <1>4 DEF OpenOf

LEMMA CallsNestLonger ==
  ASSUME NEW b, NEW lv, NEW st, NEW kind, NEW b2, NEW lv2, NEW st2,
         Nesting(b, lv, st), LongerAt(b, lv, st, kind, b2, lv2, st2)
  PROVE  CallsNest(b2, lv2, st2)
<1> DEFINE n == Len(b)
           m == Len(st)
           m2 == Len(st2)
<1>1. n \in Nat /\ m \in Nat /\ m >= 1
  BY DEF Nesting, NestTyped
<1>2. /\ st[1] = 0
      /\ \A k \in 2..m : st[k] \in 1..n /\ lv[st[k]] = k - 1 /\ b[st[k]].kind \in {"if", "while"}
      /\ \A k, l \in 1..m : k < l => st[k] < st[l]
      /\ \A k \in 1..m : \A i \in (st[k] + 1)..n : lv[i] >= k
  BY DEF Nesting, CallsNest
<1>3. /\ Len(b2) = n + 1
      /\ \A i \in 1..n : b2[i] = b[i] /\ lv2[i] = lv[i]
      /\ b2[n + 1].kind = kind /\ lv2[n + 1] = m
      /\ \A k \in 1..m : st2[k] = st[k]
      /\ m2 = m \/ (m2 = m + 1 /\ st2[m + 1] = n + 1 /\ kind \in {"if", "while"})
  BY DEF LongerAt
<1>4. \A k \in 1..m : st[k] \in Nat /\ st[k] <= n
  BY OpenBounds DEF Nesting
<1> HIDE DEF n, m, m2
<1>5. \A k \in 1..m2 : k \in 1..m \/ (k = m + 1 /\ m2 = m + 1)
  BY <1>1, <1>3
<1>6. st2[1] = 0
  <2>1. 1 \in 1..m
    BY <1>1
  <2> QED
    BY <1>2, <1>3, <2>1
<1>7. ASSUME NEW k \in 2..m2
      PROVE  st2[k] \in 1..Len(b2) /\ lv2[st2[k]] = k - 1 /\ b2[st2[k]].kind \in {"if", "while"}
  <2>1. k \in 1..m2 /\ k # 1 /\ k \in Nat
    BY <1>1, <1>3, <1>7
  <2>2. CASE k \in 1..m
    <3>1. k \in 2..m /\ st2[k] = st[k]
      BY <1>1, <1>3, <2>1, <2>2
    <3>2. st[k] \in 1..n /\ lv[st[k]] = k - 1 /\ b[st[k]].kind \in {"if", "while"}
      BY <1>2, <3>1
    <3>3. lv2[st[k]] = lv[st[k]] /\ b2[st[k]] = b[st[k]] /\ st[k] \in 1..(n + 1)
      BY <1>1, <1>3, <3>2
    <3> QED
      BY <1>3, <3>1, <3>2, <3>3
  <2>3. CASE k = m + 1 /\ m2 = m + 1
    <3>1. st2[k] = n + 1 /\ kind \in {"if", "while"}
      BY <1>1, <1>3, <2>3
    <3> QED
      BY <1>1, <1>3, <2>3, <3>1
  <2> QED
    BY <1>5, <2>1, <2>2, <2>3
<1>8. ASSUME NEW k \in 1..m2, NEW l \in 1..m2, k < l PROVE st2[k] < st2[l]
  <2>1. CASE l \in 1..m
    <3>1. k \in 1..m
      BY <1>1, <1>5, <1>8, <2>1
    <3> QED
      BY <1>2, <1>3, <1>8, <2>1, <3>1
  <2>2. CASE l = m + 1 /\ m2 = m + 1
    <3>1. k \in 1..m
      BY <1>1, <1>8, <2>2
    <3>2. st2[l] = n + 1
      BY <1>1, <1>3, <2>2
    <3> QED
      BY <1>1, <1>3, <1>4, <3>1, <3>2
  <2> QED
    BY <1>5, <2>1, <2>2
<1>9. ASSUME NEW k \in 1..m2, NEW i \in (st2[k] + 1)..(n + 1) PROVE lv2[i] >= k
  <2>1. CASE k \in 1..m
    <3>1. st2[k] = st[k] /\ st[k] \in Nat
      BY <1>3, <1>4, <2>1
    <3>2. CASE i = n + 1
      BY <1>1, <1>3, <2>1, <3>2
    <3>3. CASE i # n + 1
      <4>1. i \in (st[k] + 1)..n /\ i \in 1..n
        BY <1>1, <1>9, <3>1, <3>3
      <4> QED
        BY <1>2, <1>3, <2>1, <4>1
    <3> QED
      BY <3>2, <3>3
  <2>2. CASE k = m + 1 /\ m2 = m + 1
    <3>1. st2[k] = n + 1
      BY <1>1, <1>3, <2>2
    <3> QED
      BY <1>1, <1>9, <3>1
  <2> QED
    BY <1>5, <2>1, <2>2
<1>10. Len(b2) = n + 1
  BY <1>3
<1> QED
  BY <1>6, <1>7, <1>8, <1>9, <1>10 DEF CallsNest, m2

LEMMA ClosedStayLonger ==
  ASSUME NEW b, NEW lv, NEW st, NEW kind, NEW b2, NEW lv2, NEW st2,
         Nesting(b, lv, st), LongerAt(b, lv, st, kind, b2, lv2, st2)
  PROVE  ClosedStay(b2, lv2, st2)
<1> DEFINE n == Len(b)
           m == Len(st)
           m2 == Len(st2)
<1>1. n \in Nat /\ m \in Nat /\ m >= 1 /\ \A i \in 1..n : lv[i] \in Nat
  <2>1. n \in Nat /\ m \in Nat /\ m >= 1 /\ lv \in Seq(Nat) /\ Len(lv) = n
    BY DEF Nesting, NestTyped
  <2> QED
    BY <2>1
<1>2. \A i \in 1..n : i \notin OpenOf(st) => lv[i] >= m \/ \E j \in (i + 1)..n : lv[j] <= lv[i]
  BY DEF Nesting, ClosedStay
<1>3. /\ Len(b2) = n + 1
      /\ \A i \in 1..n : lv2[i] = lv[i]
      /\ lv2[n + 1] = m
      /\ \A i \in 1..n : i \in OpenOf(st2) <=> i \in OpenOf(st)
      /\ m2 = m \/ (m2 = m + 1 /\ st2[m + 1] = n + 1)
  BY DEF LongerAt
<1>4. m2 = m + 1 /\ st2[m + 1] = n + 1 => n + 1 \in OpenOf(st2)
  <2>1. m2 = m + 1 => m + 1 \in 1..m2
    BY <1>1
  <2> QED
    BY <2>1 DEF OpenOf, m2
<1> HIDE DEF n, m, m2
<1>5. ASSUME NEW i \in 1..(n + 1), i \notin OpenOf(st2)
      PROVE  lv2[i] >= m2 \/ \E j \in (i + 1)..(n + 1) : lv2[j] <= lv2[i]
  <2>1. CASE i = n + 1
    BY <1>1, <1>3, <1>4, <1>5, <2>1
  <2>2. CASE i # n + 1
    <3>1. i \in 1..n /\ i \notin OpenOf(st) /\ lv2[i] = lv[i] /\ lv[i] \in Nat
      BY <1>1, <1>3, <1>5, <2>2
    <3>2. CASE lv[i] >= m
      <4>1. n + 1 \in (i + 1)..(n + 1) /\ lv2[n + 1] <= lv2[i]
        BY <1>1, <1>3, <3>1, <3>2
      <4> QED
        BY <4>1
    <3>3. CASE \E j \in (i + 1)..n : lv[j] <= lv[i]
      <4>1. PICK j \in (i + 1)..n : lv[j] <= lv[i]
        BY <3>3
      <4>2. j \in 1..n /\ j \in (i + 1)..(n + 1)
        BY <1>1, <3>1, <4>1
      <4>3. lv2[j] <= lv2[i]
        BY <1>3, <3>1, <4>1, <4>2
      <4> QED
        BY <4>2, <4>3
    <3> QED
      BY <1>2, <3>1, <3>2, <3>3
  <2> QED
    BY <2>1, <2>2
<1>6. Len(b2) = n + 1
  BY <1>3
<1> QED
  BY <1>5, <1>6 DEF ClosedStay, m2

\* What Nesting says of an open statement and of a complete one.
LEMMA OpenPlaces ==
  ASSUME NEW b, NEW lv, NEW st, Nesting(b, lv, st),
         NEW i \in 1..Len(b), i \in OpenOf(st)
  PROVE  /\ lv[i] \in Nat /\ lv[i] < Len(st)
         /\ \A j \in (i + 1)..Len(b) : lv[j] > lv[i]
<1> DEFINE n == Len(b)
           m == Len(st)
<1>1. n \in Nat /\ m \in Nat /\ \A j \in 1..n : lv[j] \in Nat
  <2>1. n \in Nat /\ m \in Nat /\ lv \in Seq(Nat) /\ Len(lv) = n
    BY DEF Nesting, NestTyped
  <2> QED
    BY <2>1
<1>2. PICK k \in 1..m : i = st[k]
  BY DEF OpenOf
<1>3. /\ st[1] = 0
      /\ \A l \in 2..m : lv[st[l]] = l - 1
      /\ \A l \in 1..m : \A j \in (st[l] + 1)..n : lv[j] >= l
  BY DEF Nesting, CallsNest
<1>4. i \in 1..n
  OBVIOUS
<1> HIDE DEF n, m
<1>5. k \in 2..m
  BY <1>1, <1>2, <1>3, <1>4
<1>6. lv[i] = k - 1 /\ lv[i] < m
  BY <1>1, <1>2, <1>3, <1>5
<1>7. ASSUME NEW j \in (i + 1)..n PROVE lv[j] > lv[i]
  <2>1. j \in 1..n /\ lv[j] \in Nat /\ lv[j] >= k
    BY <1>1, <1>2, <1>3, <1>4, <1>7
  <2> QED
    BY <1>1, <1>5, <1>6, <2>1
<1> QED
  BY <1>1, <1>6, <1>7, <1>4 DEF n, m

LEMMA ClosedPlaces ==
  ASSUME NEW b, NEW lv, NEW st, Nesting(b, lv, st),
         NEW i \in 1..Len(b), i \notin OpenOf(st)
  PROVE  /\ lv[i] \in Nat
         /\ b[i].last \in Nat /\ i <= b[i].last /\ b[i].last <= Len(b)
         /\ lv[i] >= Len(st) \/ \E j \in (i + 1)..Len(b) : lv[j] <= lv[i]
         /\ \A j \in (i + 1)..Len(b) : j \in OpenOf(st) => b[i].last < j
<1> DEFINE n == Len(b)
           m == Len(st)
           last == b[i].last
<1>1. n \in Nat /\ m \in Nat /\ (\A j \in 1..n : lv[j] \in Nat) /\ last \in Nat
  <2>1. /\ n \in Nat /\ m \in Nat /\ lv \in Seq(Nat) /\ Len(lv) = n
        /\ b \in Seq(Statements)
    BY DEF Nesting, NestTyped
  <2>2. b[i] \in Statements
    BY <2>1, ElementTyped
  <2> QED
    BY <2>1, <2>2 DEF Statements
<1>2. LastIn(b, st, i) = last
  BY DEF LastIn
<1>3. i <= last /\ last <= n
  BY <1>2 DEF Nesting, BlocksNest
<1>4. lv[i] >= m \/ \E j \in (i + 1)..n : lv[j] <= lv[i]
  BY DEF Nesting, ClosedStay
<1>5. ASSUME NEW j \in (i + 1)..n, j \in OpenOf(st), j <= last PROVE FALSE
  <2>1. i \in 1..n /\ j \in 1..n /\ i < j
    BY <1>1, <1>5
  <2>2. LastIn(b, st, j) = n
    BY <1>5 DEF LastIn
  <2>3. n <= last
    BY <1>2, <1>5, <2>1, <2>2 DEF Nesting, BlocksNest
  <2>4. n \in 1..n /\ i < n /\ n <= LastIn(b, st, i)
    BY <1>1, <1>2, <2>1, <2>3
  <2>5. \A k \in (i + 1)..n : lv[k] > lv[i]
    BY <2>1, <2>4 DEF Nesting, BlocksAsIndented
  <2>6. lv[j] < m /\ lv[j] \in Nat
    BY <1>5, <2>1, OpenPlaces
  <2>7. lv[i] \in Nat /\ lv[j] > lv[i]
    BY <1>1, <1>5, <2>1, <2>5
  <2>8. \A k \in (i + 1)..n : k \in 1..n
    BY <1>1, <2>1
  <2>9. ~(lv[i] >= m)
    BY <1>1, <2>6, <2>7
  <2>10. PICK k \in (i + 1)..n : lv[k] <= lv[i]
    BY <1>4, <2>9
  <2>11. lv[k] \in Nat /\ lv[k] > lv[i]
    BY <1>1, <2>5, <2>8, <2>10
  <2> QED
    BY <2>7, <2>10, <2>11
<1>6. \A j \in (i + 1)..n : j \in OpenOf(st) => last < j
  BY <1>1, <1>5
<1> QED
  BY <1>1, <1>3, <1>4, <1>6

LEMMA BlocksNestLonger ==
  ASSUME NEW b, NEW lv, NEW st, NEW kind, NEW b2, NEW lv2, NEW st2,
         Nesting(b, lv, st), LongerAt(b, lv, st, kind, b2, lv2, st2)
  PROVE  BlocksNest(b2, st2)
<1> DEFINE n == Len(b)
           Last(i) == LastIn(b2, st2, i)
<1>1. n \in Nat
  BY DEF Nesting, NestTyped
<1>2. /\ Len(b2) = n + 1
      /\ \A i \in 1..n : b2[i] = b[i]
      /\ \A i \in 1..n : Last(i) = IF i \in OpenOf(st) THEN n + 1 ELSE b[i].last
      /\ Last(n + 1) = n + 1
  BY DEF LongerAt
<1>3. \A i \in 1..n : i \notin OpenOf(st) =>
        b[i].last \in Nat /\ i <= b[i].last /\ b[i].last <= n
  BY ClosedPlaces
<1>4. \A i, j \in 1..n : i < j /\ i \notin OpenOf(st) /\ j \in OpenOf(st) => b[i].last < j
  <2>1. \A i, j \in 1..n : i < j => j \in (i + 1)..n
    BY <1>1
  <2> QED
    BY <2>1, ClosedPlaces
<1>5. \A i, j \in 1..n :
        i < j /\ i \notin OpenOf(st) /\ j \notin OpenOf(st) /\ j <= b[i].last
        => b[j].last <= b[i].last
  BY DEF Nesting, BlocksNest, LastIn
<1>6. \A i \in 1..n : b[i].kind \in {"simple", "return"} => i \notin OpenOf(st) /\ b[i].last = i
  <2>1. \A k \in 2..Len(st) : b[st[k]].kind \in {"if", "while"}
    BY DEF Nesting, CallsNest
  <2>2. Len(st) \in Nat /\ st[1] = 0
    BY DEF Nesting, NestTyped, CallsNest
  <2>3. ASSUME NEW i \in 1..n, b[i].kind \in {"simple", "return"}, i \in OpenOf(st)
        PROVE  FALSE
    <3>1. PICK k \in 1..Len(st) : i = st[k]
      BY <2>3 DEF OpenOf
    <3>2. k \in 2..Len(st)
      <4>1. i # 0
        BY <1>1, <2>3
      <4> HIDE DEF n
      <4> QED
        BY <2>2, <3>1, <4>1
    <3> QED
      BY <2>1, <2>3, <3>1, <3>2
  <2>4. \A i \in 1..n : b[i].kind \in {"simple", "return"} => LastIn(b, st, i) = i
    BY DEF Nesting, BlocksNest
  <2> QED
    BY <2>3, <2>4 DEF LastIn
<1> HIDE DEF n, Last
<1>7. \A i \in 1..(n + 1) : i \in 1..n \/ i = n + 1
  BY <1>1
<1>8. ASSUME NEW i \in 1..(n + 1) PROVE i <= Last(i) /\ Last(i) <= n + 1 /\ Last(i) \in Nat
  BY <1>1, <1>2, <1>3, <1>7
<1>9. b2[n + 1].kind \in {"simple", "return"} => Last(n + 1) = n + 1
  BY <1>2
<1>10. ASSUME NEW i \in 1..(n + 1), b2[i].kind \in {"simple", "return"} PROVE Last(i) = i
  BY <1>2, <1>6, <1>7, <1>10
<1>11. ASSUME NEW i \in 1..(n + 1), NEW j \in 1..(n + 1), i < j, j <= Last(i)
       PROVE  Last(j) <= Last(i)
  <2>1. i \in 1..n
    BY <1>1, <1>11
  <2>2. CASE i \in OpenOf(st)
    BY <1>1, <1>2, <1>8, <2>1, <2>2
  <2>3. CASE i \notin OpenOf(st)
    <3>1. Last(i) = b[i].last /\ b[i].last \in Nat /\ b[i].last <= n
      BY <1>2, <1>3, <2>1, <2>3
    <3>2. j \in 1..n
      BY <1>1, <1>11, <3>1
    <3>3. j \notin OpenOf(st)
      BY <1>4, <1>11, <2>1, <2>3, <3>1, <3>2
    <3> QED
      BY <1>2, <1>5, <1>11, <2>1, <2>3, <3>1, <3>2, <3>3
  <2> QED
    BY <2>2, <2>3
<1> QED
  BY <1>2, <1>8, <1>10, <1>11 DEF BlocksNest, Last

LEMMA BlocksAsIndentedLonger ==
  ASSUME NEW b, NEW lv, NEW st, NEW kind, NEW b2, NEW lv2, NEW st2,
         Nesting(b, lv, st), LongerAt(b, lv, st, kind, b2, lv2, st2)
  PROVE  BlocksAsIndented(b2, lv2, st2)
<1> DEFINE n == Len(b)
           m == Len(st)
           Last(i) == LastIn(b2, st2, i)
<1>1. n \in Nat /\ m \in Nat
  BY DEF Nesting, NestTyped
<1>2. /\ Len(b2) = n + 1
      /\ \A i \in 1..n : lv2[i] = lv[i]
      /\ lv2[n + 1] = m
      /\ \A i \in 1..n : Last(i) = IF i \in OpenOf(st) THEN n + 1 ELSE b[i].last
  BY DEF LongerAt
<1>3. \A i \in 1..n : i \notin OpenOf(st) =>
        /\ lv[i] \in Nat
        /\ b[i].last \in Nat /\ b[i].last <= n
        /\ lv[i] >= m \/ \E j \in (i + 1)..n : lv[j] <= lv[i]
  BY ClosedPlaces
<1>4. \A i \in 1..n : i \in OpenOf(st) =>
        /\ lv[i] \in Nat /\ lv[i] < m
        /\ \A j \in (i + 1)..n : lv[j] > lv[i]
  BY OpenPlaces
<1>5. \A i, j \in 1..n :
        i < j => (j <= LastIn(b, st, i) <=> \A k \in (i + 1)..j : lv[k] > lv[i])
  BY DEF Nesting, BlocksAsIndented
<1>6. \A i \in 1..n : LastIn(b, st, i) = IF i \in OpenOf(st) THEN n ELSE b[i].last
  BY DEF LastIn
<1> HIDE DEF n, m, Last
<1>7. ASSUME NEW i \in 1..(n + 1), NEW j \in 1..(n + 1), i < j
      PROVE  j <= Last(i) <=> \A k \in (i + 1)..j : lv2[k] > lv2[i]
  <2>1. i \in 1..n /\ lv2[i] = lv[i]
    BY <1>1, <1>2, <1>7
  <2>2. CASE j \in 1..n
    <3>1. \A k \in (i + 1)..j : k \in 1..n /\ lv2[k] = lv[k]
      <4>1. \A k \in (i + 1)..j : k \in 1..n
        BY <1>1, <2>1, <2>2
      <4> QED
        BY <1>2, <4>1
    <3>2. j <= Last(i) <=> j <= LastIn(b, st, i)
      BY <1>1, <1>2, <1>6, <2>1, <2>2
    <3>3. j <= LastIn(b, st, i) <=> \A k \in (i + 1)..j : lv[k] > lv[i]
      BY <1>5, <1>7, <2>1, <2>2
    <3> QED
      BY <2>1, <3>1, <3>2, <3>3
  <2>3. CASE j = n + 1
    <3>1. CASE i \in OpenOf(st)
      <4>1. j <= Last(i)
        BY <1>1, <1>2, <2>1, <2>3, <3>1
      <4>2. ASSUME NEW k \in (i + 1)..j PROVE lv2[k] > lv2[i]
        <5>1. k = n + 1 \/ (k \in (i + 1)..n /\ k \in 1..n)
          BY <1>1, <2>1, <2>3, <4>2
        <5>2. lv[i] \in Nat /\ lv[i] < m /\ \A l \in (i + 1)..n : lv[l] > lv[i]
          BY <1>4, <2>1, <3>1
        <5>3. CASE k = n + 1
          BY <1>1, <1>2, <2>1, <5>2, <5>3
        <5>4. CASE k \in (i + 1)..n /\ k \in 1..n
          BY <1>2, <2>1, <5>2, <5>4
        <5> QED
          BY <5>1, <5>3, <5>4
      <4> QED
        BY <4>1, <4>2
    <3>2. CASE i \notin OpenOf(st)
      <4>1. ~(j <= Last(i))
        BY <1>1, <1>2, <1>3, <2>1, <2>3, <3>2
      <4>2. \E k \in (i + 1)..j : ~(lv2[k] > lv2[i])
        <5>1. CASE lv[i] >= m
          <6>1. n + 1 \in (i + 1)..j /\ ~(lv2[n + 1] > lv2[i])
            BY <1>1, <1>2, <1>3, <2>1, <2>3, <3>2, <5>1
          <6> QED
            BY <6>1
        <5>2. CASE \E k \in (i + 1)..n : lv[k] <= lv[i]
          <6>1. PICK k \in (i + 1)..n : lv[k] <= lv[i]
            BY <5>2
          <6>2. k \in 1..n /\ k \in (i + 1)..j
            BY <1>1, <2>1, <2>3, <6>1
          <6>3. lv[k] \in Nat /\ lv[i] \in Nat
            BY <1>3, <1>4, <2>1, <6>2
          <6>4. ~(lv2[k] > lv2[i])
            BY <1>2, <2>1, <6>1, <6>2, <6>3
          <6> QED
            BY <6>2, <6>4
        <5> QED
          BY <1>3, <2>1, <3>2, <5>1, <5>2
      <4> QED
        BY <4>1, <4>2
    <3> QED
      BY <3>1, <3>2
  <2> QED
    BY <1>1, <2>2, <2>3
<1> QED
  BY <1>2, <1>7 DEF BlocksAsIndented, Last

LEMMA NestingLonger ==
  ASSUME NEW b, NEW lv, NEW st, NEW kind, NEW b2, NEW lv2, NEW st2,
         Nesting(b, lv, st), Longer(b, lv, st, kind, b2, lv2, st2)
  PROVE  Nesting(b2, lv2, st2)
<1>1. NestTyped(b, lv, st)
  BY DEF Nesting
<1>2. LongerAt(b, lv, st, kind, b2, lv2, st2)
  BY <1>1, LongerPlaces
<1>3. NestTyped(b2, lv2, st2)
  BY <1>1, LongerTyped
<1>4. CallsNest(b2, lv2, st2) /\ ClosedStay(b2, lv2, st2)
  BY <1>2, CallsNestLonger, ClosedStayLonger
<1>5. BlocksNest(b2, st2) /\ BlocksAsIndented(b2, lv2, st2)
  BY <1>2, BlocksNestLonger, BlocksAsIndentedLonger
<1> QED
  BY <1>3, <1>4, <1>5 DEF Nesting

\* The end of the innermost block.
LEMMA NestingShorter ==
  ASSUME NEW b, NEW lv, NEW st, Nesting(b, lv, st), Len(st) >= 2
  PROVE  Nesting(Ended(b, st[Len(st)], Len(b)), lv, SubSeq(st, 1, Len(st) - 1))
<1> DEFINE n == Len(b)
           m == Len(st)
           e == st[m]
           c == Ended(b, e, n)
           st2 == SubSeq(st, 1, m - 1)
<1>1. /\ b \in Seq(Statements) /\ lv \in Seq(Nat) /\ st \in Seq(Nat)
      /\ n \in Nat /\ m \in Nat /\ m >= 2 /\ Len(lv) = n
  BY DEF Nesting, NestTyped
<1>2. /\ c \in Seq(Statements) /\ Len(c) = n
      /\ \A i \in 1..n : c[i].kind = b[i].kind
      /\ \A i \in 1..n : c[i].last = IF i = e THEN n ELSE b[i].last
  BY <1>1, LastTyped
<1>3. st2 \in Seq(Nat) /\ Len(st2) = m - 1 /\ \A k \in 1..(m - 1) : st2[k] = st[k]
  <2>1. Len(st) >= 1
    BY <1>1
  <2> QED
    BY <1>1, <2>1, Shortened
<1>4. /\ st[1] = 0
      /\ \A k \in 2..m : st[k] \in 1..n /\ lv[st[k]] = k - 1 /\ b[st[k]].kind \in {"if", "while"}
      /\ \A k, l \in 1..m : k < l => st[k] < st[l]
      /\ \A k \in 1..m : \A i \in (st[k] + 1)..n : lv[i] >= k
  BY DEF Nesting, CallsNest
<1>5. /\ \A i : i \in OpenOf(st) <=> \E k \in 1..m : i = st[k]
      /\ \A i : i \in OpenOf(st2) <=> \E k \in 1..Len(st2) : i = st2[k]
  BY DEF OpenOf
<1>6. \A i \in 1..n : LastIn(b, st, i) = IF i \in OpenOf(st) THEN n ELSE b[i].last
  BY DEF LastIn
<1>7. \A i \in 1..n : LastIn(c, st2, i) = IF i \in OpenOf(st2) THEN n ELSE c[i].last
  BY <1>2 DEF LastIn
<1>8. \A k \in 1..m : st[k] \in Nat
  BY <1>1
<1>9. e = st[m]
  OBVIOUS
<1> HIDE DEF n, m, c, e, st2
<1>10. e \notin OpenOf(st2) /\ lv[e] = m - 1 /\ e \in 1..n
  <2>1. m \in 2..m /\ m \in 1..m
    BY <1>1
  <2>2. \A k \in 1..(m - 1) : k \in 1..m /\ k < m
    BY <1>1
  <2>3. e \in Nat /\ \A k \in 1..(m - 1) : st[k] \in Nat /\ st[k] < e
    BY <1>4, <1>8, <1>9, <2>1, <2>2
  <2>4. \A k \in 1..(m - 1) : st2[k] # e
    BY <1>3, <2>3
  <2> QED
    BY <1>3, <1>4, <1>5, <1>9, <2>1, <2>4
<1>11. \A i : i # e => (i \in OpenOf(st) <=> i \in OpenOf(st2))
  <2>1. \A k \in 1..m : k = m \/ k \in 1..(m - 1)
    BY <1>1
  <2>2. \A k \in 1..(m - 1) : k \in 1..m
    BY <1>1
  <2> QED
    BY <1>3, <1>5, <1>9, <2>1, <2>2
<1>12. e \in OpenOf(st)
  <2>1. m \in 1..m
    BY <1>1
  <2> QED
    BY <1>5, <1>9, <2>1
<1>13. \A i \in 1..n : LastIn(c, st2, i) = LastIn(b, st, i)
  BY <1>2, <1>6, <1>7, <1>10, <1>11, <1>12
<1>14. NestTyped(c, lv, st2)
  BY <1>1, <1>2, <1>3 DEF NestTyped
<1>15. CallsNest(c, lv, st2)
  <2>1. \A k \in 1..(m - 1) : k \in 1..m
    BY <1>1
  <2>2. \A k \in 2..(m - 1) : k \in 2..m /\ k \in 1..(m - 1)
    BY <1>1
  <2>3. 1 \in 1..(m - 1)
    BY <1>1
  <2>4. st2[1] = 0
    BY <1>3, <1>4, <2>3
  <2>5. ASSUME NEW k \in 2..(m - 1)
        PROVE  st2[k] \in 1..n /\ lv[st2[k]] = k - 1 /\ c[st2[k]].kind \in {"if", "while"}
    <3>1. k \in 2..m /\ st2[k] = st[k]
      BY <1>3, <2>2
    <3>2. st[k] \in 1..n /\ lv[st[k]] = k - 1 /\ b[st[k]].kind \in {"if", "while"}
      BY <1>4, <3>1
    <3> QED
      BY <1>2, <3>1, <3>2
  <2>6. ASSUME NEW k \in 1..(m - 1), NEW l \in 1..(m - 1), k < l PROVE st2[k] < st2[l]
    <3>1. k \in 1..m /\ l \in 1..m /\ st2[k] = st[k] /\ st2[l] = st[l]
      BY <1>3, <2>1
    <3> QED
      BY <1>4, <2>6, <3>1
  <2>7. \A k \in 1..(m - 1) : \A i \in (st2[k] + 1)..n : lv[i] >= k
    BY <1>3, <1>4, <2>1
  <2> QED
    BY <1>2, <1>3, <2>4, <2>5, <2>6, <2>7 DEF CallsNest
<1>16. ClosedStay(c, lv, st2)
  <2>1. ASSUME NEW i \in 1..n, i \notin OpenOf(st2)
        PROVE  lv[i] >= m - 1 \/ \E j \in (i + 1)..n : lv[j] <= lv[i]
    <3>1. CASE i = e
      BY <1>1, <1>10, <3>1
    <3>2. CASE i # e
      <4>1. lv[i] >= m \/ \E j \in (i + 1)..n : lv[j] <= lv[i]
        BY <1>11, <2>1, <3>2 DEF Nesting, ClosedStay, n, m
      <4>2. lv[i] \in Nat
        BY <1>1, <2>1, ElementTyped
      <4> QED
        BY <1>1, <4>1, <4>2
    <3> QED
      BY <3>1, <3>2
  <2> QED
    BY <1>2, <1>3, <2>1 DEF ClosedStay
<1>17. BlocksNest(c, st2)
  <2>1. /\ \A i \in 1..n : i <= LastIn(b, st, i) /\ LastIn(b, st, i) <= n
        /\ \A i \in 1..n : b[i].kind \in {"simple", "return"} => LastIn(b, st, i) = i
        /\ \A i, j \in 1..n :
             i < j /\ j <= LastIn(b, st, i) => LastIn(b, st, j) <= LastIn(b, st, i)
    BY DEF Nesting, BlocksNest, n
  <2> QED
    BY <1>2, <1>13, <2>1 DEF BlocksNest
<1>18. BlocksAsIndented(c, lv, st2)
  <2>1. \A i, j \in 1..n :
          i < j => (j <= LastIn(b, st, i) <=> \A k \in (i + 1)..j : lv[k] > lv[i])
    BY DEF Nesting, BlocksAsIndented, n
  <2> QED
    BY <1>2, <1>13, <2>1 DEF BlocksAsIndented
<1>19. Nesting(c, lv, st2)
  BY <1>14, <1>15, <1>16, <1>17, <1>18 DEF Nesting
<1> QED
  BY <1>19 DEF c, st2, n, m, e

\* Nothing but the body of a function, at its first statement.
LEMMA NestingEmpty == Nesting(<<>>, <<>>, <<0>>)
<1> DEFINE st == <<0>>
           empty == <<>>
<1>1. st \in Seq(Nat) /\ Len(st) = 1 /\ st[1] = 0
  OBVIOUS
<1>2. empty \in Seq(Statements) /\ empty \in Seq(Nat) /\ Len(empty) = 0
  OBVIOUS
<1> HIDE DEF st, empty
<1>3. NestTyped(empty, empty, st)
  BY <1>1, <1>2 DEF NestTyped
<1>4. CallsNest(empty, empty, st)
  BY <1>1, <1>2 DEF CallsNest
<1>5. ClosedStay(empty, empty, st) /\ BlocksNest(empty, st) /\ BlocksAsIndented(empty, empty, st)
  BY <1>2 DEF ClosedStay, BlocksNest, BlocksAsIndented
<1>6. Nesting(empty, empty, st)
  BY <1>3, <1>4, <1>5 DEF Nesting
<1> QED
  BY <1>6 DEF st, empty

-----------------------------------------------------------------------------
(* The invariant of parse_stmt_block.                                      *)

Stmts(frames) == [k \in 1..Len(frames) |-> frames[k].stmt]

Nest ==
  /\ pc = "file" => depth = 0
  /\ pc \in {"open", "block"} =>
       /\ Nesting(body, level, Stmts(calls))
       /\ depth = IF pc = "open" THEN Len(calls) - 1 ELSE Len(calls)

LEMMA StmtsTyped ==
  ASSUME NEW frames \in Seq(Frames)
  PROVE  /\ Stmts(frames) \in Seq(Nat) /\ Len(Stmts(frames)) = Len(frames)
         /\ Len(frames) \in Nat
         /\ \A k \in 1..Len(frames) : Stmts(frames)[k] = frames[k].stmt
<1> DEFINE n == Len(frames)
<1>1. n \in Nat /\ \A k \in 1..n : frames[k] \in Frames
  OBVIOUS
<1>2. \A k \in 1..n : frames[k].stmt \in Nat
  BY <1>1 DEF Frames
<1> HIDE DEF n
<1>3. [k \in 1..n |-> frames[k].stmt] \in [1..n -> Nat]
  BY <1>2
<1>4. /\ [k \in 1..n |-> frames[k].stmt] \in Seq(Nat)
      /\ Len([k \in 1..n |-> frames[k].stmt]) = n
  BY <1>1, <1>3
<1> QED
  BY <1>1, <1>4 DEF Stmts, n

\* Sequences of the same elements are the same.
LEMMA SameStmts ==
  ASSUME NEW s \in Seq(Nat), NEW t \in Seq(Nat), Len(s) = Len(t),
         \A k \in 1..Len(s) : s[k] = t[k]
  PROVE  s = t
BY SeqEqual

LEMMA StmtsKept ==
  ASSUME NEW frames \in Seq(Frames), Len(frames) >= 1, NEW objects \in SUBSET Objects
  PROVE  Stmts(Keeps(frames, objects)) = Stmts(frames)
<1> DEFINE kept == Keeps(frames, objects)
<1>1. /\ kept \in Seq(Frames) /\ Len(kept) = Len(frames)
      /\ \A k \in 1..Len(frames) : kept[k].stmt = frames[k].stmt
  BY KeepsTyped
<1> HIDE DEF kept
<1>2. /\ Stmts(kept) \in Seq(Nat) /\ Len(Stmts(kept)) = Len(frames)
      /\ \A k \in 1..Len(frames) : Stmts(kept)[k] = kept[k].stmt
  BY <1>1, StmtsTyped
<1>3. /\ Stmts(frames) \in Seq(Nat) /\ Len(Stmts(frames)) = Len(frames)
      /\ \A k \in 1..Len(frames) : Stmts(frames)[k] = frames[k].stmt
  BY StmtsTyped
<1>4. Stmts(kept) = Stmts(frames)
  BY <1>1, <1>2, <1>3, SameStmts
<1> QED
  BY <1>4 DEF kept

\* What is known where a statement is about to be parsed.
LEMMA NestCalls ==
  ASSUME Typed, Nest, pc = "block"
  PROVE  /\ calls \in Seq(Frames) /\ Len(calls) \in Nat /\ Len(calls) >= 1
         /\ Stmts(calls) \in Seq(Nat) /\ Len(Stmts(calls)) = Len(calls)
         /\ \A k \in 1..Len(calls) : Stmts(calls)[k] = calls[k].stmt
         /\ Nesting(body, level, Stmts(calls))
         /\ depth = Len(calls)
<1>1. calls # <<>>
  BY DEF Typed, Shape
<1>2. calls \in Seq(Frames) /\ Len(calls) \in Nat /\ Len(calls) >= 1
  BY <1>1, FrameTyped
<1> QED
  BY <1>2, StmtsTyped DEF Nest

LEMMA NestLeaf ==
  ASSUME Typed, Nest, AtStatement, Advance(depth), NEW kind \in Kinds, Parsed(kind),
         NEW objects \in SUBSET Objects, calls' = Keeps(calls, objects), pc' = pc
  PROVE  Nest'
<1>1. pc = "block"
  BY DEF AtStatement
<1>2. /\ calls \in Seq(Frames) /\ Len(calls) \in Nat /\ Len(calls) >= 1
      /\ Nesting(body, level, Stmts(calls)) /\ depth = Len(calls)
      /\ Len(Stmts(calls)) = Len(calls)
  BY <1>1, NestCalls
<1>3. Stmts(calls') = Stmts(calls) /\ Len(calls') = Len(calls)
  BY <1>2, StmtsKept, KeepsTyped
<1>4. /\ body' = Append(body, [kind |-> kind, last |-> Len(body) + 1])
      /\ level' = Append(level, depth)
  BY DEF Parsed, Here
<1>5. Longer(body, level, Stmts(calls), kind, body', level', Stmts(calls'))
  BY <1>2, <1>3, <1>4 DEF Longer
<1>6. Nesting(body', level', Stmts(calls'))
  BY <1>2, <1>5, NestingLonger
<1>7. depth' = depth
  BY DEF Advance
<1> QED
  BY <1>1, <1>2, <1>3, <1>6, <1>7 DEF Nest

LEMMA NestHeader ==
  ASSUME Typed, Nest, NEW kind \in {"if", "while"}, Header(kind)
  PROVE  Nest'
<1>1. /\ AtStatement /\ Advance(depth) /\ Parsed(kind)
      /\ calls' = Append(calls, [stmt |-> Here, owns |-> {}])
      /\ pc' = "open" /\ pc = "block"
  BY DEF Header, AtStatement
<1>2. /\ calls \in Seq(Frames) /\ Len(calls) \in Nat /\ Len(calls) >= 1
      /\ Nesting(body, level, Stmts(calls)) /\ depth = Len(calls)
      /\ Stmts(calls) \in Seq(Nat) /\ Len(Stmts(calls)) = Len(calls)
      /\ \A k \in 1..Len(calls) : Stmts(calls)[k] = calls[k].stmt
  BY <1>1, NestCalls
<1>3. Here \in Nat /\ kind \in Kinds
  BY TopNat DEF Typed, Kinds
<1> DEFINE frame == [stmt |-> Here, owns |-> {}]
           now == Append(calls, frame)
           st == Append(Stmts(calls), Here)
<1>4. frame \in Frames /\ frame.stmt = Here
  BY <1>3 DEF Frames
<1> HIDE DEF frame
<1>5. /\ now \in Seq(Frames) /\ Len(now) = Len(calls) + 1
      /\ \A k \in 1..Len(calls) : now[k] = calls[k]
      /\ now[Len(calls) + 1] = frame
  BY <1>2, <1>4, AppendProperties
<1>6. /\ st \in Seq(Nat) /\ Len(st) = Len(calls) + 1
      /\ \A k \in 1..Len(calls) : st[k] = Stmts(calls)[k]
      /\ st[Len(calls) + 1] = Here
  BY <1>2, <1>3, AppendProperties
<1> HIDE DEF now, st
<1>7. /\ Stmts(now) \in Seq(Nat) /\ Len(Stmts(now)) = Len(now)
      /\ \A k \in 1..Len(now) : Stmts(now)[k] = now[k].stmt
  BY <1>5, StmtsTyped
<1>8. \A k \in 1..Len(now) : k \in 1..Len(calls) \/ k = Len(calls) + 1
  BY <1>2, <1>5
<1>9. \A k \in 1..Len(now) : Stmts(now)[k] = st[k]
  BY <1>2, <1>4, <1>5, <1>6, <1>7, <1>8
<1>10. Stmts(now) = st
  BY <1>5, <1>6, <1>7, <1>9, SameStmts
<1>11. calls' = now
  BY <1>1 DEF now, frame
<1>12. Stmts(calls') = Append(Stmts(calls), Len(body) + 1)
  BY <1>10, <1>11 DEF st, Here
<1>13. /\ body' = Append(body, [kind |-> kind, last |-> Len(body) + 1])
       /\ level' = Append(level, depth)
  BY <1>1 DEF Parsed, Here
<1>14. Longer(body, level, Stmts(calls), kind, body', level', Stmts(calls'))
  BY <1>2, <1>3, <1>12, <1>13 DEF Longer
<1>15. Nesting(body', level', Stmts(calls'))
  BY <1>2, <1>14, NestingLonger
<1>16. depth' = depth
  BY <1>1 DEF Advance
<1>17. depth' = Len(calls') - 1
  BY <1>2, <1>5, <1>11, <1>16
<1> QED
  BY <1>1, <1>15, <1>17 DEF Nest

LEMMA NestBlockEnd ==
  ASSUME Typed, Nest, BlockEnd
  PROVE  Nest'
<1> DEFINE n == Len(calls)
           kept == {Statement(Top, Frame.stmt)} \cup Frame.owns
           st == Stmts(calls)
<1>1. /\ pc = "block" /\ n > 1 /\ Advance(depth - 1)
      /\ body' = [body EXCEPT ![Frame.stmt].last = Len(body)]
      /\ calls' = Keeps(Callers, kept)
      /\ UNCHANGED <<pc, level>>
  BY DEF BlockEnd
<1>2. /\ n \in Nat /\ Nesting(body, level, st) /\ depth = n
      /\ st \in Seq(Nat) /\ Len(st) = n
      /\ \A k \in 1..n : st[k] = calls[k].stmt
  BY <1>1, NestCalls
<1>3. /\ calls \in Seq(Frames) /\ Frame \in Frames
      /\ Callers \in Seq(Frames) /\ Len(Callers) = n - 1
      /\ \A k \in 1..Len(Callers) : Callers[k] = calls[k]
  <2>1. calls # <<>>
    BY <1>1 DEF Typed, Shape
  <2> QED
    BY <2>1, FrameTyped
<1>4. kept \in SUBSET Objects
  <2>1. Frame.stmt \in Nat /\ Frame.owns \in SUBSET Objects
    BY <1>3 DEF Frames
  <2>2. Top \in Nat
    BY TopNat DEF Typed
  <2> QED
    BY <2>1, <2>2, ObjectsTyped
<1>5. st[n] = Frame.stmt
  <2>1. n \in 1..n
    BY <1>1, <1>2
  <2> QED
    BY <1>2, <2>1 DEF Frame
<1> HIDE DEF kept, n, st
<1>6. Len(Callers) >= 1
  BY <1>1, <1>2, <1>3
<1>7. Stmts(calls') = Stmts(Callers) /\ Len(calls') = n - 1
  BY <1>1, <1>3, <1>4, <1>6, StmtsKept, KeepsTyped
<1>8. /\ Stmts(Callers) \in Seq(Nat) /\ Len(Stmts(Callers)) = n - 1
      /\ \A k \in 1..(n - 1) : Stmts(Callers)[k] = Callers[k].stmt
  BY <1>3, StmtsTyped
<1>9. /\ SubSeq(st, 1, n - 1) \in Seq(Nat) /\ Len(SubSeq(st, 1, n - 1)) = n - 1
      /\ \A k \in 1..(n - 1) : SubSeq(st, 1, n - 1)[k] = st[k]
  <2>1. Len(st) >= 1
    BY <1>1, <1>2
  <2> QED
    BY <1>2, <2>1, Shortened
<1>10. \A k \in 1..(n - 1) : k \in 1..n
  BY <1>1, <1>2
<1>11. \A k \in 1..(n - 1) : Stmts(Callers)[k] = SubSeq(st, 1, n - 1)[k]
  BY <1>2, <1>3, <1>8, <1>9, <1>10
<1>12. Stmts(Callers) = SubSeq(st, 1, n - 1)
  BY <1>8, <1>9, <1>11, SameStmts
<1>13. body' = Ended(body, st[n], Len(body))
  BY <1>1, <1>5 DEF Ended
<1>14. Len(st) >= 2
  BY <1>1, <1>2
<1>15. Nesting(Ended(body, st[n], Len(body)), level, SubSeq(st, 1, n - 1))
  BY <1>2, <1>14, NestingShorter
<1>16. Nesting(body', level', Stmts(calls'))
  BY <1>1, <1>7, <1>12, <1>13, <1>15
<1>17. depth' = n - 1
  BY <1>1, <1>2 DEF Advance
<1> QED
  BY <1>1, <1>7, <1>16, <1>17 DEF Nest

LEMMA NestDefinition ==
  ASSUME Typed, NEW name \in Names, NEW names \in Signatures, NEW pub \in BOOLEAN,
         FnDefinition(name, names, pub)
  PROVE  Nest'
<1> DEFINE frame == [stmt |-> 0, owns |-> {}]
<1>1. /\ calls' = <<frame>> /\ body' = <<>> /\ level' = <<>>
      /\ pc' = "open" /\ depth' = 0
  BY DEF FnDefinition, Advance
<1>2. frame \in Frames /\ frame.stmt = 0
  BY DEF Frames
<1> HIDE DEF frame
<1>3. <<frame>> \in Seq(Frames) /\ Len(<<frame>>) = 1 /\ <<frame>>[1] = frame
  BY <1>2
<1>4. /\ Stmts(<<frame>>) \in Seq(Nat) /\ Len(Stmts(<<frame>>)) = 1
      /\ \A k \in 1..1 : Stmts(<<frame>>)[k] = <<frame>>[k].stmt
  BY <1>3, StmtsTyped
<1>5. <<0>> \in Seq(Nat) /\ Len(<<0>>) = 1 /\ <<0>>[1] = 0
  OBVIOUS
<1>6. \A k \in 1..1 : k = 1
  OBVIOUS
<1>7. \A k \in 1..Len(Stmts(<<frame>>)) : Stmts(<<frame>>)[k] = <<0>>[k]
  BY <1>2, <1>3, <1>4, <1>5, <1>6
<1>8. Stmts(calls') = <<0>>
  BY <1>1, <1>4, <1>5, <1>7, SameStmts
<1>9. Nesting(body', level', Stmts(calls'))
  BY <1>1, <1>8, NestingEmpty
<1> QED
  BY <1>1, <1>3, <1>9 DEF Nest

LEMMA NestStep == Typed /\ Nest /\ [Next]_vars => Nest'
<1> SUFFICES ASSUME Typed, Nest, [Next]_vars PROVE Nest'
  OBVIOUS
<1>1. CASE ModuleImport
  BY <1>1 DEF ModuleImport, AtToplevel, Advance, Nest
<1>2. ASSUME NEW name \in Names, NEW names \in Signatures, NEW pub \in BOOLEAN,
             FnDeclaration(name, names, pub)
      PROVE  Nest'
  BY <1>2 DEF FnDeclaration, AtToplevel, Advance, Nest
<1>3. ASSUME NEW name \in Names, NEW names \in Signatures, NEW pub \in BOOLEAN,
             FnDefinition(name, names, pub)
      PROVE  Nest'
  BY <1>3, NestDefinition
<1>4. ASSUME NEW name \in Names, NEW names \in Signatures, NEW pub \in BOOLEAN,
             FnUnexpected(name, names, pub)
      PROVE  Nest'
  BY <1>4 DEF FnUnexpected, Nest
<1>5. CASE ImportUnexpected \/ Unexpected \/ BlockNotBegun \/ BadStmt \/ Unwind \/ FnUnwind
               \/ \E names \in Signatures : FnUndeclared(names)
  BY <1>5 DEF FnUndeclared, ImportUnexpected, Unexpected, BlockNotBegun, BadStmt, Unwind,
              FnUnwind, Nest
<1>6. CASE BlockBegin
  <2>1. Len(calls) \in Nat /\ pc = "open" /\ pc' = "block" /\ depth' = depth + 1
    BY <1>6 DEF BlockBegin, Advance, Typed, TypeOK
  <2>2. depth' = Len(calls)
    BY <2>1 DEF Nest
  <2> QED
    BY <1>6, <2>1, <2>2 DEF BlockBegin, Nest, bodyVars
<1>7. ASSUME NEW name \in Names, ExprStmt(name) PROVE Nest'
  <2>1. /\ AtStatement /\ Advance(depth) /\ Parsed("simple") /\ "simple" \in Kinds
        /\ calls' = Keeps(calls, {Statement(Top, Here)}) /\ pc' = pc
    BY <1>7 DEF ExprStmt, Kinds
  <2>2. {Statement(Top, Here)} \in SUBSET Objects
    BY <2>1, StatementTyped
  <2> QED
    BY <2>1, <2>2, NestLeaf
<1>8. CASE ReturnStmt
  <2>1. /\ AtStatement /\ Advance(depth) /\ Parsed("return") /\ "return" \in Kinds
        /\ calls' = Keeps(calls, {Statement(Top, Here)}) /\ pc' = pc
    BY <1>8 DEF ReturnStmt, Kinds
  <2>2. {Statement(Top, Here)} \in SUBSET Objects
    BY <2>1, StatementTyped
  <2> QED
    BY <2>1, <2>2, NestLeaf
<1>9. ASSUME NEW name \in Names, LetStmt(name) PROVE Nest'
  <2>1. /\ AtStatement /\ Advance(depth) /\ Parsed("simple") /\ "simple" \in Kinds
        /\ calls' = Keeps(calls, {Statement(Top, Here), Local(name, Top, Here)}) /\ pc' = pc
    BY <1>9 DEF LetStmt, Kinds
  <2>2. Top \in Nat /\ Here \in Nat
    BY TopNat DEF Typed
  <2>3. {Statement(Top, Here), Local(name, Top, Here)} \in SUBSET Objects
    BY <1>9, <2>2, ObjectsTyped
  <2> QED
    BY <2>1, <2>3, NestLeaf
<1>10. ASSUME NEW kind \in {"if", "while"}, Header(kind) PROVE Nest'
  BY <1>10, NestHeader
<1>11. CASE BlockEnd
  BY <1>11, NestBlockEnd
<1>12. CASE FnEnd
  <2>1. pc = "block" /\ Len(calls) = 1 /\ depth' = depth - 1 /\ pc' = "file"
    BY <1>12 DEF FnEnd, Advance
  <2>2. depth = 1
    BY <2>1 DEF Nest
  <2> QED
    BY <2>1, <2>2 DEF Nest
<1>13. CASE Crash \/ FileParsed \/ FileEnd \/ FileImported \/ FileRejected
  BY <1>13 DEF Crash, FileParsed, FileEnd, FileImported, FileRejected, Nest
<1>14. CASE UNCHANGED vars
  BY <1>14 DEF vars, lexVars, bodyVars, Nest
<1>15. CASE ParseToplevel
  BY <1>1, <1>2, <1>3, <1>4, <1>5, <1>15 DEF ParseToplevel
<1>16. CASE ParseBlock
  BY <1>5, <1>6, <1>7, <1>8, <1>9, <1>10, <1>11, <1>12, <1>16 DEF ParseBlock
<1> QED
  BY <1>13, <1>14, <1>15, <1>16 DEF Next

LEMMA NestInit == Init => Nest
BY DEF Init, Nest

LEMMA NestsSoFar ==
  ASSUME Typed, Nest
  PROVE  NestsAsIndented
<1>1. SUFFICES ASSUME pc \in {"open", "block"}
               PROVE  /\ IsProgram(BodySoFar)
                      /\ \A i, j \in DOMAIN body :
                           i < j => (j <= LastSoFar(i) <=>
                                       \A k \in (i + 1)..j : level[k] > level[i])
  BY DEF NestsAsIndented, Nest
<1> DEFINE n == Len(body)
           st == Stmts(calls)
           Last(i) == LastIn(body, st, i)
           p == BodySoFar
<1>2. Nesting(body, level, st)
  BY <1>1 DEF Nest
<1>3. /\ n \in Nat /\ DOMAIN body = 1..n /\ body \in Seq(Statements)
      /\ calls \in Seq(Frames)
  BY DEF Typed, TypeOK, Statements, Frames
<1>4. \A i \in 1..n : body[i] \in Statements
  BY <1>3, ElementTyped
<1>5. \A i : LastSoFar(i) = Last(i)
  <2>1. /\ Len(st) = Len(calls) /\ DOMAIN calls = 1..Len(calls)
        /\ \A k \in 1..Len(calls) : st[k] = calls[k].stmt
    BY <1>3, StmtsTyped
  <2> HIDE DEF st
  <2>2. Open = OpenOf(st)
    BY <2>1 DEF Open, OpenOf
  <2> QED
    BY <2>2 DEF LastSoFar, LastIn
<1>6. /\ \A i \in 1..n : i <= Last(i) /\ Last(i) <= n
      /\ \A i \in 1..n : body[i].kind \in {"simple", "return"} => Last(i) = i
      /\ \A i, j \in 1..n : i < j /\ j <= Last(i) => Last(j) <= Last(i)
  BY <1>2 DEF Nesting, BlocksNest
<1>7. \A i, j \in 1..n : i < j => (j <= Last(i) <=> \A k \in (i + 1)..j : level[k] > level[i])
  BY <1>2 DEF Nesting, BlocksAsIndented
<1>8. \A i \in 1..n : Last(i) \in Nat /\ body[i].kind \in Kinds
  BY <1>3, <1>4 DEF LastIn, Statements
<1>9. p = [i \in 1..n |-> [kind |-> body[i].kind, last |-> Last(i)]]
  BY <1>3, <1>5 DEF BodySoFar
<1> HIDE DEF n, st, Last, p
<1>10. \A i \in 1..n : [kind |-> body[i].kind, last |-> Last(i)] \in Statements
  BY <1>8 DEF Statements
<1>11. /\ p \in [1..n -> Statements]
       /\ \A i \in 1..n : p[i].kind = body[i].kind /\ p[i].last = Last(i)
  BY <1>9, <1>10
<1>12. p \in Seq(Statements) /\ Len(p) = n
  BY <1>3, <1>11
<1>13. /\ \A i \in 1..n : i <= p[i].last /\ p[i].last <= n
       /\ \A i \in 1..n : p[i].kind \in {"simple", "return"} => p[i].last = i
       /\ \A i, j \in 1..n : i < j /\ j <= p[i].last => p[j].last <= p[i].last
  BY <1>6, <1>11
<1>14. IsProgram(p)
  BY <1>12, <1>13 DEF IsProgram, Statements
<1>15. \A i, j \in 1..n :
         i < j => (j <= LastSoFar(i) <=> \A k \in (i + 1)..j : level[k] > level[i])
  BY <1>5, <1>7
<1> QED
  BY <1>3, <1>14, <1>15 DEF p

\* At every point of a function the blocks that parse_stmt_block has made of
\* the lexer's block tokens are a body the code generator can walk, and each
\* block is the run of lines below its header that are indented deeper.
THEOREM Nests == Spec => []NestsAsIndented
<1>1. Init => Typed /\ Nest
  BY TypedInit, NestInit
<1>2. (Typed /\ Nest) /\ [Next]_vars => (Typed /\ Nest)'
  BY TypedStep, NestStep
<1>3. Typed /\ Nest => NestsAsIndented
  BY NestsSoFar
<1> QED
  BY <1>1, <1>2, <1>3, PTL DEF Spec
=============================================================================
