----------------------------- MODULE TreesProofs -----------------------------
(***************************************************************************)
(* Theorems about Trees.                                                   *)
(***************************************************************************)
EXTENDS Trees, WellFoundedInduction, TLAPS

-----------------------------------------------------------------------------
(* Induction over a tree, from the leaves up.                              *)

\* A set of numbers has a least one.
LEMMA Least ==
  ASSUME NEW S \in SUBSET Nat, S # {}
  PROVE  \E k \in S : \A l \in S : k <= l
<1>1. PICK k \in S : \A l \in S : ~(<<l, k>> \in OpToRel(<, Nat))
  BY NatLessThanWellFounded, WFMin
<1>2. \A l \in S : ~(l < k)
  BY <1>1 DEF OpToRel
<1> QED
  BY <1>2

\* How far from the deepest places a place is.
Height(at) == MaxDepth - Len(at)

\* The root and its children are places.
LEMMA RootIs == <<>> \in Places /\ \A k \in Nat : <<k>> \in Places /\ <<k>> = Child(<<>>, k)
<1>1. <<>> \in Seq(Nat) /\ \A k \in Nat : <<k>> \in Seq(Nat)
  OBVIOUS
<1>2. \A k \in Nat : <<k>> = Append(<<>>, k)
  OBVIOUS
<1> QED BY <1>1, <1>2 DEF Places, Child

\* A child is one step further from the root.
LEMMA ChildIs ==
  ASSUME NEW at \in Places, NEW k \in Nat
  PROVE  /\ Child(at, k) \in Places
         /\ Len(Child(at, k)) = Len(at) + 1
         /\ Child(at, k)[Len(at) + 1] = k
         /\ \A i \in 1..Len(at) : Child(at, k)[i] = at[i]
BY DEF Child, Places

\* Every child a node has is in the tree, and less high.
LEMMA TreeIs ==
  ASSUME NEW tree, IsTree(tree), NEW at \in DOMAIN tree
  PROVE  /\ at \in Places /\ Len(at) \in Nat
         /\ IsNode(tree[at]) /\ tree[at].kids \in Nat
         /\ Height(at) \in Nat
         /\ \A k \in 1..tree[at].kids :
              /\ k \in Nat
              /\ Child(at, k) \in DOMAIN tree
              /\ Height(Child(at, k)) < Height(at)
<1>1. at \in Places /\ Len(at) \in Nat /\ Len(at) <= MaxDepth /\ MaxDepth \in Nat
  BY DeclarationsAssumption DEF IsTree, Places
<1>2. IsNode(tree[at]) /\ tree[at].kids \in Nat
  BY DEF IsTree, IsNode
<1>3. ASSUME NEW k \in 1..tree[at].kids
      PROVE  /\ k \in Nat
             /\ Child(at, k) \in DOMAIN tree
             /\ Height(Child(at, k)) < Height(at)
  <2>1. k \in Nat
    BY <1>2
  <2>2. Child(at, k) \in DOMAIN tree
    BY DEF IsTree
  <2>3. Len(Child(at, k)) = Len(at) + 1
    BY <1>1, <2>1, ChildIs
  <2> QED BY <1>1, <2>1, <2>2, <2>3 DEF Height
<1> QED BY <1>1, <1>2, <1>3 DEF Height

\* What holds of a node if it holds of its children holds of every node: of
\* the nodes for which it does not, take a least high one.
LEMMA TreeInduction ==
  ASSUME NEW tree, IsTree(tree), NEW G,
         \A at \in DOMAIN tree :
           (\A k \in 1..tree[at].kids : Child(at, k) \in G) => at \in G
  PROVE  \A at \in DOMAIN tree : at \in G
<1> DEFINE bad == {at \in DOMAIN tree : at \notin G}
           heights == {Height(at) : at \in bad}
<1>1. SUFFICES ASSUME bad # {} PROVE FALSE
  OBVIOUS
<1>2. heights \in SUBSET Nat /\ heights # {}
  <2>1. \A at \in bad : Height(at) \in Nat
    BY TreeIs
  <2> QED BY <1>1, <2>1
<1>3. PICK n \in heights : \A m \in heights : n <= m
  BY <1>2, Least
<1>4. PICK at \in bad : n = Height(at)
  BY <1>3
<1>5. ASSUME NEW k \in 1..tree[at].kids PROVE Child(at, k) \in G
  <2>1. Child(at, k) \in DOMAIN tree /\ Height(Child(at, k)) < Height(at)
    BY <1>4, TreeIs
  <2>2. Height(Child(at, k)) \in Nat /\ Height(at) \in Nat
    BY <1>4, <2>1, TreeIs
  <2>3. Child(at, k) \notin G => Height(Child(at, k)) \in heights
    BY <2>1
  <2> HIDE DEF heights
  <2> QED BY <1>3, <1>4, <2>1, <2>2, <2>3
<1> QED BY <1>4, <1>5

-----------------------------------------------------------------------------
(* The types that the analysis expects are types.                          *)

\* The levels of an array are a sequence.
LEMMA LevelsAre ==
  ASSUME NEW inner \in Seq(Levels), inner # <<>>
  PROVE  Head(inner).elem \in Parsed /\ Head(inner).size \in Nat /\ Tail(inner) \in Seq(Levels)
<1>1. Head(inner) \in Levels /\ Tail(inner) \in Seq(Levels)
  OBVIOUS
<1> QED BY <1>1 DEF Levels

\* What parse_type builds can be written in a tree.
LEMMA DeclaredIs ==
  ASSUME NEW d \in Declarations, NEW role \in {"ident", "arg", "return"},
         NEW name \in Names, NEW at \in Places
  PROVE  /\ Declared(d, role, name, at) \in ZakoTypes
         /\ Declared(d, role, name, at).builtin \in Parsed
         /\ Declared(d, role, name, at).role = role
<1>1. /\ d.builtin \in Parsed /\ d.elem \in Parsed \cup {"none"} /\ d.size \in Nat
      /\ d.inner \in Seq(Levels)
  BY DEF Declarations
<1>2. Parsed \subseteq BuiltinTypes
  BY DEF Parsed, BuiltinTypes
<1> QED BY <1>1, <1>2 DEF Declared, Type, ZakoTypes

\* The type of an element is the array's to free.
LEMMA ElemTypeIs ==
  ASSUME NEW type \in ZakoTypes
  PROVE  ElemType(type) \in ZakoTypes /\ ElemType(type).role = "elem"
<1>1. /\ type.elem \in BuiltinTypes \cup {"none"} /\ type.inner \in Seq(Levels)
      /\ type.name \in Names /\ type.at \in Places
  BY DEF ZakoTypes
<1>2. CASE type.inner = <<>>
  <2>1. ElemType(type) = PlainType(type.elem, "elem", type.name, type.at)
    BY <1>2 DEF ElemType
  <2> QED BY <1>1, <2>1 DEF PlainType, Type, ZakoTypes
<1>3. CASE type.inner # <<>>
  <2> DEFINE elem == Head(type.inner).elem
             size == Head(type.inner).size
             inner == Tail(type.inner)
  <2>1. elem \in BuiltinTypes /\ size \in Nat /\ inner \in Seq(Levels)
    BY <1>1, <1>3, LevelsAre DEF Parsed, BuiltinTypes
  <2>2. ElemType(type) = Type(type.elem, elem, size, inner, "elem", type.name, type.at)
    BY <1>3 DEF ElemType
  <2> HIDE DEF elem, size, inner
  <2> QED BY <1>1, <2>1, <2>2 DEF Type, ZakoTypes
<1> QED BY <1>2, <1>3

\* Its builtin type is what the array says of it.
LEMMA ElemBuiltin == ASSUME NEW type PROVE ElemType(type).builtin = type.elem
BY DEF ElemType, PlainType, Type

\* The type of a variable is one that parse_type builds, and only an array
\* has elements.
LEMMA IdentTypeIs ==
  ASSUME NEW name \in DOMAIN Idents
  PROVE  /\ IdentType(name) \in ZakoTypes
         /\ ElemType(IdentType(name)) \in ZakoTypes
         /\ IdentType(name).builtin \in Parsed
         /\ IdentType(name).builtin = "arr" <=> IdentType(name).elem \in Parsed
         /\ IdentType(name).builtin = Idents[name].builtin
         /\ IdentType(name).size \in Nat
         /\ IdentType(name).role = "ident"
<1>1. Idents[name] \in Declarations
  BY DeclarationsAssumption
<1>2. name \in Names /\ <<>> \in Places
  BY RootIs DEF Names
<1>3. IdentType(name) \in ZakoTypes /\ IdentType(name).builtin \in Parsed
      /\ IdentType(name).role = "ident"
  BY <1>1, <1>2, DeclaredIs DEF IdentType
<1>4. Idents[name].builtin = "arr" <=> Idents[name].elem \in Parsed
  BY <1>1 DEF Declarations, Parsed, Numbers, Signed, Unsigned
<1>5. /\ IdentType(name).builtin = Idents[name].builtin
      /\ IdentType(name).elem = Idents[name].elem
  BY DEF IdentType, Declared, Type
<1>6. IdentType(name).size \in Nat
  BY <1>3 DEF ZakoTypes
<1> QED BY <1>3, <1>4, <1>5, <1>6, ElemTypeIs

\* So is what a function returns,
LEMMA ReturnTypeIs ==
  ASSUME NEW name \in DOMAIN Functions
  PROVE  /\ ReturnType(name) \in ZakoTypes
         /\ ReturnType(name).builtin \in Parsed
         /\ ReturnType(name).role = "return"
<1>1. Functions[name].ret \in Declarations
  BY DeclarationsAssumption
<1>2. name \in Names /\ <<>> \in Places
  BY RootIs DEF Names
<1> QED BY <1>1, <1>2, DeclaredIs DEF ReturnType

\* and what it takes.
LEMMA ArgTypeIs ==
  ASSUME NEW name \in DOMAIN Functions, NEW k \in 1..Len(Functions[name].args)
  PROVE  /\ ArgType(name, k) \in ZakoTypes
         /\ ArgType(name, k).builtin \in Parsed
         /\ ArgType(name, k).role = "arg"
<1>1. Functions[name].args[k] \in Declarations /\ k \in Nat
  BY DeclarationsAssumption
<1>2. name \in Names /\ <<k>> \in Places
  BY <1>1, RootIs DEF Names
<1> QED BY <1>1, <1>2, DeclaredIs DEF ArgType

\* The type allocated for an index is the index's own.
LEMMA IndexTypeIs ==
  ASSUME NEW at \in Places, NEW builtin \in BuiltinTypes
  PROVE  /\ IndexType(builtin, at) \in ZakoTypes
         /\ IndexType(builtin, at).builtin = builtin
         /\ IndexType(builtin, at).role = "index"
         /\ IndexType(builtin, at).at = at
BY DEF IndexType, Type, PlainType, ZakoTypes, Names

\* That of a type literal is the literal's.
LEMMA NamedTypeIs ==
  ASSUME NEW at \in Places, NEW builtin \in BuiltinTypes
  PROVE  /\ NamedType(builtin, at) \in ZakoTypes
         /\ NamedType(builtin, at).builtin = builtin
         /\ NamedType(builtin, at).role = "named"
         /\ NamedType(builtin, at).at = at
BY DEF NamedType, Type, PlainType, ZakoTypes, Names

(* What a call passes is expected to be of the types of its function.      *)
LEMMA PassedIs ==
  ASSUME NEW tree, IsTree(tree), NEW at \in DOMAIN tree, tree[at].kind = "FN_CALL",
         NEW k \in 1..tree[at].kids
  PROVE  /\ ArgType(tree[at].name, k) \in ZakoTypes
         /\ ArgType(tree[at].name, k).builtin \in Parsed
         /\ ArgType(tree[at].name, k).role = "arg"
<1>1. IsNode(tree[at])
  BY TreeIs
<1> DEFINE name == tree[at].name
<1>2. name \in DOMAIN Functions /\ tree[at].kids <= Len(Functions[name].args)
      /\ tree[at].kids \in Nat
  BY <1>1 DEF IsNode
<1>3. Len(Functions[name].args) \in Nat
  BY <1>2, DeclarationsAssumption
<1>4. k \in 1..Len(Functions[name].args)
  BY <1>2, <1>3
<1> QED BY <1>2, <1>4, ArgTypeIs

-----------------------------------------------------------------------------
(* What a node expects of its children.                                    *)

\* Two functions agree on the calls below a place.
AgreeBelow(tree, f, g, at) ==
  \A k \in 1..tree[at].kids : \A type \in ZakoTypes :
    f[<<Child(at, k), type>>] = g[<<Child(at, k), type>>]

\* What is made of a node depends on what is made of its children, for the
\* types they are expected to have, and on nothing else.
LEMMA KindAgrees ==
  ASSUME NEW tree, IsTree(tree), NEW at \in DOMAIN tree, NEW expect \in ZakoTypes,
         NEW f, NEW g, AgreeBelow(tree, f, g, at)
  PROVE  AnalyseKind(tree, f, at, expect) = AnalyseKind(tree, g, at, expect)
<1>1. IsNode(tree[at]) /\ at \in Places /\ tree[at].kids \in Nat
      /\ \A k \in 1..tree[at].kids : Child(at, k) \in Places
  BY TreeIs, ChildIs
<1>2. CASE tree[at].kind = "ARR_ELEM"
  <2>1. 1 \in 1..tree[at].kids
    BY <1>1, <1>2 DEF IsNode
  <2>2. IndexType("u64", Child(at, 1)) \in ZakoTypes
    BY <1>1, <2>1, IndexTypeIs DEF BuiltinTypes, Numbers, Unsigned
  <2>3. AnalyseArrElem(tree, f, at, expect) = AnalyseArrElem(tree, g, at, expect)
    BY <2>1, <2>2, Zenon DEF AnalyseArrElem, AgreeBelow
  <2> QED BY <1>2, <2>3 DEF AnalyseKind
<1>3. CASE tree[at].kind = "ELEM_INIT"
  <2>1. [k \in 1..tree[at].kids |-> f[<<Child(at, k), ElemType(expect)>>]]
          = [k \in 1..tree[at].kids |-> g[<<Child(at, k), ElemType(expect)>>]]
    <3>1. \A k \in 1..tree[at].kids : ElemType(expect) \in ZakoTypes
      BY ElemTypeIs
    <3> QED BY <3>1 DEF AgreeBelow
  <2>2. AnalyseElemInit(tree, f, at, expect) = AnalyseElemInit(tree, g, at, expect)
    BY <2>1, Zenon DEF AnalyseElemInit
  <2> QED BY <1>3, <2>2 DEF AnalyseKind
<1>4. CASE tree[at].kind \in {"EXPR", "PRIMARY"}
  <2>1. 1 \in 1..tree[at].kids
    BY <1>1, <1>4 DEF IsNode
  <2>2. f[<<Child(at, 1), expect>>] = g[<<Child(at, 1), expect>>]
    BY <2>1, Zenon DEF AgreeBelow
  <2>3. AnalyseInner(f, at, expect) = AnalyseInner(g, at, expect)
    BY <2>2, Zenon DEF AnalyseInner
  <2> QED BY <1>4, <2>2, <2>3 DEF AnalyseKind
<1>5. CASE tree[at].kind = "FN_CALL"
  <2>1. [k \in 1..tree[at].kids |-> f[<<Child(at, k), ArgType(tree[at].name, k)>>]]
          = [k \in 1..tree[at].kids |-> g[<<Child(at, k), ArgType(tree[at].name, k)>>]]
    <3>1. \A k \in 1..tree[at].kids : ArgType(tree[at].name, k) \in ZakoTypes
      BY <1>5, PassedIs
    <3> QED BY <3>1 DEF AgreeBelow
  <2>2. AnalyseFnCall(tree, f, at, expect) = AnalyseFnCall(tree, g, at, expect)
    BY <2>1, Zenon DEF AnalyseFnCall
  <2> QED BY <1>5, <2>2 DEF AnalyseKind
<1>6. CASE tree[at].kind = "BINARY"
  <2>1. 1 \in 1..tree[at].kids /\ 2 \in 1..tree[at].kids
    BY <1>1, <1>6 DEF IsNode
  <2>2. AnalyseBinary(tree, f, at, expect) = AnalyseBinary(tree, g, at, expect)
    BY <2>1, Zenon DEF AnalyseBinary, AgreeBelow
  <2> QED BY <1>6, <2>2 DEF AnalyseKind
<1>7. CASE tree[at].kind \in {"IDENT", "INT", "STRING", "TYPE", "CMP"}
  BY <1>7 DEF AnalyseKind
<1> QED BY <1>1, <1>2, <1>3, <1>4, <1>5, <1>6, <1>7 DEF IsNode

\* So does what analyse_value and analyse_expr return of it.
LEMMA NodeAgrees ==
  ASSUME NEW tree, IsTree(tree), NEW at \in DOMAIN tree, NEW expect \in ZakoTypes,
         NEW f, NEW g, AgreeBelow(tree, f, g, at)
  PROVE  AnalyseNode(tree, f, at, expect) = AnalyseNode(tree, g, at, expect)
<1>1. AnalyseKind(tree, f, at, expect) = AnalyseKind(tree, g, at, expect)
  BY KindAgrees
<1> QED BY <1>1, Zenon DEF AnalyseNode

\* f is the analysis of all places lower than n.
AnalysedTo(tree, f, n) ==
  /\ f = [call \in (DOMAIN tree) \X ZakoTypes |-> f[call]]
  /\ \A at \in DOMAIN tree : \A type \in ZakoTypes :
       Height(at) < n => f[<<at, type>>] = AnalyseNode(tree, f, at, type)

\* What solves the recursion up to a height is extended by one level.
LEMMA AnalysedGrows ==
  ASSUME NEW tree, IsTree(tree), NEW n \in Nat, NEW f, AnalysedTo(tree, f, n)
  PROVE  \E g : AnalysedTo(tree, g, n + 1)
<1> DEFINE g == [call \in (DOMAIN tree) \X ZakoTypes |->
                   AnalyseNode(tree, f, call[1], call[2])]
<1>1. \A at \in DOMAIN tree : \A type \in ZakoTypes :
        g[<<at, type>>] = AnalyseNode(tree, f, at, type)
  OBVIOUS
<1>2. g = [call \in (DOMAIN tree) \X ZakoTypes |-> g[call]]
  OBVIOUS
<1> HIDE DEF g
<1>3. ASSUME NEW at \in DOMAIN tree, NEW type \in ZakoTypes, Height(at) < n + 1
      PROVE  g[<<at, type>>] = AnalyseNode(tree, g, at, type)
  <2>1. ASSUME NEW k \in 1..tree[at].kids, NEW t \in ZakoTypes
        PROVE  f[<<Child(at, k), t>>] = g[<<Child(at, k), t>>]
    <3>1. Child(at, k) \in DOMAIN tree /\ Height(Child(at, k)) < Height(at)
      BY TreeIs
    <3>2. Height(Child(at, k)) \in Nat /\ Height(at) \in Nat
      BY <3>1, TreeIs
    <3>3. Height(Child(at, k)) < n
      BY <1>3, <3>1, <3>2
    <3> QED BY <1>1, <3>1, <3>3 DEF AnalysedTo
  <2>2. AgreeBelow(tree, f, g, at)
    BY <2>1 DEF AgreeBelow
  <2> QED BY <1>1, <2>2, NodeAgrees
<1>4. AnalysedTo(tree, g, n + 1)
  BY <1>2, <1>3 DEF AnalysedTo
<1> QED BY <1>4

(* The recursion has a solution: there is no least height without one.     *)
LEMMA AnalysedExists ==
  ASSUME NEW tree, IsTree(tree), NEW n \in Nat PROVE \E f : AnalysedTo(tree, f, n)
<1> DEFINE R == {k \in Nat : ~\E f : AnalysedTo(tree, f, k)}
<1>1. SUFFICES ASSUME R # {} PROVE FALSE
  OBVIOUS
<1>2. R \in SUBSET Nat
  OBVIOUS
<1>3. \A k \in Nat : k \in R <=> ~\E f : AnalysedTo(tree, f, k)
  OBVIOUS
<1> HIDE DEF R
<1>4. PICK b \in R : \A k \in R : b <= k
  BY <1>1, <1>2, Least
<1>5. b \in Nat
  BY <1>2
<1>6. b # 0
  <2> DEFINE f == [call \in (DOMAIN tree) \X ZakoTypes |-> 0]
  <2>1. f = [call \in (DOMAIN tree) \X ZakoTypes |-> f[call]]
    OBVIOUS
  <2>2. \A at \in DOMAIN tree : ~(Height(at) < 0)
    <3>1. \A at \in DOMAIN tree : Height(at) \in Nat
      BY TreeIs
    <3> QED BY <3>1
  <2> HIDE DEF f
  <2>3. AnalysedTo(tree, f, 0)
    BY <2>1, <2>2 DEF AnalysedTo
  <2> QED BY <1>3, <1>4, <2>3
<1>7. b - 1 \in Nat /\ (b - 1) + 1 = b /\ b - 1 \notin R
  BY <1>4, <1>5, <1>6
<1>8. PICK f : AnalysedTo(tree, f, b - 1)
  BY <1>3, <1>7
<1>9. \E g : AnalysedTo(tree, g, (b - 1) + 1)
  BY <1>7, <1>8, AnalysedGrows
<1> QED BY <1>3, <1>4, <1>5, <1>7, <1>9

(* The analysis of a place is that of its node over what is below it.      *)
LEMMA AnalyseTreeIs ==
  ASSUME NEW tree, IsTree(tree), NEW at \in DOMAIN tree, NEW expect \in ZakoTypes
  PROVE  AnalyseTree(tree)[<<at, expect>>] = AnalyseNode(tree, AnalyseTree(tree), at, expect)
<1>1. MaxDepth + 1 \in Nat
  BY DeclarationsAssumption
<1>2. PICK f : AnalysedTo(tree, f, MaxDepth + 1)
  BY <1>1, AnalysedExists
<1>3. \A place \in DOMAIN tree : Height(place) < MaxDepth + 1
  <2>1. \A place \in DOMAIN tree : Len(place) \in Nat
    BY TreeIs
  <2> QED BY <2>1, <1>1, DeclarationsAssumption DEF Height
<1>4. \A call \in (DOMAIN tree) \X ZakoTypes :
        f[call] = AnalyseNode(tree, f, call[1], call[2])
  BY <1>2, <1>3 DEF AnalysedTo
<1>5. f = [call \in (DOMAIN tree) \X ZakoTypes |-> AnalyseNode(tree, f, call[1], call[2])]
  BY <1>2, <1>4 DEF AnalysedTo
<1>6. AnalyseTree(tree) = [call \in (DOMAIN tree) \X ZakoTypes |->
                             AnalyseNode(tree, AnalyseTree(tree), call[1], call[2])]
  BY <1>5, Zenon DEF AnalyseTree
<1> DEFINE A == AnalyseTree(tree)
<1>7. A = [call \in (DOMAIN tree) \X ZakoTypes |-> AnalyseNode(tree, A, call[1], call[2])]
  BY <1>6
<1> HIDE DEF A
<1>8. A[<<at, expect>>] = AnalyseNode(tree, A, at, expect)
  <2> DEFINE h == [call \in (DOMAIN tree) \X ZakoTypes |-> AnalyseNode(tree, A, call[1], call[2])]
  <2>1. h[<<at, expect>>] = AnalyseNode(tree, A, at, expect)
    OBVIOUS
  <2>2. A = h
    BY <1>7
  <2> HIDE DEF h
  <2> QED BY <2>1, <2>2
<1> QED BY <1>8 DEF A

-----------------------------------------------------------------------------
(* Where the analysis of a place sets types.                               *)

\* A place on the way to another.
Under(at, place) == Len(at) <= Len(place) /\ \A i \in 1..Len(at) : place[i] = at[i]

\* What is under a child is under its parent, elsewhere, and known by the child.
LEMMA UnderIs ==
  ASSUME NEW at \in Places, NEW k \in Nat, NEW place \in Places, Under(Child(at, k), place)
  PROVE  /\ Under(at, place)
         /\ place[Len(at) + 1] = k
         /\ place # at
<1>1. Len(Child(at, k)) = Len(at) + 1 /\ Child(at, k)[Len(at) + 1] = k
      /\ \A i \in 1..Len(at) : Child(at, k)[i] = at[i]
  BY ChildIs
<1>2. Len(at) \in Nat /\ Len(place) \in Nat
  BY DEF Places
<1>3. Len(at) + 1 <= Len(place) /\ \A i \in 1..(Len(at) + 1) : place[i] = Child(at, k)[i]
  BY <1>1 DEF Under
<1>4. place # at
  BY <1>2, <1>3
<1>5. \A i \in 1..Len(at) : i \in 1..(Len(at) + 1)
  BY <1>2
<1>6. Len(at) + 1 \in 1..(Len(at) + 1)
  BY <1>2
<1> QED BY <1>1, <1>2, <1>3, <1>4, <1>5, <1>6 DEF Under

\* A place is under itself.
LEMMA UnderSelf == ASSUME NEW at \in Places PROVE Under(at, at)
BY DEF Under, Places

\* A result has its type: it sets types of nodes of the tree, under a place.
Shaped(tree, at, result) ==
  /\ result.ret \in Rets
  /\ \A place \in DOMAIN result.types :
       place \in DOMAIN tree /\ Under(at, place) /\ result.types[place] \in ZakoTypes

Reached(result, k) == \A j \in 1..(k - 1) : result[j].ret = "SUCCESS"

\* What is known of the analysis of children one after the other: each up to
\* the first that fails has its types in the result, and that one decides how
\* it ends.
AllFacts(n, result, all) ==
  /\ \A place \in DOMAIN all.types : \E k \in 1..n :
       Reached(result, k) /\ place \in DOMAIN result[k].types
  /\ \A k \in 1..n : Reached(result, k) =>
       /\ \A place \in DOMAIN result[k].types :
            place \in DOMAIN all.types /\ all.types[place] = result[k].types[place]
       /\ result[k].ret # "SUCCESS" => all.ret = result[k].ret
  /\ \/ all.ret = "SUCCESS" /\ \A k \in 1..n : result[k].ret = "SUCCESS"
     \/ /\ all.ret # "SUCCESS"
        /\ \E k \in 1..n : Reached(result, k) /\ all.ret = result[k].ret

\* AnalyseAll returns the first error and keeps the types set until then.
LEMMA AllIs ==
  ASSUME NEW tree, IsTree(tree), NEW at \in DOMAIN tree, NEW n \in Nat, NEW result,
         DOMAIN result = 1..n,
         \A k \in 1..n : Shaped(tree, Child(at, k), result[k])
  PROVE  AllFacts(n, result, AnalyseAll(at, result))
<1> DEFINE reached == {k \in DOMAIN result : \A j \in 1..(k - 1) : result[j].ret = "SUCCESS"}
           failed == {k \in reached : result[k].ret # "SUCCESS"}
           set == UNION {DOMAIN result[k].types : k \in reached}
           res == IF failed = {} THEN "SUCCESS" ELSE result[CHOOSE k \in failed : TRUE].ret
           typed == [place \in set |-> result[place[Len(at) + 1]].types[place]]
           all == AnalyseAll(at, result)
<1>1. all.ret = res /\ all.types = typed
  BY DEF AnalyseAll, Result
<1>2. \A k : k \in reached <=> k \in 1..n /\ Reached(result, k)
  BY DEF Reached
<1>3. \A place : place \in set <=> \E k \in reached : place \in DOMAIN result[k].types
  OBVIOUS
<1>4. \A k \in 1..n : \A place \in DOMAIN result[k].types : place[Len(at) + 1] = k
  <2>1. \A k \in 1..n : \A place \in DOMAIN result[k].types :
          place \in Places /\ Under(Child(at, k), place)
    BY TreeIs DEF Shaped
  <2>2. at \in Places /\ \A k \in 1..n : k \in Nat
    BY TreeIs
  <2> QED BY <2>1, <2>2, UnderIs
<1>5. DOMAIN typed = set /\ \A k \in reached : \A place \in DOMAIN result[k].types :
        typed[place] = result[k].types[place]
  BY <1>2, <1>3, <1>4
<1>6. \A k, j \in failed : k = j
  <2>1. \A k \in failed : \A j \in failed : ~(k < j)
    <3> SUFFICES ASSUME NEW k \in failed, NEW j \in failed, k < j PROVE FALSE
      OBVIOUS
    <3>1. k \in 1..(j - 1)
      BY <1>2
    <3> QED BY <3>1
  <2>2. \A k \in failed : k \in Nat
    BY <1>2
  <2> HIDE DEF failed
  <2>3. \A k, j \in Nat : k = j \/ k < j \/ j < k
    OBVIOUS
  <2> QED BY <2>1, <2>2, <2>3
<1>7. failed # {} => \E k \in failed : res = result[k].ret /\ res # "SUCCESS"
  OBVIOUS
<1>8. \A k \in failed : res = result[k].ret /\ res # "SUCCESS"
  BY <1>6, <1>7, Zenon
<1>9. failed = {} => res = "SUCCESS" /\ \A k \in 1..n : result[k].ret = "SUCCESS"
  <2> DEFINE bad == {k \in 1..n : result[k].ret # "SUCCESS"}
  <2>1. SUFFICES ASSUME failed = {}, bad # {} PROVE FALSE
    OBVIOUS
  <2>2. bad \in SUBSET Nat
    OBVIOUS
  <2>3. PICK k \in bad : \A j \in bad : k <= j
    BY <2>1, <2>2, Least
  <2>4. \A j \in 1..(k - 1) : result[j].ret = "SUCCESS"
    BY <2>3
  <2>5. k \in failed
    BY <2>3, <2>4
  <2> QED BY <2>1, <2>5
<1>10. \A k : k \in failed <=> k \in reached /\ result[k].ret # "SUCCESS"
  OBVIOUS
<1> HIDE DEF reached, failed, set, res, typed
<1>11. \A place \in DOMAIN all.types : \E k \in 1..n :
         Reached(result, k) /\ place \in DOMAIN result[k].types
  BY <1>1, <1>2, <1>3, <1>5
<1>12. \A k \in 1..n : Reached(result, k) =>
         /\ \A place \in DOMAIN result[k].types :
              place \in DOMAIN all.types /\ all.types[place] = result[k].types[place]
         /\ result[k].ret # "SUCCESS" => all.ret = result[k].ret
  BY <1>1, <1>2, <1>3, <1>5, <1>8, <1>10
<1>13. \/ all.ret = "SUCCESS" /\ \A k \in 1..n : result[k].ret = "SUCCESS"
       \/ /\ all.ret # "SUCCESS"
          /\ \E k \in 1..n : Reached(result, k) /\ all.ret = result[k].ret
  <2>1. CASE failed = {}
    BY <1>1, <1>9, <2>1
  <2>2. CASE failed # {}
    <3>1. PICK k \in failed : TRUE
      BY <2>2
    <3> QED BY <1>1, <1>2, <1>8, <1>10, <3>1
  <2> QED BY <2>1, <2>2
<1> HIDE DEF all
<1>14. AllFacts(n, result, all)
  BY <1>11, <1>12, <1>13 DEF AllFacts
<1> QED BY <1>14 DEF all

\* What a node expects of its k-th child, and what the analysis makes of it.
Given(tree, at, expect, k) ==
  CASE tree[at].kind = "ARR_ELEM" -> IndexType("u64", Child(at, 1))
    [] tree[at].kind = "ELEM_INIT" -> ElemType(expect)
    [] tree[at].kind = "FN_CALL" -> ArgType(tree[at].name, k)
    [] OTHER -> expect
Inner(tree, at, expect, k) == AnalyseTree(tree)[<<Child(at, k), Given(tree, at, expect, k)>>]

\* What is expected of a child is a type.
LEMMA GivenIs ==
  ASSUME NEW tree, IsTree(tree), NEW at \in DOMAIN tree, NEW expect \in ZakoTypes,
         NEW k \in 1..tree[at].kids
  PROVE  Given(tree, at, expect, k) \in ZakoTypes
<1>1. CASE tree[at].kind = "ARR_ELEM"
  <2>1. Child(at, 1) \in Places
    BY TreeIs, ChildIs
  <2>2. IndexType("u64", Child(at, 1)) \in ZakoTypes
    BY <2>1, IndexTypeIs DEF BuiltinTypes, Numbers, Unsigned
  <2> QED BY <1>1, <2>2 DEF Given
<1>2. CASE tree[at].kind = "ELEM_INIT"
  BY <1>2, ElemTypeIs DEF Given
<1>3. CASE tree[at].kind = "FN_CALL"
  BY <1>3, PassedIs DEF Given
<1> QED BY <1>1, <1>2, <1>3 DEF Given

\* Types that a tree does not own.
Foreign(type) == type.role \notin {"index", "cmp", "literal"}

\* The type of an index literal takes the size of the literal.
IsSized(tree, at, type) ==
  /\ tree[at].kind = "ARR_ELEM"
  /\ tree[Child(at, 1)].kind = "INT"
  /\ \E builtin \in Unsigned : type = IndexType(builtin, Child(at, 1))

\* A result has the types of these children's, and its own.
Taken(tree, at, expect, result, used) ==
  /\ used \subseteq 1..tree[at].kids
  /\ \A place \in DOMAIN result.types :
       place = at \/ \E k \in used : place \in DOMAIN Inner(tree, at, expect, k).types
  /\ \A k \in used : \A place \in DOMAIN Inner(tree, at, expect, k).types :
       /\ place \in DOMAIN result.types
       /\ \/ result.types[place] = Inner(tree, at, expect, k).types[place]
          \/ place = Child(at, 1) /\ IsSized(tree, at, result.types[place])
  /\ result.ret # "ASSERT" => \A k \in used : Inner(tree, at, expect, k).ret # "ASSERT"
  /\ result.ret = "SUCCESS" => used = 1..tree[at].kids

\* The place's own type is the one expected or not the tree's; it is that of
\* the child of an expression in parentheses, or of another value.
Owned(at, expect, result) ==
  /\ at \in DOMAIN result.types =>
       result.types[at] = expect \/ Foreign(result.types[at])
  /\ result.ret = "SUCCESS" => at \in DOMAIN result.types /\ result.types[at] = expect

\* A type set at a place, over others.
Puts(result, at, type, typed) ==
  /\ DOMAIN result = {at} \cup DOMAIN typed
  /\ result[at] = type
  /\ \A place \in DOMAIN typed : place # at => result[place] = typed[place]
Sets(result, at, type) == DOMAIN result = {at} /\ result[at] = type

\* Over with one type set: that type there, the others elsewhere.
LEMMA PutsIs ==
  ASSUME NEW at, NEW type, NEW typed
  PROVE  Puts(Over(Setting(at, type), typed), at, type, typed)
BY DEF Puts, Over, Setting

\* Setting sets one type.
LEMMA SetsIs == ASSUME NEW at, NEW type PROVE Sets(Setting(at, type), at, type)
BY DEF Sets, Setting

\* Nothing sets none.
LEMMA NothingIs == DOMAIN Nothing = {}
BY DEF Nothing

Joins(result, f, g) ==
  /\ DOMAIN result = DOMAIN f \cup DOMAIN g
  /\ \A place \in DOMAIN f : result[place] = f[place]
  /\ \A place \in DOMAIN g : place \notin DOMAIN f => result[place] = g[place]

\* Over keeps the later types and what they do not cover.
LEMMA JoinsIs == ASSUME NEW f, NEW g PROVE Joins(Over(f, g), f, g)
BY DEF Joins, Over

(* CompareBuiltin has few results.                                         *)
LEMMA CompareRet ==
  ASSUME NEW src, NEW expect
  PROVE  /\ CompareBuiltin(src, expect) \in Rets
         /\ CompareBuiltin(src, expect) # "ASSERT"
BY DEF CompareBuiltin, CompareSigned, Rets

\* What is known of the children when their parent is analysed.
KnownBelow(tree, at, expect) ==
  \A k \in 1..tree[at].kids :
    /\ Shaped(tree, Child(at, k), Inner(tree, at, expect, k))
    /\ Owned(Child(at, k), Given(tree, at, expect, k), Inner(tree, at, expect, k))

\* What is shown of a node: its children's types are taken over, and its own
\* is no other value's.
Composed(tree, at, expect, own) ==
  /\ own.ret \in Rets
  /\ at \in DOMAIN own.types =>
       own.types[at] \in ZakoTypes /\ (own.types[at] = expect \/ Foreign(own.types[at]))
  /\ \E used : Taken(tree, at, expect, own, used)

\* The analysis of a child sets types under that child only.
LEMMA BelowIs ==
  ASSUME NEW tree, IsTree(tree), NEW at \in DOMAIN tree, NEW expect \in ZakoTypes,
         KnownBelow(tree, at, expect), NEW k \in 1..tree[at].kids
  PROVE  /\ \A place \in DOMAIN Inner(tree, at, expect, k).types :
              /\ place \in DOMAIN tree /\ place # at /\ Under(at, place)
              /\ place[Len(at) + 1] = k
              /\ Inner(tree, at, expect, k).types[place] \in ZakoTypes
         /\ Inner(tree, at, expect, k).ret \in Rets
<1>1. Shaped(tree, Child(at, k), Inner(tree, at, expect, k))
  BY DEF KnownBelow
<1>2. at \in Places /\ k \in Nat /\ \A place \in DOMAIN tree : place \in Places
  BY TreeIs
<1> QED BY <1>1, <1>2, UnderIs DEF Shaped

\* A result that comes from no child.
LEMMA LeafIs ==
  ASSUME NEW tree, NEW at, NEW expect, NEW res \in Rets, NEW typed,
         res = "SUCCESS" => tree[at].kids = 0,
         DOMAIN typed = {} \/ (DOMAIN typed = {at} /\ typed[at] \in ZakoTypes /\ Foreign(typed[at]))
  PROVE  Composed(tree, at, expect, Result(res, typed))
<1> DEFINE own == Result(res, typed)
<1>1. own.ret = res /\ own.types = typed
  BY DEF Result
<1> HIDE DEF own
<1>4. res = "SUCCESS" => {} = 1..tree[at].kids
  OBVIOUS
<1>2. Taken(tree, at, expect, own, {})
  BY <1>1, <1>4 DEF Taken
<1>3. Composed(tree, at, expect, own)
  BY <1>1, <1>2 DEF Composed
<1> QED BY <1>3 DEF own

\* An array element: the index is its own, sized by its literal.
LEMMA ArrElemIs ==
  ASSUME NEW tree, IsTree(tree), NEW at \in DOMAIN tree, NEW expect \in ZakoTypes,
         KnownBelow(tree, at, expect), tree[at].kind = "ARR_ELEM"
  PROVE  Composed(tree, at, expect, AnalyseArrElem(tree, AnalyseTree(tree), at, expect))
<1> DEFINE place == Child(at, 1)
           idx == tree[place]
           arr == IdentType(tree[at].name)
           index == Inner(tree, at, expect, 1)
           sized == Setting(place, IndexType(UintLiteralType(idx.int), place))
           typed == IF idx.kind = "INT" THEN sized ELSE index.types
           full == Over(Setting(at, ElemType(arr)), typed)
           res == CompareBuiltin(arr.elem, expect.builtin)
           own == AnalyseArrElem(tree, AnalyseTree(tree), at, expect)
<1>1. /\ 1 \in 1..tree[at].kids /\ at \in Places /\ place \in DOMAIN tree /\ place \in Places
      /\ 1..tree[at].kids = {1}
  <2>1. IsNode(tree[at])
    BY TreeIs
  <2>2. 1 \in 1..tree[at].kids /\ 1..tree[at].kids = {1}
    BY <2>1 DEF IsNode
  <2> QED BY <2>2, TreeIs
<1>2. index = AnalyseTree(tree)[<<place, IndexType("u64", place)>>]
  BY DEF Inner, Given
<1>3. /\ \A p \in DOMAIN index.types : p # at /\ index.types[p] \in ZakoTypes
      /\ index.ret \in Rets
  BY <1>1, BelowIs
<1>4. place # at
  BY <1>1, UnderIs, UnderSelf
<1>5. ElemType(arr) \in ZakoTypes /\ Foreign(ElemType(arr))
  <2>1. tree[at].name \in DOMAIN Idents
    BY TreeIs DEF IsNode
  <2> QED BY <2>1, IdentTypeIs, ElemTypeIs DEF Foreign
<1>6. idx.kind = "INT" => DOMAIN index.types = {place}
  <2>1. SUFFICES ASSUME idx.kind = "INT" PROVE DOMAIN index.types = {place}
    OBVIOUS
  <2>2. IndexType("u64", place) \in ZakoTypes /\ IndexType("u64", place).builtin = "u64"
    BY <1>1, IndexTypeIs DEF BuiltinTypes, Numbers, Unsigned
  <2>3. index = AnalyseNode(tree, AnalyseTree(tree), place, IndexType("u64", place))
    BY <1>1, <1>2, <2>2, AnalyseTreeIs
  <2>4. index = Result("SUCCESS", Over(Setting(place, IndexType("u64", place)), Nothing))
    <3> HIDE DEF index, place
    <3> QED BY <2>1, <2>2, <2>3 DEF AnalyseNode, AnalyseKind, Numbers, Unsigned, Result, place
  <2>5. index.types = Over(Setting(place, IndexType("u64", place)), Nothing)
    BY <2>4 DEF Result
  <2>6. Puts(index.types, place, IndexType("u64", place), Nothing)
    BY <2>5, PutsIs
  <2> HIDE DEF index, place
  <2> QED BY <2>6, NothingIs DEF Puts
<1>7. UintLiteralType(idx.int) \in Unsigned
  BY DEF UintLiteralType, Unsigned
<1>8. own = IF idx.kind = "STRING" THEN Result("IMPLICIT_CAST", Nothing)
            ELSE IF OutOfArr(arr.size, idx) THEN Result("OUT_OF_ARR", Nothing)
            ELSE IF index.ret = "ASSERT" THEN index
            ELSE IF index.ret # "SUCCESS" THEN Result("INVAILED_IDX", index.types)
            ELSE Result(res, full)
  BY <1>2 DEF AnalyseArrElem
<1>9. res \in Rets /\ res # "ASSERT"
  BY CompareRet
<1> HIDE DEF index, arr
<1>10. DOMAIN full = {at} \cup DOMAIN index.types /\ full[at] = ElemType(arr)
       /\ \A p \in DOMAIN index.types :
            \/ full[p] = index.types[p]
            \/ p = place /\ IsSized(tree, at, full[p])
  <2>1. CASE idx.kind = "INT"
    <3>1. Sets(typed, place, IndexType(UintLiteralType(idx.int), place))
      BY <2>1, SetsIs
    <3> HIDE DEF typed, sized, place
    <3>2. Puts(full, at, ElemType(arr), typed)
      BY PutsIs
    <3>4. DOMAIN full = {at} \cup {place} /\ full[at] = ElemType(arr)
          /\ full[place] = IndexType(UintLiteralType(idx.int), place)
      <4> HIDE DEF full
      <4> QED BY <1>4, <3>1, <3>2 DEF Puts, Sets
    <3>3. IsSized(tree, at, full[place])
      BY <1>7, <2>1, <3>4 DEF IsSized, place
    <3> HIDE DEF full
    <3> QED BY <1>6, <2>1, <3>4, <3>3
  <2>2. CASE idx.kind # "INT"
    <3>1. typed = index.types
      BY <2>2
    <3> HIDE DEF typed, place
    <3>2. Puts(full, at, ElemType(arr), typed)
      BY PutsIs
    <3> HIDE DEF full
    <3> QED BY <1>3, <3>1, <3>2 DEF Puts
  <2> QED BY <2>1, <2>2
<1>11. ASSUME own = Result(res, full), index.ret # "ASSERT" PROVE Composed(tree, at, expect, own)
  <2>1. own.ret = res /\ own.types = full
    BY <1>11 DEF Result
  <2> HIDE DEF own, full, res, place, idx
  <2>2. Taken(tree, at, expect, own, {1})
    BY <1>1, <1>10, <1>11, <2>1 DEF Taken, index, place
  <2> QED BY <1>5, <1>9, <1>10, <2>1, <2>2 DEF Composed
<1>12. ASSUME own.types = index.types, own.ret \in Rets, own.ret # "ASSERT" => index.ret # "ASSERT"
       PROVE  Composed(tree, at, expect, own)
  <2> HIDE DEF own
  <2>1. at \notin DOMAIN own.types
    BY <1>3, <1>12
  <2>2. Taken(tree, at, expect, own, {1})
    BY <1>1, <1>12 DEF Taken, index
  <2> QED BY <1>12, <2>1, <2>2 DEF Composed
<1>13. "INVAILED_IDX" \in Rets /\ "IMPLICIT_CAST" \in Rets /\ "OUT_OF_ARR" \in Rets
  BY DEF Rets
<1>18. SUFFICES Composed(tree, at, expect, own)
  OBVIOUS
<1> HIDE DEF own, idx, full, res
<1>14. CASE idx.kind = "STRING" \/ OutOfArr(arr.size, idx)
  <2>1. own = Result("IMPLICIT_CAST", Nothing) \/ own = Result("OUT_OF_ARR", Nothing)
    BY <1>8, <1>14
  <2>3. /\ Composed(tree, at, expect, Result("IMPLICIT_CAST", Nothing))
        /\ Composed(tree, at, expect, Result("OUT_OF_ARR", Nothing))
    BY <1>13, NothingIs, LeafIs
  <2> QED BY <2>1, <2>3
<1>15. CASE ~(idx.kind = "STRING" \/ OutOfArr(arr.size, idx)) /\ index.ret = "ASSERT"
  <2>1. own = index
    BY <1>8, <1>15
  <2> QED BY <1>3, <1>12, <2>1
<1>16. CASE /\ ~(idx.kind = "STRING" \/ OutOfArr(arr.size, idx))
            /\ index.ret # "ASSERT" /\ index.ret # "SUCCESS"
  <2>1. own = Result("INVAILED_IDX", index.types)
    BY <1>8, <1>16
  <2>2. own.types = index.types /\ own.ret = "INVAILED_IDX"
    BY <2>1 DEF Result
  <2> QED BY <1>12, <1>13, <1>16, <2>2
<1>17. CASE ~(idx.kind = "STRING" \/ OutOfArr(arr.size, idx)) /\ index.ret = "SUCCESS"
  <2>1. own = Result(res, full)
    BY <1>8, <1>17
  <2> QED BY <1>11, <1>17, <2>1
<1> QED BY <1>14, <1>15, <1>16, <1>17

\* The types of these children together.
Gathered(tree, at, expect, typed, used) ==
  /\ used \subseteq 1..tree[at].kids
  /\ \A place \in DOMAIN typed : \E k \in used : place \in DOMAIN Inner(tree, at, expect, k).types
  /\ \A k \in used : \A place \in DOMAIN Inner(tree, at, expect, k).types :
       /\ place \in DOMAIN typed
       /\ typed[place] = Inner(tree, at, expect, k).types[place]

\* A result gathered from children, with a type for the node itself or none.
LEMMA TakenIs ==
  ASSUME NEW tree, IsTree(tree), NEW at \in DOMAIN tree, NEW expect \in ZakoTypes,
         KnownBelow(tree, at, expect), NEW typed, NEW used,
         Gathered(tree, at, expect, typed, used),
         NEW own, own.ret \in Rets,
         own.ret # "ASSERT" => \A k \in used : Inner(tree, at, expect, k).ret # "ASSERT",
         own.ret = "SUCCESS" => used = 1..tree[at].kids,
         own.types = typed \/ \E type \in ZakoTypes :
           Puts(own.types, at, type, typed) /\ (type = expect \/ Foreign(type))
  PROVE  Composed(tree, at, expect, own)
<1>1. \A place \in DOMAIN typed : place # at
  BY BelowIs DEF Gathered
<1>2. CASE own.types = typed
  <2>1. Taken(tree, at, expect, own, used)
    BY <1>2 DEF Gathered, Taken
  <2> QED BY <1>1, <1>2, <2>1 DEF Composed
<1>3. CASE \E type \in ZakoTypes :
             Puts(own.types, at, type, typed) /\ (type = expect \/ Foreign(type))
  <2>1. PICK type \in ZakoTypes :
          Puts(own.types, at, type, typed) /\ (type = expect \/ Foreign(type))
    BY <1>3
  <2>2. Taken(tree, at, expect, own, used)
    BY <1>1, <2>1 DEF Gathered, Taken, Puts
  <2> QED BY <2>1, <2>2 DEF Composed, Puts
<1> QED BY <1>2, <1>3

\* Parentheses, and the value of a primary expression.
LEMMA InnerIs ==
  ASSUME NEW tree, IsTree(tree), NEW at \in DOMAIN tree, NEW expect \in ZakoTypes,
         KnownBelow(tree, at, expect), tree[at].kind \in {"EXPR", "PRIMARY"}
  PROVE  /\ Composed(tree, at, expect, AnalyseInner(AnalyseTree(tree), at, expect))
         /\ Composed(tree, at, expect, AnalyseTree(tree)[<<Child(at, 1), expect>>])
<1> DEFINE expr == Inner(tree, at, expect, 1)
           type == At(expr.types, Child(at, 1))
           own == AnalyseInner(AnalyseTree(tree), at, expect)
<1>1. 1 \in 1..tree[at].kids /\ {1} = 1..tree[at].kids
  <2>1. IsNode(tree[at])
    BY TreeIs
  <2> QED BY <2>1 DEF IsNode
<1>2. expr = AnalyseTree(tree)[<<Child(at, 1), expect>>]
  BY DEF Inner, Given
<1>3. expr.ret \in Rets
  BY <1>1, BelowIs
<1>4. Gathered(tree, at, expect, expr.types, {1})
  BY <1>1 DEF Gathered
<1>5. type \in ZakoTypes /\ (type = expect \/ Foreign(type))
  <2>1. Owned(Child(at, 1), expect, expr)
    BY <1>1 DEF KnownBelow, Given
  <2>2. \A p \in DOMAIN expr.types : expr.types[p] \in ZakoTypes
    BY <1>1, BelowIs
  <2>3. NULL \in ZakoTypes /\ Foreign(NULL)
    <3>1. <<>> \in Seq(Levels) /\ <<>> \in Places /\ "" \in Names
      BY RootIs DEF Names
    <3> QED BY <3>1 DEF NULL, Type, PlainType, ZakoTypes, Foreign
  <2> HIDE DEF expr
  <2> QED BY <2>1, <2>2, <2>3 DEF At, Owned
<1>6. Composed(tree, at, expect, expr)
  BY <1>1, <1>3, <1>4, TakenIs
<1>7. own.ret = expr.ret /\ own.types = Over(Setting(at, type), expr.types)
  BY <1>2 DEF AnalyseInner, Result
<1> HIDE DEF own
<1>8. Puts(own.types, at, type, expr.types)
  BY <1>7, PutsIs
<1> HIDE DEF type
<1>9. \E t \in ZakoTypes : Puts(own.types, at, t, expr.types) /\ (t = expect \/ Foreign(t))
  BY <1>5, <1>8
<1>10. own.ret # "ASSERT" => \A k \in {1} : Inner(tree, at, expect, k).ret # "ASSERT"
  BY <1>7
<1>11. Composed(tree, at, expect, own)
  <2>1. own.ret \in Rets
    BY <1>3, <1>7
  <2> HIDE DEF expr
  <2> QED BY <1>1, <1>4, <1>9, <1>10, <2>1, TakenIs
<1> QED BY <1>2, <1>6, <1>11 DEF own

\* An operator, or a cast.
LEMMA BinaryIs ==
  ASSUME NEW tree, IsTree(tree), NEW at \in DOMAIN tree, NEW expect \in ZakoTypes,
         KnownBelow(tree, at, expect), tree[at].kind = "BINARY"
  PROVE  Composed(tree, at, expect, AnalyseBinary(tree, AnalyseTree(tree), at, expect))
<1> DEFINE lhs == Inner(tree, at, expect, 1)
           rhs == Inner(tree, at, expect, 2)
           set == Setting(at, expect)
           inner == Over(lhs.types, rhs.types)
           both == Over(set, inner)
           own == AnalyseBinary(tree, AnalyseTree(tree), at, expect)
<1>1. 1 \in 1..tree[at].kids /\ 2 \in 1..tree[at].kids /\ {1, 2} = 1..tree[at].kids
  <2>1. IsNode(tree[at])
    BY TreeIs
  <2> QED BY <2>1 DEF IsNode
<1>2. /\ lhs = AnalyseTree(tree)[<<Child(at, 1), expect>>]
      /\ rhs = AnalyseTree(tree)[<<Child(at, 2), expect>>]
  BY DEF Inner, Given
<1>3. lhs.ret \in Rets /\ rhs.ret \in Rets
  BY <1>1, BelowIs
<1>4. \A p \in DOMAIN lhs.types : p[Len(at) + 1] = 1
  BY <1>1, BelowIs
<1>5. \A p \in DOMAIN rhs.types : p[Len(at) + 1] = 2
  BY <1>1, BelowIs
<1>6. /\ DOMAIN inner = DOMAIN lhs.types \cup DOMAIN rhs.types
      /\ \A p \in DOMAIN lhs.types : inner[p] = lhs.types[p]
      /\ \A p \in DOMAIN rhs.types : inner[p] = rhs.types[p]
  <2>1. Joins(inner, lhs.types, rhs.types)
    BY JoinsIs
  <2> HIDE DEF lhs, rhs, inner
  <2>2. \A p \in DOMAIN rhs.types : p \notin DOMAIN lhs.types
    BY <1>4, <1>5
  <2> QED BY <2>1, <2>2 DEF Joins
<1>7. Gathered(tree, at, expect, inner, {1, 2})
  <2> HIDE DEF inner
  <2> QED BY <1>1, <1>6 DEF Gathered
<1>8. Gathered(tree, at, expect, Nothing, {})
  BY NothingIs DEF Gathered
<1>9. Puts(both, at, expect, inner) /\ Puts(set, at, expect, Nothing)
  <2>1. Puts(both, at, expect, inner)
    BY PutsIs
  <2>2. Sets(set, at, expect)
    BY SetsIs
  <2> HIDE DEF set
  <2> QED BY <2>1, <2>2, NothingIs DEF Puts, Sets
<1>10. \/ /\ own.types = both
          /\ own.ret \in Rets
          /\ own.ret # "ASSERT" => lhs.ret # "ASSERT" /\ rhs.ret # "ASSERT"
       \/ own.types = set /\ own.ret \in Rets /\ own.ret # "SUCCESS"
  <2>1. own = IF tree[at].name # "as"
              THEN Result(IF "ASSERT" \in {lhs.ret, rhs.ret} THEN "ASSERT"
                          ELSE IF lhs.ret # "SUCCESS" THEN lhs.ret ELSE rhs.ret, both)
              ELSE IF tree[Child(at, 2)].kind # "TYPE" THEN Result("ASSERT", set)
              ELSE IF rhs.ret # "SUCCESS" THEN Result(rhs.ret, set)
              ELSE Result(IF lhs.ret = "ASSERT" THEN "ASSERT" ELSE "SUCCESS", both)
    BY <1>2 DEF AnalyseBinary
  <2>2. "ASSERT" \in Rets /\ "SUCCESS" \in Rets
    BY DEF Rets
  <2> HIDE DEF own, lhs, rhs, set, both
  <2> QED BY <1>3, <2>1, <2>2 DEF Result
<1> HIDE DEF own, set, both, inner
<1>11. SUFFICES Composed(tree, at, expect, own)
  BY DEF own
<1>12. CASE own.types = set /\ own.ret \in Rets /\ own.ret # "SUCCESS"
  BY <1>8, <1>9, <1>12, TakenIs
<1>13. CASE /\ own.types = both
            /\ own.ret \in Rets
            /\ own.ret # "ASSERT" => lhs.ret # "ASSERT" /\ rhs.ret # "ASSERT"
  <2>1. own.ret # "ASSERT" => \A k \in {1, 2} : Inner(tree, at, expect, k).ret # "ASSERT"
    BY <1>13
  <2> HIDE DEF lhs, rhs
  <2> QED BY <1>1, <1>7, <1>9, <1>13, <2>1, TakenIs
<1> QED BY <1>10, <1>12, <1>13

\* Children one after the other: those up to the first error are gathered.
LEMMA AllGathered ==
  ASSUME NEW tree, IsTree(tree), NEW at \in DOMAIN tree, NEW expect \in ZakoTypes,
         KnownBelow(tree, at, expect), NEW all,
         all = AnalyseAll(at, [k \in 1..tree[at].kids |-> Inner(tree, at, expect, k)])
  PROVE  /\ all.ret \in Rets
         /\ \E used : /\ Gathered(tree, at, expect, all.types, used)
                      /\ all.ret # "ASSERT" =>
                           \A k \in used : Inner(tree, at, expect, k).ret # "ASSERT"
                      /\ all.ret = "SUCCESS" => used = 1..tree[at].kids
<1> DEFINE n == tree[at].kids
           result == [k \in 1..n |-> Inner(tree, at, expect, k)]
           used == {k \in 1..n : Reached(result, k)}
<1>1. \A k \in 1..n : result[k] = Inner(tree, at, expect, k)
  OBVIOUS
<1>2. \A k \in 1..n : Shaped(tree, Child(at, k), result[k])
  BY <1>1 DEF KnownBelow
<1>3. DOMAIN result = 1..n
  OBVIOUS
<1>4. all = AnalyseAll(at, result)
  OBVIOUS
<1>5. n \in Nat
  BY TreeIs
<1> HIDE DEF result, n
<1>6. AllFacts(n, result, all)
  BY <1>2, <1>3, <1>4, <1>5, AllIs DEF n
<1>7. \A k \in 1..n : result[k].ret \in Rets
  BY <1>2 DEF Shaped
<1>8. all.ret \in Rets
  BY <1>6, <1>7 DEF AllFacts, Rets
<1>9. Gathered(tree, at, expect, all.types, used)
  BY <1>1, <1>6 DEF Gathered, AllFacts, n
<1>10. all.ret # "ASSERT" => \A k \in used : Inner(tree, at, expect, k).ret # "ASSERT"
  BY <1>1, <1>6 DEF AllFacts
<1>11. all.ret = "SUCCESS" => used = 1..n
  <2>1. SUFFICES ASSUME all.ret = "SUCCESS" PROVE \A k \in 1..n : Reached(result, k)
    OBVIOUS
  <2>2. \A k \in 1..n : result[k].ret = "SUCCESS"
    BY <1>6, <2>1 DEF AllFacts
  <2>3. \A k \in 1..n : \A j \in 1..(k - 1) : j \in 1..n
    BY <1>5
  <2> QED BY <2>2, <2>3 DEF Reached
<1>12. all.ret = "SUCCESS" => used = 1..tree[at].kids
  BY <1>11 DEF n
<1>13. Gathered(tree, at, expect, all.types, used)
  BY <1>9
<1> HIDE DEF used
<1> QED BY <1>8, <1>10, <1>12, <1>13

\* An initialiser.
LEMMA ElemInitIs ==
  ASSUME NEW tree, IsTree(tree), NEW at \in DOMAIN tree, NEW expect \in ZakoTypes,
         KnownBelow(tree, at, expect), tree[at].kind = "ELEM_INIT"
  PROVE  Composed(tree, at, expect, AnalyseElemInit(tree, AnalyseTree(tree), at, expect))
<1> DEFINE own == AnalyseElemInit(tree, AnalyseTree(tree), at, expect)
           all == AnalyseAll(at, [k \in 1..tree[at].kids |-> Inner(tree, at, expect, k)])
<1>1. \A k \in 1..tree[at].kids :
        AnalyseTree(tree)[<<Child(at, k), ElemType(expect)>>] = Inner(tree, at, expect, k)
  BY DEF Inner, Given
<1>2. own = IF expect.builtin = "arr" THEN all
            ELSE Result("CANNOT_INIT_VALUE_BY_ELEM_INIT", Nothing)
  <2>1. [k \in 1..tree[at].kids |-> AnalyseTree(tree)[<<Child(at, k), ElemType(expect)>>]]
          = [k \in 1..tree[at].kids |-> Inner(tree, at, expect, k)]
    BY <1>1
  <2> QED BY <2>1, Zenon DEF AnalyseElemInit
<1>3. SUFFICES Composed(tree, at, expect, own)
  OBVIOUS
<1> HIDE DEF own
<1>4. CASE expect.builtin = "arr"
  <2>1. own = all
    BY <1>2, <1>4
  <2> HIDE DEF all
  <2>2. own = AnalyseAll(at, [k \in 1..tree[at].kids |-> Inner(tree, at, expect, k)])
    BY <2>1 DEF all
  <2>3. own.ret \in Rets
    BY <2>2, AllGathered
  <2>4. PICK used : /\ Gathered(tree, at, expect, own.types, used)
                    /\ own.ret # "ASSERT" =>
                         \A k \in used : Inner(tree, at, expect, k).ret # "ASSERT"
                    /\ own.ret = "SUCCESS" => used = 1..tree[at].kids
    BY <2>2, AllGathered
  <2> QED BY <2>3, <2>4, TakenIs
<1>5. CASE expect.builtin # "arr"
  <2>1. "CANNOT_INIT_VALUE_BY_ELEM_INIT" \in Rets
    BY DEF Rets
  <2>2. own = Result("CANNOT_INIT_VALUE_BY_ELEM_INIT", Nothing)
    BY <1>2, <1>5
  <2> QED BY <2>1, <2>2, NothingIs, LeafIs
<1> QED BY <1>4, <1>5

\* A call.
LEMMA FnCallIs ==
  ASSUME NEW tree, IsTree(tree), NEW at \in DOMAIN tree, NEW expect \in ZakoTypes,
         KnownBelow(tree, at, expect), tree[at].kind = "FN_CALL"
  PROVE  Composed(tree, at, expect, AnalyseFnCall(tree, AnalyseTree(tree), at, expect))
<1> DEFINE own == AnalyseFnCall(tree, AnalyseTree(tree), at, expect)
           type == ReturnType(tree[at].name)
           res == CompareBuiltin(type.builtin, expect.builtin)
           all == AnalyseAll(at, [k \in 1..tree[at].kids |-> Inner(tree, at, expect, k)])
<1>1. \A k \in 1..tree[at].kids :
        AnalyseTree(tree)[<<Child(at, k), ArgType(tree[at].name, k)>>]
          = Inner(tree, at, expect, k)
  BY DEF Inner, Given
<1>2. own = Result(IF all.ret # "SUCCESS" THEN all.ret ELSE res,
                   Over(Setting(at, type), all.types))
  <2>1. [k \in 1..tree[at].kids |-> AnalyseTree(tree)[<<Child(at, k), ArgType(tree[at].name, k)>>]]
          = [k \in 1..tree[at].kids |-> Inner(tree, at, expect, k)]
    BY <1>1
  <2> QED BY <2>1, Zenon DEF AnalyseFnCall
<1>3. type \in ZakoTypes /\ Foreign(type)
  <2>1. tree[at].name \in DOMAIN Functions
    BY TreeIs DEF IsNode
  <2> QED BY <2>1, ReturnTypeIs DEF Foreign
<1>4. SUFFICES Composed(tree, at, expect, own)
  OBVIOUS
<1>5. res \in Rets /\ res # "ASSERT"
  BY CompareRet
<1> HIDE DEF own, res
<1>6. /\ all.ret \in Rets
      /\ \E used : /\ Gathered(tree, at, expect, all.types, used)
                   /\ all.ret # "ASSERT" =>
                        \A k \in used : Inner(tree, at, expect, k).ret # "ASSERT"
                   /\ all.ret = "SUCCESS" => used = 1..tree[at].kids
  <2> HIDE DEF all
  <2>1. all = AnalyseAll(at, [k \in 1..tree[at].kids |-> Inner(tree, at, expect, k)])
    BY DEF all
  <2>2. all.ret \in Rets
    BY <2>1, AllGathered
  <2>3. \E used : /\ Gathered(tree, at, expect, all.types, used)
                  /\ all.ret # "ASSERT" =>
                       \A k \in used : Inner(tree, at, expect, k).ret # "ASSERT"
                  /\ all.ret = "SUCCESS" => used = 1..tree[at].kids
    BY <2>1, AllGathered
  <2> QED BY <2>2, <2>3
<1> HIDE DEF all
<1>7. PICK used : /\ Gathered(tree, at, expect, all.types, used)
                  /\ all.ret # "ASSERT" =>
                       \A k \in used : Inner(tree, at, expect, k).ret # "ASSERT"
                  /\ all.ret = "SUCCESS" => used = 1..tree[at].kids
  BY <1>6
<1>8. own.ret \in Rets /\ (own.ret = all.ret \/ all.ret = "SUCCESS")
  BY <1>2, <1>5, <1>6 DEF Result
<1>9. own.types = Over(Setting(at, type), all.types)
  BY <1>2 DEF Result
<1> HIDE DEF type
<1>10. Puts(own.types, at, type, all.types)
  BY <1>9, PutsIs
<1>11. /\ own.ret # "ASSERT" => \A k \in used : Inner(tree, at, expect, k).ret # "ASSERT"
       /\ own.ret = "SUCCESS" => used = 1..tree[at].kids
  BY <1>7, <1>8
<1> QED BY <1>3, <1>7, <1>8, <1>10, <1>11, TakenIs

\* A node of any kind.
LEMMA KindIs ==
  ASSUME NEW tree, IsTree(tree), NEW at \in DOMAIN tree, NEW expect \in ZakoTypes,
         KnownBelow(tree, at, expect)
  PROVE  Composed(tree, at, expect, AnalyseKind(tree, AnalyseTree(tree), at, expect))
<1> DEFINE own == AnalyseKind(tree, AnalyseTree(tree), at, expect)
<1>1. IsNode(tree[at])
  BY TreeIs
<1>2. CASE tree[at].kind = "ARR_ELEM"
  BY <1>2, ArrElemIs DEF AnalyseKind
<1>3. CASE tree[at].kind = "ELEM_INIT"
  BY <1>3, ElemInitIs DEF AnalyseKind
<1>4. CASE tree[at].kind = "FN_CALL"
  BY <1>4, FnCallIs DEF AnalyseKind
<1>5. CASE tree[at].kind \in {"EXPR", "PRIMARY"}
  BY <1>5, InnerIs DEF AnalyseKind
<1>6. CASE tree[at].kind = "BINARY"
  BY <1>6, BinaryIs DEF AnalyseKind
<1>7. CASE tree[at].kind = "IDENT"
  <2> DEFINE type == IdentType(tree[at].name)
             res == CompareBuiltin(type.builtin, expect.builtin)
  <2>1. type \in ZakoTypes /\ Foreign(type)
    BY <1>1, <1>7, IdentTypeIs DEF IsNode, Foreign
  <2>2. res \in Rets
    BY CompareRet
  <2>3. Sets(Setting(at, type), at, type)
    BY SetsIs
  <2>4. own = Result(res, Setting(at, type))
    BY <1>7 DEF AnalyseKind
  <2> HIDE DEF type, res
  <2>5. Composed(tree, at, expect, Result(res, Setting(at, type)))
    BY <1>1, <1>7, <2>1, <2>2, <2>3, LeafIs DEF Sets, IsNode
  <2> QED BY <2>4, <2>5
<1>8. CASE tree[at].kind \in {"INT", "STRING", "TYPE", "CMP"}
  <2>1. PICK res \in Rets : own = Result(res, Nothing)
    <3>1. /\ AnalyseString(expect) \in Rets
          /\ (IF expect.builtin \in Numbers THEN "SUCCESS" ELSE "IMPLICIT_CAST") \in Rets
          /\ CompareBuiltin(tree[at].name, expect.builtin) \in Rets
          /\ "ASSERT" \in Rets
      BY CompareRet DEF AnalyseString, Rets
    <3> QED BY <1>8, <3>1 DEF AnalyseKind
  <2>2. res = "SUCCESS" => tree[at].kids = 0
    BY <1>1, <1>8, <2>1 DEF IsNode, AnalyseKind, Result
  <2> QED BY <2>1, <2>2, NothingIs, LeafIs
<1> QED BY <1>1, <1>2, <1>3, <1>4, <1>5, <1>6, <1>7, <1>8 DEF IsNode

(* The node of a tree over what is below it.                               *)
LEMMA NodeIs ==
  ASSUME NEW tree, IsTree(tree), NEW at \in DOMAIN tree, NEW expect \in ZakoTypes,
         KnownBelow(tree, at, expect)
  PROVE  LET result == AnalyseTree(tree)[<<at, expect>>]
         IN  /\ Shaped(tree, at, result)
             /\ Owned(at, expect, result)
             /\ \E used : Taken(tree, at, expect, result, used)
<1> DEFINE own == AnalyseKind(tree, AnalyseTree(tree), at, expect)
           result == AnalyseTree(tree)[<<at, expect>>]
<1>1. result = IF own.ret = "SUCCESS"
               THEN Result("SUCCESS", Over(Setting(at, expect), own.types)) ELSE own
  BY AnalyseTreeIs DEF AnalyseNode
<1>2. Composed(tree, at, expect, own)
  BY KindIs
<1>3. SUFFICES /\ Shaped(tree, at, result)
               /\ Owned(at, expect, result)
               /\ \E used : Taken(tree, at, expect, result, used)
  BY DEF result
<1> HIDE DEF own, result
<1>4. PICK used : Taken(tree, at, expect, own, used)
  BY <1>2 DEF Composed
<1>5. /\ result.ret = own.ret /\ result.ret \in Rets
      /\ own.ret = "SUCCESS" => Puts(result.types, at, expect, own.types)
      /\ own.ret # "SUCCESS" => result.types = own.types
  BY <1>1, <1>2, PutsIs DEF Composed, Result
<1>6. /\ \A place \in DOMAIN own.types : place \in DOMAIN result.types
      /\ \A place \in DOMAIN result.types : place # at =>
           place \in DOMAIN own.types /\ result.types[place] = own.types[place]
      /\ own.ret # "SUCCESS" => result.types = own.types
  BY <1>5 DEF Puts
<1>7. Taken(tree, at, expect, result, used)
  <2>1. \A k \in used : \A place \in DOMAIN Inner(tree, at, expect, k).types : place # at
    BY <1>4, BelowIs DEF Taken
  <2> QED BY <1>4, <1>5, <1>6, <2>1 DEF Taken
<1>8. Owned(at, expect, result)
  BY <1>2, <1>5, <1>6 DEF Owned, Puts, Composed
<1>9. Shaped(tree, at, result)
  <2>1. ASSUME NEW place \in DOMAIN result.types
        PROVE  place \in DOMAIN tree /\ Under(at, place) /\ result.types[place] \in ZakoTypes
    <3>1. CASE place = at
      <4>1. result.types[at] \in ZakoTypes
        BY <1>2, <1>5, <1>6, <3>1, <2>1 DEF Puts, Composed
      <4>2. at \in Places
        BY TreeIs
      <4> QED BY <3>1, <4>1, <4>2, UnderSelf
    <3>2. CASE place # at
      <4>1. PICK k \in used : place \in DOMAIN Inner(tree, at, expect, k).types
        BY <1>7, <2>1, <3>2 DEF Taken
      <4>2. k \in 1..tree[at].kids
        BY <1>7 DEF Taken
      <4>3. /\ place \in DOMAIN tree /\ Under(at, place)
            /\ Inner(tree, at, expect, k).types[place] \in ZakoTypes
        BY <4>1, <4>2, BelowIs
      <4>4. \/ result.types[place] = Inner(tree, at, expect, k).types[place]
            \/ IsSized(tree, at, result.types[place])
        BY <1>7, <4>1 DEF Taken
      <4>5. IsSized(tree, at, result.types[place]) => result.types[place] \in ZakoTypes
        <5>1. tree[at].kind = "ARR_ELEM" => Child(at, 1) \in Places
          <6>1. tree[at].kind = "ARR_ELEM" => 1 \in 1..tree[at].kids
            BY TreeIs DEF IsNode
          <6> QED BY <6>1, TreeIs
        <5>2. \A b \in Unsigned : b \in BuiltinTypes
          BY DEF BuiltinTypes, Numbers
        <5> QED BY <5>1, <5>2, IndexTypeIs DEF IsSized
      <4> QED BY <4>3, <4>4, <4>5
    <3> QED BY <3>1, <3>2
  <2> QED BY <1>5, <2>1 DEF Shaped
<1> QED BY <1>7, <1>8, <1>9

(* What the analysis of any place of a tree sets.                          *)
LEMMA TreeShaped ==
  ASSUME NEW tree, IsTree(tree)
  PROVE  \A at \in DOMAIN tree : \A expect \in ZakoTypes :
           /\ Shaped(tree, at, AnalyseTree(tree)[<<at, expect>>])
           /\ Owned(at, expect, AnalyseTree(tree)[<<at, expect>>])
<1> DEFINE G == {at \in DOMAIN tree : \A expect \in ZakoTypes :
                   /\ Shaped(tree, at, AnalyseTree(tree)[<<at, expect>>])
                   /\ Owned(at, expect, AnalyseTree(tree)[<<at, expect>>])}
<1>1. ASSUME NEW at \in DOMAIN tree, \A k \in 1..tree[at].kids : Child(at, k) \in G
      PROVE  at \in G
  <2>1. SUFFICES ASSUME NEW expect \in ZakoTypes
                 PROVE  /\ Shaped(tree, at, AnalyseTree(tree)[<<at, expect>>])
                        /\ Owned(at, expect, AnalyseTree(tree)[<<at, expect>>])
    OBVIOUS
  <2>2. \A k \in 1..tree[at].kids : Given(tree, at, expect, k) \in ZakoTypes
    BY GivenIs
  <2>3. KnownBelow(tree, at, expect)
    BY <1>1, <2>2 DEF KnownBelow, Inner
  <2> QED BY <2>3, NodeIs
<1>2. \A at \in DOMAIN tree : at \in G
  <2> HIDE DEF G
  <2> QED BY <1>1, TreeInduction
<1> QED BY <1>2

\* The same of one place and one type, with what is known below it.
LEMMA TreeTaken ==
  ASSUME NEW tree, IsTree(tree), NEW at \in DOMAIN tree, NEW expect \in ZakoTypes
  PROVE  /\ KnownBelow(tree, at, expect)
         /\ Composed(tree, at, expect, AnalyseKind(tree, AnalyseTree(tree), at, expect))
         /\ Shaped(tree, at, AnalyseTree(tree)[<<at, expect>>])
         /\ Owned(at, expect, AnalyseTree(tree)[<<at, expect>>])
         /\ \E used : Taken(tree, at, expect, AnalyseTree(tree)[<<at, expect>>], used)
<1>1. \A k \in 1..tree[at].kids :
        Child(at, k) \in DOMAIN tree /\ Given(tree, at, expect, k) \in ZakoTypes
  BY GivenIs, TreeIs
<1>2. KnownBelow(tree, at, expect)
  BY <1>1, TreeShaped DEF KnownBelow, Inner
<1> QED BY <1>2, KindIs, NodeIs

-----------------------------------------------------------------------------
(* The same recursion for what a place has to fit.                         *)

\* What is demanded below a node depends on what its children demand only.
LEMMA DemandsAgree ==
  ASSUME NEW tree, IsTree(tree), NEW at \in DOMAIN tree, NEW expect \in ZakoTypes,
         NEW f, NEW g, AgreeBelow(tree, f, g, at)
  PROVE  DemandsOf(tree, f, at, expect) = DemandsOf(tree, g, at, expect)
<1>1. /\ IsNode(tree[at])
      /\ \A k \in 1..tree[at].kids :
           f[<<Child(at, k), Given(tree, at, expect, k)>>]
             = g[<<Child(at, k), Given(tree, at, expect, k)>>]
  BY TreeIs, GivenIs DEF AgreeBelow
<1>2. CASE tree[at].kind = "ARR_ELEM"
  <2>1. 1 \in 1..tree[at].kids
    BY <1>1, <1>2 DEF IsNode
  <2>2. f[<<Child(at, 1), IndexType("u64", Child(at, 1))>>]
          = g[<<Child(at, 1), IndexType("u64", Child(at, 1))>>]
    BY <1>1, <1>2, <2>1 DEF Given
  <2> QED BY <1>2, <2>2 DEF DemandsOf
<1>3. CASE tree[at].kind = "ELEM_INIT"
  <2>1. \A k \in 1..tree[at].kids :
          f[<<Child(at, k), ElemType(expect)>>] = g[<<Child(at, k), ElemType(expect)>>]
    BY <1>1, <1>3 DEF Given
  <2>2. UNION {f[<<Child(at, k), ElemType(expect)>>] : k \in 1..tree[at].kids}
          = UNION {g[<<Child(at, k), ElemType(expect)>>] : k \in 1..tree[at].kids}
    BY <2>1
  <2> QED BY <1>3, <2>2 DEF DemandsOf
<1>4. CASE tree[at].kind = "FN_CALL"
  <2>1. \A k \in 1..tree[at].kids :
          f[<<Child(at, k), ArgType(tree[at].name, k)>>]
            = g[<<Child(at, k), ArgType(tree[at].name, k)>>]
    BY <1>1, <1>4 DEF Given
  <2>2. UNION {f[<<Child(at, k), ArgType(tree[at].name, k)>>] : k \in 1..tree[at].kids}
          = UNION {g[<<Child(at, k), ArgType(tree[at].name, k)>>] : k \in 1..tree[at].kids}
    BY <2>1
  <2> QED BY <1>4, <2>2 DEF DemandsOf
<1>5. CASE tree[at].kind \in {"EXPR", "PRIMARY"}
  <2>1. 1 \in 1..tree[at].kids
    BY <1>1, <1>5 DEF IsNode
  <2>2. f[<<Child(at, 1), expect>>] = g[<<Child(at, 1), expect>>]
    BY <1>1, <1>5, <2>1 DEF Given
  <2> QED BY <1>5, <2>2 DEF DemandsOf
<1>6. CASE tree[at].kind = "BINARY"
  <2>1. 1 \in 1..tree[at].kids /\ 2 \in 1..tree[at].kids
    BY <1>1, <1>6 DEF IsNode
  <2>2. /\ f[<<Child(at, 1), expect>>] = g[<<Child(at, 1), expect>>]
        /\ f[<<Child(at, 2), expect>>] = g[<<Child(at, 2), expect>>]
    BY <1>1, <1>6, <2>1 DEF Given
  <2> QED BY <1>6, <2>2 DEF DemandsOf
<1>7. CASE tree[at].kind \in {"IDENT", "INT", "STRING", "TYPE", "CMP"}
  BY <1>7 DEF DemandsOf
<1> QED BY <1>1, <1>2, <1>3, <1>4, <1>5, <1>6, <1>7 DEF IsNode

\* f is what is demanded of all places lower than n.
DemandedTo(tree, f, n) ==
  /\ f = [call \in (DOMAIN tree) \X ZakoTypes |-> f[call]]
  /\ \A at \in DOMAIN tree : \A type \in ZakoTypes :
       Height(at) < n => f[<<at, type>>] = DemandsOf(tree, f, at, type)

\* What solves the recursion of Demands up to a height is extended by one level.
LEMMA DemandedGrows ==
  ASSUME NEW tree, IsTree(tree), NEW n \in Nat, NEW f, DemandedTo(tree, f, n)
  PROVE  \E g : DemandedTo(tree, g, n + 1)
<1> DEFINE g == [call \in (DOMAIN tree) \X ZakoTypes |->
                   DemandsOf(tree, f, call[1], call[2])]
<1>1. \A at \in DOMAIN tree : \A type \in ZakoTypes :
        g[<<at, type>>] = DemandsOf(tree, f, at, type)
  OBVIOUS
<1>2. g = [call \in (DOMAIN tree) \X ZakoTypes |-> g[call]]
  OBVIOUS
<1> HIDE DEF g
<1>3. ASSUME NEW at \in DOMAIN tree, NEW type \in ZakoTypes, Height(at) < n + 1
      PROVE  g[<<at, type>>] = DemandsOf(tree, g, at, type)
  <2>1. ASSUME NEW k \in 1..tree[at].kids, NEW t \in ZakoTypes
        PROVE  f[<<Child(at, k), t>>] = g[<<Child(at, k), t>>]
    <3>1. Child(at, k) \in DOMAIN tree /\ Height(Child(at, k)) < Height(at)
      BY TreeIs
    <3>2. Height(Child(at, k)) \in Nat /\ Height(at) \in Nat
      BY <3>1, TreeIs
    <3>3. Height(Child(at, k)) < n
      BY <1>3, <3>1, <3>2
    <3> QED BY <1>1, <3>1, <3>3 DEF DemandedTo
  <2>2. AgreeBelow(tree, f, g, at)
    BY <2>1 DEF AgreeBelow
  <2> QED BY <1>1, <2>2, DemandsAgree
<1>4. DemandedTo(tree, g, n + 1)
  BY <1>2, <1>3 DEF DemandedTo
<1> QED BY <1>4

\* A solution up to every height.
LEMMA DemandedExists ==
  ASSUME NEW tree, IsTree(tree), NEW n \in Nat PROVE \E f : DemandedTo(tree, f, n)
<1> DEFINE R == {k \in Nat : ~\E f : DemandedTo(tree, f, k)}
<1>1. SUFFICES ASSUME R # {} PROVE FALSE
  OBVIOUS
<1>2. R \in SUBSET Nat
  OBVIOUS
<1>3. \A k \in Nat : k \in R <=> ~\E f : DemandedTo(tree, f, k)
  OBVIOUS
<1> HIDE DEF R
<1>4. PICK b \in R : \A k \in R : b <= k
  BY <1>1, <1>2, Least
<1>5. b \in Nat
  BY <1>2
<1>6. b # 0
  <2> DEFINE f == [call \in (DOMAIN tree) \X ZakoTypes |-> 0]
  <2>1. f = [call \in (DOMAIN tree) \X ZakoTypes |-> f[call]]
    OBVIOUS
  <2>2. \A at \in DOMAIN tree : ~(Height(at) < 0)
    <3>1. \A at \in DOMAIN tree : Height(at) \in Nat
      BY TreeIs
    <3> QED BY <3>1
  <2> HIDE DEF f
  <2>3. DemandedTo(tree, f, 0)
    BY <2>1, <2>2 DEF DemandedTo
  <2> QED BY <1>3, <1>4, <2>3
<1>7. b - 1 \in Nat /\ (b - 1) + 1 = b /\ b - 1 \notin R
  BY <1>4, <1>5, <1>6
<1>8. PICK f : DemandedTo(tree, f, b - 1)
  BY <1>3, <1>7
<1>9. \E g : DemandedTo(tree, g, (b - 1) + 1)
  BY <1>7, <1>8, DemandedGrows
<1> QED BY <1>3, <1>4, <1>5, <1>7, <1>9

(* What is demanded of a place.                                            *)
LEMMA DemandsIs ==
  ASSUME NEW tree, IsTree(tree), NEW at \in DOMAIN tree, NEW expect \in ZakoTypes
  PROVE  Demands(tree)[<<at, expect>>] = DemandsOf(tree, Demands(tree), at, expect)
<1>1. MaxDepth + 1 \in Nat
  BY DeclarationsAssumption
<1>2. PICK f : DemandedTo(tree, f, MaxDepth + 1)
  BY <1>1, DemandedExists
<1>3. \A place \in DOMAIN tree : Height(place) < MaxDepth + 1
  <2>1. \A place \in DOMAIN tree : Len(place) \in Nat
    BY TreeIs
  <2> QED BY <2>1, <1>1, DeclarationsAssumption DEF Height
<1>4. \A call \in (DOMAIN tree) \X ZakoTypes :
        f[call] = DemandsOf(tree, f, call[1], call[2])
  BY <1>2, <1>3 DEF DemandedTo
<1>5. f = [call \in (DOMAIN tree) \X ZakoTypes |-> DemandsOf(tree, f, call[1], call[2])]
  BY <1>2, <1>4 DEF DemandedTo
<1>6. Demands(tree) = [call \in (DOMAIN tree) \X ZakoTypes |->
                             DemandsOf(tree, Demands(tree), call[1], call[2])]
  BY <1>5, Zenon DEF Demands
<1> DEFINE A == Demands(tree)
<1>7. A = [call \in (DOMAIN tree) \X ZakoTypes |-> DemandsOf(tree, A, call[1], call[2])]
  BY <1>6
<1> HIDE DEF A
<1>8. A[<<at, expect>>] = DemandsOf(tree, A, at, expect)
  <2> DEFINE h == [call \in (DOMAIN tree) \X ZakoTypes |-> DemandsOf(tree, A, call[1], call[2])]
  <2>1. h[<<at, expect>>] = DemandsOf(tree, A, at, expect)
    OBVIOUS
  <2>2. A = h
    BY <1>7
  <2> HIDE DEF h
  <2> QED BY <2>1, <2>2
<1> QED BY <1>8 DEF A

-----------------------------------------------------------------------------
(* The same recursion for the code of a tree.                              *)

CompiledAlike(tree, f, g, at) ==
  \A k \in 1..tree[at].kids : f[Child(at, k)] = g[Child(at, k)]

\* The code of a node depends on the code of its children only.
LEMMA CompileAgrees ==
  ASSUME NEW tree, IsTree(tree), NEW typed, NEW at \in DOMAIN tree,
         NEW f, NEW g, CompiledAlike(tree, f, g, at)
  PROVE  CompileNode(tree, typed, f, at) = CompileNode(tree, typed, g, at)
<1>1. IsNode(tree[at])
  BY TreeIs
<1>2. CASE tree[at].kind \in {"ARR_ELEM", "EXPR", "PRIMARY"}
  <2>1. 1 \in 1..tree[at].kids
    BY <1>1, <1>2 DEF IsNode
  <2>2. f[Child(at, 1)] = g[Child(at, 1)]
    BY <2>1, Zenon DEF CompiledAlike
  <2>3. CompileArrElem(tree, f, at) = CompileArrElem(tree, g, at)
    BY <2>2, Zenon DEF CompileArrElem
  <2> QED BY <1>2, <2>2, <2>3 DEF CompileNode
<1>3. CASE tree[at].kind = "FN_CALL"
  <2>1. [k \in 1..tree[at].kids |-> f[Child(at, k)]] = [k \in 1..tree[at].kids |-> g[Child(at, k)]]
    BY DEF CompiledAlike
  <2>2. CompileFnCall(tree, f, at) = CompileFnCall(tree, g, at)
    BY <2>1, Zenon DEF CompileFnCall
  <2> QED BY <1>3, <2>2 DEF CompileNode
<1>4. CASE tree[at].kind = "BINARY"
  <2>1. 1 \in 1..tree[at].kids /\ 2 \in 1..tree[at].kids
    BY <1>1, <1>4 DEF IsNode
  <2>2. f[Child(at, 1)] = g[Child(at, 1)] /\ f[Child(at, 2)] = g[Child(at, 2)]
    BY <2>1, Zenon DEF CompiledAlike
  <2>3. CompileBinary(tree, typed, f, at) = CompileBinary(tree, typed, g, at)
    BY <2>2, Zenon DEF CompileBinary
  <2> QED BY <1>4, <2>3 DEF CompileNode
<1>5. CASE tree[at].kind \in {"ELEM_INIT", "IDENT", "INT", "STRING", "TYPE", "CMP"}
  BY <1>5 DEF CompileNode
<1> QED BY <1>1, <1>2, <1>3, <1>4, <1>5 DEF IsNode

\* f is the code of all places lower than n.
CompiledTo(tree, typed, f, n) ==
  /\ f = [place \in DOMAIN tree |-> f[place]]
  /\ \A at \in DOMAIN tree :
       Height(at) < n => f[at] = CompileNode(tree, typed, f, at)

\* What solves the recursion of CompileTree up to a height is extended by one level.
LEMMA CompiledGrows ==
  ASSUME NEW tree, IsTree(tree), NEW typed, NEW n \in Nat, NEW f, CompiledTo(tree, typed, f, n)
  PROVE  \E g : CompiledTo(tree, typed, g, n + 1)
<1> DEFINE g == [place \in DOMAIN tree |->
                   CompileNode(tree, typed, f, place)]
<1>1. \A at \in DOMAIN tree :
        g[at] = CompileNode(tree, typed, f, at)
  OBVIOUS
<1>2. g = [place \in DOMAIN tree |-> g[place]]
  OBVIOUS
<1> HIDE DEF g
<1>3. ASSUME NEW at \in DOMAIN tree, Height(at) < n + 1
      PROVE  g[at] = CompileNode(tree, typed, g, at)
  <2>1. ASSUME NEW k \in 1..tree[at].kids
        PROVE  f[Child(at, k)] = g[Child(at, k)]
    <3>1. Child(at, k) \in DOMAIN tree /\ Height(Child(at, k)) < Height(at)
      BY TreeIs
    <3>2. Height(Child(at, k)) \in Nat /\ Height(at) \in Nat
      BY <3>1, TreeIs
    <3>3. Height(Child(at, k)) < n
      BY <1>3, <3>1, <3>2
    <3> QED BY <1>1, <3>1, <3>3 DEF CompiledTo
  <2>2. CompiledAlike(tree, f, g, at)
    BY <2>1 DEF CompiledAlike
  <2> QED BY <1>1, <2>2, CompileAgrees
<1>4. CompiledTo(tree, typed, g, n + 1)
  BY <1>2, <1>3 DEF CompiledTo
<1> QED BY <1>4

\* A solution up to every height.
LEMMA CompiledExists ==
  ASSUME NEW tree, IsTree(tree), NEW typed, NEW n \in Nat PROVE \E f : CompiledTo(tree, typed, f, n)
<1> DEFINE R == {k \in Nat : ~\E f : CompiledTo(tree, typed, f, k)}
<1>1. SUFFICES ASSUME R # {} PROVE FALSE
  OBVIOUS
<1>2. R \in SUBSET Nat
  OBVIOUS
<1>3. \A k \in Nat : k \in R <=> ~\E f : CompiledTo(tree, typed, f, k)
  OBVIOUS
<1> HIDE DEF R
<1>4. PICK b \in R : \A k \in R : b <= k
  BY <1>1, <1>2, Least
<1>5. b \in Nat
  BY <1>2
<1>6. b # 0
  <2> DEFINE f == [place \in DOMAIN tree |-> 0]
  <2>1. f = [place \in DOMAIN tree |-> f[place]]
    OBVIOUS
  <2>2. \A at \in DOMAIN tree : ~(Height(at) < 0)
    <3>1. \A at \in DOMAIN tree : Height(at) \in Nat
      BY TreeIs
    <3> QED BY <3>1
  <2> HIDE DEF f
  <2>3. CompiledTo(tree, typed, f, 0)
    BY <2>1, <2>2 DEF CompiledTo
  <2> QED BY <1>3, <1>4, <2>3
<1>7. b - 1 \in Nat /\ (b - 1) + 1 = b /\ b - 1 \notin R
  BY <1>4, <1>5, <1>6
<1>8. PICK f : CompiledTo(tree, typed, f, b - 1)
  BY <1>3, <1>7
<1>9. \E g : CompiledTo(tree, typed, g, (b - 1) + 1)
  BY <1>7, <1>8, CompiledGrows
<1> QED BY <1>3, <1>4, <1>5, <1>7, <1>9

(* The code of a place is that of its node over what is below it.          *)
LEMMA CompileTreeIs ==
  ASSUME NEW tree, IsTree(tree), NEW typed, NEW at \in DOMAIN tree
  PROVE  CompileTree(tree, typed)[at] = CompileNode(tree, typed, CompileTree(tree, typed), at)
<1>1. MaxDepth + 1 \in Nat
  BY DeclarationsAssumption
<1>2. PICK f : CompiledTo(tree, typed, f, MaxDepth + 1)
  BY <1>1, CompiledExists
<1>3. \A place \in DOMAIN tree : Height(place) < MaxDepth + 1
  <2>1. \A place \in DOMAIN tree : Len(place) \in Nat
    BY TreeIs
  <2> QED BY <2>1, <1>1, DeclarationsAssumption DEF Height
<1>4. \A place \in DOMAIN tree :
        f[place] = CompileNode(tree, typed, f, place)
  BY <1>2, <1>3 DEF CompiledTo
<1>5. f = [place \in DOMAIN tree |-> CompileNode(tree, typed, f, place)]
  BY <1>2, <1>4 DEF CompiledTo
<1>6. CompileTree(tree, typed) = [place \in DOMAIN tree |->
                             CompileNode(tree, typed, CompileTree(tree, typed), place)]
  BY <1>5, Zenon DEF CompileTree
<1> DEFINE A == CompileTree(tree, typed)
<1>7. A = [place \in DOMAIN tree |-> CompileNode(tree, typed, A, place)]
  BY <1>6
<1> HIDE DEF A
<1>8. A[at] = CompileNode(tree, typed, A, at)
  <2> DEFINE h == [place \in DOMAIN tree |-> CompileNode(tree, typed, A, place)]
  <2>1. h[at] = CompileNode(tree, typed, A, at)
    OBVIOUS
  <2>2. A = h
    BY <1>7
  <2> HIDE DEF h
  <2> QED BY <2>1, <2>2
<1> QED BY <1>8 DEF A


-----------------------------------------------------------------------------
(* Types of all that a step sets.                                          *)

\* What the parser makes sure of, by kind of statement.
LEMMA StatementIs ==
  ASSUME NEW s, IsStatement(s)
  PROVE  /\ IsTree(s.expr) /\ <<>> \in DOMAIN s.expr
         /\ s.kind = "let" => s.name \in DOMAIN Idents
         /\ s.kind = "return" => s.name \in DOMAIN Functions
         /\ s.kind \in {"let", "return", "call", "assign", "if", "while"}
         /\ s.kind = "call" => /\ <<1>> \in DOMAIN s.expr /\ s.expr[<<1>>].kind = "FN_CALL"
                               /\ s.expr[<<1>>].name \in DOMAIN Functions
                               /\ s.expr[<<>>].kind = "PRIMARY"
         /\ s.kind \in {"assign", "if", "while"} =>
              <<1>> \in DOMAIN s.expr /\ <<2>> \in DOMAIN s.expr
         /\ s.kind = "assign" => s.expr[<<>>].kind = "BINARY" /\ s.expr[<<>>].name # "as"
         /\ s.kind \in {"if", "while"} => s.expr[<<>>].kind = "CMP"
<1> DEFINE tree == s.expr
<1>1. /\ IsTree(tree) /\ <<>> \in DOMAIN tree
  BY DEF IsStatement, IsTree
<1>2. \A k \in 1..tree[<<>>].kids : <<k>> \in DOMAIN tree
  <2>1. \A k \in 1..tree[<<>>].kids : k \in Nat /\ Child(<<>>, k) \in DOMAIN tree
    BY <1>1, TreeIs
  <2> QED BY <2>1, RootIs
<1>3. \A at \in DOMAIN tree : IsNode(tree[at])
  BY <1>1, TreeIs
<1>4. tree[<<>>].kind = "PRIMARY" => <<1>> \in DOMAIN tree
  BY <1>1, <1>2, <1>3 DEF IsNode
<1>5. tree[<<>>].kind \in {"BINARY", "CMP"} => <<1>> \in DOMAIN tree /\ <<2>> \in DOMAIN tree
  BY <1>1, <1>2, <1>3 DEF IsNode
<1>6. s.kind = "call" => tree[<<1>>].name \in DOMAIN Functions
  <2>1. s.kind = "call" => <<1>> \in DOMAIN tree /\ tree[<<1>>].kind = "FN_CALL"
    BY <1>4 DEF IsStatement
  <2> QED BY <1>3, <2>1 DEF IsNode
<1>7. s.kind = "assign" => tree[<<>>].kind = "BINARY" /\ tree[<<>>].name # "as"
  BY DEF IsStatement, Assignments
<1> QED BY <1>1, <1>4, <1>5, <1>6, <1>7 DEF IsStatement

\* A whole result has its type.
Typed(tree, result) ==
  /\ result.ret \in Rets
  /\ DOMAIN result.types \subseteq DOMAIN tree
  /\ \A at \in DOMAIN result.types : result.types[at] \in ZakoTypes

\* The analysis of an expression sets types of nodes of the tree,
LEMMA ExprTyped ==
  ASSUME NEW tree, IsTree(tree), NEW expect \in ZakoTypes
  PROVE  Typed(tree, AnalyseExpr(tree, expect))
<1>1. <<>> \in DOMAIN tree
  BY DEF IsTree
<1>2. Shaped(tree, <<>>, AnalyseTree(tree)[<<<<>>, expect>>])
  BY <1>1, TreeShaped
<1> QED BY <1>2 DEF Shaped, Typed, AnalyseExpr

\* so does that of an assignment.
LEMMA AssignTyped ==
  ASSUME NEW tree, IsTree(tree), << 1 >> \in DOMAIN tree
  PROVE  Typed(tree, AnalyseAssign(tree))
<1> DEFINE lhs == tree[<<1>>]
           expect == IF lhs.kind = "IDENT" THEN IdentType(lhs.name)
                     ELSE ElemType(IdentType(lhs.name))
           own == AnalyseAssign(tree)
<1>1. IsNode(lhs)
  BY TreeIs
<1>2. lhs.kind \in {"IDENT", "ARR_ELEM"} => expect \in ZakoTypes
  BY <1>1, IdentTypeIs DEF IsNode
<1>3. \/ own = Result("NULL", Nothing) \/ own = Result("CANNOT_BE_ASSIGNED", Nothing)
      \/ own = AnalyseExpr(tree, expect) /\ lhs.kind \in {"IDENT", "ARR_ELEM"}
  BY Zenon DEF AnalyseAssign
<1>4. Typed(tree, Result("NULL", Nothing)) /\ Typed(tree, Result("CANNOT_BE_ASSIGNED", Nothing))
  BY NothingIs DEF Typed, Result, Rets
<1> HIDE DEF own, expect
<1> QED BY <1>2, <1>3, <1>4, ExprTyped DEF own

\* In a comparison a literal gets a type of its own, a variable gets its variable's.
LEMMA CmpValueTyped ==
  ASSUME NEW tree, IsTree(tree), NEW place \in DOMAIN tree, NEW another
  PROVE  LET typed == CmpValueType(tree[place], place, another)
         IN  /\ DOMAIN typed \subseteq {place}
             /\ \A at \in DOMAIN typed :
                  /\ typed[at] \in ZakoTypes
                  /\ tree[place].kind = "INT" =>
                       typed[at].role = "literal" /\ typed[at].at = place /\ HasMcbType(typed[at])
                  /\ tree[place].kind # "INT" => Foreign(typed[at])
             /\ tree[place].kind = "INT" => place \in DOMAIN typed
<1> DEFINE value == tree[place]
           typed == CmpValueType(value, place, another)
<1>1. IsNode(value) /\ place \in Places
  BY TreeIs
<1>2. CASE value.kind = "IDENT"
  <2> DEFINE type == IdentType(value.name)
  <2>1. typed = Setting(place, type)
    BY <1>2 DEF CmpValueType
  <2>2. type \in ZakoTypes /\ Foreign(type)
    BY <1>1, <1>2, IdentTypeIs DEF IsNode, Foreign
  <2> HIDE DEF type
  <2>3. Sets(typed, place, type)
    BY <2>1, SetsIs
  <2> HIDE DEF typed
  <2>4. DOMAIN typed = {place} /\ typed[place] = type
    BY <2>3 DEF Sets
  <2>5. value.kind # "INT"
    BY <1>2
  <2> HIDE DEF value
  <2> QED BY <2>2, <2>4, <2>5 DEF typed, value
<1>3. CASE value.kind = "INT"
  <2>1. PICK builtin \in Numbers : typed = Setting(place, LiteralType(builtin, place))
    <3>1. IntLiteralType(value.int) \in Numbers
      BY DEF IntLiteralType, Numbers, Signed
    <3> QED BY <1>3, <3>1, Zenon DEF CmpValueType
  <2> DEFINE type == LiteralType(builtin, place)
  <2>2. /\ type \in ZakoTypes /\ type.role = "literal" /\ type.at = place /\ HasMcbType(type)
    BY <1>1 DEF LiteralType, Type, PlainType, ZakoTypes, Names, BuiltinTypes, HasMcbType
  <2> HIDE DEF type
  <2>3. Sets(typed, place, type)
    BY <2>1, SetsIs DEF type
  <2> HIDE DEF typed
  <2>4. DOMAIN typed = {place} /\ typed[place] = type
    BY <2>3 DEF Sets
  <2> HIDE DEF value
  <2> QED BY <1>3, <2>2, <2>4 DEF typed, value
<1>4. CASE value.kind \notin {"IDENT", "INT"}
  <2>1. typed = Nothing
    BY <1>4 DEF CmpValueType
  <2> HIDE DEF typed, value
  <2> QED BY <1>4, <2>1, NothingIs DEF typed, value
<1> QED BY <1>2, <1>3, <1>4

\* What the analysis of a comparison sets.
Compared(tree, result) ==
  /\ result.ret = "SUCCESS"
  /\ DOMAIN result.types \subseteq {<<>>, <<1>>, <<2>>}
  /\ <<>> \in DOMAIN result.types /\ result.types[<<>>] = CmpType(<<>>)
  /\ \A place \in {<<1>>, <<2>>} :
       /\ place \in DOMAIN result.types =>
            /\ result.types[place] \in ZakoTypes
            /\ tree[place].kind = "INT" =>
                 /\ result.types[place].role = "literal" /\ result.types[place].at = place
                 /\ HasMcbType(result.types[place])
            /\ tree[place].kind # "INT" => Foreign(result.types[place])
       /\ tree[place].kind = "INT" => place \in DOMAIN result.types

\* What analyse_cmp_expr sets: a type for the comparison, and those of its operands.
LEMMA CmpIs ==
  ASSUME NEW tree, IsTree(tree), << 1 >> \in DOMAIN tree, << 2 >> \in DOMAIN tree
  PROVE  Compared(tree, AnalyseCmp(tree))
<1> DEFINE lhs == CmpValueType(tree[<<1>>], <<1>>, NULL)
           rhs == CmpValueType(tree[<<2>>], <<2>>, At(lhs, <<1>>))
           both == Over(lhs, rhs)
           own == AnalyseCmp(tree)
           one == <<1>>
           two == <<2>>
           root == <<>>
<1>1. own.ret = "SUCCESS" /\ own.types = Over(Setting(<<>>, CmpType(<<>>)), both)
  BY DEF AnalyseCmp, Result
<1>2. root # one /\ root # two /\ one # two
  OBVIOUS
<1>3. /\ DOMAIN lhs \subseteq {one}
      /\ \A at \in DOMAIN lhs :
           /\ lhs[at] \in ZakoTypes
           /\ tree[one].kind = "INT" => lhs[at].role = "literal" /\ lhs[at].at = one /\ HasMcbType(lhs[at])
           /\ tree[one].kind # "INT" => Foreign(lhs[at])
      /\ tree[one].kind = "INT" => one \in DOMAIN lhs
  BY CmpValueTyped
<1>4. /\ DOMAIN rhs \subseteq {two}
      /\ \A at \in DOMAIN rhs :
           /\ rhs[at] \in ZakoTypes
           /\ tree[two].kind = "INT" => rhs[at].role = "literal" /\ rhs[at].at = two /\ HasMcbType(rhs[at])
           /\ tree[two].kind # "INT" => Foreign(rhs[at])
      /\ tree[two].kind = "INT" => two \in DOMAIN rhs
  BY CmpValueTyped
<1>5. Joins(both, lhs, rhs)
  BY JoinsIs
<1> HIDE DEF both
<1>6. Puts(own.types, root, CmpType(root), both)
  BY <1>1, PutsIs
<1>7. SUFFICES Compared(tree, own)
  OBVIOUS
<1> HIDE DEF own, lhs, rhs, one, two, root
<1>8. Compared(tree, own) <=>
        /\ own.ret = "SUCCESS"
        /\ DOMAIN own.types \subseteq {root, one, two}
        /\ root \in DOMAIN own.types /\ own.types[root] = CmpType(root)
        /\ \A place \in {one, two} :
             /\ place \in DOMAIN own.types =>
                  /\ own.types[place] \in ZakoTypes
                  /\ tree[place].kind = "INT" =>
                       /\ own.types[place].role = "literal" /\ own.types[place].at = place
                       /\ HasMcbType(own.types[place])
                  /\ tree[place].kind # "INT" => Foreign(own.types[place])
             /\ tree[place].kind = "INT" => place \in DOMAIN own.types
  BY Zenon DEF Compared, one, two, root
<1>9. /\ own.ret = "SUCCESS"
      /\ DOMAIN own.types \subseteq {root, one, two}
      /\ root \in DOMAIN own.types /\ own.types[root] = CmpType(root)
  BY <1>1, <1>2, <1>3, <1>4, <1>5, <1>6 DEF Joins, Puts
<1>10. /\ one \in DOMAIN own.types => one \in DOMAIN lhs /\ own.types[one] = lhs[one]
       /\ one \in DOMAIN lhs => one \in DOMAIN own.types
  BY <1>2, <1>3, <1>4, <1>5, <1>6 DEF Joins, Puts
<1>11. /\ two \in DOMAIN own.types => two \in DOMAIN rhs /\ own.types[two] = rhs[two]
       /\ two \in DOMAIN rhs => two \in DOMAIN own.types
  BY <1>2, <1>3, <1>4, <1>5, <1>6 DEF Joins, Puts
<1> QED BY <1>3, <1>4, <1>8, <1>9, <1>10, <1>11

\* They are types of nodes of the tree.
LEMMA CmpTyped ==
  ASSUME NEW tree, IsTree(tree), << 1 >> \in DOMAIN tree, << 2 >> \in DOMAIN tree
  PROVE  Typed(tree, AnalyseCmp(tree))
<1> DEFINE own == AnalyseCmp(tree)
           one == <<1>>
           two == <<2>>
           root == <<>>
<1>1. Compared(tree, own)
  BY CmpIs
<1>2. root \in Places /\ root \in DOMAIN tree
  BY RootIs DEF IsTree
<1>3. CmpType(root) \in ZakoTypes
  BY <1>2 DEF CmpType, Type, PlainType, ZakoTypes, Names, BuiltinTypes
<1>4. "SUCCESS" \in Rets
  BY DEF Rets
<1>5. one \in DOMAIN tree /\ two \in DOMAIN tree
  OBVIOUS
<1>6. /\ DOMAIN own.types \subseteq {root, one, two}
      /\ own.types[root] = CmpType(root)
      /\ one \in DOMAIN own.types => own.types[one] \in ZakoTypes
      /\ two \in DOMAIN own.types => own.types[two] \in ZakoTypes
      /\ own.ret = "SUCCESS"
  BY <1>1 DEF Compared
<1>7. SUFFICES Typed(tree, own)
  OBVIOUS
<1> HIDE DEF own, one, two, root
<1> QED BY <1>2, <1>3, <1>4, <1>5, <1>6 DEF Typed

\* The code of a value: whether it can be, its type, and instructions.
IsCode(emit) ==
  /\ emit = Compiled(emit.ok, emit.builtin, emit.cast, emit.instrs)
  /\ emit.ok \in BOOLEAN

\* Results of the generator have their type,
LEMMA CompiledIsCode ==
  ASSUME NEW ok \in BOOLEAN, NEW builtin, NEW cast, NEW instrs
  PROVE  IsCode(Compiled(ok, builtin, cast, instrs))
BY DEF IsCode, Compiled

\* also where it gives up,
LEMMA PanicIsCode == IsCode(Panic)
BY CompiledIsCode DEF Panic

\* and where an instruction is appended;
LEMMA IntoIsCode ==
  ASSUME NEW op, NEW type, NEW values
  PROVE  IsCode(Into(op, type, values))
<1>1. \/ Into(op, type, values) = Panic
      \/ \E instrs : Into(op, type, values) = Compiled(TRUE, type.builtin, FALSE, instrs)
  BY Zenon DEF Into
<1> QED BY <1>1, CompiledIsCode, PanicIsCode

\* so does what it makes of any place of a tree.
LEMMA CodeOfTree ==
  ASSUME NEW tree, IsTree(tree), NEW typed
  PROVE  \A at \in DOMAIN tree : IsCode(CompileTree(tree, typed)[at])
<1> DEFINE C == CompileTree(tree, typed)
           G == {at \in DOMAIN tree : IsCode(C[at])}
<1>1. ASSUME NEW at \in DOMAIN tree, \A k \in 1..tree[at].kids : Child(at, k) \in G
      PROVE  at \in G
  <2>1. C[at] = CompileNode(tree, typed, C, at)
    BY CompileTreeIs
  <2> HIDE DEF C
  <2>2. \A k \in 1..tree[at].kids : IsCode(C[Child(at, k)])
    BY <1>1
  <2>3. IsNode(tree[at])
    BY TreeIs
  <2>4. CASE tree[at].kind \in {"EXPR", "PRIMARY"}
    <3>1. IsCode(C[Child(at, 1)])
      BY <2>2, <2>3, <2>4 DEF IsNode
    <3> QED BY <2>1, <2>4, <3>1 DEF CompileNode
  <2>5. CASE tree[at].kind = "ARR_ELEM"
    <3>1. IsCode(CompileArrElem(tree, C, at))
      BY CompiledIsCode, PanicIsCode DEF CompileArrElem
    <3> QED BY <2>1, <2>5, <3>1 DEF CompileNode
  <2>6. CASE tree[at].kind = "FN_CALL"
    <3>1. \/ CompileFnCall(tree, C, at) = Panic
          \/ \E instrs : CompileFnCall(tree, C, at)
               = Compiled(TRUE, ReturnType(tree[at].name).builtin, FALSE, instrs)
      BY Zenon DEF CompileFnCall
    <3> QED BY <2>1, <2>6, <3>1, CompiledIsCode, PanicIsCode DEF CompileNode
  <2>7. CASE tree[at].kind = "BINARY"
    <3> DEFINE lhs == C[Child(at, 1)]
    <3>1. IsCode(lhs)
      BY <2>2, <2>3, <2>7 DEF IsNode
    <3> HIDE DEF lhs
    <3>2. IsCode(Cast(lhs))
      <4>1. lhs.ok \in BOOLEAN
        BY <3>1 DEF IsCode
      <4> QED BY <4>1, CompiledIsCode DEF Cast
    <3>3. C[at] = Cast(lhs)
          \/ C[at] = Into("binary", At(typed, at), <<lhs, C[Child(at, 2)]>>)
      BY <2>1, <2>7 DEF CompileNode, CompileBinary, lhs
    <3> QED BY <3>2, <3>3, IntoIsCode
  <2>8. CASE tree[at].kind \in {"IDENT", "INT", "STRING"}
    <3>1. \A type : IsCode(Fresh(type))
      <4>1. ASSUME NEW type PROVE IsCode(Fresh(type))
        <5>1. Fresh(type) = Panic \/ Fresh(type) = Compiled(TRUE, type.builtin, FALSE, {})
          BY Zenon DEF Fresh
        <5> QED BY <5>1, CompiledIsCode, PanicIsCode
      <4> QED BY <4>1
    <3>2. C[at] = Fresh(IdentType(tree[at].name)) \/ C[at] = Fresh(At(typed, at))
      BY <2>1, <2>8 DEF CompileNode
    <3> QED BY <3>1, <3>2
  <2>9. CASE tree[at].kind \in {"ELEM_INIT", "TYPE", "CMP"}
    BY <2>1, <2>9, PanicIsCode DEF CompileNode
  <2> QED BY <2>3, <2>4, <2>5, <2>6, <2>7, <2>8, <2>9 DEF IsNode
<1>2. \A at \in DOMAIN tree : at \in G
  <2> HIDE DEF G
  <2> QED BY <1>1, TreeInduction
<1> QED BY <1>2

\* What the steps do, of a statement and the types set in it.
AnalysisOf(s) ==
  CASE s.kind = "let" -> AnalyseExpr(s.expr, IdentType(s.name))
    [] s.kind = "return" -> AnalyseExpr(s.expr, ReturnType(s.name))
    [] s.kind = "call" -> AnalyseExpr(s.expr, ReturnType(s.expr[<<1>>].name))
    [] s.kind = "assign" -> AnalyseAssign(s.expr)
    [] OTHER -> AnalyseCmp(s.expr)
CompilationOf(s, set) ==
  CASE s.kind = "let" -> CompileLet(s.name, s.expr, set)
    [] s.kind = "return" ->
         Into("res", ReturnType(s.name), <<CompileTree(s.expr, set)[<<>>]>>)
    [] s.kind = "call" -> CompileTree(s.expr, set)[<<1>>]
    [] s.kind = "assign" -> CompileAssign(s.expr, set)
    [] OTHER -> CompileCmp(s.expr, set)

\* The steps of Trees do what was defined of a statement and its types.
LEMMA StepsAre == Analysis = AnalysisOf(stmt) /\ Compilation = CompilationOf(stmt, types)
BY DEF Analysis, AnalysisOf, Compilation, CompilationOf

\* The analysis of any statement sets types of nodes of its tree.
LEMMA AnalysisTyped ==
  ASSUME NEW s, IsStatement(s)
  PROVE  Typed(s.expr, AnalysisOf(s))
<1>1. s.kind \in {"let", "return", "call", "assign", "if", "while"} /\ IsTree(s.expr)
  BY StatementIs
<1>2. CASE s.kind = "let"
  BY <1>1, <1>2, StatementIs, IdentTypeIs, ExprTyped DEF AnalysisOf
<1>3. CASE s.kind = "return"
  BY <1>1, <1>3, StatementIs, ReturnTypeIs, ExprTyped DEF AnalysisOf
<1>4. CASE s.kind = "call"
  BY <1>1, <1>4, StatementIs, ReturnTypeIs, ExprTyped DEF AnalysisOf
<1>5. CASE s.kind = "assign"
  BY <1>1, <1>5, StatementIs, AssignTyped DEF AnalysisOf
<1>6. CASE s.kind \in {"if", "while"}
  BY <1>1, <1>6, StatementIs, CmpTyped DEF AnalysisOf
<1> QED BY <1>1, <1>2, <1>3, <1>4, <1>5, <1>6

\* Its compilation is code, or the generator gives up.
LEMMA CompilationIsCode ==
  ASSUME NEW s, IsStatement(s), NEW set
  PROVE  IsCode(CompilationOf(s, set))
<1>1. s.kind \in {"let", "return", "call", "assign", "if", "while"} /\ IsTree(s.expr)
  BY StatementIs
<1>2. CASE s.kind = "let"
  <2>1. IsCode(CompileLet(s.name, s.expr, set))
    BY IntoIsCode, PanicIsCode, Zenon DEF CompileLet, CompileArrLet
  <2> QED BY <1>2, <2>1 DEF CompilationOf
<1>3. CASE s.kind = "return"
  BY <1>3, IntoIsCode DEF CompilationOf
<1>4. CASE s.kind = "call"
  BY <1>1, <1>4, StatementIs, CodeOfTree DEF CompilationOf
<1>5. CASE s.kind = "assign"
  <2>1. IsCode(CompileAssign(s.expr, set))
    BY IntoIsCode, Zenon DEF CompileAssign
  <2> QED BY <1>5, <2>1 DEF CompilationOf
<1>6. CASE s.kind \in {"if", "while"}
  <2>1. CompileCmp(s.expr, set) = Panic
        \/ \E instrs : CompileCmp(s.expr, set) = Compiled(TRUE, "cmp", FALSE, instrs)
    BY Zenon DEF CompileCmp
  <2>2. IsCode(CompileCmp(s.expr, set))
    BY <2>1, CompiledIsCode, PanicIsCode
  <2> QED BY <1>6, <2>2 DEF CompilationOf
<1> QED BY <1>1, <1>2, <1>3, <1>4, <1>5, <1>6

-----------------------------------------------------------------------------
(* The inductive invariant: what each step has left.                       *)

Freeing(set, by, of) ==
  IF At(set, of) = NULL THEN {} ELSE {[by |-> by, of |-> of, type |-> At(set, of)]}
FreeingNode(s, set, at) ==
  CASE s.expr[at].kind = "CMP" ->
         Freeing(set, at, at) \cup
           UNION {Freeing(set, at, of) :
                    of \in {place \in {Child(at, 1), Child(at, 2)} : s.expr[place].kind = "INT"}}
    [] s.expr[at].kind = "ARR_ELEM" -> Freeing(set, at, Child(at, 1))
    [] s.expr[at].kind = "TYPE" ->
         {[by |-> at, of |-> at, type |-> NamedType(s.expr[at].name, at)]}
    [] OTHER -> {}
FreedOf(s, set) == UNION {FreeingNode(s, set, at) : at \in DOMAIN s.expr}

Kept ==
  \A s, set : s = stmt /\ set = types =>
    /\ phase = "parsed" => set = Nothing
    /\ phase # "parsed" => ret = AnalysisOf(s).ret /\ set = AnalysisOf(s).types
    /\ phase \in {"analysed", "printed", "compiled"} => ret = "SUCCESS"
    /\ phase = "compiled" => code = CompilationOf(s, set)
    /\ phase = "crashed" => ret # "SUCCESS" \/ code = CompilationOf(s, set)
    /\ phase \in {"rejected", "freed"} => ret \notin {"ASSERT", "NULL"}
    /\ freed = IF phase = "freed" THEN FreedOf(s, set) ELSE {}

\* Free frees what was defined of a statement and its types.
LEMMA FreedIs ==
  UNION {FreeNode(at) : at \in DOMAIN stmt.expr} = FreedOf(stmt, types)
BY DEF FreedOf, FreeingNode, Freeing, FreeNode, FreeCmp, FreeType

\* free_type is called with the type that is there, and not without one.
LEMMA FreeingIs ==
  ASSUME NEW set, NEW by, NEW of, NEW call \in Freeing(set, by, of)
  PROVE  /\ call.by = by /\ call.of = of /\ call = [by |-> by, of |-> of, type |-> call.type]
         /\ of \in DOMAIN set /\ call.type = set[of] /\ call.type # NULL
BY DEF Freeing, At

\* No call of free_type has NULL.
LEMMA FreedTyped ==
  ASSUME NEW s, IsStatement(s), NEW set,
         \A at \in DOMAIN set : set[at] \in ZakoTypes,
         NEW call \in FreedOf(s, set)
  PROVE  call.type \in ZakoTypes /\ call.type # NULL
<1>1. PICK at \in DOMAIN s.expr : call \in FreeingNode(s, set, at)
  BY DEF FreedOf
<1>2. CASE s.expr[at].kind = "TYPE"
  <2>1. call.type = NamedType(s.expr[at].name, at)
    BY <1>1, <1>2 DEF FreeingNode
  <2>2. s.expr[at].name \in BuiltinTypes /\ at \in Places
    BY <1>2, StatementIs, TreeIs DEF IsNode, BuiltinTypes
  <2>3. NULL.role = "none"
    BY DEF NULL, Type, PlainType
  <2> QED BY <2>1, <2>2, <2>3, NamedTypeIs
<1>3. CASE s.expr[at].kind # "TYPE"
  <2>1. PICK of : call \in Freeing(set, at, of)
    BY <1>1, <1>3 DEF FreeingNode
  <2> QED BY <2>1, FreeingIs
<1> QED BY <1>2, <1>3

\* The analysis gives types to nodes of the tree only, it ends one of the ways
\* it has, and free_type is never called for a type that is not there (the
\* places and the types that analyse_* writes, free_type).
THEOREM TypeCorrect == Spec => []TypeOK
<1>1. Init => TypeOK
  <2>1. "none" \in Rets /\ (DOMAIN types = {} \/ types # Nothing)
    BY NothingIs DEF Rets
  <2>2. Panic.ok = FALSE
    BY DEF Panic, Compiled
  <2> QED BY <2>1, <2>2, StatementsAssumption DEF Init, TypeOK, Rets
<1>2. TypeOK /\ [Next]_vars => TypeOK'
  <2> SUFFICES ASSUME TypeOK, [Next]_vars PROVE TypeOK'
    OBVIOUS
  <2>1. CASE Analyse
    <3>1. Typed(stmt.expr, Analysis)
      BY StepsAre, AnalysisTyped DEF TypeOK
    <3> QED BY <2>1, <3>1 DEF Analyse, TypeOK, Typed
  <2>2. CASE PrintAst
    BY <2>2 DEF PrintAst, TypeOK
  <2>3. CASE Compile
    <3>1. IsCode(Compilation)
      BY StepsAre, CompilationIsCode DEF TypeOK
    <3> QED BY <2>3, <3>1 DEF Compile, TypeOK, IsCode
  <2>4. CASE Free
    <3>1. \A call \in freed' : call.type \in ZakoTypes /\ call.type # NULL
      BY <2>4, FreedIs, FreedTyped DEF TypeOK, Free
    <3> QED BY <2>4, <3>1 DEF Free, TypeOK
  <2>5. CASE UNCHANGED vars
    BY <2>5 DEF vars, TypeOK
  <2> QED BY <2>1, <2>2, <2>3, <2>4, <2>5 DEF Next
<1> QED BY <1>1, <1>2, PTL DEF Spec

\* The types stay those that the analysis has set, the code that of the
\* generator, and what is freed follows from the types (Kept).
LEMMA KeptAlways == Spec => []Kept
<1>1. Init => Kept
  <2> SUFFICES ASSUME Init PROVE Kept
    OBVIOUS
  <2>1. phase = "parsed" /\ types = Nothing /\ freed = {}
    BY DEF Init
  <2> QED BY <2>1 DEF Kept
<1>2. Kept /\ [Next]_vars => Kept'
  <2> SUFFICES ASSUME Kept, [Next]_vars, NEW s, NEW set, s = stmt', set = types'
               PROVE
                 /\ phase' = "parsed" => set = Nothing
                 /\ phase' # "parsed" => ret' = AnalysisOf(s).ret /\ set = AnalysisOf(s).types
                 /\ phase' \in {"analysed", "printed", "compiled"} => ret' = "SUCCESS"
                 /\ phase' = "compiled" => code' = CompilationOf(s, set)
                 /\ phase' = "crashed" => ret' # "SUCCESS" \/ code' = CompilationOf(s, set)
                 /\ phase' \in {"rejected", "freed"} => ret' \notin {"ASSERT", "NULL"}
                 /\ freed' = IF phase' = "freed" THEN FreedOf(s, set) ELSE {}
    BY DEF Kept
  <2>1. CASE Analyse
    <3>1. phase = "parsed" /\ freed = {}
      BY <2>1 DEF Analyse, Kept
    <3> QED BY <2>1, <3>1, StepsAre DEF Analyse
  <2>2. CASE PrintAst
    <3>1. s = stmt /\ set = types
      BY <2>2 DEF PrintAst
    <3> QED BY <2>2, <3>1 DEF PrintAst, Kept
  <2>3. CASE Compile
    <3>1. s = stmt /\ set = types
      BY <2>3 DEF Compile
    <3> QED BY <2>3, <3>1, StepsAre DEF Compile, Kept
  <2>4. CASE Free
    <3>1. s = stmt /\ set = types
      BY <2>4 DEF Free
    <3> QED BY <2>4, <3>1, FreedIs DEF Free, Kept
  <2>5. CASE UNCHANGED vars
    <3>1. s = stmt /\ set = types
      BY <2>5 DEF vars
    <3> QED BY <2>5, <3>1 DEF vars, Kept
  <2> QED BY <2>1, <2>2, <2>3, <2>4, <2>5 DEF Next
<1> QED BY <1>1, <1>2, PTL DEF Spec

-----------------------------------------------------------------------------
(* What the analysis accepts is what fits.                                 *)

\* The order of the enum is that of the widths, within a sign.
LEMMA RankIs ==
  /\ Rank("i8") = 1 /\ Rank("i16") = 2 /\ Rank("i32") = 3 /\ Rank("i64") = 4
  /\ Rank("u8") = 5 /\ Rank("u16") = 6 /\ Rank("u32") = 7 /\ Rank("u64") = 8
<1>1. Len(Builtins) = 11
  BY DEF Builtins
<1>2. \A n \in 1..8 : \A k \in 1..11 : Builtins[k] = Builtins[n] => k = n
  BY DEF Builtins
<1>3. \A n \in 1..8 : Rank(Builtins[n]) = n
  <2>1. ASSUME NEW n \in 1..8 PROVE Rank(Builtins[n]) = n
    <3>1. n \in 1..11 /\ \A k \in 1..11 : Builtins[k] = Builtins[n] => k = n
      BY <1>2
    <3> HIDE DEF Builtins
    <3>2. (CHOOSE k \in 1..11 : Builtins[k] = Builtins[n]) = n
      BY <3>1
    <3> QED BY <1>1, <3>2 DEF Rank
  <2> QED BY <2>1
<1>4. /\ Builtins[1] = "i8" /\ Builtins[2] = "i16" /\ Builtins[3] = "i32" /\ Builtins[4] = "i64"
      /\ Builtins[5] = "u8" /\ Builtins[6] = "u16" /\ Builtins[7] = "u32" /\ Builtins[8] = "u64"
  BY DEF Builtins
<1> QED BY <1>3, <1>4

(* One type stands for another where it is no wider and of the same sign.  *)
LEMMA CompareIs ==
  ASSUME NEW src, NEW expect
  PROVE  CompareBuiltin(src, expect) = "SUCCESS" <=> Holds(expect, src)
<1>1. CASE src = expect
  BY <1>1 DEF CompareBuiltin, Holds
<1>2. CASE src # expect /\ src \in Signed /\ expect \in Signed
  <2>1. Rank(src) <= Rank(expect) <=> Bits[src] <= Bits[expect]
    BY <1>2, RankIs DEF Signed, Bits
  <2>2. CompareBuiltin(src, expect) = "SUCCESS" <=> Rank(src) <= Rank(expect)
    BY <1>2 DEF CompareBuiltin, CompareSigned
  <2> QED BY <1>2, <2>1, <2>2 DEF Holds
<1>3. CASE src # expect /\ src \in Unsigned /\ expect \in Unsigned
  <2>1. Rank(src) <= Rank(expect) <=> Bits[src] <= Bits[expect]
    BY <1>3, RankIs DEF Unsigned, Bits
  <2>2. CompareBuiltin(src, expect) = "SUCCESS" <=> Rank(src) <= Rank(expect)
    BY <1>3 DEF CompareBuiltin, CompareSigned, Signed, Unsigned
  <2> QED BY <1>3, <2>1, <2>2 DEF Holds
<1>4. CASE src # expect /\ ~(src \in Signed /\ expect \in Signed)
           /\ ~(src \in Unsigned /\ expect \in Unsigned)
  BY <1>4 DEF CompareBuiltin, CompareSigned, Holds
<1> QED BY <1>1, <1>2, <1>3, <1>4

\* What the analysis looks at: whether a value fits, or is mixed up.
Suits(tree, d) == Met(tree, d) \/ Mixed(tree, d)

(* Types that are declared or named in the tree.                           *)
LEMMA TypeOfIs ==
  ASSUME NEW tree, IsTree(tree), NEW at \in DOMAIN tree, tree[at].kind \in SelfTyped
  PROVE  /\ TypeOf(tree, at).builtin \in Parsed
         /\ tree[at].kind = "IDENT" => TypeOf(tree, at) = IdentType(tree[at].name)
         /\ tree[at].kind = "FN_CALL" => TypeOf(tree, at) = ReturnType(tree[at].name)
         /\ tree[at].kind = "TYPE" => TypeOf(tree, at).builtin = tree[at].name
         /\ tree[at].kind = "ARR_ELEM" =>
              TypeOf(tree, at).builtin = IdentType(tree[at].name).elem
<1>1. IsNode(tree[at]) /\ at \in Places
  BY TreeIs
<1>2. CASE tree[at].kind = "IDENT"
  <2>1. tree[at].name \in DOMAIN Idents
    BY <1>1, <1>2 DEF IsNode
  <2> QED BY <1>2, <2>1, IdentTypeIs DEF TypeOf
<1>3. CASE tree[at].kind = "FN_CALL"
  <2>1. tree[at].name \in DOMAIN Functions
    BY <1>1, <1>3 DEF IsNode
  <2> QED BY <1>3, <2>1, ReturnTypeIs DEF TypeOf
<1>4. CASE tree[at].kind = "TYPE"
  <2>1. tree[at].name \in Parsed
    BY <1>1, <1>4 DEF IsNode, Parsed
  <2>2. NamedType(tree[at].name, at).builtin = tree[at].name
    BY DEF NamedType, PlainType, Type
  <2> QED BY <1>4, <2>1, <2>2 DEF TypeOf
<1>5. CASE tree[at].kind = "ARR_ELEM"
  <2>1. tree[at].name \in DOMAIN Idents /\ Idents[tree[at].name].builtin = "arr"
    BY <1>1, <1>5 DEF IsNode
  <2>2. IdentType(tree[at].name).elem \in Parsed
    BY <2>1, IdentTypeIs
  <2>3. ElemType(IdentType(tree[at].name)).builtin = IdentType(tree[at].name).elem
    BY ElemBuiltin
  <2> QED BY <1>5, <2>2, <2>3 DEF TypeOf
<1>6. tree[at].kind \in {"IDENT", "FN_CALL", "ARR_ELEM", "TYPE"}
  BY DEF SelfTyped
<1> QED BY <1>2, <1>3, <1>4, <1>5, <1>6

(* What holds a type by its builtin takes it, or mixes it up with itself.  *)
LEMMA TakesIs ==
  ASSUME NEW to, NEW from, from.builtin \in Parsed
  PROVE  Takes(to, from)
           \/ (to.builtin \in {"arr", "fn"} /\ from.builtin = to.builtin /\ ~Takes(to, from))
           <=> Holds(to.builtin, from.builtin)
<1>1. Holds(to.builtin, from.builtin) =>
        to.builtin \in Numbers \/ (to.builtin = from.builtin /\ to.builtin \in {"arr", "fn"})
  BY DEF Holds, Parsed, Numbers
<1>2. to.builtin = from.builtin => Holds(to.builtin, from.builtin)
  BY DEF Holds
<1> QED BY <1>1, <1>2 DEF Takes

\* So the analysis looks at the builtin types, and at an index if it can.
LEMMA SuitsIs ==
  ASSUME NEW tree, IsTree(tree), NEW at \in DOMAIN tree, NEW expect
  PROVE  LET value == tree[at]
             suits == Suits(tree, Demand(at, expect))
             idx == tree[Child(at, 1)]
             size == IdentType(value.name).size
         IN  /\ value.kind = "IDENT" =>
                  (suits <=> Holds(expect.builtin, IdentType(value.name).builtin))
             /\ value.kind = "FN_CALL" =>
                  (suits <=> Holds(expect.builtin, ReturnType(value.name).builtin))
             /\ value.kind = "TYPE" => (suits <=> Holds(expect.builtin, value.name))
             /\ value.kind = "INT" => (suits <=> expect.builtin \in Numbers)
             /\ value.kind = "STRING" =>
                  (suits <=> expect.builtin = "arr" /\ expect.elem \in {"u8", "i8"})
             /\ value.kind = "ARR_ELEM" =>
                  (suits <=> /\ Holds(expect.builtin, IdentType(value.name).elem)
                             /\ idx.kind = "INT" /\ size > 0 => idx.int \in 0..(size - 1))
             /\ value.kind \notin SelfTyped \cup {"INT", "STRING"} => ~suits
<1> DEFINE d == Demand(at, expect)
<1>1. d.at = at /\ d.type = expect
  BY DEF Demand
<1> HIDE DEF d
<1>2. CASE tree[at].kind \in SelfTyped
  <2>1. Suits(tree, d) <=> Holds(expect.builtin, TypeOf(tree, at).builtin) /\ InBounds(tree, at)
    <3>1. Met(tree, d) <=> Takes(expect, TypeOf(tree, at)) /\ InBounds(tree, at)
      BY <1>1, <1>2 DEF Met, SelfTyped
    <3>2. TypeOf(tree, at).builtin \in Parsed
      BY <1>2, TypeOfIs
    <3> QED BY <1>1, <1>2, <3>1, <3>2, TakesIs DEF Suits, Mixed
  <2>2. tree[at].kind # "ARR_ELEM" => InBounds(tree, at)
    BY DEF InBounds
  <2>3. tree[at].kind = "ARR_ELEM" =>
          (InBounds(tree, at) <=>
             (tree[Child(at, 1)].kind = "INT" /\ IdentType(tree[at].name).size > 0 =>
                tree[Child(at, 1)].int \in 0..(IdentType(tree[at].name).size - 1)))
    BY DEF InBounds
  <2> QED BY <1>2, <2>1, <2>2, <2>3, TypeOfIs DEF SelfTyped, d
<1>3. CASE tree[at].kind \notin SelfTyped
  <2>1. Suits(tree, d) <=> Met(tree, d)
    BY <1>1, <1>3 DEF Suits, Mixed
  <2> QED BY <1>1, <1>3, <2>1 DEF Met, SelfTyped, d
<1> QED BY <1>2, <1>3

Accepts(tree, at, expect) ==
  AnalyseTree(tree)[<<at, expect>>].ret # "ASSERT" =>
    (AnalyseTree(tree)[<<at, expect>>].ret = "SUCCESS" <=> Passes(tree, at, expect))

AcceptsBelow(tree, at, expect) ==
  \A k \in 1..tree[at].kids : Accepts(tree, Child(at, k), Given(tree, at, expect, k))

\* analyse_value adds a type to a success and changes no error.
LEMMA RetIs ==
  ASSUME NEW tree, IsTree(tree), NEW at \in DOMAIN tree, NEW expect \in ZakoTypes
  PROVE  AnalyseTree(tree)[<<at, expect>>].ret = AnalyseKind(tree, AnalyseTree(tree), at, expect).ret
<1>1. AnalyseTree(tree)[<<at, expect>>] = AnalyseNode(tree, AnalyseTree(tree), at, expect)
  BY AnalyseTreeIs
<1> DEFINE own == AnalyseKind(tree, AnalyseTree(tree), at, expect)
<1>2. AnalyseNode(tree, AnalyseTree(tree), at, expect)
        = IF own.ret = "SUCCESS" THEN Result("SUCCESS", Over(Setting(at, expect), own.types))
          ELSE own
  BY Zenon DEF AnalyseNode
<1> HIDE DEF own
<1>3. AnalyseNode(tree, AnalyseTree(tree), at, expect).ret = own.ret
  BY <1>2 DEF Result
<1> QED BY <1>1, <1>3 DEF own

\* Passes, with the recursion unfolded once.
LEMMA FitsIs ==
  ASSUME NEW tree, IsTree(tree), NEW at \in DOMAIN tree, NEW expect \in ZakoTypes
  PROVE  Passes(tree, at, expect) <=>
           \A d \in DemandsOf(tree, Demands(tree), at, expect) : Suits(tree, d)
BY DemandsIs DEF Passes, Suits

(* What a node that holds no other is demanded, and how it is analysed.    *)
LEMMA LeafAccepts ==
  ASSUME NEW tree, IsTree(tree), NEW at \in DOMAIN tree, NEW expect \in ZakoTypes,
         tree[at].kind \in {"IDENT", "INT", "STRING", "TYPE", "CMP"}
  PROVE  Accepts(tree, at, expect)
<1> DEFINE res == AnalyseKind(tree, AnalyseTree(tree), at, expect).ret
           d == Demand(at, expect)
<1>1. DemandsOf(tree, Demands(tree), at, expect) = {d}
  BY DEF DemandsOf
<1>2. Passes(tree, at, expect) <=> Suits(tree, d)
  BY <1>1, FitsIs
<1>3. d.at = at /\ d.type = expect
  BY DEF Demand
<1> HIDE DEF d
<1>4. CASE tree[at].kind = "IDENT"
  <2>1. res = CompareBuiltin(IdentType(tree[at].name).builtin, expect.builtin)
    BY <1>4 DEF AnalyseKind, Result
  <2>2. Suits(tree, d) <=> Holds(expect.builtin, IdentType(tree[at].name).builtin)
    BY <1>3, <1>4, SuitsIs DEF d
  <2> QED BY <1>2, <2>1, <2>2, RetIs, CompareIs DEF Accepts
<1>5. CASE tree[at].kind = "TYPE"
  <2>1. res = CompareBuiltin(tree[at].name, expect.builtin)
    BY <1>5 DEF AnalyseKind, Result
  <2>2. Suits(tree, d) <=> Holds(expect.builtin, tree[at].name)
    BY <1>3, <1>5, SuitsIs DEF d
  <2> QED BY <1>2, <2>1, <2>2, RetIs, CompareIs DEF Accepts
<1>6. CASE tree[at].kind = "INT"
  <2>1. res = IF expect.builtin \in Numbers THEN "SUCCESS" ELSE "IMPLICIT_CAST"
    BY <1>6 DEF AnalyseKind, Result
  <2>2. Suits(tree, d) <=> expect.builtin \in Numbers
    BY <1>3, <1>6, SuitsIs DEF d
  <2> QED BY <1>2, <2>1, <2>2, RetIs DEF Accepts
<1>7. CASE tree[at].kind = "STRING"
  <2>1. res = AnalyseString(expect)
    BY <1>7 DEF AnalyseKind, Result
  <2>2. Suits(tree, d) <=> expect.builtin = "arr" /\ expect.elem \in {"u8", "i8"}
    BY <1>3, <1>7, SuitsIs DEF d
  <2> QED BY <1>2, <2>1, <2>2, RetIs DEF Accepts, AnalyseString
<1>8. CASE tree[at].kind = "CMP"
  <2>1. res = "ASSERT"
    BY <1>8 DEF AnalyseKind, Result
  <2> QED BY <2>1, RetIs DEF Accepts
<1> QED BY <1>4, <1>5, <1>6, <1>7, <1>8

\* In parentheses a value is expected to be what the whole is.
LEMMA InnerAccepts ==
  ASSUME NEW tree, IsTree(tree), NEW at \in DOMAIN tree, NEW expect \in ZakoTypes,
         AcceptsBelow(tree, at, expect), tree[at].kind \in {"EXPR", "PRIMARY"}
  PROVE  Accepts(tree, at, expect)
<1> DEFINE inner == AnalyseTree(tree)[<<Child(at, 1), expect>>]
           own == AnalyseKind(tree, AnalyseTree(tree), at, expect)
<1>1. Child(at, 1) \in DOMAIN tree /\ Accepts(tree, Child(at, 1), expect)
  <2>1. 1 \in 1..tree[at].kids
    BY TreeIs DEF IsNode
  <2> QED BY <2>1, TreeIs DEF AcceptsBelow, Given
<1>2. DemandsOf(tree, Demands(tree), at, expect) = Demands(tree)[<<Child(at, 1), expect>>]
  BY DEF DemandsOf
<1>3. Passes(tree, at, expect) <=> Passes(tree, Child(at, 1), expect)
  BY <1>2, FitsIs DEF Passes, Suits
<1>4. own.ret = inner.ret
  BY DEF AnalyseKind, AnalyseInner, Result
<1> QED BY <1>1, <1>3, <1>4, RetIs DEF Accepts

\* Both operands have to fit, and of a cast the type it casts to.
LEMMA BinaryAccepts ==
  ASSUME NEW tree, IsTree(tree), NEW at \in DOMAIN tree, NEW expect \in ZakoTypes,
         AcceptsBelow(tree, at, expect), tree[at].kind = "BINARY"
  PROVE  Accepts(tree, at, expect)
<1> DEFINE lhs == AnalyseTree(tree)[<<Child(at, 1), expect>>]
           rhs == AnalyseTree(tree)[<<Child(at, 2), expect>>]
           own == AnalyseKind(tree, AnalyseTree(tree), at, expect)
           left == Passes(tree, Child(at, 1), expect)
           right == Passes(tree, Child(at, 2), expect)
<1>1. /\ lhs.ret # "ASSERT" => (lhs.ret = "SUCCESS" <=> left)
      /\ rhs.ret # "ASSERT" => (rhs.ret = "SUCCESS" <=> right)
  <2>1. 1 \in 1..tree[at].kids /\ 2 \in 1..tree[at].kids
    BY TreeIs DEF IsNode
  <2> QED BY <2>1, TreeIs DEF AcceptsBelow, Given, Accepts
<1>2. own = AnalyseBinary(tree, AnalyseTree(tree), at, expect)
  BY DEF AnalyseKind
<1>3. CASE tree[at].name # "as"
  <2>1. DemandsOf(tree, Demands(tree), at, expect)
          = Demands(tree)[<<Child(at, 1), expect>>] \cup Demands(tree)[<<Child(at, 2), expect>>]
    BY <1>3 DEF DemandsOf
  <2>2. Passes(tree, at, expect) <=> left /\ right
    BY <2>1, FitsIs DEF Passes, Suits
  <2>3. own.ret = IF "ASSERT" \in {lhs.ret, rhs.ret} THEN "ASSERT"
                  ELSE IF lhs.ret # "SUCCESS" THEN lhs.ret ELSE rhs.ret
    BY <1>2, <1>3 DEF AnalyseBinary, Result
  <2> HIDE DEF lhs, rhs, own, left, right
  <2> QED BY <1>1, <2>2, <2>3, RetIs DEF Accepts, own
<1>4. CASE tree[at].name = "as"
  <2>1. DemandsOf(tree, Demands(tree), at, expect) = Demands(tree)[<<Child(at, 2), expect>>]
    BY <1>4 DEF DemandsOf
  <2>2. Passes(tree, at, expect) <=> right
    BY <2>1, FitsIs DEF Passes, Suits
  <2>3. own.ret = IF tree[Child(at, 2)].kind # "TYPE" THEN "ASSERT"
                  ELSE IF rhs.ret # "SUCCESS" THEN rhs.ret
                  ELSE IF lhs.ret = "ASSERT" THEN "ASSERT" ELSE "SUCCESS"
    BY <1>2, <1>4 DEF AnalyseBinary, Result
  <2> HIDE DEF lhs, rhs, own, left, right
  <2> QED BY <1>1, <2>2, <2>3, RetIs DEF Accepts, own
<1> QED BY <1>3, <1>4

\* All children fit if none of them ends the loop.
LEMMA AllAccepts ==
  ASSUME NEW tree, IsTree(tree), NEW at \in DOMAIN tree, NEW expect \in ZakoTypes,
         AcceptsBelow(tree, at, expect), NEW all,
         all = AnalyseAll(at, [k \in 1..tree[at].kids |-> Inner(tree, at, expect, k)]),
         all.ret # "ASSERT"
  PROVE  all.ret = "SUCCESS" <=>
           \A k \in 1..tree[at].kids : Passes(tree, Child(at, k), Given(tree, at, expect, k))
<1> DEFINE n == tree[at].kids
           result == [k \in 1..n |-> Inner(tree, at, expect, k)]
<1>1. \A k \in 1..n : result[k] = Inner(tree, at, expect, k)
  OBVIOUS
<1>2. \A k \in 1..n : Shaped(tree, Child(at, k), result[k])
  BY <1>1, TreeTaken DEF KnownBelow
<1>3. DOMAIN result = 1..n /\ n \in Nat
  BY TreeIs
<1>4. all = AnalyseAll(at, result)
  OBVIOUS
<1> HIDE DEF result, n
<1>5. AllFacts(n, result, all)
  BY <1>2, <1>3, <1>4, AllIs
<1>6. \A k \in 1..n : result[k].ret # "ASSERT" =>
        (result[k].ret = "SUCCESS" <=> Passes(tree, Child(at, k), Given(tree, at, expect, k)))
  BY <1>1 DEF AcceptsBelow, Accepts, Inner, n
<1>7. SUFFICES all.ret = "SUCCESS" <=>
        \A k \in 1..n : Passes(tree, Child(at, k), Given(tree, at, expect, k))
  BY DEF n
<1>8. CASE all.ret = "SUCCESS"
  <2>1. \A k \in 1..n : result[k].ret = "SUCCESS"
    BY <1>5, <1>8 DEF AllFacts
  <2> QED BY <1>6, <1>8, <2>1
<1>9. CASE all.ret # "SUCCESS"
  <2>1. PICK k \in 1..n : all.ret = result[k].ret
    BY <1>5, <1>9 DEF AllFacts
  <2> QED BY <1>6, <1>9, <2>1
<1> QED BY <1>8, <1>9

\* An initialiser fits an array when its elements fit the array's.
LEMMA ElemInitAccepts ==
  ASSUME NEW tree, IsTree(tree), NEW at \in DOMAIN tree, NEW expect \in ZakoTypes,
         AcceptsBelow(tree, at, expect), tree[at].kind = "ELEM_INIT"
  PROVE  Accepts(tree, at, expect)
<1> DEFINE own == AnalyseKind(tree, AnalyseTree(tree), at, expect)
           all == AnalyseAll(at, [k \in 1..tree[at].kids |-> Inner(tree, at, expect, k)])
<1>1. \A k \in 1..tree[at].kids : Given(tree, at, expect, k) = ElemType(expect)
  BY DEF Given
<1>2. CASE expect.builtin = "arr"
  <2>1. [k \in 1..tree[at].kids |-> AnalyseTree(tree)[<<Child(at, k), ElemType(expect)>>]]
          = [k \in 1..tree[at].kids |-> Inner(tree, at, expect, k)]
    BY <1>1 DEF Inner
  <2>2. AnalyseElemInit(tree, AnalyseTree(tree), at, expect) = all
    BY <1>2, <2>1, Zenon DEF AnalyseElemInit
  <2>3. own.ret = all.ret
    BY <2>2 DEF AnalyseKind
  <2>4. DemandsOf(tree, Demands(tree), at, expect)
          = UNION {Demands(tree)[<<Child(at, k), ElemType(expect)>>] : k \in 1..tree[at].kids}
    BY <1>2 DEF DemandsOf
  <2>5. Passes(tree, at, expect) <=>
          \A k \in 1..tree[at].kids : Passes(tree, Child(at, k), ElemType(expect))
    <3> DEFINE below(k) == Demands(tree)[<<Child(at, k), ElemType(expect)>>]
    <3>1. Passes(tree, at, expect) <=>
            \A d \in UNION {below(k) : k \in 1..tree[at].kids} : Suits(tree, d)
      BY <2>4, FitsIs, Zenon
    <3>2. \A k \in 1..tree[at].kids :
            Passes(tree, Child(at, k), ElemType(expect)) <=> \A d \in below(k) : Suits(tree, d)
      BY DEF Passes, Suits
    <3> HIDE DEF below
    <3> QED BY <3>1, <3>2
  <2>6. Passes(tree, at, expect) <=>
          \A k \in 1..tree[at].kids : Passes(tree, Child(at, k), Given(tree, at, expect, k))
    BY <1>1, <2>5
  <2> HIDE DEF all, own
  <2>7. all = AnalyseAll(at, [k \in 1..tree[at].kids |-> Inner(tree, at, expect, k)])
    BY DEF all
  <2>8. all.ret # "ASSERT" => (all.ret = "SUCCESS" <=>
          \A k \in 1..tree[at].kids : Passes(tree, Child(at, k), Given(tree, at, expect, k)))
    BY <2>7, AllAccepts
  <2> QED BY <2>3, <2>6, <2>8, RetIs DEF Accepts, own
<1>3. CASE expect.builtin # "arr"
  <2>1. own.ret = "CANNOT_INIT_VALUE_BY_ELEM_INIT"
    BY <1>3 DEF AnalyseKind, AnalyseElemInit, Result
  <2>2. DemandsOf(tree, Demands(tree), at, expect) = {Demand(at, expect)}
    BY <1>3 DEF DemandsOf
  <2>3. ~Suits(tree, Demand(at, expect))
    BY SuitsIs DEF SelfTyped
  <2>4. ~Passes(tree, at, expect)
    BY <2>2, <2>3, FitsIs
  <2> QED BY <2>1, <2>4, RetIs DEF Accepts
<1> QED BY <1>2, <1>3

\* A call: its arguments fit, and what it returns does.
LEMMA FnCallAccepts ==
  ASSUME NEW tree, IsTree(tree), NEW at \in DOMAIN tree, NEW expect \in ZakoTypes,
         AcceptsBelow(tree, at, expect), tree[at].kind = "FN_CALL"
  PROVE  Accepts(tree, at, expect)
<1> DEFINE own == AnalyseKind(tree, AnalyseTree(tree), at, expect)
           name == tree[at].name
           res == CompareBuiltin(ReturnType(name).builtin, expect.builtin)
           all == AnalyseAll(at, [k \in 1..tree[at].kids |-> Inner(tree, at, expect, k)])
           d == Demand(at, expect)
<1>1. \A k \in 1..tree[at].kids : Given(tree, at, expect, k) = ArgType(name, k)
  BY DEF Given
<1>2. own.ret = IF all.ret # "SUCCESS" THEN all.ret ELSE res
  <2>1. [k \in 1..tree[at].kids |-> AnalyseTree(tree)[<<Child(at, k), ArgType(name, k)>>]]
          = [k \in 1..tree[at].kids |-> Inner(tree, at, expect, k)]
    BY <1>1 DEF Inner
  <2>2. AnalyseFnCall(tree, AnalyseTree(tree), at, expect)
          = Result(IF all.ret # "SUCCESS" THEN all.ret ELSE res,
                   Over(Setting(at, ReturnType(name)), all.types))
    BY <2>1, Zenon DEF AnalyseFnCall
  <2>3. own = AnalyseFnCall(tree, AnalyseTree(tree), at, expect)
    BY DEF AnalyseKind
  <2> HIDE DEF own, all, res
  <2> QED BY <2>2, <2>3 DEF Result
<1>3. DemandsOf(tree, Demands(tree), at, expect)
        = {d} \cup
            UNION {Demands(tree)[<<Child(at, k), ArgType(name, k)>>] : k \in 1..tree[at].kids}
  BY DEF DemandsOf
<1>4. Suits(tree, d) <=> Holds(expect.builtin, ReturnType(name).builtin)
  BY SuitsIs
<1>5. Passes(tree, at, expect) <=>
        /\ Suits(tree, d)
        /\ \A k \in 1..tree[at].kids : Passes(tree, Child(at, k), ArgType(name, k))
  <2> DEFINE passed == UNION {Demands(tree)[<<Child(at, k), ArgType(name, k)>>] :
                                k \in 1..tree[at].kids}
  <2>1. Passes(tree, at, expect) <=> \A x \in {d} \cup passed : Suits(tree, x)
    BY <1>3, FitsIs, Zenon
  <2>2. (\A x \in passed : Suits(tree, x)) <=>
          \A k \in 1..tree[at].kids : Passes(tree, Child(at, k), ArgType(name, k))
    <3> HIDE DEF name, d
    <3> QED BY DEF Passes, Suits
  <2> HIDE DEF d, passed
  <2> QED BY <2>1, <2>2
<1>6. Passes(tree, at, expect) <=>
        /\ Holds(expect.builtin, ReturnType(name).builtin)
        /\ \A k \in 1..tree[at].kids : Passes(tree, Child(at, k), Given(tree, at, expect, k))
  BY <1>1, <1>4, <1>5
<1>7. res = "SUCCESS" <=> Holds(expect.builtin, ReturnType(name).builtin)
  BY CompareIs
<1> HIDE DEF all, own, res
<1>8. all = AnalyseAll(at, [k \in 1..tree[at].kids |-> Inner(tree, at, expect, k)])
  BY DEF all
<1>9. all.ret # "ASSERT" => (all.ret = "SUCCESS" <=>
        \A k \in 1..tree[at].kids : Passes(tree, Child(at, k), Given(tree, at, expect, k)))
  BY <1>8, AllAccepts
<1> QED BY <1>2, <1>6, <1>7, <1>9, RetIs DEF Accepts, own

\* An array element: its index fits u64 and, if a literal, the array.
LEMMA ArrElemAccepts ==
  ASSUME NEW tree, IsTree(tree), NEW at \in DOMAIN tree, NEW expect \in ZakoTypes,
         AcceptsBelow(tree, at, expect), tree[at].kind = "ARR_ELEM"
  PROVE  Accepts(tree, at, expect)
<1> DEFINE own == AnalyseKind(tree, AnalyseTree(tree), at, expect)
           place == Child(at, 1)
           idx == tree[place]
           arr == IdentType(tree[at].name)
           u64 == IndexType("u64", place)
           index == AnalyseTree(tree)[<<place, u64>>]
           res == CompareBuiltin(arr.elem, expect.builtin)
           d == Demand(at, expect)
           inner == Passes(tree, place, u64)
<1>1. /\ place \in DOMAIN tree /\ place \in Places /\ Accepts(tree, place, u64)
      /\ arr.size \in Nat /\ IsNode(idx)
  <2>1. 1 \in 1..tree[at].kids /\ tree[at].name \in DOMAIN Idents
    BY TreeIs DEF IsNode
  <2>2. place \in DOMAIN tree
    BY <2>1, TreeIs
  <2> QED BY <2>1, <2>2, TreeIs, IdentTypeIs DEF AcceptsBelow, Given
<1>2. own.ret = IF idx.kind = "STRING" THEN "IMPLICIT_CAST"
                ELSE IF OutOfArr(arr.size, idx) THEN "OUT_OF_ARR"
                ELSE IF index.ret = "ASSERT" THEN "ASSERT"
                ELSE IF index.ret # "SUCCESS" THEN "INVAILED_IDX"
                ELSE res
  <2>1. own = AnalyseArrElem(tree, AnalyseTree(tree), at, expect)
    BY DEF AnalyseKind
  <2> HIDE DEF own
  <2> QED BY <2>1 DEF AnalyseArrElem, Result
<1>3. DemandsOf(tree, Demands(tree), at, expect) = {d} \cup Demands(tree)[<<place, u64>>]
  BY DEF DemandsOf
<1>4. Passes(tree, at, expect) <=> Suits(tree, d) /\ inner
  <2> HIDE DEF d, place, u64
  <2> QED BY <1>3, FitsIs DEF Passes, Suits
<1>5. Suits(tree, d) <=>
        /\ Holds(expect.builtin, arr.elem)
        /\ idx.kind = "INT" /\ arr.size > 0 => idx.int \in 0..(arr.size - 1)
  BY SuitsIs
<1>6. idx.kind = "STRING" => ~inner
  <2>1. SUFFICES ASSUME idx.kind = "STRING" PROVE ~inner
    OBVIOUS
  <2>2. u64 \in ZakoTypes /\ u64.builtin = "u64"
    BY <1>1, IndexTypeIs DEF BuiltinTypes, Numbers, Unsigned
  <2> HIDE DEF u64, place
  <2>3. DemandsOf(tree, Demands(tree), place, u64) = {Demand(place, u64)}
    BY <2>1 DEF DemandsOf
  <2>4. ~Suits(tree, Demand(place, u64))
    BY <1>1, <2>1, <2>2, SuitsIs DEF SelfTyped
  <2> QED BY <1>1, <2>2, <2>3, <2>4, FitsIs
<1>7. OutOfArr(arr.size, idx) <=>
        ~(idx.kind = "INT" /\ arr.size > 0 => idx.int \in 0..(arr.size - 1))
  <2>1. idx.int \in Int
    BY <1>1 DEF IsNode
  <2> DEFINE size == arr.size
             int == idx.int
  <2>2. size \in Nat /\ int \in Int
    BY <1>1, <2>1
  <2> HIDE DEF size, int
  <2>3. (size # 0 /\ (int < 0 \/ int >= size)) <=> (size > 0 /\ ~(int \in 0..(size - 1)))
    BY <2>2
  <2> QED BY <2>3 DEF OutOfArr, size, int
<1>8. res = "SUCCESS" <=> Holds(expect.builtin, arr.elem)
  BY CompareIs
<1>9. index.ret # "ASSERT" => (index.ret = "SUCCESS" <=> inner)
  BY <1>1 DEF Accepts
<1>10. AnalyseTree(tree)[<<at, expect>>].ret = own.ret
  BY RetIs
<1> HIDE DEF own, index, inner, res, d, idx, arr
<1>11. own.ret # "ASSERT" => (own.ret = "SUCCESS" <=> Suits(tree, d) /\ inner)
  BY <1>2, <1>5, <1>6, <1>7, <1>8, <1>9
<1> QED BY <1>4, <1>10, <1>11 DEF Accepts

\* Every place of every tree, by induction.
LEMMA TreeAccepts ==
  ASSUME NEW tree, IsTree(tree), NEW at \in DOMAIN tree, NEW expect \in ZakoTypes
  PROVE  Accepts(tree, at, expect)
<1> DEFINE G == {place \in DOMAIN tree : \A type \in ZakoTypes : Accepts(tree, place, type)}
<1>1. ASSUME NEW place \in DOMAIN tree, \A k \in 1..tree[place].kids : Child(place, k) \in G
      PROVE  place \in G
  <2>1. SUFFICES ASSUME NEW type \in ZakoTypes PROVE Accepts(tree, place, type)
    OBVIOUS
  <2>2. AcceptsBelow(tree, place, type)
    BY <1>1, GivenIs DEF AcceptsBelow
  <2>3. IsNode(tree[place])
    BY TreeIs
  <2> QED BY <2>2, <2>3, LeafAccepts, InnerAccepts, BinaryAccepts, ElemInitAccepts,
             FnCallAccepts, ArrElemAccepts DEF IsNode
<1>2. \A place \in DOMAIN tree : place \in G
  <2> HIDE DEF G
  <2> QED BY <1>1, TreeInduction
<1> QED BY <1>2

\* An assignment: to what can be assigned, a value that fits it.
LEMMA AssignAccepts ==
  ASSUME NEW s, IsStatement(s), s.kind = "assign", NEW expect,
         expect = (IF s.expr[<< 1 >>].kind = "IDENT" THEN IdentType(s.expr[<< 1 >>].name)
                   ELSE ElemType(IdentType(s.expr[<< 1 >>].name))),
         AnalysisOf(s).ret \notin {"ASSERT", "NULL"}
  PROVE  AnalysisOf(s).ret = "SUCCESS" <=>
           Idents[s.expr[<<1>>].name].mutable /\ Passes(s.expr, <<>>, expect)
<1> DEFINE tree == s.expr
           lhs == tree[<<1>>]
           own == AnalyseAssign(tree)
<1>1. IsTree(tree) /\ <<1>> \in DOMAIN tree /\ <<>> \in DOMAIN tree /\ IsNode(lhs)
  BY StatementIs, TreeIs
<1>2. AnalysisOf(s) = own
  BY DEF AnalysisOf
<1>3. own.ret = IF lhs.kind \notin {"IDENT", "ARR_ELEM"} THEN "NULL"
                ELSE IF ~Idents[lhs.name].mutable THEN "CANNOT_BE_ASSIGNED"
                ELSE AnalyseExpr(tree, expect).ret
  BY DEF AnalyseAssign, Result
<1>4. lhs.kind \in {"IDENT", "ARR_ELEM"} => expect \in ZakoTypes
  BY <1>1, IdentTypeIs DEF IsNode
<1>5. expect \in ZakoTypes => Accepts(tree, <<>>, expect)
  BY <1>1, TreeAccepts
<1> HIDE DEF own, lhs
<1>6. own.ret \notin {"ASSERT", "NULL"} =>
        (own.ret = "SUCCESS" <=> Idents[lhs.name].mutable /\ Passes(tree, <<>>, expect))
  BY <1>3, <1>4, <1>5 DEF Accepts, AnalyseExpr
<1> QED BY <1>2, <1>6 DEF lhs

\* The analysis accepts exactly what fits or is Mixed, one array for another
\* of other elements or another size and one function for another: for all
\* types that parse_type builds, functions and arrays of arrays among them, and
\* however deep the tree (analyse_expr and all that it calls).
THEOREM AcceptsWhatFitsAlways == Spec => []AcceptsWhatFits
<1>1. TypeOK /\ Kept => AcceptsWhatFits
  <2> SUFFICES ASSUME TypeOK, Kept, phase # "parsed", ret \notin {"ASSERT", "NULL"},
                      stmt.kind \notin {"if", "while"}
               PROVE  ret = "SUCCESS" <=> Assignable /\ Passes(stmt.expr, <<>>, Expected)
    BY DEF AcceptsWhatFits
  <2>1. IsStatement(stmt) /\ IsTree(stmt.expr) /\ <<>> \in DOMAIN stmt.expr
    BY StatementIs DEF TypeOK
  <2>2. ret = AnalysisOf(stmt).ret
    BY DEF Kept
  <2>3. CASE stmt.kind = "assign"
    <3>1. Expected = IF stmt.expr[<<1>>].kind = "IDENT" THEN IdentType(stmt.expr[<<1>>].name)
                     ELSE ElemType(IdentType(stmt.expr[<<1>>].name))
      BY <2>3 DEF Expected
    <3>2. Assignable <=> Idents[stmt.expr[<<1>>].name].mutable
      BY <2>3 DEF Assignable
    <3> QED BY <2>1, <2>2, <2>3, <3>1, <3>2, AssignAccepts
  <2>4. CASE stmt.kind \in {"let", "return", "call"}
    <3>1. Expected \in ZakoTypes
      BY <2>1, <2>4, StatementIs, IdentTypeIs, ReturnTypeIs DEF Expected
    <3>2. AnalysisOf(stmt) = AnalyseExpr(stmt.expr, Expected)
      BY <2>4 DEF AnalysisOf, Expected
    <3>3. Assignable
      BY <2>4 DEF Assignable
    <3>4. Accepts(stmt.expr, <<>>, Expected)
      BY <2>1, <3>1, TreeAccepts
    <3> QED BY <2>2, <3>2, <3>3, <3>4 DEF Accepts, AnalyseExpr
  <2> QED BY <2>1, <2>3, <2>4, StatementIs
<1> QED BY <1>1, TypeCorrect, KeptAlways, PTL

-----------------------------------------------------------------------------
(* Which types in a tree are its own.                                      *)

\* Places are told apart step by step.
LEMMA SamePlace ==
  ASSUME NEW p \in Places, NEW q \in Places, Len(p) = Len(q), \A i \in 1..Len(p) : p[i] = q[i]
  PROVE  p = q
BY DEF Places

\* A place is the child of one other.
LEMMA ParentIs ==
  ASSUME NEW p \in Places, NEW q \in Places, NEW j \in Nat, NEW k \in Nat,
         Child(p, j) = Child(q, k)
  PROVE  p = q /\ j = k
<1>1. Len(p) \in Nat /\ Len(q) \in Nat
  BY DEF Places
<1>2. /\ Len(Child(p, j)) = Len(p) + 1 /\ Len(Child(q, k)) = Len(q) + 1
      /\ Child(p, j)[Len(p) + 1] = j /\ Child(q, k)[Len(q) + 1] = k
      /\ \A i \in 1..Len(p) : Child(p, j)[i] = p[i]
      /\ \A i \in 1..Len(q) : Child(q, k)[i] = q[i]
  BY ChildIs
<1>3. Len(p) = Len(q)
  BY <1>1, <1>2
<1>4. j = k /\ \A i \in 1..Len(p) : p[i] = q[i]
  BY <1>2, <1>3
<1>5. p = q
  <2>1. \A i \in 1..Len(p) : p[i] = q[i]
    BY <1>4
  <2> QED BY <1>3, <2>1, SamePlace
<1> QED BY <1>4, <1>5

\* A child under a child of another place has its parent under it too.
LEMMA UnderParent ==
  ASSUME NEW at \in Places, NEW p \in Places, NEW j \in Nat, NEW k \in Nat,
         Under(at, p), p # at, Under(Child(at, k), Child(p, j))
  PROVE  Under(Child(at, k), p)
<1>1. Len(at) \in Nat /\ Len(p) \in Nat /\ Len(at) <= Len(p)
  BY DEF Places, Under
<1>2. /\ Len(Child(at, k)) = Len(at) + 1
      /\ \A i \in 1..Len(p) : Child(p, j)[i] = p[i]
  BY ChildIs
<1>3. Len(at) # Len(p)
  <2>1. SUFFICES ASSUME Len(at) = Len(p) PROVE at = p
    OBVIOUS
  <2>2. \A i \in 1..Len(at) : p[i] = at[i]
    BY DEF Under
  <2> QED BY <2>1, <2>2 DEF Places
<1>4. Len(at) + 1 <= Len(p)
  BY <1>1, <1>3
<1>5. \A i \in 1..(Len(at) + 1) : i \in 1..Len(p)
  BY <1>1, <1>4
<1>6. \A i \in 1..(Len(at) + 1) : Child(p, j)[i] = Child(at, k)[i]
  BY <1>2 DEF Under
<1> QED BY <1>2, <1>4, <1>5, <1>6 DEF Under

\* The children of what is under a place are under it, and elsewhere.
LEMMA NotUnder ==
  ASSUME NEW at \in Places, NEW p \in Places, NEW j \in Nat, Under(at, p)
  PROVE  Child(p, j) # at /\ Under(at, Child(p, j))
<1>1. Len(at) \in Nat /\ Len(p) \in Nat /\ Len(Child(p, j)) = Len(p) + 1
      /\ \A i \in 1..Len(p) : Child(p, j)[i] = p[i]
  <2>1. Len(at) \in Nat /\ Len(p) \in Nat
    BY DEF Places
  <2> QED BY <2>1, ChildIs
<1>2. Len(at) <= Len(p) /\ \A i \in 1..Len(at) : i \in 1..Len(p)
  BY <1>1 DEF Under
<1>3. Len(Child(p, j)) # Len(at) /\ Len(at) <= Len(Child(p, j))
  BY <1>1, <1>2
<1> QED BY <1>1, <1>2, <1>3 DEF Under

\* The type is that of an index below this place.
OfIndex(tree, at, typed, type) ==
  \E p \in DOMAIN tree :
    /\ tree[p].kind = "ARR_ELEM" /\ Under(at, p)
    /\ Child(p, 1) \in DOMAIN typed /\ typed[Child(p, 1)] = type

\* What a tree owns are the types of its indices, each allocated for that one.
Indices(tree, at, expect, typed) ==
  /\ \A place \in DOMAIN typed :
       \/ Foreign(typed[place])
       \/ typed[place] = expect
       \/ OfIndex(tree, at, typed, typed[place])
  /\ \A p \in DOMAIN tree :
       tree[p].kind = "ARR_ELEM" /\ Under(at, p) /\ Child(p, 1) \in DOMAIN typed =>
         typed[Child(p, 1)].role = "index" /\ typed[Child(p, 1)].at = Child(p, 1)

Unrejected(tree) ==
  \A p \in DOMAIN tree : tree[p].kind = "ARR_ELEM" =>
    Passes(tree, Child(p, 1), IndexType("u64", Child(p, 1)))

OwnedAt(tree, at, expect) ==
  AnalyseTree(tree)[<<at, expect>>].ret # "ASSERT" =>
    Indices(tree, at, expect, AnalyseTree(tree)[<<at, expect>>].types)

\* An index that fits has the type that was allocated for it.
LEMMA IndexIs ==
  ASSUME NEW tree, IsTree(tree), NEW at \in DOMAIN tree, NEW expect \in ZakoTypes,
         Unrejected(tree), tree[at].kind = "ARR_ELEM",
         Inner(tree, at, expect, 1).ret # "ASSERT"
  PROVE  LET place == Child(at, 1)
             typed == Inner(tree, at, expect, 1).types
         IN  /\ tree[at].kids = 1 /\ place \in Places /\ place \in DOMAIN tree
             /\ place \in DOMAIN typed
             /\ typed[place] = Given(tree, at, expect, 1)
             /\ typed[place].role = "index" /\ typed[place].at = place
             /\ tree[place].kind = "INT" => DOMAIN typed \subseteq {place}
<1> DEFINE place == Child(at, 1)
           u64 == IndexType("u64", place)
           inner == Inner(tree, at, expect, 1)
<1>1. tree[at].kids = 1 /\ place \in Places /\ place \in DOMAIN tree
  <2>1. tree[at].kids = 1 /\ 1 \in 1..tree[at].kids
    BY TreeIs DEF IsNode
  <2> QED BY <2>1, TreeIs
<1>2. u64 \in ZakoTypes /\ u64.role = "index" /\ u64.at = place
  BY <1>1, IndexTypeIs DEF BuiltinTypes, Numbers, Unsigned
<1>3. Given(tree, at, expect, 1) = u64 /\ inner = AnalyseTree(tree)[<<place, u64>>]
  BY DEF Given, Inner
<1>4. inner.ret = "SUCCESS"
  <2>1. Passes(tree, place, u64)
    BY DEF Unrejected
  <2>2. Accepts(tree, place, u64)
    BY <1>1, <1>2, TreeAccepts
  <2> QED BY <1>3, <2>1, <2>2 DEF Accepts
<1>5. Owned(place, u64, inner) /\ \E used : Taken(tree, place, u64, inner, used)
  BY <1>1, <1>2, <1>3, TreeTaken
<1>6. tree[place].kind = "INT" => DOMAIN inner.types \subseteq {place}
  <2>1. SUFFICES ASSUME tree[place].kind = "INT" PROVE DOMAIN inner.types \subseteq {place}
    OBVIOUS
  <2>2. tree[place].kids = 0
    BY <1>1, <2>1, TreeIs DEF IsNode
  <2> HIDE DEF inner, place
  <2> QED BY <1>5, <2>2 DEF Taken
<1> HIDE DEF inner, place, u64
<1>7. place \in DOMAIN inner.types /\ inner.types[place] = u64
  BY <1>4, <1>5 DEF Owned
<1>8. inner.types[place].role = "index" /\ inner.types[place].at = place
      /\ inner.types[place] = Given(tree, at, expect, 1)
  BY <1>2, <1>3, <1>7
<1> QED BY <1>1, <1>6, <1>7, <1>8 DEF inner, place

\* Indices stay the only types of its own when a node takes those of its children.
LEMMA IndicesStep ==
  ASSUME NEW tree, IsTree(tree), NEW at \in DOMAIN tree, NEW expect \in ZakoTypes,
         Unrejected(tree),
         \A k \in 1..tree[at].kids : OwnedAt(tree, Child(at, k), Given(tree, at, expect, k))
  PROVE  OwnedAt(tree, at, expect)
<1> DEFINE r == AnalyseTree(tree)[<<at, expect>>]
           In(k) == Inner(tree, at, expect, k)
<1>1. SUFFICES ASSUME r.ret # "ASSERT" PROVE Indices(tree, at, expect, r.types)
  BY DEF OwnedAt
<1>2. Owned(at, expect, r) /\ KnownBelow(tree, at, expect)
  BY TreeTaken
<1>3. PICK used : Taken(tree, at, expect, r, used)
  BY TreeTaken
<1> HIDE DEF r
<1>4. \A k \in used :
        /\ k \in 1..tree[at].kids /\ k \in Nat /\ In(k).ret # "ASSERT"
        /\ Indices(tree, Child(at, k), Given(tree, at, expect, k), In(k).types)
        /\ Shaped(tree, Child(at, k), In(k))
        /\ Child(at, k) \in Places
  <2>1. \A k \in used : k \in 1..tree[at].kids /\ In(k).ret # "ASSERT"
    BY <1>1, <1>3 DEF Taken
  <2>2. \A k \in used : k \in Nat /\ Child(at, k) \in Places
    BY <2>1, TreeIs, ChildIs
  <2>3. \A k \in used : Indices(tree, Child(at, k), Given(tree, at, expect, k), In(k).types)
    BY <2>1 DEF OwnedAt, Inner
  <2> QED BY <1>2, <2>1, <2>2, <2>3 DEF KnownBelow
<1>5. at \in Places /\ \A p \in DOMAIN tree : p \in Places
  BY TreeIs
<1> DEFINE one == Child(at, 1)
<1>6. \A k \in used : \A place \in DOMAIN In(k).types :
        /\ place \in DOMAIN r.types
        /\ \/ r.types[place] = In(k).types[place]
           \/ place = one /\ IsSized(tree, at, r.types[place])
  BY <1>3 DEF Taken
<1>7. \A type : IsSized(tree, at, type) =>
        /\ tree[at].kind = "ARR_ELEM" /\ tree[one].kind = "INT"
        /\ type.role = "index" /\ type.at = one
  <2>1. tree[at].kind = "ARR_ELEM" => one \in Places
    <3>1. tree[at].kind = "ARR_ELEM" => 1 \in 1..tree[at].kids
      BY TreeIs DEF IsNode
    <3> QED BY <3>1, TreeIs
  <2>2. \A b \in Unsigned : b \in BuiltinTypes
    BY DEF BuiltinTypes, Numbers
  <2> QED BY <2>1, <2>2, IndexTypeIs DEF IsSized
<1>8. Under(at, at)
  BY <1>5, UnderSelf
<1>9. ASSUME NEW place \in DOMAIN r.types
      PROVE  \/ Foreign(r.types[place])
             \/ r.types[place] = expect
             \/ OfIndex(tree, at, r.types, r.types[place])
  <2>1. CASE place = at
    BY <1>2, <2>1 DEF Owned
  <2>2. CASE place # at
    <3>1. PICK k \in used : place \in DOMAIN In(k).types
      BY <1>3, <2>2 DEF Taken
    <3>2. CASE place = one /\ IsSized(tree, at, r.types[place])
      <4>1. tree[at].kind = "ARR_ELEM"
        BY <1>7, <3>2
      <4> QED BY <1>8, <3>2, <4>1 DEF OfIndex
    <3>3. CASE r.types[place] = In(k).types[place]
               /\ OfIndex(tree, Child(at, k), In(k).types, In(k).types[place])
      <4>1. PICK p \in DOMAIN tree :
              /\ tree[p].kind = "ARR_ELEM" /\ Under(Child(at, k), p)
              /\ Child(p, 1) \in DOMAIN In(k).types /\ In(k).types[Child(p, 1)] = r.types[place]
        BY <3>3 DEF OfIndex
      <4>2. Under(at, p) /\ p # at
        BY <1>4, <1>5, <4>1, UnderIs
      <4>3. Child(p, 1) # one
        BY <1>5, <4>2, ParentIs
      <4>4. Child(p, 1) \in DOMAIN r.types /\ r.types[Child(p, 1)] = r.types[place]
        BY <1>6, <4>1, <4>3
      <4> QED BY <4>1, <4>2, <4>4 DEF OfIndex
    <3>4. CASE r.types[place] = In(k).types[place]
               /\ In(k).types[place] = Given(tree, at, expect, k)
               /\ ~Foreign(r.types[place])
      <4>1. CASE tree[at].kind = "ARR_ELEM"
        <5>1. k = 1
          <6>1. tree[at].kids = 1
            <7>1. IsNode(tree[at])
              BY DEF IsTree
            <7> QED BY <4>1, <7>1 DEF IsNode
          <6> QED BY <1>4, <6>1
        <5>2. /\ one \in DOMAIN In(1).types
              /\ In(1).types[one] = Given(tree, at, expect, 1)
              /\ tree[one].kind = "INT" => DOMAIN In(1).types \subseteq {one}
          BY <1>4, <4>1, <5>1, IndexIs
        <5>3. tree[one].kind = "INT" => place = one
          BY <3>1, <5>1, <5>2
        <5>4. r.types[one] = r.types[place] /\ one \in DOMAIN r.types
          BY <1>6, <1>7, <3>1, <3>4, <5>1, <5>2, <5>3
        <5> QED BY <1>8, <4>1, <5>4 DEF OfIndex
      <4>2. CASE tree[at].kind = "ELEM_INIT"
        <5>1. Foreign(Given(tree, at, expect, k))
          BY <4>2, ElemTypeIs DEF Foreign, Given
        <5> QED BY <3>4, <5>1
      <4>3. CASE tree[at].kind = "FN_CALL"
        <5>1. Foreign(Given(tree, at, expect, k))
          BY <1>4, <4>3, PassedIs DEF Foreign, Given
        <5> QED BY <3>4, <5>1
      <4>4. CASE tree[at].kind \notin {"ARR_ELEM", "ELEM_INIT", "FN_CALL"}
        <5>1. Given(tree, at, expect, k) = expect
          BY <4>4 DEF Given
        <5> QED BY <3>4, <5>1
      <4> QED BY <4>1, <4>2, <4>3, <4>4
    <3>5. \/ Foreign(In(k).types[place])
          \/ In(k).types[place] = Given(tree, at, expect, k)
          \/ OfIndex(tree, Child(at, k), In(k).types, In(k).types[place])
      BY <1>4, <3>1 DEF Indices
    <3>6. \/ r.types[place] = In(k).types[place]
          \/ place = one /\ IsSized(tree, at, r.types[place])
      BY <1>6, <3>1
    <3> HIDE DEF In, one
    <3> QED BY <3>2, <3>3, <3>4, <3>5, <3>6
  <2> QED BY <2>1, <2>2
<1>10. ASSUME NEW p \in DOMAIN tree, tree[p].kind = "ARR_ELEM", Under(at, p),
              Child(p, 1) \in DOMAIN r.types
       PROVE  r.types[Child(p, 1)].role = "index" /\ r.types[Child(p, 1)].at = Child(p, 1)
  <2>1. Child(p, 1) # at
    BY <1>5, <1>10, NotUnder
  <2>2. PICK k \in used : Child(p, 1) \in DOMAIN In(k).types
    BY <1>3, <1>10, <2>1 DEF Taken
  <2>3. CASE p = at
    <3>1. k = 1
      BY <1>4, <1>10, <2>3, TreeIs DEF IsNode
    <3>2. In(1).types[one].role = "index" /\ In(1).types[one].at = one
      BY <1>4, <1>10, <2>3, <3>1, IndexIs
    <3>3. r.types[one] = In(1).types[one] \/ IsSized(tree, at, r.types[one])
      BY <1>6, <2>2, <2>3, <3>1
    <3>4. r.types[one].role = "index" /\ r.types[one].at = one
      BY <1>7, <3>2, <3>3
    <3> QED BY <2>3, <3>4
  <2>4. CASE p # at
    <3>1. Under(Child(at, k), Child(p, 1))
      BY <1>4, <2>2 DEF Shaped
    <3>2. Under(Child(at, k), p)
      BY <1>4, <1>5, <1>10, <2>4, <3>1, UnderParent
    <3>3. In(k).types[Child(p, 1)].role = "index" /\ In(k).types[Child(p, 1)].at = Child(p, 1)
      BY <1>4, <1>10, <2>2, <3>2 DEF Indices
    <3>4. Child(p, 1) # one
      BY <1>5, <2>4, ParentIs
    <3>5. r.types[Child(p, 1)] = In(k).types[Child(p, 1)]
      BY <1>6, <2>2, <3>4
    <3> QED BY <3>3, <3>5
  <2> QED BY <2>3, <2>4
<1> QED BY <1>9, <1>10 DEF Indices

\* Every place of every tree, by induction.
LEMMA TreeIndices ==
  ASSUME NEW tree, IsTree(tree), Unrejected(tree), NEW at \in DOMAIN tree, NEW expect \in ZakoTypes
  PROVE  OwnedAt(tree, at, expect)
<1> DEFINE G == {place \in DOMAIN tree : \A type \in ZakoTypes : OwnedAt(tree, place, type)}
<1>1. ASSUME NEW place \in DOMAIN tree, \A k \in 1..tree[place].kids : Child(place, k) \in G
      PROVE  place \in G
  <2>1. SUFFICES ASSUME NEW type \in ZakoTypes PROVE OwnedAt(tree, place, type)
    OBVIOUS
  <2>2. \A k \in 1..tree[place].kids :
          OwnedAt(tree, Child(place, k), Given(tree, place, type, k))
    BY <1>1, GivenIs
  <2> QED BY <2>2, IndicesStep
<1>2. \A place \in DOMAIN tree : place \in G
  <2> HIDE DEF G
  <2> QED BY <1>1, TreeInduction
<1> QED BY <1>2

-----------------------------------------------------------------------------
(* Freeing.                                                                *)

\* What freeing a statement has to be, of the types set in it.
FreesTypes(set, calls) ==
  LET own == {type \in {set[at] : at \in DOMAIN set} : type.role \in {"index", "cmp", "literal"}}
  IN  /\ own \subseteq {call.type : call \in calls}
      /\ \A call \in calls : call.type \in own \/ call.type.role = "named"
      /\ \A call, other \in calls : call.type = other.type => call = other

\* A call that frees what it should: the node's own type, an index's, a literal's.
Proper(s, set, call) ==
  LET type == call.type
      named == s.expr[call.by].kind = "TYPE" /\ type.role = "named" /\ type.at = call.by
      index == /\ s.expr[call.by].kind = "ARR_ELEM"
               /\ call.of = Child(call.by, 1) /\ type.role = "index" /\ type.at = call.of
      cmp == /\ s.expr[call.by].kind = "CMP" /\ call.of = call.by /\ type.role = "cmp"
      literal == /\ s.expr[call.by].kind = "CMP" /\ type.role = "literal" /\ type.at = call.of
  IN  /\ call.by \in DOMAIN s.expr
      /\ call = [by |-> call.by, of |-> call.of, type |-> type]
      /\ \/ named /\ call.of = call.by
         \/ /\ index \/ cmp \/ literal
            /\ call.of \in DOMAIN set /\ type = set[call.of]

\* Two proper calls do not free one type.
LEMMA ProperOnce ==
  ASSUME NEW s, IsStatement(s), NEW set,
         NEW call, NEW other, Proper(s, set, call), Proper(s, set, other), call.type = other.type
  PROVE  call = other
<1>1. \A at \in DOMAIN s.expr : at \in Places /\ (s.expr[at].kind = "CMP" => at = <<>>)
  BY StatementIs, TreeIs DEF IsTree
<1>2. /\ call.by \in DOMAIN s.expr /\ call = [by |-> call.by, of |-> call.of, type |-> call.type]
      /\ other.by \in DOMAIN s.expr
      /\ other = [by |-> other.by, of |-> other.of, type |-> other.type]
  BY DEF Proper
<1>3. SUFFICES call.by = other.by /\ call.of = other.of
  BY <1>2
<1>4. CASE call.type.role = "named"
  BY <1>4 DEF Proper
<1>5. CASE call.type.role = "index"
  <2>1. call.of = Child(call.by, 1) /\ other.of = Child(other.by, 1) /\ call.of = other.of
    BY <1>5 DEF Proper
  <2>2. call.by = other.by
    BY <1>1, <1>2, <2>1, ParentIs
  <2> QED BY <2>1, <2>2
<1>6. CASE call.type.role = "cmp"
  BY <1>1, <1>6 DEF Proper
<1>7. CASE call.type.role = "literal"
  BY <1>1, <1>7 DEF Proper
<1> QED BY <1>4, <1>5, <1>6, <1>7 DEF Proper

\* Proper calls that come to every type of the tree's own are what is asked.
LEMMA ProperFrees ==
  ASSUME NEW s, IsStatement(s), NEW set, NEW calls,
         \A call \in calls : Proper(s, set, call),
         \A at \in DOMAIN set :
           Foreign(set[at]) \/ \E call \in calls : call.type = set[at]
  PROVE  FreesTypes(set, calls)
<1>1. \A call, other \in calls : call.type = other.type => call = other
  BY ProperOnce
<1>2. \A call \in calls : call.type.role = "named" \/
        (/\ call.type.role \in {"index", "cmp", "literal"}
         /\ call.of \in DOMAIN set /\ call.type = set[call.of])
  BY DEF Proper
<1> QED BY <1>1, <1>2 DEF FreesTypes, Foreign

\* The call for a type literal is proper.
LEMMA NamedProper ==
  ASSUME NEW s, IsStatement(s), NEW set, NEW at \in DOMAIN s.expr, s.expr[at].kind = "TYPE",
         NEW call \in FreeingNode(s, set, at)
  PROVE  Proper(s, set, call)
<1>1. call = [by |-> at, of |-> at, type |-> NamedType(s.expr[at].name, at)]
  BY DEF FreeingNode
<1>2. s.expr[at].name \in BuiltinTypes /\ at \in Places
  BY StatementIs, TreeIs DEF IsNode, BuiltinTypes
<1> DEFINE type == NamedType(s.expr[at].name, at)
<1>3. type.role = "named" /\ type.at = at
  BY <1>2, NamedTypeIs
<1> HIDE DEF type
<1>4. call.by = at /\ call.of = at /\ call.type = type
      /\ call = [by |-> call.by, of |-> call.of, type |-> call.type]
  BY <1>1 DEF type
<1> QED BY <1>3, <1>4 DEF Proper

\* No type at all is none of the tree's.
LEMMA NullIs == Foreign(NULL)
<1>1. NULL.role = "none"
  BY DEF NULL, Type, PlainType
<1> QED BY <1>1 DEF Foreign

(* The tree of an expression: its indices.                                 *)
LEMMA ExprFrees ==
  ASSUME NEW s, IsStatement(s), s.expr[<<>>].kind # "CMP", NEW set, NEW expect,
         Indices(s.expr, <<>>, expect, set), Foreign(expect),
         \A at \in DOMAIN set : set[at] \in ZakoTypes
  PROVE  FreesTypes(set, FreedOf(s, set))
<1> DEFINE tree == s.expr
           calls == FreedOf(s, set)
<1>1. /\ IsTree(tree) /\ \A p \in DOMAIN tree : p \in Places /\ Under(<<>>, p)
      /\ \A p \in DOMAIN tree : tree[p].kind # "CMP"
  <2>1. IsTree(tree) /\ \A p \in DOMAIN tree : p \in Places
    BY StatementIs, TreeIs
  <2>2. \A p \in Places : Under(<<>>, p)
    BY DEF Under, Places
  <2> QED BY <2>1, <2>2 DEF IsTree
<1>2. ASSUME NEW call \in calls PROVE Proper(s, set, call)
  <2>1. PICK at \in DOMAIN tree : call \in FreeingNode(s, set, at)
    BY DEF FreedOf
  <2>2. CASE tree[at].kind = "TYPE"
    BY <2>1, <2>2, NamedProper
  <2>3. CASE tree[at].kind = "ARR_ELEM"
    <3>1. call \in Freeing(set, at, Child(at, 1))
      BY <2>1, <2>3 DEF FreeingNode
    <3>2. /\ call.by = at /\ call.of = Child(at, 1)
          /\ call = [by |-> call.by, of |-> call.of, type |-> call.type]
          /\ Child(at, 1) \in DOMAIN set /\ call.type = set[Child(at, 1)]
      BY <3>1, FreeingIs
    <3>3. set[Child(at, 1)].role = "index" /\ set[Child(at, 1)].at = Child(at, 1)
      BY <1>1, <2>3, <3>2 DEF Indices
    <3> QED BY <2>3, <3>2, <3>3 DEF Proper
  <2>4. CASE tree[at].kind \notin {"TYPE", "ARR_ELEM"}
    BY <1>1, <2>1, <2>4 DEF FreeingNode
  <2> QED BY <2>2, <2>3, <2>4
<1>3. ASSUME NEW at \in DOMAIN set, ~Foreign(set[at])
      PROVE  \E call \in calls : call.type = set[at]
  <2>1. PICK p \in DOMAIN tree :
          /\ tree[p].kind = "ARR_ELEM" /\ Child(p, 1) \in DOMAIN set /\ set[Child(p, 1)] = set[at]
    BY <1>3 DEF Indices, OfIndex
  <2>2. set[at] # NULL
    BY <1>3, NullIs
  <2> DEFINE call == [by |-> p, of |-> Child(p, 1), type |-> set[at]]
  <2>3. call \in FreeingNode(s, set, p)
    BY <2>1, <2>2 DEF FreeingNode, Freeing, At
  <2>4. call \in calls
    BY <2>3 DEF FreedOf
  <2> QED BY <2>4
<1> QED BY <1>2, <1>3, ProperFrees

(* The tree of a comparison: its type and those of its literals.           *)
LEMMA CmpFrees ==
  ASSUME NEW s, IsStatement(s), s.kind \in {"if", "while"},
         NEW result, Compared(s.expr, result)
  PROVE  FreesTypes(result.types, FreedOf(s, result.types))
<1> DEFINE tree == s.expr
           set == result.types
           calls == FreedOf(s, set)
           root == <<>>
           one == <<1>>
           two == <<2>>
<1>1. /\ IsTree(tree) /\ root \in DOMAIN tree /\ one \in DOMAIN tree /\ two \in DOMAIN tree
      /\ tree[root].kind = "CMP"
      /\ \A p \in DOMAIN tree : p \in Places /\ (tree[p].kind = "CMP" => p = root)
  <2>1. IsTree(tree) /\ \A p \in DOMAIN tree : p \in Places
    BY StatementIs, TreeIs
  <2> QED BY <2>1, StatementIs DEF IsTree
<1>2. one = Child(root, 1) /\ two = Child(root, 2)
  BY RootIs
<1>3. Len(root) = 0 /\ Len(one) = 1 /\ Len(two) = 1 /\ \A p \in Places : Len(p) = 0 => p = root
  BY DEF Places
<1>4. /\ DOMAIN set \subseteq {root, one, two}
      /\ root \in DOMAIN set /\ set[root] = CmpType(root)
      /\ \A place \in {one, two} :
           /\ place \in DOMAIN set =>
                /\ tree[place].kind = "INT" => set[place].role = "literal" /\ set[place].at = place
                /\ tree[place].kind # "INT" => Foreign(set[place])
           /\ tree[place].kind = "INT" => place \in DOMAIN set
  BY DEF Compared
<1>5. CmpType(root).role = "cmp"
  BY DEF CmpType, Type, PlainType
<1> HIDE DEF root, one, two, set
<1>6. ASSUME NEW call \in calls PROVE Proper(s, set, call)
  <2>1. PICK at \in DOMAIN tree : call \in FreeingNode(s, set, at)
    BY DEF FreedOf
  <2>2. CASE tree[at].kind = "TYPE"
    BY <2>1, <2>2, NamedProper
  <2>3. CASE tree[at].kind = "ARR_ELEM"
    <3>1. Child(at, 1) \in DOMAIN set
      BY <2>1, <2>3, FreeingIs DEF FreeingNode
    <3>2. at \in Places /\ at # root /\ Len(at) \in Nat /\ Len(Child(at, 1)) = Len(at) + 1
      <4>1. at \in Places /\ at # root
        BY <1>1, <2>3
      <4>2. Len(at) \in Nat
        BY <4>1 DEF Places
      <4> QED BY <4>1, <4>2, ChildIs
    <3>3. Len(at) # 0
      BY <1>3, <3>2
    <3>4. Len(Child(at, 1)) \in {0, 1}
      BY <1>3, <1>4, <3>1
    <3>5. \A n \in Nat : n # 0 => n + 1 \notin {0, 1}
      OBVIOUS
    <3> QED BY <3>2, <3>3, <3>4, <3>5, Zenon
  <2>4. CASE tree[at].kind = "CMP"
    <3>1. at = root
      BY <1>1, <2>4
    <3>2. PICK of : /\ call \in Freeing(set, root, of)
                    /\ of = root \/ (of \in {one, two} /\ tree[of].kind = "INT")
      BY <1>2, <2>1, <2>4, <3>1 DEF FreeingNode
    <3>3. /\ call.by = root /\ call.of = of
          /\ call = [by |-> call.by, of |-> call.of, type |-> call.type]
          /\ of \in DOMAIN set /\ call.type = set[of]
      BY <3>2, FreeingIs
    <3>4. CASE of = root
      <4>1. call.type.role = "cmp" /\ call.of = call.by
        BY <1>4, <1>5, <3>3, <3>4
      <4> QED BY <1>1, <3>3, <4>1 DEF Proper
    <3>5. CASE of \in {one, two} /\ tree[of].kind = "INT"
      <4>1. call.type.role = "literal" /\ call.type.at = call.of
        BY <1>4, <3>3, <3>5
      <4> QED BY <1>1, <3>3, <4>1 DEF Proper
    <3> QED BY <3>2, <3>4, <3>5
  <2>5. CASE tree[at].kind \notin {"TYPE", "ARR_ELEM", "CMP"}
    BY <2>1, <2>5 DEF FreeingNode
  <2> QED BY <2>2, <2>3, <2>4, <2>5
<1>7. ASSUME NEW at \in DOMAIN set, ~Foreign(set[at])
      PROVE  \E call \in calls : call.type = set[at]
  <2>1. set[at] # NULL
    BY <1>7, NullIs
  <2>2. at = root \/ (at \in {one, two} /\ tree[at].kind = "INT")
    BY <1>4, <1>7
  <2> DEFINE call == [by |-> root, of |-> at, type |-> set[at]]
  <2>3. call \in Freeing(set, root, at)
    BY <2>1 DEF Freeing, At
  <2>4. call \in FreeingNode(s, set, root)
    <3> HIDE DEF call
    <3> QED BY <1>1, <1>2, <2>2, <2>3 DEF FreeingNode
  <2>5. call \in calls
    BY <1>1, <2>4 DEF FreedOf
  <2> QED BY <2>5
<1>8. FreesTypes(set, calls)
  BY <1>6, <1>7, ProperFrees
<1> QED BY <1>8 DEF set

\* Every statement whose analysis returned.
LEMMA StatementFrees ==
  ASSUME NEW s, IsStatement(s), Unrejected(s.expr),
         AnalysisOf(s).ret \notin {"ASSERT", "NULL"}
  PROVE  FreesTypes(AnalysisOf(s).types, FreedOf(s, AnalysisOf(s).types))
<1> DEFINE tree == s.expr
           result == AnalysisOf(s)
<1>1. /\ IsTree(tree) /\ <<>> \in DOMAIN tree
      /\ s.kind \in {"let", "return", "call", "assign", "if", "while"}
      /\ s.kind \notin {"if", "while"} => tree[<<>>].kind # "CMP"
  BY StatementIs DEF IsStatement
<1>2. CASE s.kind \in {"if", "while"}
  BY <1>2, StatementIs, CmpIs, CmpFrees DEF AnalysisOf
<1>3. \A at \in DOMAIN result.types : result.types[at] \in ZakoTypes
  BY AnalysisTyped DEF Typed
<1>4. ASSUME NEW expect \in ZakoTypes, Foreign(expect), result = AnalyseExpr(tree, expect),
             s.kind \notin {"if", "while"}
      PROVE  FreesTypes(result.types, FreedOf(s, result.types))
  <2>1. Indices(tree, <<>>, expect, result.types)
    BY <1>1, <1>4, TreeIndices DEF OwnedAt, AnalyseExpr
  <2> HIDE DEF result
  <2> QED BY <1>1, <1>3, <1>4, <2>1, ExprFrees
<1>5. CASE s.kind = "assign"
  <2> DEFINE lhs == tree[<<1>>]
             expect == IF lhs.kind = "IDENT" THEN IdentType(lhs.name)
                       ELSE ElemType(IdentType(lhs.name))
  <2>1. IsNode(lhs)
    BY <1>5, StatementIs, TreeIs
  <2>2. lhs.kind \in {"IDENT", "ARR_ELEM"} => expect \in ZakoTypes /\ Foreign(expect)
    BY <2>1, IdentTypeIs, ElemTypeIs DEF IsNode, Foreign
  <2>3. \/ result = Result("NULL", Nothing) \/ result = Result("CANNOT_BE_ASSIGNED", Nothing)
        \/ result = AnalyseExpr(tree, expect) /\ lhs.kind \in {"IDENT", "ARR_ELEM"}
    BY <1>5, Zenon DEF AnalysisOf, AnalyseAssign
  <2>4. CASE result = Result("CANNOT_BE_ASSIGNED", Nothing)
    <3>1. result.types = Nothing
      BY <2>4 DEF Result
    <3> HIDE DEF result
    <3>2. Indices(tree, <<>>, NULL, result.types)
      BY <3>1, NothingIs DEF Indices
    <3>3. FreesTypes(result.types, FreedOf(s, result.types))
      BY <1>1, <1>3, <1>5, <3>2, NullIs, ExprFrees
    <3> QED BY <3>3 DEF result
  <2>5. result # Result("NULL", Nothing)
    BY DEF Result
  <2> HIDE DEF result, expect
  <2> QED BY <1>4, <1>5, <2>2, <2>3, <2>4, <2>5 DEF result
<1>6. CASE s.kind \in {"let", "return", "call"}
  <2>1. \E expect \in ZakoTypes : Foreign(expect) /\ result = AnalyseExpr(tree, expect)
    BY <1>6, StatementIs, IdentTypeIs, ReturnTypeIs DEF AnalysisOf, Foreign
  <2> QED BY <1>4, <1>6, <2>1
<1> QED BY <1>1, <1>2, <1>5, <1>6

\* A statement frees the types allocated for its tree, each once, and no
\* other's, also half analysed: whatever its tree (free_expr and free_value).
THEOREM FreesOwnAlways == Spec => []FreesOwn
<1>1. TypeOK /\ Kept => FreesOwn
  <2> SUFFICES ASSUME TypeOK, Kept, phase = "freed", ~IndexRejected
               PROVE  FreesTypes(types, freed)
    BY DEF FreesOwn, FreesTypes, Own
  <2>1. IsStatement(stmt) /\ Unrejected(stmt.expr)
    BY DEF TypeOK, IndexRejected, InTree, Unrejected
  <2>2. /\ types = AnalysisOf(stmt).types /\ ret = AnalysisOf(stmt).ret
        /\ ret \notin {"ASSERT", "NULL"} /\ freed = FreedOf(stmt, types)
    BY DEF Kept
  <2> QED BY <2>1, <2>2, StatementFrees
<1> QED BY <1>1, TypeCorrect, KeptAlways, PTL

-----------------------------------------------------------------------------
(* What fits a type fits a wider one.                                      *)

\* A type holds what a type that it holds does.
LEMMA HoldsIs ==
  ASSUME NEW a, NEW b, NEW c, Holds(a, b), Holds(b, c)
  PROVE  Holds(a, c) /\ Holds(a, a) /\ (b \in Numbers => a \in Numbers)
<1>1. \A x \in Numbers : Bits[x] \in Nat
  BY DEF Numbers, Signed, Unsigned, Bits
<1>2. Signed \cap Unsigned = {} /\ Signed \subseteq Numbers /\ Unsigned \subseteq Numbers
  BY DEF Signed, Unsigned, Numbers
<1>3. CASE a = b \/ b = c
  BY <1>2, <1>3 DEF Holds
<1>4. CASE a # b /\ b # c
  <2>1. /\ {a, b} \subseteq Signed \/ {a, b} \subseteq Unsigned
        /\ {b, c} \subseteq Signed \/ {b, c} \subseteq Unsigned
        /\ Bits[b] <= Bits[a] /\ Bits[c] <= Bits[b]
    BY <1>4 DEF Holds
  <2>2. {a, c} \subseteq Signed \/ {a, c} \subseteq Unsigned
    BY <1>2, <2>1
  <2>3. a \in Numbers /\ b \in Numbers /\ c \in Numbers
    BY <1>2, <2>1
  <2>4. Bits[a] \in Nat /\ Bits[b] \in Nat /\ Bits[c] \in Nat
    BY <1>1, <2>3
  <2>5. Bits[c] <= Bits[a]
    BY <2>1, <2>4
  <2> QED BY <2>2, <2>3, <2>5 DEF Holds
<1> QED BY <1>3, <1>4

\* What fits has children that fit what they are expected to be.
LEMMA GivenFits ==
  ASSUME NEW tree, IsTree(tree), NEW at \in DOMAIN tree, NEW expect \in ZakoTypes,
         Passes(tree, at, expect), NEW k \in 1..tree[at].kids,
         ~(tree[at].kind = "BINARY" /\ tree[at].name = "as" /\ k = 1)
  PROVE  Passes(tree, Child(at, k), Given(tree, at, expect, k))
<1> DEFINE type == Given(tree, at, expect, k)
<1>1. SUFFICES Demands(tree)[<<Child(at, k), type>>]
                 \subseteq DemandsOf(tree, Demands(tree), at, expect)
               \/ ~\A d \in DemandsOf(tree, Demands(tree), at, expect) : Suits(tree, d)
  BY FitsIs DEF Passes, Suits
<1>2. IsNode(tree[at])
  BY TreeIs
<1>3. CASE tree[at].kind = "ARR_ELEM"
  <2>1. k = 1
    BY <1>2, <1>3 DEF IsNode
  <2> QED BY <1>3, <2>1 DEF DemandsOf, Given
<1>4. CASE tree[at].kind = "ELEM_INIT" /\ expect.builtin = "arr"
  BY <1>4 DEF DemandsOf, Given
<1>5. CASE tree[at].kind = "ELEM_INIT" /\ expect.builtin # "arr"
  <2>1. DemandsOf(tree, Demands(tree), at, expect) = {Demand(at, expect)}
    BY <1>5 DEF DemandsOf
  <2>2. ~Suits(tree, Demand(at, expect))
    BY <1>5, SuitsIs DEF SelfTyped
  <2> QED BY <2>1, <2>2
<1>6. CASE tree[at].kind = "FN_CALL"
  BY <1>6 DEF DemandsOf, Given
<1>7. CASE tree[at].kind \in {"EXPR", "PRIMARY"}
  <2>1. k = 1
    BY <1>2, <1>7 DEF IsNode
  <2> QED BY <1>7, <2>1 DEF DemandsOf, Given
<1>8. CASE tree[at].kind = "BINARY"
  <2>1. k \in {1, 2}
    BY <1>2, <1>8 DEF IsNode
  <2>2. CASE tree[at].name = "as"
    BY <1>8, <2>1, <2>2 DEF DemandsOf, Given
  <2>3. CASE tree[at].name # "as"
    BY <1>8, <2>1, <2>3 DEF DemandsOf, Given
  <2> QED BY <2>2, <2>3
<1>9. CASE tree[at].kind \in {"IDENT", "INT", "STRING", "TYPE"}
  BY <1>2, <1>9 DEF IsNode
<1>10. CASE tree[at].kind = "CMP"
  <2>1. DemandsOf(tree, Demands(tree), at, expect) = {Demand(at, expect)}
    BY <1>10 DEF DemandsOf
  <2>2. ~Suits(tree, Demand(at, expect))
    BY <1>10, SuitsIs DEF SelfTyped
  <2> QED BY <2>1, <2>2
<1> QED BY <1>2, <1>3, <1>4, <1>5, <1>6, <1>7, <1>8, <1>9, <1>10 DEF IsNode

\* A number of type narrow can be stored in one of type wide.
Wider(wide, narrow) ==
  /\ wide \in ZakoTypes /\ narrow \in ZakoTypes
  /\ narrow.builtin \in Numbers /\ Holds(wide.builtin, narrow.builtin)

Widens(tree, at) ==
  \A wide, narrow \in ZakoTypes :
    Wider(wide, narrow) /\ Passes(tree, at, narrow) => Passes(tree, at, wide)

(* The demand of a value itself.                                           *)
LEMMA MetWidens ==
  ASSUME NEW tree, IsTree(tree), NEW at \in DOMAIN tree, NEW wide, NEW narrow,
         Wider(wide, narrow), Suits(tree, Demand(at, narrow))
  PROVE  Suits(tree, Demand(at, wide))
<1>1. /\ Demand(at, wide).at = at /\ Demand(at, wide).type = wide
      /\ Demand(at, narrow).at = at /\ Demand(at, narrow).type = narrow
  BY DEF Demand
<1>2. \A b : Holds(narrow.builtin, b) => Holds(wide.builtin, b)
  BY HoldsIs DEF Wider
<1>3. wide.builtin \in Numbers /\ narrow.builtin \in Numbers
  <2>1. Holds(wide.builtin, narrow.builtin) /\ narrow.builtin \in Numbers
    BY DEF Wider
  <2> QED BY <2>1 DEF Holds, Numbers
<1>4. "arr" \notin Numbers
  BY DEF Numbers, Signed, Unsigned
<1>5. IsNode(tree[at])
  BY TreeIs
<1>6. CASE tree[at].kind \in {"IDENT", "FN_CALL", "TYPE"}
  BY <1>1, <1>2, <1>6, SuitsIs
<1>7. CASE tree[at].kind \in {"INT", "STRING"}
  BY <1>1, <1>3, <1>4, <1>7, SuitsIs
<1>8. CASE tree[at].kind = "ARR_ELEM"
  <2> DEFINE size == IdentType(tree[at].name).size
             fine == tree[Child(at, 1)].kind = "INT" /\ size > 0 =>
                       tree[Child(at, 1)].int \in 0..(size - 1)
             elem == IdentType(tree[at].name).elem
  <2>1. /\ Suits(tree, Demand(at, wide)) <=> Holds(wide.builtin, elem) /\ fine
        /\ Suits(tree, Demand(at, narrow)) <=> Holds(narrow.builtin, elem) /\ fine
    BY <1>1, <1>8, SuitsIs
  <2> HIDE DEF fine, elem
  <2> QED BY <1>2, <2>1
<1>9. CASE tree[at].kind \in {"ELEM_INIT", "EXPR", "PRIMARY", "BINARY", "CMP"}
  BY <1>1, <1>9, SuitsIs DEF SelfTyped
<1> QED BY <1>5, <1>6, <1>7, <1>8, <1>9 DEF IsNode

\* A node fits a wider type when its children do.
LEMMA WidensStep ==
  ASSUME NEW tree, IsTree(tree), NEW at \in DOMAIN tree,
         \A k \in 1..tree[at].kids : Widens(tree, Child(at, k))
  PROVE  Widens(tree, at)
<1> SUFFICES ASSUME NEW wide \in ZakoTypes, NEW narrow \in ZakoTypes, Wider(wide, narrow),
                    Passes(tree, at, narrow)
             PROVE  Passes(tree, at, wide)
  BY DEF Widens
<1> DEFINE asked(type) == DemandsOf(tree, Demands(tree), at, type)
           d == Demand(at, narrow)
           e == Demand(at, wide)
<1>1. /\ Passes(tree, at, wide) <=> \A x \in asked(wide) : Suits(tree, x)
      /\ \A x \in asked(narrow) : Suits(tree, x)
  BY FitsIs
<1>2. IsNode(tree[at])
  BY TreeIs
<1>3. Suits(tree, d) => Suits(tree, e)
  BY MetWidens
<1>4. "arr" \notin Numbers /\ narrow.builtin \in Numbers /\ wide.builtin \in Numbers
  <2>1. Holds(wide.builtin, narrow.builtin) /\ narrow.builtin \in Numbers
    BY DEF Wider
  <2> QED BY <2>1 DEF Holds, Numbers, Signed, Unsigned
<1>5. CASE tree[at].kind \in {"IDENT", "INT", "STRING", "TYPE", "CMP", "ELEM_INIT"}
  <2>1. asked(wide) = {e} /\ asked(narrow) = {d}
    BY <1>4, <1>5 DEF DemandsOf
  <2> HIDE DEF asked, d, e
  <2> QED BY <1>1, <1>3, <2>1
<1>6. CASE tree[at].kind \in {"ARR_ELEM", "FN_CALL"}
  <2>1. PICK others : asked(wide) = {e} \cup others /\ asked(narrow) = {d} \cup others
    BY <1>6 DEF DemandsOf
  <2> HIDE DEF asked, d, e
  <2> QED BY <1>1, <1>3, <2>1
<1>7. CASE tree[at].kind \in {"EXPR", "PRIMARY"}
  <2>1. 1 \in 1..tree[at].kids
    BY <1>2, <1>7 DEF IsNode
  <2>2. Passes(tree, Child(at, 1), narrow) => Passes(tree, Child(at, 1), wide)
    BY <2>1 DEF Widens
  <2>3. /\ asked(wide) = Demands(tree)[<<Child(at, 1), wide>>]
        /\ asked(narrow) = Demands(tree)[<<Child(at, 1), narrow>>]
    BY <1>7 DEF DemandsOf
  <2> HIDE DEF asked
  <2> QED BY <1>1, <2>2, <2>3 DEF Passes, Suits
<1>8. CASE tree[at].kind = "BINARY"
  <2>1. 1 \in 1..tree[at].kids /\ 2 \in 1..tree[at].kids
    BY <1>2, <1>8 DEF IsNode
  <2>2. /\ Passes(tree, Child(at, 1), narrow) => Passes(tree, Child(at, 1), wide)
        /\ Passes(tree, Child(at, 2), narrow) => Passes(tree, Child(at, 2), wide)
    BY <2>1 DEF Widens
  <2>3. CASE tree[at].name = "as"
    <3>1. /\ asked(wide) = Demands(tree)[<<Child(at, 2), wide>>]
          /\ asked(narrow) = Demands(tree)[<<Child(at, 2), narrow>>]
      BY <1>8, <2>3 DEF DemandsOf
    <3> HIDE DEF asked
    <3> QED BY <1>1, <2>2, <3>1 DEF Passes, Suits
  <2>4. CASE tree[at].name # "as"
    <3>1. /\ asked(wide) = Demands(tree)[<<Child(at, 1), wide>>] \cup
                             Demands(tree)[<<Child(at, 2), wide>>]
          /\ asked(narrow) = Demands(tree)[<<Child(at, 1), narrow>>] \cup
                               Demands(tree)[<<Child(at, 2), narrow>>]
      BY <1>8, <2>4 DEF DemandsOf
    <3> HIDE DEF asked
    <3> QED BY <1>1, <2>2, <3>1 DEF Passes, Suits
  <2> QED BY <2>3, <2>4
<1> QED BY <1>2, <1>5, <1>6, <1>7, <1>8 DEF IsNode

\* What fits a type fits a wider one, by induction.
LEMMA TreeWidens ==
  ASSUME NEW tree, IsTree(tree), NEW at \in DOMAIN tree
  PROVE  Widens(tree, at)
<1> DEFINE G == {place \in DOMAIN tree : Widens(tree, place)}
<1>1. ASSUME NEW place \in DOMAIN tree, \A k \in 1..tree[place].kids : Child(place, k) \in G
      PROVE  place \in G
  BY <1>1, WidensStep
<1>2. \A place \in DOMAIN tree : place \in G
  <2> HIDE DEF G
  <2> QED BY <1>1, TreeInduction
<1> QED BY <1>2

-----------------------------------------------------------------------------
(* The code of what was accepted.                                          *)

\* Code can be had, and every instruction in it can take its operand.
SafeCode(value) ==
  /\ value.ok
  /\ \A instr \in value.instrs : instr.cast \/ Holds(instr.result, instr.operand)
\* And its value fits the type, or is cast.
FitCode(value, builtin) == SafeCode(value) /\ (value.cast \/ Holds(builtin, value.builtin))

\* An instruction has the operand it was given.
LEMMA InstrIs ==
  ASSUME NEW op, NEW builtin, NEW value, value.cast \/ Holds(builtin, value.builtin)
  PROVE  Instr(op, builtin, value).cast
         \/ Holds(Instr(op, builtin, value).result, Instr(op, builtin, value).operand)
BY DEF Instr

\* A new result is no instruction and needs none.
LEMMA FreshSafe ==
  ASSUME NEW type, HasMcbType(type)
  PROVE  /\ SafeCode(Fresh(type)) /\ Fresh(type).builtin = type.builtin
         /\ Fresh(type).instrs = {}
BY DEF Fresh, SafeCode, Compiled

\* An instruction is appended to code that can be had, into a type that fits.
LEMMA IntoSafe ==
  ASSUME NEW op, NEW type, HasMcbType(type), NEW values,
         \A k \in DOMAIN values : FitCode(values[k], type.builtin)
  PROVE  SafeCode(Into(op, type, values)) /\ Into(op, type, values).builtin = type.builtin
<1> DEFINE instrs == UNION {values[k].instrs \cup {Instr(op, type.builtin, values[k])}
                              : k \in DOMAIN values}
<1>1. Into(op, type, values) = Compiled(TRUE, type.builtin, FALSE, instrs)
  BY DEF Into, FitCode, SafeCode
<1>2. ASSUME NEW instr \in instrs PROVE instr.cast \/ Holds(instr.result, instr.operand)
  <2>1. PICK k \in DOMAIN values :
          instr \in values[k].instrs \/ instr = Instr(op, type.builtin, values[k])
    OBVIOUS
  <2>2. FitCode(values[k], type.builtin)
    OBVIOUS
  <2> QED BY <2>1, <2>2, InstrIs DEF FitCode, SafeCode
<1> HIDE DEF instrs
<1> QED BY <1>1, <1>2 DEF SafeCode, Compiled

\* The types set in the whole tree are those that the analysis of a place set.
Follows(typed, result) ==
  \A place \in DOMAIN result.types :
    place \in DOMAIN typed /\ typed[place] = result.types[place]

\* Neither a function nor an array of functions.
NoFunction(type) == type.builtin # "fn" /\ type.elem # "fn"

\* All else that parse_type builds has a type in libmcb.
LEMMA McbTypeIs ==
  ASSUME NEW type, type.builtin \in Parsed, type.builtin # "fn"
  PROVE  HasMcbType(type) /\ type.builtin \in Numbers \cup {"arr"}
BY DEF Parsed, HasMcbType

\* The gaps of the analysis, of a tree.
Checked(tree) ==
  /\ \A at \in DOMAIN tree : tree[at].kind = "BINARY" /\ tree[at].name = "as" =>
       /\ tree[Child(at, 2)].kind = "TYPE"
       /\ Passes(tree, Child(at, 1), NamedType(tree[Child(at, 2)].name, Child(at, 2)))
  /\ \A at \in DOMAIN tree : \A k \in 1..tree[at].kids :
       tree[Child(at, k)].kind = "TYPE" =>
         tree[at].kind = "BINARY" /\ tree[at].name = "as" /\ k = 2
  /\ \A at \in DOMAIN tree : tree[at].kind = "ELEM_INIT" => at = <<1>>
  /\ \A at \in DOMAIN tree :
       /\ tree[at].kind \in {"IDENT", "ARR_ELEM"} => NoFunction(IdentType(tree[at].name))
       /\ tree[at].kind = "FN_CALL" =>
            /\ NoFunction(ReturnType(tree[at].name))
            /\ \A k \in 1..tree[at].kids : NoFunction(ArgType(tree[at].name, k))

\* A value that the generator takes.
Plain(tree, at) ==
  /\ tree[at].kind \notin {"TYPE", "ELEM_INIT"}
  /\ \A k \in 1..tree[at].kids : tree[Child(at, k)].kind # "ELEM_INIT"

Generates(tree, typed, at, expect) ==
  /\ AnalyseTree(tree)[<<at, expect>>].ret = "SUCCESS"
  /\ Follows(typed, AnalyseTree(tree)[<<at, expect>>])
  /\ HasMcbType(expect)
  /\ Plain(tree, at)
  => FitCode(CompileTree(tree, typed)[at], expect.builtin)

\* What a plain value holds is plain.
LEMMA PlainBelow ==
  ASSUME NEW tree, IsTree(tree), Checked(tree), NEW at \in DOMAIN tree,
         NEW k \in 1..tree[at].kids,
         Plain(tree, at) \/ tree[at].kind = "ELEM_INIT",
         ~(tree[at].kind = "BINARY" /\ tree[at].name = "as" /\ k = 2)
  PROVE  Plain(tree, Child(at, k))
<1>1. /\ at \in Places /\ k \in Nat /\ Child(at, k) \in DOMAIN tree /\ Child(at, k) \in Places
      /\ \A j \in 1..tree[Child(at, k)].kids : j \in Nat /\ Child(Child(at, k), j) \in DOMAIN tree
  BY TreeIs
<1>2. Child(at, k) # <<>>
  BY ChildIs, <1>1 DEF Places
<1>3. tree[Child(at, k)].kind # "TYPE"
  BY DEF Checked
<1>4. tree[Child(at, k)].kind # "ELEM_INIT"
  <2>1. CASE Plain(tree, at)
    BY <2>1 DEF Plain
  <2>2. CASE tree[at].kind = "ELEM_INIT"
    <3>1. at = <<1>>
      BY <2>2 DEF Checked
    <3>2. Child(at, k) # <<1>>
      BY <1>1, <3>1, RootIs, ParentIs
    <3> QED BY <1>1, <3>2 DEF Checked
  <2> QED BY <2>1, <2>2
<1>5. ASSUME NEW j \in 1..tree[Child(at, k)].kids
      PROVE  tree[Child(Child(at, k), j)].kind # "ELEM_INIT"
  <2>1. Child(Child(at, k), j) # <<1>>
    <3>1. <<1>> = Child(<<>>, 1) /\ <<>> \in Places
      BY RootIs
    <3> QED BY <1>1, <1>2, <3>1, ParentIs
  <2> QED BY <1>1, <2>1 DEF Checked
<1> QED BY <1>3, <1>4, <1>5 DEF Plain

(* What the success of a node says of its children.                        *)
LEMMA SucceedsBelow ==
  ASSUME NEW tree, IsTree(tree), NEW at \in DOMAIN tree, NEW expect \in ZakoTypes,
         AnalyseTree(tree)[<<at, expect>>].ret = "SUCCESS", NEW typed,
         Follows(typed, AnalyseTree(tree)[<<at, expect>>]), NEW k \in 1..tree[at].kids
  PROVE  /\ Inner(tree, at, expect, k).ret # "ASSERT"
         /\ ~(tree[at].kind = "BINARY" /\ tree[at].name = "as" /\ k = 1) =>
              Inner(tree, at, expect, k).ret = "SUCCESS"
         /\ ~(tree[at].kind = "ARR_ELEM" /\ tree[Child(at, 1)].kind = "INT") =>
              Follows(typed, Inner(tree, at, expect, k))
         /\ at \in DOMAIN typed /\ typed[at] = expect
<1> DEFINE r == AnalyseTree(tree)[<<at, expect>>]
           type == Given(tree, at, expect, k)
<1>1. PICK used : Taken(tree, at, expect, r, used)
  BY TreeTaken
<1>2. k \in used /\ Inner(tree, at, expect, k).ret # "ASSERT"
  BY <1>1 DEF Taken
<1>3. Child(at, k) \in DOMAIN tree /\ type \in ZakoTypes
  BY GivenIs, TreeIs
<1>4. ~(tree[at].kind = "BINARY" /\ tree[at].name = "as" /\ k = 1) =>
        Inner(tree, at, expect, k).ret = "SUCCESS"
  <2>1. SUFFICES ASSUME ~(tree[at].kind = "BINARY" /\ tree[at].name = "as" /\ k = 1)
                 PROVE  Inner(tree, at, expect, k).ret = "SUCCESS"
    OBVIOUS
  <2>2. Passes(tree, at, expect)
    BY TreeAccepts DEF Accepts
  <2>3. Passes(tree, Child(at, k), type)
    BY <2>1, <2>2, GivenFits
  <2>4. Accepts(tree, Child(at, k), type)
    BY <1>3, TreeAccepts
  <2> QED BY <1>2, <2>3, <2>4 DEF Accepts, Inner
<1>5. ~(tree[at].kind = "ARR_ELEM" /\ tree[Child(at, 1)].kind = "INT") =>
        Follows(typed, Inner(tree, at, expect, k))
  BY <1>1, <1>2 DEF Taken, Follows, IsSized
<1>6. at \in DOMAIN typed /\ typed[at] = expect
  BY TreeTaken DEF Owned, Follows
<1> QED BY <1>2, <1>4, <1>5, <1>6

\* Literals and variables.
LEMMA LeafGenerates ==
  ASSUME NEW tree, IsTree(tree), NEW at \in DOMAIN tree, NEW expect \in ZakoTypes, NEW typed,
         tree[at].kind \in {"IDENT", "INT", "STRING", "CMP"}
  PROVE  Generates(tree, typed, at, expect)
<1> DEFINE r == AnalyseTree(tree)[<<at, expect>>]
           emit == CompileTree(tree, typed)[at]
<1>1. SUFFICES ASSUME r.ret = "SUCCESS", Follows(typed, r), HasMcbType(expect)
               PROVE  FitCode(emit, expect.builtin)
  BY DEF Generates
<1>2. At(typed, at) = expect
  BY <1>1, TreeTaken DEF Owned, Follows, At
<1>3. r.ret = AnalyseKind(tree, AnalyseTree(tree), at, expect).ret
  BY RetIs
<1>4. emit = CompileNode(tree, typed, CompileTree(tree, typed), at)
  BY CompileTreeIs
<1> HIDE DEF emit
<1>5. CASE tree[at].kind = "IDENT"
  <2> DEFINE type == IdentType(tree[at].name)
  <2>1. HasMcbType(type)
    <3>1. tree[at].name \in DOMAIN Idents /\ Idents[tree[at].name].builtin # "fn"
      BY <1>5, TreeIs DEF IsNode
    <3> QED BY <3>1, IdentTypeIs, McbTypeIs
  <2>2. CompareBuiltin(type.builtin, expect.builtin) = "SUCCESS"
    BY <1>1, <1>3, <1>5 DEF AnalyseKind, Result
  <2>3. Holds(expect.builtin, type.builtin)
    BY <2>2, CompareIs
  <2>4. emit = Fresh(type)
    BY <1>4, <1>5 DEF CompileNode
  <2> HIDE DEF type
  <2> QED BY <2>1, <2>3, <2>4, FreshSafe DEF FitCode
<1>6. CASE tree[at].kind \in {"INT", "STRING"}
  <2>1. emit = Fresh(expect)
    BY <1>2, <1>4, <1>6 DEF CompileNode
  <2>2. Holds(expect.builtin, expect.builtin)
    BY DEF Holds
  <2> QED BY <1>1, <2>1, <2>2, FreshSafe DEF FitCode
<1>7. CASE tree[at].kind = "CMP"
  BY <1>1, <1>3, <1>7 DEF AnalyseKind, Result
<1> QED BY <1>5, <1>6, <1>7

\* Parentheses, and the value of a primary expression.
LEMMA InnerGenerates ==
  ASSUME NEW tree, IsTree(tree), Checked(tree), NEW at \in DOMAIN tree,
         NEW expect \in ZakoTypes, NEW typed, tree[at].kind \in {"EXPR", "PRIMARY"},
         \A k \in 1..tree[at].kids : Generates(tree, typed, Child(at, k), Given(tree, at, expect, k))
  PROVE  Generates(tree, typed, at, expect)
<1> DEFINE r == AnalyseTree(tree)[<<at, expect>>]
           emit == CompileTree(tree, typed)[at]
<1>1. SUFFICES ASSUME r.ret = "SUCCESS", Follows(typed, r), HasMcbType(expect), Plain(tree, at)
               PROVE  FitCode(emit, expect.builtin)
  BY DEF Generates
<1>2. 1 \in 1..tree[at].kids
  BY TreeIs DEF IsNode
<1>3. emit = CompileTree(tree, typed)[Child(at, 1)]
  BY CompileTreeIs DEF CompileNode
<1>4. Given(tree, at, expect, 1) = expect
  BY DEF Given
<1>5. /\ Inner(tree, at, expect, 1).ret = "SUCCESS"
      /\ Follows(typed, Inner(tree, at, expect, 1))
  BY <1>1, <1>2, SucceedsBelow
<1>6. Plain(tree, Child(at, 1))
  BY <1>1, <1>2, PlainBelow
<1> QED BY <1>1, <1>2, <1>3, <1>4, <1>5, <1>6 DEF Generates, Inner

\* An operator: its result has the type both operands fit.  A cast: its operand.
LEMMA BinaryGenerates ==
  ASSUME NEW tree, IsTree(tree), Checked(tree), NEW at \in DOMAIN tree,
         NEW expect \in ZakoTypes, NEW typed, tree[at].kind = "BINARY",
         \A k \in 1..tree[at].kids : Generates(tree, typed, Child(at, k), Given(tree, at, expect, k))
  PROVE  Generates(tree, typed, at, expect)
<1> DEFINE r == AnalyseTree(tree)[<<at, expect>>]
           emit == CompileTree(tree, typed)[at]
           lhs == CompileTree(tree, typed)[Child(at, 1)]
           rhs == CompileTree(tree, typed)[Child(at, 2)]
           named == NamedType(tree[Child(at, 2)].name, Child(at, 2))
<1>1. SUFFICES ASSUME r.ret = "SUCCESS", Follows(typed, r), HasMcbType(expect), Plain(tree, at)
               PROVE  FitCode(emit, expect.builtin)
  BY DEF Generates
<1>2. 1 \in 1..tree[at].kids /\ 2 \in 1..tree[at].kids
  BY TreeIs DEF IsNode
<1>3. emit = CompileBinary(tree, typed, CompileTree(tree, typed), at)
  BY CompileTreeIs DEF CompileNode
<1>4. Given(tree, at, expect, 1) = expect /\ Given(tree, at, expect, 2) = expect
  BY DEF Given
<1>5. /\ Inner(tree, at, expect, 1).ret # "ASSERT"
      /\ Inner(tree, at, expect, 2).ret = "SUCCESS"
      /\ tree[at].name # "as" => Inner(tree, at, expect, 1).ret = "SUCCESS"
      /\ Follows(typed, Inner(tree, at, expect, 1))
      /\ Follows(typed, Inner(tree, at, expect, 2))
      /\ At(typed, at) = expect
  <2>1. /\ Inner(tree, at, expect, 1).ret # "ASSERT"
        /\ tree[at].name # "as" => Inner(tree, at, expect, 1).ret = "SUCCESS"
        /\ Follows(typed, Inner(tree, at, expect, 1))
        /\ at \in DOMAIN typed /\ typed[at] = expect
    BY <1>1, <1>2, SucceedsBelow
  <2>2. Inner(tree, at, expect, 2).ret = "SUCCESS" /\ Follows(typed, Inner(tree, at, expect, 2))
    <3> HIDE DEF lhs, rhs, emit, named
    <3> QED BY <1>1, <1>2, SucceedsBelow
  <2>3. At(typed, at) = expect
    BY <2>1 DEF At
  <2> QED BY <2>1, <2>2, <2>3
<1>6. Plain(tree, Child(at, 1)) /\ (tree[at].name # "as" => Plain(tree, Child(at, 2)))
  BY <1>1, <1>2, PlainBelow
<1>7. Child(at, 1) \in DOMAIN tree /\ Child(at, 2) \in DOMAIN tree
  BY <1>2, TreeIs
<1>8. CASE tree[at].name # "as"
  <2>1. FitCode(lhs, expect.builtin) /\ FitCode(rhs, expect.builtin)
    BY <1>1, <1>2, <1>4, <1>5, <1>6, <1>8 DEF Generates, Inner
  <2>2. emit = Into("binary", expect, <<lhs, rhs>>)
    BY <1>3, <1>5, <1>8 DEF CompileBinary
  <2> HIDE DEF lhs, rhs, emit
  <2>3. \A k \in DOMAIN <<lhs, rhs>> : FitCode(<<lhs, rhs>>[k], expect.builtin)
    BY <2>1
  <2>4. SafeCode(emit) /\ emit.builtin = expect.builtin
    BY <1>1, <2>2, <2>3, IntoSafe
  <2>5. Holds(expect.builtin, expect.builtin)
    BY DEF Holds
  <2> QED BY <2>4, <2>5 DEF FitCode
<1>9. CASE tree[at].name = "as"
  <2>1. tree[Child(at, 2)].kind = "TYPE" /\ Passes(tree, Child(at, 1), named)
    BY <1>9 DEF Checked
  <2>2. /\ named \in ZakoTypes /\ named.builtin = tree[Child(at, 2)].name
        /\ tree[Child(at, 2)].name \in Numbers \cup {"fn"}
    <3>1. Child(at, 2) \in Places /\ tree[Child(at, 2)].name \in Numbers \cup {"fn"}
      BY <1>7, <2>1, TreeIs DEF IsNode
    <3> QED BY <3>1, NamedTypeIs DEF BuiltinTypes
  <2>3. Holds(expect.builtin, named.builtin)
    <3>1. Inner(tree, at, expect, 2) = AnalyseTree(tree)[<<Child(at, 2), expect>>]
      BY <1>4 DEF Inner
    <3>2. AnalyseTree(tree)[<<Child(at, 2), expect>>].ret
            = CompareBuiltin(tree[Child(at, 2)].name, expect.builtin)
      <4> DEFINE second == Child(at, 2)
      <4>1. second \in DOMAIN tree /\ tree[second].kind = "TYPE"
        BY <1>7, <2>1
      <4> HIDE DEF second
      <4>2. AnalyseTree(tree)[<<second, expect>>].ret
              = AnalyseKind(tree, AnalyseTree(tree), second, expect).ret
        BY <4>1, RetIs
      <4>3. AnalyseKind(tree, AnalyseTree(tree), second, expect)
              = Result(CompareBuiltin(tree[second].name, expect.builtin), Nothing)
        BY <4>1 DEF AnalyseKind
      <4>4. AnalyseTree(tree)[<<second, expect>>].ret
              = CompareBuiltin(tree[second].name, expect.builtin)
        BY <4>2, <4>3 DEF Result
      <4> QED BY <4>4 DEF second
    <3> QED BY <1>5, <2>2, <3>1, <3>2, CompareIs
  <2>4. named.builtin \in Numbers
    BY <1>1, <2>2, <2>3 DEF HasMcbType, Holds, Numbers, Signed, Unsigned
  <2>5. Passes(tree, Child(at, 1), expect)
    <3>1. Wider(expect, named)
      BY <2>2, <2>3, <2>4 DEF Wider
    <3> HIDE DEF named
    <3> QED BY <1>7, <2>1, <2>2, <3>1, TreeWidens DEF Widens
  <2>6. Inner(tree, at, expect, 1).ret = "SUCCESS"
    BY <1>4, <1>5, <1>7, <2>5, TreeAccepts DEF Accepts, Inner
  <2>7. FitCode(lhs, expect.builtin)
    BY <1>1, <1>2, <1>4, <1>5, <1>6, <2>6 DEF Generates, Inner
  <2>8. emit = Cast(lhs)
    BY <1>3, <1>9 DEF CompileBinary
  <2> HIDE DEF lhs, emit
  <2> QED BY <2>7, <2>8 DEF FitCode, SafeCode, Cast, Compiled
<1> QED BY <1>8, <1>9

\* A call: its arguments go where they fit.
LEMMA FnCallGenerates ==
  ASSUME NEW tree, IsTree(tree), Checked(tree), NEW at \in DOMAIN tree,
         NEW expect \in ZakoTypes, NEW typed, tree[at].kind = "FN_CALL",
         \A k \in 1..tree[at].kids : Generates(tree, typed, Child(at, k), Given(tree, at, expect, k))
  PROVE  Generates(tree, typed, at, expect)
<1> DEFINE r == AnalyseTree(tree)[<<at, expect>>]
           C == CompileTree(tree, typed)
           name == tree[at].name
           args == [k \in 1..tree[at].kids |-> C[Child(at, k)]]
           instrs == UNION {args[k].instrs \cup {Instr("arg", ArgType(name, k).builtin, args[k])}
                              : k \in DOMAIN args}
<1>1. SUFFICES ASSUME r.ret = "SUCCESS", Follows(typed, r), HasMcbType(expect), Plain(tree, at)
               PROVE  FitCode(C[at], expect.builtin)
  BY DEF Generates
<1>2. \A k \in 1..tree[at].kids : FitCode(args[k], ArgType(name, k).builtin)
  <2> SUFFICES ASSUME NEW k \in 1..tree[at].kids
               PROVE  FitCode(C[Child(at, k)], ArgType(name, k).builtin)
    OBVIOUS
  <2>1. Given(tree, at, expect, k) = ArgType(name, k)
    BY DEF Given
  <2>2. Inner(tree, at, expect, k).ret = "SUCCESS" /\ Follows(typed, Inner(tree, at, expect, k))
    BY <1>1, SucceedsBelow
  <2>3. Plain(tree, Child(at, k))
    BY <1>1, PlainBelow
  <2>4. HasMcbType(ArgType(name, k))
    BY PassedIs, McbTypeIs DEF Checked, NoFunction
  <2> QED BY <2>1, <2>2, <2>3, <2>4 DEF Generates, Inner
<1>3. C[at] = IF HasMcbType(ReturnType(name)) /\ \A k \in DOMAIN args : args[k].ok
              THEN Compiled(TRUE, ReturnType(name).builtin, FALSE, instrs) ELSE Panic
  BY CompileTreeIs DEF CompileNode, CompileFnCall
<1>4. DOMAIN args = 1..tree[at].kids /\ HasMcbType(ReturnType(name))
  <2>1. name \in DOMAIN Functions
    BY TreeIs DEF IsNode
  <2> QED BY <2>1, ReturnTypeIs, McbTypeIs DEF Checked, NoFunction
<1> HIDE DEF args
<1>5. C[at] = Compiled(TRUE, ReturnType(name).builtin, FALSE, instrs)
  BY <1>2, <1>3, <1>4 DEF FitCode, SafeCode
<1>6. ASSUME NEW instr \in instrs PROVE instr.cast \/ Holds(instr.result, instr.operand)
  <2>1. PICK k \in 1..tree[at].kids :
          instr \in args[k].instrs \/ instr = Instr("arg", ArgType(name, k).builtin, args[k])
    BY <1>4
  <2>2. FitCode(args[k], ArgType(name, k).builtin)
    BY <1>2
  <2> QED BY <2>1, <2>2, InstrIs DEF FitCode, SafeCode
<1>7. Holds(expect.builtin, ReturnType(name).builtin)
  <2>1. DemandsOf(tree, Demands(tree), at, expect)
          = {Demand(at, expect)} \cup
              UNION {Demands(tree)[<<Child(at, k), ArgType(name, k)>>] : k \in 1..tree[at].kids}
    BY DEF DemandsOf
  <2>2. Suits(tree, Demand(at, expect))
    BY <1>1, <2>1, TreeAccepts, FitsIs DEF Accepts
  <2> QED BY <2>2, SuitsIs
<1> HIDE DEF instrs, C
<1>8. C[at].ok /\ C[at].builtin = ReturnType(name).builtin /\ C[at].instrs = instrs
  BY <1>5 DEF Compiled
<1> QED BY <1>6, <1>7, <1>8 DEF FitCode, SafeCode

\* An array element: its index fits u64, whatever size its literal has.
LEMMA ArrElemGenerates ==
  ASSUME NEW tree, IsTree(tree), Checked(tree), NEW at \in DOMAIN tree,
         NEW expect \in ZakoTypes, NEW typed, tree[at].kind = "ARR_ELEM",
         \A k \in 1..tree[at].kids : Generates(tree, typed, Child(at, k), Given(tree, at, expect, k))
  PROVE  Generates(tree, typed, at, expect)
<1> DEFINE r == AnalyseTree(tree)[<<at, expect>>]
           C == CompileTree(tree, typed)
           place == Child(at, 1)
           u64 == IndexType("u64", place)
           elem == IdentType(tree[at].name).elem
           idx == C[place]
<1>1. SUFFICES ASSUME r.ret = "SUCCESS", Follows(typed, r), HasMcbType(expect), Plain(tree, at)
               PROVE  FitCode(C[at], expect.builtin)
  BY DEF Generates
<1>2. /\ 1 \in 1..tree[at].kids /\ place \in DOMAIN tree /\ place \in Places
      /\ u64 \in ZakoTypes /\ u64.builtin = "u64"
  <2>1. 1 \in 1..tree[at].kids
    BY TreeIs DEF IsNode
  <2>2. place \in DOMAIN tree /\ place \in Places
    BY <2>1, TreeIs
  <2> QED BY <2>1, <2>2, IndexTypeIs DEF BuiltinTypes, Numbers, Unsigned
<1>3. Given(tree, at, expect, 1) = u64
  BY DEF Given
<1>4. FitCode(idx, "u64")
  <2>1. CASE tree[place].kind # "INT"
    <3>1. /\ Inner(tree, at, expect, 1).ret = "SUCCESS"
          /\ Follows(typed, Inner(tree, at, expect, 1))
      BY <1>1, <1>2, <2>1, SucceedsBelow
    <3>2. Plain(tree, place)
      BY <1>1, <1>2, PlainBelow
    <3>3. HasMcbType(u64)
      BY <1>2 DEF HasMcbType, Numbers, Unsigned
    <3>4. Generates(tree, typed, place, u64)
      BY <1>2, <1>3
    <3> HIDE DEF u64
    <3> QED BY <1>2, <1>3, <3>1, <3>2, <3>3, <3>4 DEF Generates, Inner
  <2>2. CASE tree[place].kind = "INT"
    <3>1. PICK used : Taken(tree, at, expect, r, used)
      BY TreeTaken
    <3>2. 1 \in used
      BY <1>1, <1>2, <3>1 DEF Taken
    <3>3. place \in DOMAIN Inner(tree, at, expect, 1).types
          /\ Inner(tree, at, expect, 1).types[place] = u64
      <4>1. Inner(tree, at, expect, 1).ret = "SUCCESS"
        <5>1. tree[at].kind # "BINARY"
          OBVIOUS
        <5> HIDE DEF u64, place
        <5> QED BY <1>1, <1>2, <5>1, SucceedsBelow
      <4>2. Owned(place, u64, Inner(tree, at, expect, 1))
        BY <1>2, <1>3, TreeTaken DEF Inner
      <4> QED BY <4>1, <4>2 DEF Owned
    <3>4. /\ place \in DOMAIN typed
          /\ typed[place] = u64 \/ IsSized(tree, at, typed[place])
      BY <1>1, <3>1, <3>2, <3>3 DEF Taken, Follows
    <3>5. PICK b \in Unsigned : typed[place] = IndexType(b, place)
      <4>1. "u64" \in Unsigned
        BY DEF Unsigned
      <4> QED BY <3>4, <4>1 DEF IsSized
    <3>6. idx = Fresh(At(typed, place))
      BY <1>2, <2>2, CompileTreeIs DEF CompileNode
    <3>7. At(typed, place).builtin = b /\ HasMcbType(At(typed, place))
      <4>1. At(typed, place) = IndexType(b, place)
        BY <3>4, <3>5 DEF At
      <4>2. IndexType(b, place).builtin = b
        BY DEF IndexType, Type, PlainType
      <4>3. b \in Numbers
        BY <3>5 DEF Numbers
      <4> HIDE DEF place
      <4> QED BY <4>1, <4>2, <4>3 DEF HasMcbType
    <3>8. Holds("u64", b)
      BY DEF Holds, Unsigned, Bits
    <3> HIDE DEF idx
    <3> QED BY <3>6, <3>7, <3>8, FreshSafe DEF FitCode
  <2> QED BY <2>1, <2>2
<1>5. Holds(expect.builtin, elem)
  <2>1. DemandsOf(tree, Demands(tree), at, expect)
          = {Demand(at, expect)} \cup Demands(tree)[<<place, u64>>]
    BY DEF DemandsOf
  <2>2. Suits(tree, Demand(at, expect))
    BY <1>1, <2>1, TreeAccepts, FitsIs DEF Accepts
  <2> QED BY <2>2, SuitsIs
<1>6. C[at] = IF idx.ok
              THEN Compiled(TRUE, elem, FALSE, idx.instrs \cup {Instr("index", "u64", idx)})
              ELSE Panic
  BY CompileTreeIs DEF CompileNode, CompileArrElem
<1> HIDE DEF C, idx, elem
<1>7. /\ C[at].ok /\ C[at].builtin = elem
      /\ C[at].instrs = idx.instrs \cup {Instr("index", "u64", idx)}
  BY <1>4, <1>6 DEF Compiled, FitCode, SafeCode
<1>8. idx.cast \/ Holds("u64", idx.builtin)
  BY <1>4 DEF FitCode
<1>9. \A instr \in C[at].instrs : instr.cast \/ Holds(instr.result, instr.operand)
  BY <1>4, <1>7, <1>8, InstrIs DEF FitCode, SafeCode
<1> QED BY <1>5, <1>7, <1>9 DEF FitCode, SafeCode

\* Every place of every tree, by induction.
LEMMA TreeGenerates ==
  ASSUME NEW tree, IsTree(tree), Checked(tree), NEW typed, NEW at \in DOMAIN tree,
         NEW expect \in ZakoTypes
  PROVE  Generates(tree, typed, at, expect)
<1> DEFINE G == {place \in DOMAIN tree : \A type \in ZakoTypes : Generates(tree, typed, place, type)}
<1>1. ASSUME NEW place \in DOMAIN tree, \A k \in 1..tree[place].kids : Child(place, k) \in G
      PROVE  place \in G
  <2>1. SUFFICES ASSUME NEW type \in ZakoTypes PROVE Generates(tree, typed, place, type)
    OBVIOUS
  <2>2. \A k \in 1..tree[place].kids :
          Generates(tree, typed, Child(place, k), Given(tree, place, type, k))
    BY <1>1, GivenIs
  <2>3. IsNode(tree[place])
    BY TreeIs
  <2>4. tree[place].kind \in {"TYPE", "ELEM_INIT"} => Generates(tree, typed, place, type)
    BY DEF Generates, Plain
  <2> QED BY <2>2, <2>3, <2>4, LeafGenerates, InnerGenerates, BinaryGenerates, FnCallGenerates,
             ArrElemGenerates DEF IsNode
<1>2. \A place \in DOMAIN tree : place \in G
  <2> HIDE DEF G
  <2> QED BY <1>1, TreeInduction
<1> QED BY <1>2

(* A whole expression without an initialiser.                              *)
LEMMA WholeGenerates ==
  ASSUME NEW tree, IsTree(tree), Checked(tree), NEW expect \in ZakoTypes, HasMcbType(expect),
         AnalyseExpr(tree, expect).ret = "SUCCESS",
         \A at \in DOMAIN tree : tree[at].kind # "ELEM_INIT", tree[<<>>].kind # "TYPE"
  PROVE  FitCode(CompileTree(tree, AnalyseExpr(tree, expect).types)[<<>>], expect.builtin)
<1> DEFINE root == <<>>
           r == AnalyseTree(tree)[<<root, expect>>]
<1>1. root \in DOMAIN tree /\ \A k \in 1..tree[root].kids : Child(root, k) \in DOMAIN tree
  BY TreeIs DEF IsTree
<1>2. AnalyseExpr(tree, expect) = r
  BY DEF AnalyseExpr
<1>3. Follows(r.types, r)
  BY DEF Follows
<1>4. Plain(tree, root)
  BY <1>1 DEF Plain
<1>5. Generates(tree, r.types, root, expect)
  BY <1>1, TreeGenerates
<1> HIDE DEF r
<1>6. FitCode(CompileTree(tree, r.types)[root], expect.builtin)
  BY <1>2, <1>3, <1>4, <1>5 DEF Generates, r
<1> QED BY <1>2, <1>6

(* An array and its initialiser.                                           *)
LEMMA ArrLetGenerates ==
  ASSUME NEW tree, IsTree(tree), Checked(tree), NEW name \in DOMAIN Idents,
         IdentType(name).builtin = "arr", NoFunction(IdentType(name)), tree[<<>>].kind = "PRIMARY",
         tree[<< 1 >>].kind = "ELEM_INIT", AnalyseExpr(tree, IdentType(name)).ret = "SUCCESS"
  PROVE  SafeCode(CompileArrLet(IdentType(name), tree, AnalyseExpr(tree, IdentType(name)).types))
<1> DEFINE expect == IdentType(name)
           elem == ElemType(expect)
           r == AnalyseExpr(tree, expect)
           set == r.types
           root == <<>>
           init == <<1>>
           stored == {k \in 1..tree[init].kids : k <= expect.size}
           elems == [k \in stored |-> CompileTree(tree, set)[<<1, k>>]]
<1>1. /\ root \in DOMAIN tree /\ tree[root].kids = 1 /\ init = Child(root, 1)
      /\ init \in DOMAIN tree /\ root \in Places /\ init \in Places
  <2>1. root \in DOMAIN tree
    BY DEF IsTree
  <2>2. tree[root].kids = 1 /\ \A k \in 1..tree[root].kids : Child(root, k) \in DOMAIN tree
    BY <2>1, TreeIs DEF IsNode
  <2> QED BY <2>1, <2>2, RootIs, TreeIs
<1>2. expect \in ZakoTypes /\ elem \in ZakoTypes /\ HasMcbType(elem)
  BY IdentTypeIs, ElemBuiltin, McbTypeIs DEF NoFunction
<1>3. r = AnalyseTree(tree)[<<root, expect>>]
  BY DEF AnalyseExpr
<1>4. \A k : <<1, k>> = Child(init, k)
  BY DEF Child
<1> HIDE DEF expect, elem, root, init, stored
<1>5. Inner(tree, root, expect, 1) = AnalyseTree(tree)[<<init, expect>>]
  BY <1>1 DEF Inner, Given, root
<1>6. tree[root].kind = "PRIMARY" /\ tree[init].kind = "ELEM_INIT"
  BY DEF root, init
<1> HIDE DEF r
<1>7. Follows(set, AnalyseTree(tree)[<<root, expect>>])
  BY <1>3 DEF Follows
<1>8. AnalyseTree(tree)[<<root, expect>>].ret = "SUCCESS"
  BY <1>3 DEF r, expect
<1>9. /\ AnalyseTree(tree)[<<init, expect>>].ret = "SUCCESS"
      /\ Follows(set, AnalyseTree(tree)[<<init, expect>>])
  <2>1. tree[root].kind # "BINARY" /\ tree[root].kind # "ARR_ELEM" /\ 1 \in 1..tree[root].kids
    BY <1>1, <1>6
  <2> HIDE DEF set
  <2>2. /\ Inner(tree, root, expect, 1).ret = "SUCCESS"
        /\ Follows(set, Inner(tree, root, expect, 1))
    BY <1>1, <1>2, <1>7, <1>8, <2>1, SucceedsBelow, SMTT(30)
  <2> QED BY <1>5, <2>2
<1>10. ASSUME NEW k \in 1..tree[init].kids
       PROVE  FitCode(CompileTree(tree, set)[Child(init, k)], elem.builtin)
  <2>1. Given(tree, init, expect, k) = elem
    BY <1>6 DEF Given, elem
  <2>2. tree[init].kind # "BINARY" /\ tree[init].kind # "ARR_ELEM"
    BY <1>6
  <2> HIDE DEF set
  <2>3. /\ Inner(tree, init, expect, k).ret = "SUCCESS"
        /\ Follows(set, Inner(tree, init, expect, k))
    BY <1>1, <1>2, <1>9, <2>2, SucceedsBelow, SMTT(30)
  <2>4. Plain(tree, Child(init, k))
    BY <1>1, <1>6, <2>2, PlainBelow
  <2>5. Child(init, k) \in DOMAIN tree
    BY <1>1, TreeIs
  <2>6. Generates(tree, set, Child(init, k), elem)
    BY <1>2, <2>5, TreeGenerates
  <2> QED BY <1>2, <2>1, <2>3, <2>4, <2>6 DEF Generates, Inner
<1>11. \A k \in DOMAIN elems : FitCode(elems[k], elem.builtin)
  <2>1. stored \subseteq 1..tree[init].kids
    BY DEF stored
  <2> QED BY <1>4, <1>10, <2>1
<1>12. CompileArrLet(expect, tree, set) = Into("store", elem, elems)
  BY <1>6, Zenon DEF CompileArrLet, elem, stored, init, root
<1> HIDE DEF elems, set
<1>13. SafeCode(CompileArrLet(expect, tree, set))
  BY <1>2, <1>11, <1>12, IntoSafe
<1> QED BY <1>13 DEF expect, set, r

\* Both operands of an assignment take the type of its left one.
LEMMA AssignGenerates ==
  ASSUME NEW tree, IsTree(tree), Checked(tree), tree[<<>>].kind = "BINARY",
         tree[<<>>].name # "as", \A at \in DOMAIN tree : tree[at].kind # "ELEM_INIT",
         AnalyseAssign(tree).ret = "SUCCESS"
  PROVE  SafeCode(CompileAssign(tree, AnalyseAssign(tree).types))
<1> DEFINE root == <<>>
           lhs == <<1>>
           rhs == <<2>>
           expect == IF tree[lhs].kind = "IDENT" THEN IdentType(tree[lhs].name)
                     ELSE ElemType(IdentType(tree[lhs].name))
           r == AnalyseTree(tree)[<<root, expect>>]
           C == CompileTree(tree, r.types)
<1>1. /\ root \in DOMAIN tree /\ 1 \in 1..tree[root].kids /\ 2 \in 1..tree[root].kids
      /\ lhs = Child(root, 1) /\ rhs = Child(root, 2)
      /\ lhs \in DOMAIN tree /\ rhs \in DOMAIN tree
  <2>1. root \in DOMAIN tree
    BY DEF IsTree
  <2>2. tree[root].kids = 2 /\ \A k \in 1..tree[root].kids : Child(root, k) \in DOMAIN tree
    BY <2>1, TreeIs DEF IsNode
  <2> QED BY <2>1, <2>2, RootIs
<1>2. AnalyseAssign(tree) = r /\ tree[lhs].kind \in {"IDENT", "ARR_ELEM"}
  <2>1. \/ AnalyseAssign(tree) = Result("NULL", Nothing)
        \/ AnalyseAssign(tree) = Result("CANNOT_BE_ASSIGNED", Nothing)
        \/ AnalyseAssign(tree) = r /\ tree[lhs].kind \in {"IDENT", "ARR_ELEM"}
    BY Zenon DEF AnalyseAssign, AnalyseExpr
  <2>2. Result("NULL", Nothing).ret # "SUCCESS" /\ Result("CANNOT_BE_ASSIGNED", Nothing).ret # "SUCCESS"
    BY DEF Result
  <2> HIDE DEF r
  <2> QED BY <2>1, <2>2
<1>3. expect \in ZakoTypes /\ HasMcbType(expect)
  <2>1. IsNode(tree[lhs])
    BY <1>1, TreeIs
  <2>2. CASE tree[lhs].kind = "IDENT"
    <3>1. tree[lhs].name \in DOMAIN Idents /\ Idents[tree[lhs].name].builtin # "fn"
      BY <2>1, <2>2 DEF IsNode
    <3> QED BY <2>2, <3>1, IdentTypeIs, McbTypeIs
  <2>3. CASE tree[lhs].kind = "ARR_ELEM"
    <3>1. tree[lhs].name \in DOMAIN Idents /\ Idents[tree[lhs].name].builtin = "arr"
      BY <2>1, <2>3 DEF IsNode
    <3>2. IdentType(tree[lhs].name).builtin = "arr" /\ IdentType(tree[lhs].name).elem # "fn"
      BY <1>1, <2>3, <3>1, IdentTypeIs DEF Checked, NoFunction
    <3>3. expect = ElemType(IdentType(tree[lhs].name))
      BY <2>3
    <3>4. ElemType(IdentType(tree[lhs].name)).builtin = IdentType(tree[lhs].name).elem
      BY ElemBuiltin
    <3> QED BY <3>1, <3>2, <3>3, <3>4, IdentTypeIs, McbTypeIs
  <2> QED BY <1>2, <2>2, <2>3
<1>4. Given(tree, root, expect, 1) = expect /\ Given(tree, root, expect, 2) = expect
  BY DEF Given
<1>5. Follows(r.types, r) /\ r.ret = "SUCCESS"
  BY <1>2 DEF Follows
<1>6. tree[root].kind = "BINARY" /\ tree[root].name # "as"
  OBVIOUS
<1> HIDE DEF root, lhs, rhs, expect
<1>7. ASSUME NEW k \in {1, 2} PROVE FitCode(C[Child(root, k)], expect.builtin)
  <2>1. k \in 1..tree[root].kids /\ Child(root, k) \in DOMAIN tree
    BY <1>1
  <2>2. Given(tree, root, expect, k) = expect
    BY <1>4
  <2>3. Inner(tree, root, expect, k).ret = "SUCCESS" /\ Follows(r.types, Inner(tree, root, expect, k))
    BY <1>1, <1>3, <1>5, <1>6, <2>1, SucceedsBelow
  <2>4. Plain(tree, root)
    BY <1>1, <1>6, TreeIs DEF Plain
  <2>5. Plain(tree, Child(root, k))
    BY <1>1, <1>6, <2>1, <2>4, PlainBelow
  <2>6. Generates(tree, r.types, Child(root, k), expect)
    BY <1>3, <2>1, TreeGenerates
  <2> QED BY <1>3, <2>2, <2>3, <2>5, <2>6 DEF Generates, Inner
<1>8. C[lhs].builtin = expect.builtin
  <2>1. C[lhs] = CompileNode(tree, r.types, C, lhs)
    BY <1>1, CompileTreeIs
  <2>2. C[lhs].ok
    BY <1>1, <1>7 DEF FitCode, SafeCode
  <2> HIDE DEF C
  <2>3. CASE tree[lhs].kind = "IDENT"
    <3>1. C[lhs] = Fresh(expect)
      BY <2>1, <2>3 DEF CompileNode, expect
    <3> QED BY <1>3, <3>1, FreshSafe
  <2>4. CASE tree[lhs].kind = "ARR_ELEM"
    <3>1. C[lhs] = Panic \/ \E instrs : C[lhs] = Compiled(TRUE, IdentType(tree[lhs].name).elem, FALSE, instrs)
      BY <2>1, <2>4, Zenon DEF CompileNode, CompileArrElem
    <3>2. ~Panic.ok
      BY DEF Panic, Compiled
    <3>3. C[lhs].builtin = IdentType(tree[lhs].name).elem
      <4>1. PICK instrs : C[lhs] = Compiled(TRUE, IdentType(tree[lhs].name).elem, FALSE, instrs)
        BY <2>2, <3>1, <3>2
      <4>2. Compiled(TRUE, IdentType(tree[lhs].name).elem, FALSE, instrs).builtin
              = IdentType(tree[lhs].name).elem
        BY DEF Compiled
      <4> QED BY <4>1, <4>2
    <3>4. expect = ElemType(IdentType(tree[lhs].name))
      BY <2>4 DEF expect
    <3> QED BY <3>3, <3>4, ElemBuiltin
  <2> QED BY <1>2, <2>3, <2>4
<1> DEFINE type == PlainType(C[lhs].builtin, "none", "", <<>>)
           a == C[lhs]
           b == C[rhs]
<1>9. type.builtin = expect.builtin /\ HasMcbType(type)
  BY <1>3, <1>8 DEF Type, PlainType, HasMcbType
<1>10. FitCode(a, type.builtin) /\ FitCode(b, type.builtin)
  BY <1>1, <1>7, <1>9
<1>11. CompileAssign(tree, r.types) = Into("store", type, <<b>>)
       \/ CompileAssign(tree, r.types) = Into("binary", type, <<a, b>>)
  BY Zenon DEF CompileAssign, lhs, rhs
<1> HIDE DEF type, a, b
<1>12. /\ \A k \in DOMAIN <<b>> : FitCode(<<b>>[k], type.builtin)
       /\ \A k \in DOMAIN <<a, b>> : FitCode(<<a, b>>[k], type.builtin)
  BY <1>10
<1>13. SafeCode(CompileAssign(tree, r.types))
  BY <1>9, <1>11, <1>12, IntoSafe
<1> HIDE DEF r
<1> QED BY <1>2, <1>13

(* The operands of a comparison, each of its own type.                     *)
LEMMA CmpGenerates ==
  ASSUME NEW tree, IsTree(tree), << 1 >> \in DOMAIN tree, << 2 >> \in DOMAIN tree,
         tree[<< 1 >>].kind \in {"INT", "IDENT"}, tree[<< 2 >>].kind \in {"INT", "IDENT"}
  PROVE  SafeCode(CompileCmp(tree, AnalyseCmp(tree).types))
<1> DEFINE own == AnalyseCmp(tree)
           set == own.types
           C == CompileTree(tree, set)
           a == C[<<1>>]
           b == C[<<2>>]
<1>1. ASSUME NEW place \in {<< 1 >>, << 2 >>} PROVE SafeCode(C[place]) /\ C[place].instrs = {}
  <2>1. place \in DOMAIN tree /\ tree[place].kind \in {"INT", "IDENT"}
    OBVIOUS
  <2>2. C[place] = CompileNode(tree, set, C, place)
    BY <2>1, CompileTreeIs
  <2> HIDE DEF C, set
  <2>3. CASE tree[place].kind = "INT"
    <3>1. C[place] = Fresh(At(set, place))
      BY <2>2, <2>3 DEF CompileNode
    <3>2. HasMcbType(At(set, place))
      BY <2>3, CmpIs DEF Compared, At, set
    <3> QED BY <3>1, <3>2, FreshSafe
  <2>4. CASE tree[place].kind = "IDENT"
    <3>1. C[place] = Fresh(IdentType(tree[place].name))
      BY <2>2, <2>4 DEF CompileNode
    <3>2. HasMcbType(IdentType(tree[place].name))
      <4>1. tree[place].name \in DOMAIN Idents /\ Idents[tree[place].name].builtin # "fn"
        BY <2>1, <2>4, TreeIs DEF IsNode
      <4> QED BY <4>1, IdentTypeIs, McbTypeIs
    <3> QED BY <3>1, <3>2, FreshSafe
  <2> QED BY <2>1, <2>3, <2>4
<1>2. SafeCode(a) /\ SafeCode(b) /\ a.instrs = {} /\ b.instrs = {}
  BY <1>1
<1>3. CompileCmp(tree, set) = IF a.ok /\ b.ok
                              THEN Compiled(TRUE, "cmp", FALSE, a.instrs \cup b.instrs) ELSE Panic
  BY DEF CompileCmp
<1> HIDE DEF a, b, set
<1>4. CompileCmp(tree, set) = Compiled(TRUE, "cmp", FALSE, {})
  BY <1>2, <1>3 DEF SafeCode
<1>5. SafeCode(Compiled(TRUE, "cmp", FALSE, {}))
  BY DEF SafeCode, Compiled
<1> QED BY <1>4, <1>5 DEF set

\* Outside the gaps of the analysis.
Closed(s) ==
  LET tree == s.expr
      whole == tree[<<>>].kind = "PRIMARY" /\ tree[<<1>>].kind = "ELEM_INIT"
      array == s.kind = "let" /\ IdentType(s.name).builtin = "arr"
  IN  /\ Checked(tree)
      /\ array <=> whole
      /\ ~whole => \A at \in DOMAIN tree : tree[at].kind # "ELEM_INIT"
      /\ tree[<<>>].kind = "CMP" =>
           tree[<<1>>].kind \in {"INT", "IDENT"} /\ tree[<<2>>].kind \in {"INT", "IDENT"}
      /\ s.kind = "let" => NoFunction(IdentType(s.name))
      /\ s.kind = "return" => NoFunction(ReturnType(s.name))

\* Every statement outside the gaps.
LEMMA StatementGenerates ==
  ASSUME NEW s, IsStatement(s), Closed(s), AnalysisOf(s).ret = "SUCCESS"
  PROVE  SafeCode(CompilationOf(s, AnalysisOf(s).types))
<1> DEFINE tree == s.expr
           set == AnalysisOf(s).types
           root == <<>>
           C == CompileTree(tree, set)
<1>1. /\ IsTree(tree) /\ root \in DOMAIN tree /\ IsNode(tree[root])
      /\ s.kind \in {"let", "return", "call", "assign", "if", "while"}
  BY StatementIs, TreeIs
<1>2. Checked(tree)
  BY DEF Closed
<1>3. ASSUME NEW expect \in ZakoTypes, expect.builtin \in Numbers \cup {"arr"},
             AnalysisOf(s) = AnalyseExpr(tree, expect), tree[root].kind # "TYPE",
             ~(s.kind = "let" /\ IdentType(s.name).builtin = "arr")
      PROVE  FitCode(C[root], expect.builtin) /\ HasMcbType(expect)
  <2>1. HasMcbType(expect)
    BY <1>3 DEF HasMcbType
  <2>2. \A at \in DOMAIN tree : tree[at].kind # "ELEM_INIT"
    BY <1>3 DEF Closed
  <2> QED BY <1>1, <1>2, <1>3, <2>1, <2>2, WholeGenerates
<1>4. ASSUME NEW op, NEW type, NEW value, HasMcbType(type), FitCode(value, type.builtin)
      PROVE  SafeCode(Into(op, type, <<value>>))
  <2>1. \A k \in DOMAIN <<value>> : FitCode(<<value>>[k], type.builtin)
    BY <1>4
  <2> QED BY <1>4, <2>1, IntoSafe
<1>5. tree[root].kind # "TYPE"
  BY DEF IsStatement
<1>6. CASE s.kind = "let"
  <2> DEFINE expect == IdentType(s.name)
  <2>1. s.name \in DOMAIN Idents /\ AnalysisOf(s) = AnalyseExpr(tree, expect)
    BY <1>6, StatementIs DEF AnalysisOf
  <2>2. expect \in ZakoTypes /\ expect.builtin \in Numbers \cup {"arr"}
    BY <1>6, <2>1, IdentTypeIs, McbTypeIs DEF Closed, NoFunction
  <2>3. CompilationOf(s, set) = CompileLet(s.name, tree, set)
    BY <1>6 DEF CompilationOf
  <2>4. CASE expect.builtin = "arr"
    <3>1. tree[<<>>].kind = "PRIMARY" /\ tree[<<1>>].kind = "ELEM_INIT"
      BY <1>6, <2>4 DEF Closed
    <3>4. NoFunction(expect)
      BY <1>6 DEF Closed
    <3>2. SafeCode(CompileArrLet(expect, tree, AnalyseExpr(tree, expect).types))
      BY <1>1, <1>2, <2>1, <2>4, <3>1, <3>4, ArrLetGenerates
    <3>3. CompileLet(s.name, tree, set) = CompileArrLet(expect, tree, set)
      BY <2>4 DEF CompileLet
    <3> QED BY <2>1, <2>3, <3>2, <3>3
  <2>5. CASE expect.builtin # "arr"
    <3>1. FitCode(C[root], expect.builtin) /\ HasMcbType(expect)
      BY <1>3, <1>5, <2>1, <2>2, <2>5
    <3>2. CompileLet(s.name, tree, set) = Into("store", expect, <<C[root]>>)
      BY <2>5 DEF CompileLet
    <3> HIDE DEF C, set, expect
    <3>3. SafeCode(CompilationOf(s, set))
      BY <1>4, <2>3, <3>1, <3>2
    <3> QED BY <3>3 DEF set
  <2> QED BY <2>4, <2>5
<1>7. CASE s.kind = "return"
  <2> DEFINE expect == ReturnType(s.name)
  <2>1. s.name \in DOMAIN Functions /\ AnalysisOf(s) = AnalyseExpr(tree, expect)
    BY <1>7, StatementIs DEF AnalysisOf
  <2>2. expect \in ZakoTypes /\ expect.builtin \in Numbers \cup {"arr"}
    BY <1>7, <2>1, ReturnTypeIs, McbTypeIs DEF Closed, NoFunction
  <2>3. CompilationOf(s, set) = Into("res", expect, <<C[root]>>)
    BY <1>7 DEF CompilationOf
  <2>4. FitCode(C[root], expect.builtin) /\ HasMcbType(expect)
    BY <1>3, <1>5, <1>7, <2>1, <2>2
  <2> HIDE DEF C, set, expect
  <2>5. SafeCode(CompilationOf(s, set))
    BY <1>4, <2>3, <2>4
  <2> QED BY <2>5 DEF set
<1>8. CASE s.kind = "call"
  <2> DEFINE expect == ReturnType(tree[<<1>>].name)
  <2>1. /\ tree[<<1>>].name \in DOMAIN Functions /\ AnalysisOf(s) = AnalyseExpr(tree, expect)
        /\ tree[root].kind = "PRIMARY"
    BY <1>8, StatementIs DEF AnalysisOf
  <2>2. expect \in ZakoTypes /\ expect.builtin \in Numbers \cup {"arr"}
    <3>1. NoFunction(ReturnType(tree[<<1>>].name))
      BY <1>2, <1>8, StatementIs DEF Checked
    <3> QED BY <2>1, <3>1, ReturnTypeIs, McbTypeIs DEF NoFunction
  <2>3. FitCode(C[root], expect.builtin)
    BY <1>3, <1>5, <1>8, <2>1, <2>2
  <2>4. C[root] = C[<<1>>]
    <3>1. Child(root, 1) = <<1>>
      BY RootIs
    <3> HIDE DEF set
    <3>2. C[root] = CompileNode(tree, set, C, root)
      BY <1>1, CompileTreeIs, Zenon
    <3> HIDE DEF C
    <3> QED BY <2>1, <3>1, <3>2 DEF CompileNode
  <2>5. CompilationOf(s, set) = C[<<1>>]
    BY <1>8 DEF CompilationOf
  <2> QED BY <2>3, <2>4, <2>5 DEF FitCode
<1>9. CASE s.kind = "assign"
  <2>1. AnalysisOf(s) = AnalyseAssign(tree)
    BY <1>9 DEF AnalysisOf
  <2>2. tree[root].kind = "BINARY" /\ tree[root].name # "as"
    BY <1>9, StatementIs
  <2>3. \A at \in DOMAIN tree : tree[at].kind # "ELEM_INIT"
    BY <2>2 DEF Closed
  <2>4. SafeCode(CompileAssign(tree, AnalyseAssign(tree).types))
    BY <1>1, <1>2, <2>1, <2>2, <2>3, AssignGenerates
  <2>5. CompilationOf(s, set) = CompileAssign(tree, set)
    BY <1>9 DEF CompilationOf
  <2> QED BY <2>1, <2>4, <2>5
<1>10. CASE s.kind \in {"if", "while"}
  <2>1. AnalysisOf(s) = AnalyseCmp(tree)
    BY <1>10 DEF AnalysisOf
  <2>2. /\ <<1>> \in DOMAIN tree /\ <<2>> \in DOMAIN tree
        /\ tree[<<1>>].kind \in {"INT", "IDENT"} /\ tree[<<2>>].kind \in {"INT", "IDENT"}
    BY <1>10, StatementIs DEF Closed
  <2>3. SafeCode(CompileCmp(tree, AnalyseCmp(tree).types))
    BY <1>1, <2>2, CmpGenerates
  <2>4. CompilationOf(s, set) = CompileCmp(tree, set)
    BY <1>10 DEF CompilationOf
  <2> QED BY <2>1, <2>3, <2>4
<1> QED BY <1>1, <1>6, <1>7, <1>8, <1>9, <1>10

\* The gaps of Trees are those excluded of a statement.
LEMMA ClosedIs ==
  ASSUME TypeOK, ~Gaps
  PROVE  Closed(stmt)
<1> DEFINE tree == stmt.expr
           whole == tree[<<>>].kind = "PRIMARY" /\ tree[<<1>>].kind = "ELEM_INIT"
           array == stmt.kind = "let" /\ IdentType(stmt.name).builtin = "arr"
<1>1. ~UncheckedCast /\ ~UntypedOperand /\ ~TypeOperand /\ ~Misplaced /\ ~FunctionTyped
  BY DEF Gaps
<1>2. (array <=> whole) /\ InTree("ELEM_INIT") = (IF whole THEN {<<1>>} ELSE {})
  BY <1>1 DEF Misplaced
<1>3. \A at \in DOMAIN tree : tree[at].kind = "ELEM_INIT" => whole /\ at = <<1>>
  BY <1>2 DEF InTree
<1>4. \A at \in DOMAIN tree : tree[at].kind = "BINARY" /\ tree[at].name = "as" =>
        /\ tree[Child(at, 2)].kind = "TYPE"
        /\ Passes(tree, Child(at, 1), NamedType(tree[Child(at, 2)].name, Child(at, 2)))
  BY <1>1 DEF UncheckedCast, Casts, InTree
<1>5. ASSUME NEW at \in DOMAIN tree, NEW k \in 1..tree[at].kids, tree[Child(at, k)].kind = "TYPE"
      PROVE  tree[at].kind = "BINARY" /\ tree[at].name = "as" /\ k = 2
  BY <1>1, <1>5 DEF TypeOperand, Casts, InTree
<1>6. Checked(tree)
  <2>1. ASSUME NEW at \in DOMAIN tree, NEW type \in DeclaredAt(at) PROVE NoFunction(type)
    BY <1>1 DEF FunctionTyped, NoFunction
  <2>2. \A at \in DOMAIN tree :
          /\ tree[at].kind \in {"IDENT", "ARR_ELEM"} => IdentType(tree[at].name) \in DeclaredAt(at)
          /\ tree[at].kind = "FN_CALL" =>
               /\ ReturnType(tree[at].name) \in DeclaredAt(at)
               /\ \A k \in 1..tree[at].kids : ArgType(tree[at].name, k) \in DeclaredAt(at)
    BY DEF DeclaredAt
  <2> QED BY <1>3, <1>4, <1>5, <2>1, <2>2 DEF Checked
<1>7. tree[<<>>].kind = "CMP" =>
        tree[<<1>>].kind \in {"INT", "IDENT"} /\ tree[<<2>>].kind \in {"INT", "IDENT"}
  <2>1. <<>> \in DOMAIN tree
    BY StatementIs DEF TypeOK
  <2>2. Child(<<>>, 1) = <<1>> /\ Child(<<>>, 2) = <<2>>
    BY RootIs
  <2> QED BY <1>1, <2>1, <2>2 DEF UntypedOperand, InTree
<1>8. /\ stmt.kind = "let" => NoFunction(IdentType(stmt.name))
      /\ stmt.kind = "return" => NoFunction(ReturnType(stmt.name))
  BY <1>1 DEF FunctionTyped, Expected, NoFunction
<1> QED BY <1>2, <1>3, <1>6, <1>7, <1>8 DEF Closed

\* Outside the gaps of the analysis the generator can compile all that the
\* analysis accepts, and no instruction narrows a value or changes its sign
\* unseen: for all types that parse_type builds, functions among them, which
\* are one of the gaps, and however deep the tree (compile_expr, compile_value
\* and the functions they call, on the types of analyse_expr).
THEOREM GeneratesTypedAlways == Spec => []GeneratesTyped
<1>1. TypeOK /\ Kept => GeneratesTyped
  <2> SUFFICES ASSUME TypeOK, Kept, ret = "SUCCESS", phase \in {"compiled", "crashed"}, ~Gaps
               PROVE  SafeCode(code)
    BY DEF GeneratesTyped, SafeCode
  <2>1. IsStatement(stmt) /\ Closed(stmt)
    BY ClosedIs DEF TypeOK
  <2>2. /\ types = AnalysisOf(stmt).types /\ AnalysisOf(stmt).ret = "SUCCESS"
        /\ code = CompilationOf(stmt, types)
    BY DEF Kept
  <2> QED BY <2>1, <2>2, StatementGenerates
<1> QED BY <1>1, TypeCorrect, KeptAlways, PTL
=============================================================================
