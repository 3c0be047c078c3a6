----------------------------- MODULE ExprProofs -----------------------------
(***************************************************************************)
(* Theorems about Expr, for sources of any length: its types, that the     *)
(* trees built by merge_expr are those the binding powers mean whenever    *)
(* casts come last, that they share nothing, and that a line ends them.    *)
(***************************************************************************)
EXTENDS Expr, SequenceTheorems, TLAPS

-----------------------------------------------------------------------------
(* merge_expr.                                                             *)

(* A group that waits for an operand to its last operator; with is what    *)
(* Deliver hands to Merge.                                                 *)
Pending(g) ==
  /\ g \in Groups
  /\ GroupOK(g)
  /\ Len(g.ops) = Merged(g) + 1
  /\ Len(g.vals) = Merged(g) + 2

LEMMA RefFacts ==
  ASSUME NEW k \in Nat
  PROVE  /\ Val(k) \in Refs /\ Opr(k) \in Refs
         /\ Val(k)[1] = "val" /\ Val(k)[2] = k
         /\ Opr(k)[1] = "op" /\ Opr(k)[2] = k
BY DEF Val, Opr, Refs

LEMMA MergeFields ==
  ASSUME NEW g, Pending(g)
  PROVE  LET n == Merged(g)
             h == Merge(g)
         IN  /\ h \in Groups
             /\ Merged(h) = n + 1
             /\ Len(h.rhs) = n + 1
             /\ h.vals = g.vals /\ h.ops = g.ops /\ h.mode = g.mode
             /\ h.rhs[n + 1] = Val(n + 2)
             /\ \A k \in 1..n : h.lhs[k] = g.lhs[k]
             /\ ~BindsTighter(g) =>
                  /\ h.root = Opr(n + 1)
                  /\ h.lhs[n + 1] = g.root
                  /\ \A k \in 1..n : h.rhs[k] = g.rhs[k]
             /\ BindsTighter(g) =>
                  /\ g.root[2] \in 1..n
                  /\ g.root = Opr(g.root[2])
                  /\ h.root = g.root
                  /\ h.lhs[n + 1] = g.rhs[g.root[2]]
                  /\ h.rhs[g.root[2]] = Opr(n + 1)
                  /\ \A k \in 1..n : k # g.root[2] => h.rhs[k] = g.rhs[k]
<1> DEFINE n == Merged(g)
           h == Merge(g)
           r == g.root[2]
<1>1. /\ g \in Groups /\ n \in Nat
      /\ g.lhs \in Seq(Refs) /\ g.rhs \in Seq(Refs) /\ g.root \in Refs
      /\ Len(g.lhs) = n /\ Len(g.rhs) = n
  BY DEF Pending, GroupOK, Groups, Merged
<1>2. /\ Opr(n + 1) \in Refs /\ Val(n + 2) \in Refs
      /\ n + 1 + 1 = n + 2
  BY <1>1, RefFacts
<1>3. CASE ~BindsTighter(g)
  <2> DEFINE L == Append(g.lhs, g.root)
             R == Append(g.rhs, Val(n + 2))
             w == Opr(n + 1)
  <2>1. L \in Seq(Refs) /\ R \in Seq(Refs)
    BY <1>1, <1>2
  <2>2. h = [g EXCEPT !.lhs = L, !.rhs = R, !.root = w]
    BY <1>1, <1>2, <1>3 DEF Merge, MergeOver, Merged, Groups
  <2> HIDE DEF h
  <2>3. /\ h \in Groups
        /\ h.lhs = L /\ h.rhs = R /\ h.root = Opr(n + 1)
        /\ h.vals = g.vals /\ h.ops = g.ops /\ h.mode = g.mode
    <3>1. w \in Refs /\ g \in Groups
      BY <1>1, <1>2
    <3> HIDE DEF L, R, w
    <3>2. /\ h \in Groups
          /\ h.lhs = L /\ h.rhs = R /\ h.root = w
          /\ h.vals = g.vals /\ h.ops = g.ops /\ h.mode = g.mode
      BY <2>1, <2>2, <3>1 DEF Groups
    <3> QED BY <3>2 DEF w
  <2>4. /\ Len(h.lhs) = n + 1 /\ Len(h.rhs) = n + 1
        /\ h.lhs[n + 1] = g.root /\ h.rhs[n + 1] = Val(n + 2)
        /\ \A k \in 1..n : h.lhs[k] = g.lhs[k] /\ h.rhs[k] = g.rhs[k]
    BY <1>1, <1>2, <2>3
  <2> USE DEF h
  <2> QED BY <2>3, <2>4, <1>3 DEF Merged
<1>4. CASE BindsTighter(g)
  <2> DEFINE put == [g.rhs EXCEPT ![r] = Opr(n + 1)]
             L == Append(g.lhs, g.rhs[r])
             R == Append(put, Val(n + 2))
  <2>1. r \in 1..n /\ g.root = Opr(r)
    BY <1>1, <1>4 DEF BindsTighter, Pending, GroupOK, Within, Refs, Opr
  <2>2. /\ put \in Seq(Refs) /\ Len(put) = n
        /\ put[r] = Opr(n + 1)
        /\ \A k \in 1..n : k # r => put[k] = g.rhs[k]
    BY <1>1, <1>2, <2>1
  <2>3. g.rhs[r] \in Refs
    BY <1>1, <2>1
  <2>4. h = [g EXCEPT !.lhs = L, !.rhs = R]
    BY <1>1, <1>2, <1>4 DEF Merge, MergeUnder, Merged, Groups
  <2> HIDE DEF put
  <2>5. L \in Seq(Refs) /\ R \in Seq(Refs)
    BY <1>1, <1>2, <2>2, <2>3
  <2> HIDE DEF h
  <2>6. /\ h \in Groups
        /\ h.lhs = L /\ h.rhs = R /\ h.root = g.root
        /\ h.vals = g.vals /\ h.ops = g.ops /\ h.mode = g.mode
    <3> HIDE DEF L, R
    <3>1. g \in Groups
      BY <1>1
    <3> QED BY <2>4, <2>5, <3>1 DEF Groups
  <2>7. /\ Len(h.lhs) = n + 1 /\ Len(h.rhs) = n + 1
        /\ h.lhs[n + 1] = g.rhs[r] /\ h.rhs[n + 1] = Val(n + 2)
        /\ h.rhs[r] = Opr(n + 1)
        /\ \A k \in 1..n : h.lhs[k] = g.lhs[k]
        /\ \A k \in 1..n : k # r => h.rhs[k] = g.rhs[k]
    BY <1>1, <1>2, <2>1, <2>2, <2>3, <2>6
  <2> USE DEF h
  <2> QED BY <2>1, <2>6, <2>7, <1>4 DEF Merged
<1> QED BY <1>3, <1>4

-----------------------------------------------------------------------------
(* Precedence.                                                             *)

(* The powers of a group in DEFAULT_EXPR_MODE: 0 for casts alone.          *)
LEMMA PowersOf ==
  ASSUME NEW g \in Groups, GroupOK(g), g.mode = "default",
         NEW k \in 1..Len(g.ops)
  PROVE  /\ Powers(g)[k] \in {0, 1, 2}
         /\ Powers(g)[k] = 0 => g.ops[k] = "as"
         /\ g.ops[k] = "as" => Powers(g)[k] = 0
BY DEF GroupOK, Powers, Power, Infix

(* What the two branches of merge_expr do to the pointers of a tree.       *)
Over(p, n, root, lhs, rhs, L, R) ==
  /\ n \in Nat /\ p \in [1..(n + 1) -> {0, 1, 2}]
  /\ IsTree(p, n, root, lhs, rhs)
  /\ \A k \in 1..n : root = Opr(k) => p[k] >= p[n + 1]
  /\ L[n + 1] = root /\ R[n + 1] = Val(n + 2)
  /\ \A k \in 1..n : L[k] = lhs[k] /\ R[k] = rhs[k]

Beneath(p, n, r, lhs, rhs, L, R) ==
  /\ n \in Nat /\ p \in [1..(n + 1) -> {0, 1, 2}]
  /\ r \in 1..n /\ p[r] # 0 /\ p[r] < p[n + 1]
  /\ IsTree(p, n, Opr(r), lhs, rhs)
  /\ L[n + 1] = rhs[r] /\ R[n + 1] = Val(n + 2) /\ R[r] = Opr(n + 1)
  /\ \A k \in 1..n : L[k] = lhs[k]
  /\ \A k \in 1..n : k # r => R[k] = rhs[k]

(* The new operator binds no tighter than the root, hence than any other:  *)
(* it becomes the root.                                                    *)
LEMMA TreeOver ==
  ASSUME NEW n, NEW p, NEW root, NEW lhs, NEW rhs, NEW L, NEW R,
         Over(p, n, root, lhs, rhs, L, R)
  PROVE  IsTree(p, n + 1, Opr(n + 1), L, R)
<1> USE DEF Over
<1>1. \A j \in 1..n : p[j] >= p[n + 1]
  <2>1. CASE n = 0
    BY <2>1
  <2>2. CASE n # 0
    <3>1. PICK k \in 1..n : root = Opr(k) /\ Under(p, k, 1, n + 1)
      BY <2>2 DEF IsTree, IsTreeOf
    <3>2. p[k] >= p[n + 1]
      BY <3>1
    <3> QED BY <3>1, <3>2 DEF Under
  <2> QED BY <2>1, <2>2
<1>2. IsTreeOf(p, Opr(n + 1), 1, n + 2)
  BY <1>1 DEF IsTreeOf, Under
<1>3. ASSUME NEW k \in 1..n
      PROVE  \E a, b \in 1..(n + 2) : /\ Spans(p, n + 1, k, a, b)
                                      /\ IsTreeOf(p, L[k], a, k)
                                      /\ IsTreeOf(p, R[k], k + 1, b)
  <2>1. PICK a \in 1..(n + 1), b \in 1..(n + 1) :
          /\ Spans(p, n, k, a, b)
          /\ IsTreeOf(p, lhs[k], a, k)
          /\ IsTreeOf(p, rhs[k], k + 1, b)
    BY DEF IsTree
  <2>2. Spans(p, n + 1, k, a, b)
    BY <1>1, <2>1 DEF Spans
  <2> QED BY <2>1, <2>2
<1>4. /\ Spans(p, n + 1, n + 1, 1, n + 2)
      /\ IsTreeOf(p, L[n + 1], 1, n + 1)
      /\ IsTreeOf(p, R[n + 1], n + 2, n + 2)
  <2>1. Spans(p, n + 1, n + 1, 1, n + 2)
    BY <1>1 DEF Spans, Under
  <2>2. IsTreeOf(p, L[n + 1], 1, n + 1)
    BY DEF IsTree
  <2> QED BY <2>1, <2>2 DEF IsTreeOf
<1> QED
  <2>1. ASSUME NEW k \in 1..(n + 1)
        PROVE  \E a, b \in 1..(n + 2) : /\ Spans(p, n + 1, k, a, b)
                                        /\ IsTreeOf(p, L[k], a, k)
                                        /\ IsTreeOf(p, R[k], k + 1, b)
    BY <1>3, <1>4
  <2> QED BY <1>2, <2>1 DEF IsTree

(* The new operator binds tighter than the root r, which is not a cast, so *)
(* every operator after r is of the highest power.                         *)
LEMMA TreeBeneath ==
  ASSUME NEW n, NEW p, NEW r, NEW lhs, NEW rhs, NEW L, NEW R,
         Beneath(p, n, r, lhs, rhs, L, R)
  PROVE  IsTree(p, n + 1, Opr(r), L, R)
<1> USE DEF Beneath
<1>1. p[r] = 1 /\ p[n + 1] = 2
  OBVIOUS
<1>2. Under(p, r, 1, n + 1)
  BY DEF IsTree, IsTreeOf, Opr, Val
<1>3. \A j \in (r + 1)..(n + 1) : p[j] = 2
  BY <1>1, <1>2 DEF Under
<1>4. \A j \in 1..(r - 1) : p[j] >= 1
  BY <1>1, <1>2 DEF Under
<1>5. IsTreeOf(p, Opr(r), 1, n + 2)
  BY <1>1, <1>3, <1>4 DEF IsTreeOf, Under
<1>6. PICK a \in 1..(n + 1), b \in 1..(n + 1) :
        /\ Spans(p, n, r, a, b)
        /\ IsTreeOf(p, lhs[r], a, r)
        /\ IsTreeOf(p, rhs[r], r + 1, b)
  BY DEF IsTree
<1>7. b = n + 1
  BY <1>1, <1>3, <1>6 DEF Spans
<1>8. /\ Spans(p, n + 1, r, a, n + 2)
      /\ IsTreeOf(p, L[r], a, r)
      /\ IsTreeOf(p, R[r], r + 1, n + 2)
  <2>1. Spans(p, n + 1, r, a, n + 2)
    BY <1>1, <1>3, <1>6 DEF Spans, Under
  <2>2. IsTreeOf(p, R[r], r + 1, n + 2)
    BY <1>1, <1>3 DEF IsTreeOf, Under
  <2> QED BY <1>6, <2>1, <2>2
<1>9. /\ Spans(p, n + 1, n + 1, r + 1, n + 2)
      /\ IsTreeOf(p, L[n + 1], r + 1, n + 1)
      /\ IsTreeOf(p, R[n + 1], n + 2, n + 2)
  <2>1. Spans(p, n + 1, n + 1, r + 1, n + 2)
    BY <1>1, <1>3 DEF Spans, Under
  <2>2. IsTreeOf(p, L[n + 1], r + 1, n + 1)
    BY <1>6, <1>7
  <2> QED BY <2>1, <2>2 DEF IsTreeOf
<1>10. ASSUME NEW k \in 1..n, k # r
       PROVE  \E c, d \in 1..(n + 2) : /\ Spans(p, n + 1, k, c, d)
                                       /\ IsTreeOf(p, L[k], c, k)
                                       /\ IsTreeOf(p, R[k], k + 1, d)
  <2>1. PICK c \in 1..(n + 1), d \in 1..(n + 1) :
          /\ Spans(p, n, k, c, d)
          /\ IsTreeOf(p, lhs[k], c, k)
          /\ IsTreeOf(p, rhs[k], k + 1, d)
    BY DEF IsTree
  <2>2. d = n + 1 => p[n + 1] <= p[k]
    <3>1. CASE k < r
      <4>1. p[r] > p[k] \/ d <= r
        BY <2>1, <3>1 DEF Spans, Under
      <4> QED BY <1>1, <1>4, <3>1, <4>1
    <3>2. CASE k > r
      BY <1>3, <3>2
    <3> QED BY <1>10, <3>1, <3>2
  <2>3. Spans(p, n + 1, k, c, d)
    BY <2>1, <2>2 DEF Spans
  <2> QED BY <1>10, <2>1, <2>3
<1> QED
  <2>1. ASSUME NEW k \in 1..(n + 1)
        PROVE  \E c, d \in 1..(n + 2) : /\ Spans(p, n + 1, k, c, d)
                                        /\ IsTreeOf(p, L[k], c, k)
                                        /\ IsTreeOf(p, R[k], k + 1, d)
    <3>1. CASE k = r
      BY <1>6, <1>8, <3>1
    <3>2. CASE k = n + 1
      BY <1>9, <3>2
    <3> QED BY <1>10, <3>1, <3>2
  <2>2. n + 1 + 1 = n + 2
    OBVIOUS
  <2>3. IsTreeOf(p, Opr(r), 1, n + 1 + 1)
    BY <1>5, <2>2
  <2> QED BY <2>1, <2>2, <2>3 DEF IsTree

(* A tree does not depend on the powers of operators not yet in it.        *)
LEMMA SamePowers ==
  ASSUME NEW n \in Nat, NEW p, NEW q, NEW root, NEW lhs, NEW rhs,
         \A k \in 1..n : p[k] = q[k],
         IsTree(q, n, root, lhs, rhs)
  PROVE  IsTree(p, n, root, lhs, rhs)
<1>1. ASSUME NEW ref, NEW a \in 1..(n + 1), NEW b \in 1..(n + 1),
             IsTreeOf(q, ref, a, b)
      PROVE  IsTreeOf(p, ref, a, b)
  BY <1>1 DEF IsTreeOf, Under
<1>2. IsTreeOf(p, root, 1, n + 1)
  BY <1>1 DEF IsTree
<1>3. ASSUME NEW k \in 1..n
      PROVE  \E a, b \in 1..(n + 1) : /\ Spans(p, n, k, a, b)
                                      /\ IsTreeOf(p, lhs[k], a, k)
                                      /\ IsTreeOf(p, rhs[k], k + 1, b)
  <2>1. PICK a \in 1..(n + 1), b \in 1..(n + 1) :
          /\ Spans(q, n, k, a, b)
          /\ IsTreeOf(q, lhs[k], a, k)
          /\ IsTreeOf(q, rhs[k], k + 1, b)
    BY DEF IsTree
  <2>2. Spans(p, n, k, a, b)
    BY <2>1 DEF Spans, Under
  <2> QED BY <1>1, <2>1, <2>2
<1> QED BY <1>2, <1>3 DEF IsTree

(* merge_expr looks only at the root, yet keeps the whole tree right.      *)
LEMMA MergePrecedence ==
  ASSUME NEW g, Pending(g), g.mode = "default",
         IsPrecedenceTree(g), CastsLast(Merge(g))
  PROVE  IsPrecedenceTree(Merge(g))
<1> DEFINE n == Merged(g)
           h == Merge(g)
           r == g.root[2]
           p == Powers(g)
<1>0. /\ g \in Groups /\ GroupOK(g) /\ n \in Nat /\ Len(g.ops) = n + 1
  BY DEF Pending, Groups, Merged
<1>1. /\ Merged(h) = n + 1 /\ h.ops = g.ops
      /\ h.rhs[n + 1] = Val(n + 2)
      /\ \A k \in 1..n : h.lhs[k] = g.lhs[k]
      /\ ~BindsTighter(g) =>
           /\ h.root = Opr(n + 1)
           /\ h.lhs[n + 1] = g.root
           /\ \A k \in 1..n : h.rhs[k] = g.rhs[k]
      /\ BindsTighter(g) =>
           /\ r \in 1..n
           /\ g.root = Opr(r)
           /\ h.root = g.root
           /\ h.lhs[n + 1] = g.rhs[r]
           /\ h.rhs[r] = Opr(n + 1)
           /\ \A k \in 1..n : k # r => h.rhs[k] = g.rhs[k]
  BY MergeFields
<1>2. p \in [1..(n + 1) -> {0, 1, 2}] /\ Powers(h) = p
  BY <1>0, <1>1, PowersOf DEF Powers
<1>3. \A j, k \in 1..(n + 1) : j < k /\ p[j] = 0 => p[k] = 0
  <2> HIDE DEF h, n, p
  <2> TAKE j, k \in 1..(n + 1)
  <2> HAVE j < k /\ p[j] = 0
  <2>1. g.ops[j] = "as"
    BY <1>0, PowersOf DEF p
  <2>2. g.ops[k] = "as"
    BY <1>0, <1>1, <2>1 DEF CastsLast, h
  <2> QED BY <1>0, <2>2, PowersOf DEF p
<1>4. IsTree(p, n, g.root, g.lhs, g.rhs)
  BY DEF IsPrecedenceTree
<1>5. \A k \in 1..n : g.root = Opr(k) =>
        (BindsTighter(g) <=> p[k] < p[n + 1])
  BY <1>0 DEF BindsTighter, Powers, Opr, Merged
<1> HIDE DEF n, h, p
<1>6. CASE ~BindsTighter(g)
  <2>1. Over(p, n, g.root, g.lhs, g.rhs, h.lhs, h.rhs)
    <3>1. \A k \in 1..n : g.root = Opr(k) => p[k] >= p[n + 1]
      BY <1>0, <1>2, <1>5, <1>6
    <3> QED BY <1>0, <1>1, <1>2, <1>4, <1>6, <3>1 DEF Over
  <2>2. IsTree(p, n + 1, Opr(n + 1), h.lhs, h.rhs)
    BY <2>1, TreeOver
  <2> QED BY <1>1, <1>2, <1>6, <2>2 DEF IsPrecedenceTree, h
<1>7. CASE BindsTighter(g)
  <2>1. r \in 1..n /\ p[r] < p[n + 1] /\ IsTree(p, n, Opr(r), g.lhs, g.rhs)
    BY <1>1, <1>4, <1>5, <1>7
  <2>2. p[r] # 0
    BY <1>0, <1>2, <1>3, <2>1
  <2>3. Beneath(p, n, r, g.lhs, g.rhs, h.lhs, h.rhs)
    BY <1>0, <1>1, <1>2, <1>7, <2>1, <2>2 DEF Beneath
  <2>4. IsTree(p, n + 1, Opr(r), h.lhs, h.rhs)
    BY <2>3, TreeBeneath
  <2> QED BY <1>1, <1>2, <1>7, <2>4 DEF IsPrecedenceTree, h
<1> QED BY <1>6, <1>7

-----------------------------------------------------------------------------
(* Handing an operand to a group.                                          *)

LEMMA MergeKeepsType ==
  ASSUME NEW g, Pending(g)
  PROVE  /\ Merge(g) \in Groups /\ GroupOK(Merge(g)) /\ Full(Merge(g))
         /\ Merge(g).mode = g.mode /\ Merge(g).ops = g.ops
<1> DEFINE n == Merged(g)
           h == Merge(g)
           r == g.root[2]
<1>1. /\ g \in Groups /\ GroupOK(g) /\ n \in Nat
      /\ Len(g.ops) = n + 1 /\ Len(g.vals) = n + 2
  BY DEF Pending, Groups, Merged
<1>2. /\ h \in Groups
      /\ Merged(h) = n + 1
      /\ Len(h.rhs) = n + 1
      /\ h.vals = g.vals /\ h.ops = g.ops /\ h.mode = g.mode
      /\ h.rhs[n + 1] = Val(n + 2)
      /\ \A k \in 1..n : h.lhs[k] = g.lhs[k]
      /\ ~BindsTighter(g) =>
           /\ h.root = Opr(n + 1)
           /\ h.lhs[n + 1] = g.root
           /\ \A k \in 1..n : h.rhs[k] = g.rhs[k]
      /\ BindsTighter(g) =>
           /\ r \in 1..n
           /\ g.root = Opr(r)
           /\ h.root = g.root
           /\ h.lhs[n + 1] = g.rhs[r]
           /\ h.rhs[r] = Opr(n + 1)
           /\ \A k \in 1..n : k # r => h.rhs[k] = g.rhs[k]
  BY MergeFields
<1> HIDE DEF h
<1>3. /\ Within(Val(n + 2), n + 1) /\ Within(Opr(n + 1), n + 1)
      /\ Within(g.root, n + 1)
      /\ \A k \in 1..n : Within(g.lhs[k], n + 1) /\ Within(g.rhs[k], n + 1)
  <2>1. \A ref : Within(ref, n) => Within(ref, n + 1)
    BY <1>1 DEF Within
  <2>2. /\ Within(g.root, n)
        /\ \A k \in 1..n : Within(g.lhs[k], n) /\ Within(g.rhs[k], n)
    BY <1>1 DEF GroupOK
  <2>3. Within(Val(n + 2), n + 1) /\ Within(Opr(n + 1), n + 1)
    BY <1>1 DEF Within, Val, Opr
  <2> QED BY <2>1, <2>2, <2>3
<1>4. /\ Within(h.root, n + 1)
      /\ \A k \in 1..(n + 1) : Within(h.lhs[k], n + 1) /\ Within(h.rhs[k], n + 1)
  <2> HIDE DEF n
  <2>1. CASE BindsTighter(g)
    <3>1. /\ r \in 1..n /\ h.root = g.root
          /\ h.lhs[n + 1] = g.rhs[r] /\ h.rhs[r] = Opr(n + 1)
          /\ h.rhs[n + 1] = Val(n + 2)
          /\ \A k \in 1..n : h.lhs[k] = g.lhs[k]
          /\ \A k \in 1..n : k # r => h.rhs[k] = g.rhs[k]
      BY <1>2, <2>1
    <3> HIDE DEF r
    <3>2. \A k \in 1..n : Within(h.lhs[k], n + 1) /\ Within(h.rhs[k], n + 1)
      BY <1>3, <3>1
    <3>3. Within(h.lhs[n + 1], n + 1) /\ Within(h.rhs[n + 1], n + 1)
      BY <1>3, <3>1
    <3>4. \A k \in 1..(n + 1) : k \in 1..n \/ k = n + 1
      BY <1>1
    <3> QED BY <1>3, <3>1, <3>2, <3>3, <3>4
  <2>2. CASE ~BindsTighter(g)
    BY <1>1, <1>2, <1>3, <2>2
  <2> QED BY <2>1, <2>2
<1>5. g.mode \notin Composite
  <2>1. g.ops # <<>>
    BY <1>1
  <2> QED BY <1>1, <2>1 DEF GroupOK
<1>6. GroupOK(h)
  BY <1>1, <1>2, <1>4, <1>5 DEF GroupOK, Merged
<1> QED BY <1>1, <1>2, <1>5, <1>6 DEF Full, h

LEMMA DeliverOK ==
  ASSUME NEW g \in Groups, GroupOK(g), Waiting(g), NEW val \in Vals
  PROVE  /\ Deliver(g, val) \in Groups /\ GroupOK(Deliver(g, val))
         /\ g.mode \notin Composite => Full(Deliver(g, val))
         /\ Deliver(g, val).mode = g.mode /\ Deliver(g, val).ops = g.ops
         /\ GroupRespectsPrecedence(g) => GroupRespectsPrecedence(Deliver(g, val))
<1> DEFINE with == [g EXCEPT !.vals = Append(@, val)]
<1>1. /\ with \in Groups
      /\ with.vals = Append(g.vals, val)
      /\ with.ops = g.ops /\ with.mode = g.mode
      /\ with.lhs = g.lhs /\ with.rhs = g.rhs /\ with.root = g.root
  <2> DEFINE V == Append(g.vals, val)
  <2>1. V \in Seq(Vals)
    BY DEF Groups
  <2>2. with = [g EXCEPT !.vals = V]
    OBVIOUS
  <2> HIDE DEF V, with
  <2>3. /\ with \in Groups
        /\ with.vals = V
        /\ with.ops = g.ops /\ with.mode = g.mode
        /\ with.lhs = g.lhs /\ with.rhs = g.rhs /\ with.root = g.root
    BY <2>1, <2>2 DEF Groups
  <2> QED BY <2>3 DEF V
<1>2. GroupOK(with) /\ Merged(with) = Merged(g) /\ Powers(with) = Powers(g)
  BY <1>1 DEF GroupOK, Merged, Powers
<1>3. Deliver(g, val) = IF g.ops = <<>> THEN with ELSE Merge(with)
  BY DEF Deliver
<1> HIDE DEF with
<1>0. CASE g.mode \in Composite
  <2>1. g.ops = <<>> /\ g.mode # "default"
    BY <1>0 DEF GroupOK, Composite
  <2>2. GroupRespectsPrecedence(with)
    BY <1>1, <2>1 DEF GroupRespectsPrecedence
  <2> QED BY <1>0, <1>1, <1>2, <1>3, <2>1, <2>2
<1>4. CASE g.mode \notin Composite /\ Fresh(g)
  <2>1. Deliver(g, val) = with /\ Len(with.vals) = 1 /\ Merged(with) = 0
    BY <1>1, <1>2, <1>3, <1>4 DEF Fresh, Merged
  <2>2. Full(with)
    BY <1>1, <1>4, <2>1 DEF Full, Fresh
  <2>3. IsPrecedenceTree(with)
    BY <1>1, <1>4, <2>1 DEF IsPrecedenceTree, IsTree, IsTreeOf, Fresh, Val
  <2> QED BY <1>1, <1>2, <2>1, <2>2, <2>3 DEF GroupRespectsPrecedence
<1>5. CASE Len(g.vals) = Merged(g) + 1 /\ Len(g.ops) = Merged(g) + 1
  <2>1. Merged(g) \in Nat /\ g.vals \in Seq(Vals) /\ g.ops # <<>> /\ g.vals # <<>>
    BY <1>5 DEF Groups, Merged
  <2>2. Pending(with)
    BY <1>1, <1>2, <1>5, <2>1 DEF Pending
  <2>3. Deliver(g, val) = Merge(with)
    BY <1>3, <2>1
  <2>4. /\ Merge(with) \in Groups /\ GroupOK(Merge(with)) /\ Full(Merge(with))
        /\ Merge(with).mode = g.mode /\ Merge(with).ops = g.ops
    BY <1>1, <2>2, MergeKeepsType
  <2>5. ASSUME GroupRespectsPrecedence(g), g.mode = "default",
               CastsLast(Merge(with))
        PROVE  IsPrecedenceTree(Merge(with))
    <3>1. Merged(Merge(with)) = Merged(g) + 1
      BY <1>2, <2>2, MergeFields
    <3>2. CastsLast(g)
      BY <2>1, <2>4, <2>5, <3>1 DEF CastsLast
    <3>3. IsPrecedenceTree(g)
      BY <2>1, <2>5, <3>2 DEF GroupRespectsPrecedence
    <3>4. IsPrecedenceTree(with)
      BY <1>1, <1>2, <3>3 DEF IsPrecedenceTree
    <3> QED BY <1>1, <2>2, <2>5, <3>4, MergePrecedence
  <2> QED BY <2>3, <2>4, <2>5 DEF GroupRespectsPrecedence
<1> QED BY <1>0, <1>4, <1>5 DEF Waiting

-----------------------------------------------------------------------------
(* The steps of the parser.                                                *)

(* What TypeOK says of the token and of the histories.                     *)
InputOK ==
  tok \in Tokens \cup {"EOL_end", "comma", "none"} /\ eaten \in Nat /\ crossed \subseteq Nat

LEMMA EatTokOK ==
  ASSUME TypeOK, EatTok
  PROVE  InputOK'
<1>1. stack[1] \in DOMAIN groups /\ groups[stack[1]] \in Groups
  BY DEF TypeOK
<1>2. Len(groups[stack[1]].vals) + 1 \in Nat
  BY <1>1 DEF Groups
<1> QED BY <1>2 DEF TypeOK, InputOK, EatTok, Following, Eols

LEMMA CallersOK ==
  ASSUME TypeOK, Inner
  PROVE  /\ Callers \in Seq(DOMAIN groups)
         /\ Len(Callers) = Len(stack) - 1
         /\ Callers # <<>>
         /\ \A i \in 1..Len(Callers) : Callers[i] = stack[i]
<1> DEFINE m == Len(stack) - 1
<1>1. stack \in Seq(DOMAIN groups) /\ m \in 1..Len(stack)
  BY DEF TypeOK, Inner
<1> DEFINE c == SubSeq(stack, 1, m)
<1>2. /\ c \in Seq(DOMAIN groups)
      /\ Len(c) = m
      /\ \A i \in 1..m : c[i] = stack[i]
  BY <1>1, SubSeqProperties
<1>3. Callers = c
  BY DEF Callers
<1> HIDE DEF c
<1>4. c # <<>>
  BY <1>1, <1>2
<1> QED BY <1>2, <1>3, <1>4

(* One group changes: what TypeOK and PrecedenceRespected say of groups.   *)
LEMMA UpdateOK ==
  ASSUME TypeOK, NEW id \in DOMAIN groups, NEW h \in Groups,
         GroupOK(h), groups' = [groups EXCEPT ![id] = h]
  PROVE  /\ groups' \in Seq(Groups)
         /\ DOMAIN groups' = DOMAIN groups
         /\ groups'[id] = h
         /\ \A j \in DOMAIN groups : j # id => groups'[j] = groups[j]
         /\ \A j \in DOMAIN groups' : GroupOK(groups'[j])
         /\ PrecedenceRespected /\ GroupRespectsPrecedence(h) => PrecedenceRespected'
<1>1. groups \in Seq(Groups) /\ \A j \in DOMAIN groups : GroupOK(groups[j])
  BY DEF TypeOK
<1>2. /\ groups' \in Seq(Groups)
      /\ DOMAIN groups' = DOMAIN groups
      /\ groups'[id] = h
      /\ \A j \in DOMAIN groups : j # id => groups'[j] = groups[j]
  BY <1>1
<1>3. \A j \in DOMAIN groups' : GroupOK(groups'[j])
  BY <1>1, <1>2
<1>4. ASSUME PrecedenceRespected, GroupRespectsPrecedence(h)
      PROVE  PrecedenceRespected'
  <2>1. \A j \in DOMAIN groups' : GroupRespectsPrecedence(groups'[j])
    BY <1>2, <1>4 DEF PrecedenceRespected
  <2> QED BY <2>1 DEF PrecedenceRespected
<1> QED BY <1>2, <1>3, <1>4

(* What is left of the stack when the innermost call returns, or does not. *)
LEMMA StackOK ==
  ASSUME TypeOK, stack' = stack \/ (Inner /\ stack' = Callers)
  PROVE  /\ stack' \in Seq(DOMAIN groups) /\ stack' # <<>>
         /\ Len(stack') \in Nat \ {0} /\ Len(stack') <= Len(stack)
         /\ \A i \in 1..Len(stack') : stack'[i] = stack[i]
         /\ \A i, j \in DOMAIN stack' : i < j => stack'[i] < stack'[j]
         /\ \A i \in DOMAIN stack' :
              i < Len(stack') => /\ stack'[i] # Cur' /\ stack'[i] \in DOMAIN groups
                                 /\ Waiting(groups[stack'[i]])
         /\ Cur' \in DOMAIN groups
         /\ Len(stack') < Len(stack) => Waiting(groups[Cur'])
<1>1. /\ stack \in Seq(DOMAIN groups) /\ stack # <<>>
      /\ \A i, j \in DOMAIN stack : i < j => stack[i] < stack[j]
      /\ \A i \in DOMAIN stack : i < Len(stack) => Waiting(groups[stack[i]])
  BY DEF TypeOK
<1>2. /\ stack' \in Seq(DOMAIN groups) /\ stack' # <<>>
      /\ Len(stack') \in Nat \ {0} /\ Len(stack') <= Len(stack)
      /\ \A i \in 1..Len(stack') : stack'[i] = stack[i]
  BY <1>1, CallersOK
<1>3. \A i, j \in DOMAIN stack' : i < j => stack'[i] < stack'[j]
  <2> TAKE i, j \in DOMAIN stack'
  <2>1. i \in DOMAIN stack /\ j \in DOMAIN stack
        /\ stack'[i] = stack[i] /\ stack'[j] = stack[j]
    BY <1>1, <1>2
  <2> QED BY <1>1, <2>1
<1>4. Cur' = stack'[Len(stack')] /\ Cur' \in DOMAIN groups
  BY <1>2 DEF Cur
<1>5. ASSUME NEW i \in DOMAIN stack', i < Len(stack')
      PROVE  /\ stack'[i] # Cur' /\ stack'[i] \in DOMAIN groups
             /\ Waiting(groups[stack'[i]])
  <2>1. stack'[i] < Cur' /\ stack'[i] \in DOMAIN groups
    BY <1>2, <1>3, <1>4, <1>5
  <2>2. i \in DOMAIN stack /\ i < Len(stack) /\ stack'[i] = stack[i]
    BY <1>1, <1>2, <1>5
  <2>3. stack'[i] \in Nat /\ Cur' \in Nat
    BY <1>4, <2>1 DEF TypeOK
  <2> QED BY <1>1, <2>1, <2>2, <2>3
<1>6. ASSUME Len(stack') < Len(stack) PROVE Waiting(groups[Cur'])
  BY <1>1, <1>2, <1>4, <1>6
<1> QED BY <1>2, <1>3, <1>4, <1>5, <1>6

(* An operand goes to the group that is innermost afterwards.              *)
LEMMA DeliverHere ==
  ASSUME TypeOK, PrecedenceRespected, NEW val \in Vals,
         stack' = stack \/ (Inner /\ stack' = Callers),
         Waiting(groups[Cur']),
         groups' = [groups EXCEPT ![Cur'] = Deliver(groups[Cur'], val)],
         pc' = After(groups[Cur']),
         InputOK'
  PROVE  TypeOK' /\ PrecedenceRespected'
<1> DEFINE id == Cur'
           g == groups[id]
           h == Deliver(g, val)
<1>1. /\ id \in DOMAIN groups /\ g \in Groups /\ GroupOK(g)
      /\ GroupRespectsPrecedence(g)
  BY StackOK DEF TypeOK, PrecedenceRespected
<1>2. /\ h \in Groups /\ GroupOK(h) /\ GroupRespectsPrecedence(h)
      /\ g.mode \notin Composite => Full(h)
      /\ h.mode = g.mode /\ h.ops = g.ops
  BY <1>1, DeliverOK
<1>3. /\ pc' \in {"op", "return", "next"} /\ (pc' = "op" /\ h.mode = "cmp" => h.ops = <<>>)
      /\ pc' = "next" => h.mode \in Composite
      /\ pc' \in {"op", "return"} => Full(h)
  BY <1>2 DEF After
<1> HIDE DEF h
<1>4. /\ groups' \in Seq(Groups)
      /\ DOMAIN groups' = DOMAIN groups
      /\ groups'[id] = h
      /\ \A j \in DOMAIN groups : j # id => groups'[j] = groups[j]
      /\ \A j \in DOMAIN groups' : GroupOK(groups'[j])
      /\ PrecedenceRespected'
  <2>1. groups' = [groups EXCEPT ![id] = h]
    BY DEF h
  <2> HIDE DEF id
  <2> QED BY <1>1, <1>2, <2>1, UpdateOK
<1>5. \A i \in DOMAIN stack' : i < Len(stack') => Waiting(groups'[stack'[i]])
  <2>1. \A i \in DOMAIN stack' :
          i < Len(stack') => /\ stack'[i] # id /\ stack'[i] \in DOMAIN groups
                             /\ Waiting(groups[stack'[i]])
    BY StackOK
  <2> QED BY <1>4, <2>1
<1>6. Group' = h
  BY <1>4 DEF Group
<1>7. /\ stack' \in Seq(DOMAIN groups') /\ stack' # <<>>
      /\ \A i, j \in DOMAIN stack' : i < j => stack'[i] < stack'[j]
  BY <1>4, StackOK
<1>8. groups'[stack'[1]].mode \notin Composite
  <2>1. stack'[1] = stack[1] /\ stack[1] \in DOMAIN groups
    BY StackOK DEF TypeOK
  <2>2. groups'[stack[1]].mode = groups[stack[1]].mode
    BY <1>2, <1>4, <2>1
  <2> QED BY <2>1, <2>2 DEF TypeOK
<1>9. TypeOK'
  BY <1>2, <1>3, <1>4, <1>5, <1>6, <1>7, <1>8 DEF TypeOK, InputOK
<1> QED BY <1>4, <1>9

LEMMA InitOK == Init => TypeOK /\ PrecedenceRespected
<1> SUFFICES ASSUME Init PROVE TypeOK /\ PrecedenceRespected
  OBVIOUS
<1>1. PICK mode \in {"default", "cmp"} : groups = <<NewGroup(mode, 0)>>
  BY DEF Init
<1>2. /\ NewGroup(mode, 0) \in Groups /\ Fresh(NewGroup(mode, 0))
      /\ GroupOK(NewGroup(mode, 0)) /\ NewGroup(mode, 0).vals = <<>>
      /\ NewGroup(mode, 0).mode \notin Composite
  BY RefFacts DEF NewGroup, Groups, GroupOK, Fresh, Within, Merged, Composite
<1> HIDE DEF NewGroup
<1>3. /\ groups \in Seq(Groups) /\ DOMAIN groups = {1}
      /\ groups[1] = NewGroup(mode, 0)
  BY <1>1, <1>2
<1>4. /\ stack \in Seq(DOMAIN groups) /\ stack # <<>> /\ Len(stack) = 1
      /\ Cur = 1
  BY <1>3 DEF Init, Cur
<1>5. Waiting(Group)
  BY <1>2, <1>3, <1>4 DEF Group, Waiting
<1>6. TypeOK
  <2>1. \A id \in DOMAIN groups : GroupOK(groups[id])
    BY <1>2, <1>3
  <2>2. \A i, j \in DOMAIN stack : ~(i < j)
    BY <1>4
  <2>3. \A i \in DOMAIN stack : ~(i < Len(stack))
    BY <1>4
  <2>4. InputOK /\ pc = "value"
    BY DEF Init, InputOK
  <2>5. groups[stack[1]].mode \notin Composite
    BY <1>2, <1>3, <1>4 DEF Cur
  <2> QED BY <1>3, <1>4, <1>5, <2>1, <2>2, <2>3, <2>4, <2>5 DEF TypeOK, InputOK
<1>7. PrecedenceRespected
  BY <1>2, <1>3 DEF PrecedenceRespected, GroupRespectsPrecedence
<1> QED BY <1>6, <1>7

(* The innermost call returns to its caller, which has yet to hear of it.  *)
LEMMA PopOK ==
  ASSUME TypeOK, Inner, stack' = Callers, groups' = groups, pc' = "fail",
         InputOK'
  PROVE  TypeOK'
<1>1. /\ stack' \in Seq(DOMAIN groups) /\ stack' # <<>>
      /\ \A i, j \in DOMAIN stack' : i < j => stack'[i] < stack'[j]
      /\ \A i \in DOMAIN stack' : i < Len(stack') => Waiting(groups[stack'[i]])
      /\ Len(stack') <= Len(stack)
  BY StackOK
<1>2. Waiting(Group')
  <2>1. Len(stack') < Len(stack)
    BY CallersOK DEF TypeOK
  <2> QED BY <2>1, StackOK DEF Group
<1>3. stack'[1] = stack[1] /\ groups[stack[1]].mode \notin Composite
  BY StackOK DEF TypeOK
<1> QED BY <1>1, <1>2, <1>3 DEF TypeOK, InputOK

(* The groups that a token begins.                                         *)
LEMMA NewGroupOK ==
  ASSUME NEW mode \in {"default"} \cup Composite, NEW argc \in Nat,
         mode \in Composite \ {"list"} => argc > 0
  PROVE  LET h == NewGroup(mode, argc)
         IN  /\ h \in Groups /\ GroupOK(h) /\ Waiting(h)
             /\ h.vals = <<>> /\ h.mode = mode
BY RefFacts DEF NewGroup, Groups, GroupOK, Fresh, Within, Merged, Waiting, Composite

(* A group h is begun within the innermost one.                            *)
LEMMA EnterOK ==
  ASSUME TypeOK, PrecedenceRespected, Waiting(Group), InputOK',
         NEW h \in Groups, GroupOK(h), Waiting(h), h.vals = <<>>,
         NEW at \in {"value", "list", "dot"}, Enter(h, at),
         at = "dot" => h.mode = "module", at = "list" => h.mode = "list"
  PROVE  TypeOK' /\ PrecedenceRespected'
<1> DEFINE top == Len(groups) + 1
<1>1. /\ stack \in Seq(DOMAIN groups) /\ stack # <<>> /\ Len(stack) \in Nat \ {0}
      /\ Cur \in DOMAIN groups
      /\ groups \in Seq(Groups) /\ Len(groups) \in Nat
  BY DEF TypeOK, Cur
<1>2. groups' = Append(groups, h) /\ stack' = Append(stack, Len(groups')) /\ pc' = at
  BY DEF Enter
<1>3. /\ groups' \in Seq(Groups) /\ Len(groups') = top /\ groups'[top] = h
      /\ \A j \in DOMAIN groups : groups'[j] = groups[j] /\ j \in DOMAIN groups'
      /\ \A j \in DOMAIN groups' : j \in DOMAIN groups \/ j = top
  BY <1>1, <1>2
<1>4. stack \in Seq(DOMAIN groups') /\ top \in DOMAIN groups'
  BY <1>1, <1>3
<1>5. /\ stack' \in Seq(DOMAIN groups') /\ stack' # <<>>
      /\ Len(stack') = Len(stack) + 1 /\ stack'[Len(stack')] = top
      /\ \A i \in 1..Len(stack) : stack'[i] = stack[i] /\ stack[i] \in 1..Len(groups)
  BY <1>1, <1>2, <1>3, <1>4
<1>6. \A i, j \in DOMAIN stack' : i < j => stack'[i] < stack'[j]
  <2>1. \A i, j \in 1..Len(stack) : i < j => stack[i] < stack[j]
    BY <1>1 DEF TypeOK
  <2> TAKE i, j \in DOMAIN stack'
  <2> HAVE i < j
  <2>2. i \in 1..Len(stack) /\ (j \in 1..Len(stack) \/ j = Len(stack'))
    BY <1>1, <1>5
  <2>3. stack[i] < top /\ top = stack'[Len(stack')]
    BY <1>1, <1>5, <2>2
  <2> QED BY <1>5, <2>1, <2>2, <2>3
<1>7. \A i \in DOMAIN stack' : i < Len(stack') => Waiting(groups'[stack'[i]])
  <2>1. \A i \in 1..Len(stack) : Waiting(groups[stack[i]])
    <3>1. Waiting(groups[stack[Len(stack)]])
      BY DEF Group, Cur
    <3>2. \A i \in 1..Len(stack) : i < Len(stack) => Waiting(groups[stack[i]])
      BY <1>1 DEF TypeOK
    <3>3. \A i \in 1..Len(stack) : i < Len(stack) \/ i = Len(stack)
      BY <1>1
    <3> QED BY <3>1, <3>2, <3>3
  <2> TAKE i \in DOMAIN stack'
  <2> HAVE i < Len(stack')
  <2>2. i \in 1..Len(stack)
    BY <1>1, <1>5
  <2>3. stack'[i] \in DOMAIN groups /\ Waiting(groups[stack'[i]])
    BY <1>1, <1>5, <2>1, <2>2
  <2> QED BY <1>3, <2>3
<1>8. Waiting(Group')
  BY <1>3, <1>5 DEF Group, Cur, Waiting
<1>9. \A j \in DOMAIN groups' : GroupOK(groups'[j])
  BY <1>3 DEF TypeOK
<1>10. groups'[stack'[1]].mode \notin Composite
  <2>1. 1 \in 1..Len(stack) /\ stack'[1] = stack[1] /\ stack[1] \in DOMAIN groups
    BY <1>1, <1>5
  <2> QED BY <1>3, <2>1 DEF TypeOK
<1>11. Group' = h
  BY <1>3, <1>5 DEF Group, Cur
<1>12. TypeOK'
  BY <1>2, <1>3, <1>5, <1>6, <1>7, <1>8, <1>9, <1>10, <1>11 DEF TypeOK, InputOK
<1>13. \A j \in DOMAIN groups' : GroupRespectsPrecedence(groups'[j])
  BY <1>3 DEF PrecedenceRespected, GroupRespectsPrecedence
<1> QED BY <1>12, <1>13 DEF PrecedenceRespected

(* The outermost group is an expression: one that is not is within another.*)
LEMMA CompositeInner ==
  ASSUME TypeOK, Group.mode \in Composite
  PROVE  Inner
<1> SUFFICES ASSUME ~Inner PROVE FALSE
  OBVIOUS
<1>1. stack \in Seq(DOMAIN groups) /\ stack # <<>> /\ groups[stack[1]].mode \notin Composite
  BY DEF TypeOK
<1>2. Len(stack) \in Nat /\ Len(stack) >= 1
  BY <1>1
<1>3. Len(stack) = 1
  <2>1. ~(Len(stack) > 1)
    BY DEF Inner
  <2>2. \A l \in Nat : l >= 1 /\ ~(l > 1) => l = 1
    OBVIOUS
  <2> QED BY <1>2, <2>1, <2>2
<1> QED BY <1>1, <1>3 DEF Group, Cur

(* The innermost group is handed to its caller.                            *)
LEMMA ReturnOK ==
  ASSUME TypeOK, PrecedenceRespected, Inner, ReturnValue, InputOK'
  PROVE  TypeOK' /\ PrecedenceRespected'
<1>1. stack \in Seq(DOMAIN groups) /\ Len(stack) \in Nat \ {0} /\ Cur \in DOMAIN groups
  BY DEF TypeOK, Cur
<1>2. ExprValue(Cur) \in Vals
  BY <1>1 DEF ExprValue, Vals, TypeOK
<1>3. /\ stack' = Callers
      /\ Cur' = stack[Len(stack) - 1]
      /\ Waiting(groups[Cur'])
  <2>1. stack' = Callers
    BY DEF ReturnValue
  <2>2. Len(stack') = Len(stack) - 1 /\ Len(stack') < Len(stack)
    BY <1>1, <2>1, CallersOK
  <2>3. Cur' = stack[Len(stack) - 1]
    BY <1>1, <2>1, <2>2, StackOK, SMTT(30) DEF Cur
  <2> QED BY <2>1, <2>2, <2>3, StackOK
<1>4. /\ groups' = [groups EXCEPT ![Cur'] = Deliver(groups[Cur'], ExprValue(Cur))]
      /\ pc' = After(groups[Cur'])
  BY <1>1, <1>3, StackOK DEF ReturnValue
<1> QED BY <1>2, <1>3, <1>4, DeliverHere

LEMMA NextOK ==
  ASSUME TypeOK, PrecedenceRespected, [Next]_vars
  PROVE  TypeOK' /\ PrecedenceRespected'
<1>0. /\ stack \in Seq(DOMAIN groups) /\ stack # <<>> /\ Len(stack) \in Nat \ {0}
      /\ Cur \in DOMAIN groups /\ Group \in Groups /\ GroupOK(Group)
      /\ groups \in Seq(Groups) /\ Len(groups) \in Nat
  BY DEF TypeOK, Cur, Group
<1>1. CASE Operand
  <2> DEFINE val == Atom(IF tok = "type" THEN "type" ELSE "value")
  <2>1. val \in Vals
    BY DEF Atom, Vals
  <2>2. Cur' = Cur /\ Group = groups[Cur] /\ Waiting(Group) /\ InputOK'
    BY <1>1, EatTokOK DEF Operand, AtIdent, Cur, Group, TypeOK
  <2>3. /\ stack' = stack /\ pc' = After(Group)
        /\ groups' = [groups EXCEPT ![Cur] = Deliver(Group, val)]
    BY <1>1 DEF Operand
  <2> HIDE DEF val
  <2> QED BY <2>1, <2>2, <2>3, DeliverHere
<1>2. CASE OpenParen \/ OpenList \/ Call \/ Module \/ Index
  <2>1. Waiting(Group) /\ InputOK'
    BY <1>2, EatTokOK DEF OpenParen, OpenList, Call, Module, Index, AtIdent, TypeOK
  <2>2. ASSUME NEW mode \in {"default"} \cup Composite, NEW argc \in Nat,
               NEW at \in {"value", "list", "dot"}, Enter(NewGroup(mode, argc), at),
               mode \in Composite \ {"list"} => argc > 0,
               at = "dot" => mode = "module", at = "list" => mode = "list"
        PROVE  TypeOK' /\ PrecedenceRespected'
    <3> DEFINE h == NewGroup(mode, argc)
    <3>1. /\ h \in Groups /\ GroupOK(h) /\ Waiting(h) /\ h.vals = <<>>
          /\ h.mode = mode /\ Enter(h, at)
      BY <2>2, NewGroupOK
    <3> HIDE DEF h
    <3> QED BY <2>1, <2>2, <3>1, EnterOK
  <2>3. CASE OpenParen
    BY <2>2, <2>3 DEF OpenParen, Composite
  <2>4. CASE OpenList
    BY <2>2, <2>4 DEF OpenList, Composite
  <2>5. CASE Call
    <3>1. PICK n \in 1..MaxParams : Enter(NewGroup("call", n), "value")
      BY <2>5 DEF Call
    <3>2. n \in Nat /\ n > 0
      BY BoundsAssumption
    <3> QED BY <2>2, <3>1, <3>2 DEF Composite
  <2>6. CASE Module
    BY <2>2, <2>6 DEF Module, Composite
  <2>7. CASE Index
    BY <2>2, <2>7 DEF Index, Composite
  <2> QED BY <1>2, <2>3, <2>4, <2>5, <2>6, <2>7
<1>3. CASE NoOperand
  <2>1. /\ InputOK' /\ pc' = "fail"
        /\ UNCHANGED <<groups, stack>> /\ Waiting(Group)
    BY <1>3, EatTokOK DEF NoOperand, TypeOK
  <2> QED BY <2>1 DEF TypeOK, PrecedenceRespected, Group, Cur, InputOK
<1>4. CASE FailFirst
  <2>1. UNCHANGED <<tok, eaten, groups, crossed>> /\ PrecedenceRespected' /\ InputOK'
    BY <1>4 DEF FailFirst, PrecedenceRespected, TypeOK, InputOK
  <2>2. CASE Inner
    BY <1>4, <2>1, <2>2, PopOK DEF FailFirst, TypeOK
  <2>3. CASE ~Inner
    BY <1>4, <2>1, <2>3 DEF FailFirst, TypeOK, Group, Cur
  <2> QED BY <2>1, <2>2, <2>3
<1>5. CASE FailLater \/ NoIndex
  <2>1. PICK kind \in {"value", "null"} :
          groups' = [groups EXCEPT ![Cur] = Deliver(Group, Atom(kind))]
    BY <1>5 DEF FailLater, NoIndex
  <2>2. Atom(kind) \in Vals
    BY DEF Atom, Vals
  <2>3. /\ Cur' = Cur /\ Group = groups[Cur] /\ Waiting(Group)
        /\ stack' = stack /\ pc' = After(Group) /\ InputOK'
    BY <1>5 DEF FailLater, NoIndex, Cur, Group, TypeOK, InputOK
  <2> QED BY <2>1, <2>2, <2>3, DeliverHere
<1>6. CASE \/ SkipEol \/ SkipWhite \/ Dot \/ ArrName \/ SkipToComma
           \/ Comma \/ ListComma \/ ListElem
  <2>1. InputOK' /\ UNCHANGED <<groups, stack>>
    BY <1>6, EatTokOK DEF SkipEol, SkipWhite, Dot, ArrName, SkipToComma,
       Comma, ListComma, ListElem, TypeOK, InputOK
  <2>2. /\ pc' \in {"op", "next", "dot", "name", "arr", "list", "value"}
        /\ pc' \in {"value", "arr", "list", "dot", "name"} => Waiting(Group)
        /\ pc' \in {"dot", "name"} => Group.mode = "module"
        /\ pc' = "list" => Group.mode = "list"
        /\ pc' = "next" => Group.mode \in Composite
        /\ pc' = "op" => Full(Group) /\ (Group.mode = "cmp" => Group.ops = <<>>)
    BY <1>6 DEF SkipEol, SkipWhite, Dot, ArrName, SkipToComma, AtIdent,
       Comma, ListComma, ListElem, LacksArgs, Waiting, Composite, TypeOK
  <2> QED BY <2>1, <2>2 DEF TypeOK, PrecedenceRespected, Group, Cur, InputOK
<1>7. CASE Operator
  <2> DEFINE h == [Group EXCEPT !.ops = Append(@, tok)]
             O == Append(Group.ops, tok)
             n == Merged(Group)
  <2>0. /\ n \in Nat /\ Group.ops \in Seq(Infix \cup Cmp) /\ Len(Group.ops) = n
        /\ Full(Group) /\ Group.mode \notin Composite
    BY <1>0, <1>7 DEF Operator, TypeOK, Full, Groups, Merged
  <2>1. /\ tok \in Infix \cup Cmp
        /\ Group.mode = "default" => tok \in Infix
        /\ Group.mode = "cmp" => Group.ops = <<>>
    BY <1>0, <1>7 DEF Operator, IsOp, TypeOK, Groups
  <2>2. /\ O \in Seq(Infix \cup Cmp) /\ Len(O) = n + 1
        /\ O[n + 1] = tok /\ \A k \in 1..n : O[k] = Group.ops[k]
    BY <2>0, <2>1
  <2>3. h = [Group EXCEPT !.ops = O]
    BY <1>0
  <2> HIDE DEF O, h
  <2>4. /\ h \in Groups /\ h.ops = O /\ h.mode = Group.mode
        /\ h.vals = Group.vals /\ h.lhs = Group.lhs /\ h.rhs = Group.rhs
        /\ h.root = Group.root
    BY <1>0, <2>2, <2>3 DEF Groups
  <2>5. Merged(h) = n /\ Waiting(h)
    BY <2>0, <2>2, <2>4 DEF Waiting, Full, Merged
  <2>6. GroupOK(h)
    <3>1. h.mode = "default" => \A k \in 1..Len(h.ops) : h.ops[k] \in Infix
      <4>1. Group.mode = "default" => \A k \in 1..n : Group.ops[k] \in Infix
        BY <1>0, <2>0 DEF GroupOK
      <4>2. \A k \in 1..(n + 1) : k \in 1..n \/ k = n + 1
        BY <2>0
      <4> QED BY <2>0, <2>1, <2>2, <2>4, <4>1, <4>2
    <3>2. h.mode = "cmp" => Len(h.ops) <= 1
      BY <2>0, <2>1, <2>2, <2>4
    <3> QED BY <1>0, <2>0, <2>4, <3>1, <3>2 DEF GroupOK, Merged
  <2>7. ASSUME GroupRespectsPrecedence(Group) PROVE GroupRespectsPrecedence(h)
    <3>1. \A k \in 1..n : h.ops[k] = Group.ops[k]
      BY <2>2, <2>4
    <3>2. CastsLast(h) => CastsLast(Group)
      BY <2>5, <3>1 DEF CastsLast
    <3>3. IsPrecedenceTree(Group) => IsPrecedenceTree(h)
      <4>1. \A k \in 1..n : Powers(h)[k] = Powers(Group)[k]
        BY <2>0, <2>2, <2>4, <3>1 DEF Powers
      <4>2. n = Merged(Group)
        OBVIOUS
      <4> HIDE DEF n
      <4>3. IsTree(Powers(Group), n, Group.root, Group.lhs, Group.rhs)
              => IsTree(Powers(h), n, Group.root, Group.lhs, Group.rhs)
        BY <2>0, <4>1, SamePowers
      <4> QED BY <2>4, <2>5, <4>2, <4>3 DEF IsPrecedenceTree
    <3> QED BY <2>4, <2>7, <3>2, <3>3 DEF GroupRespectsPrecedence
  <2>8. /\ groups' \in Seq(Groups)
        /\ DOMAIN groups' = DOMAIN groups
        /\ groups'[Cur] = h
        /\ \A j \in DOMAIN groups : j # Cur => groups'[j] = groups[j]
        /\ \A j \in DOMAIN groups' : GroupOK(groups'[j])
        /\ PrecedenceRespected'
    <3>1. groups' = [groups EXCEPT ![Cur] = h]
      BY <1>0, <1>7 DEF Operator, h, Group
    <3>2. GroupRespectsPrecedence(Group)
      BY <1>0 DEF PrecedenceRespected, Group
    <3> QED BY <1>0, <2>4, <2>6, <2>7, <3>1, <3>2, UpdateOK
  <2>9. stack' = stack /\ Cur' = Cur /\ Group' = h /\ pc' = "value"
    BY <1>7, <2>8 DEF Operator, Cur, Group
  <2>10. \A i \in DOMAIN stack' : i < Len(stack') => Waiting(groups'[stack'[i]])
    <3>1. \A i \in DOMAIN stack :
            i < Len(stack) => /\ stack[i] # Cur /\ stack[i] \in DOMAIN groups
                              /\ Waiting(groups[stack[i]])
      BY <2>9, StackOK
    <3> QED BY <2>8, <2>9, <3>1
  <2>11. InputOK' /\ groups'[stack'[1]].mode \notin Composite
    <3>1. InputOK'
      BY <1>7, EatTokOK DEF Operator
    <3>2. stack[1] \in DOMAIN groups /\ groups[stack[1]].mode \notin Composite
      BY DEF TypeOK
    <3>3. groups'[stack[1]].mode = groups[stack[1]].mode
      BY <2>4, <2>8, <3>2 DEF Group
    <3> QED BY <2>9, <3>1, <3>2, <3>3
  <2>12. /\ stack' \in Seq(DOMAIN groups') /\ stack' # <<>>
         /\ \A i, j \in DOMAIN stack' : i < j => stack'[i] < stack'[j]
    BY <2>8, <2>9 DEF TypeOK
  <2>13. TypeOK'
    BY <2>5, <2>8, <2>9, <2>10, <2>11, <2>12 DEF TypeOK, InputOK
  <2> QED BY <2>8, <2>13
<1>8. CASE NoOperator
  BY <1>8 DEF NoOperator, TypeOK, PrecedenceRespected, Group, Cur
<1>9. CASE Close \/ EndValue
  <2>1. Inner
    <3>1. Inner \/ Group.mode \in Composite
      BY <1>9 DEF Close, Closing, EndValue, TypeOK, Composite
    <3> QED BY <3>1, CompositeInner
  <2>2. ReturnValue /\ InputOK'
    BY <1>9, EatTokOK DEF Close, EndValue, TypeOK, InputOK
  <2> QED BY <2>1, <2>2, ReturnOK
<1>10. CASE NotClosed
  <2>1. Inner
    <3>1. Inner \/ Group.mode \in Composite
      BY <1>10 DEF NotClosed, Closing, Composite
    <3> QED BY <3>1, CompositeInner
  <2>2. ReturnNull /\ InputOK'
    BY <1>10, EatTokOK DEF NotClosed
  <2> QED BY <2>1, <2>2, PopOK DEF ReturnNull, PrecedenceRespected
<1>11. CASE Done
  <2>1. Len(stack) = 1
    <3>1. Len(stack) \in Nat \ {0}
      BY <1>0
    <3>2. ~(Len(stack) > 1)
      BY <1>11 DEF Done, Inner
    <3>3. \A l \in Nat \ {0} : ~(l > 1) => l = 1
      OBVIOUS
    <3> QED BY <3>1, <3>2, <3>3
  <2>2. groups' = groups
    BY <1>11 DEF Done
  <2> QED BY <1>11, <2>1, <2>2 DEF Done, TypeOK, PrecedenceRespected, Group, Cur
<1>12. CASE NullToken
  BY <1>12 DEF NullToken, TypeOK, PrecedenceRespected, Group, Cur
<1>13. CASE UNCHANGED vars
  BY <1>13 DEF vars, TypeOK, PrecedenceRespected, Group, Cur
<1> QED BY <1>1, <1>2, <1>3, <1>4, <1>5, <1>6, <1>7, <1>8, <1>9, <1>10, <1>11,
           <1>12, <1>13 DEF Next

-----------------------------------------------------------------------------
(* What free_expr relies on.                                               *)

(* The pointers of a tree of n operators differ, and an operator is on the *)
(* side of another on which it is in the source.                           *)
Apart(n, root, lhs, rhs) ==
  /\ \A k \in 1..n : root # lhs[k] /\ root # rhs[k]
  /\ \A j, k \in 1..n : /\ lhs[j] # rhs[k]
                        /\ j # k => lhs[j] # lhs[k] /\ rhs[j] # rhs[k]
InOrder(n, lhs, rhs) ==
  \A k, j \in 1..n : /\ lhs[k] = Opr(j) => j < k
                     /\ rhs[k] = Opr(j) => j > k

GroupApart(g) ==
  Apart(Merged(g), g.root, g.lhs, g.rhs) /\ InOrder(Merged(g), g.lhs, g.rhs)

(* Pointers and Target name the same pointers.                             *)
LEMMA ApartPointers ==
  ASSUME NEW g \in Groups, Apart(Merged(g), g.root, g.lhs, g.rhs)
  PROVE  \A p, q \in Pointers(g) : p # q => Target(g, p) # Target(g, q)
<1> DEFINE n == Merged(g)
<1>1. \A p \in Pointers(g) :
        \/ p = <<"root", 0>> /\ Target(g, p) = g.root
        \/ \E k \in 1..n : p = <<"lhs", k>> /\ Target(g, p) = g.lhs[k]
        \/ \E k \in 1..n : p = <<"rhs", k>> /\ Target(g, p) = g.rhs[k]
  <2> SUFFICES ASSUME NEW p \in Pointers(g)
               PROVE  \/ p = <<"root", 0>> /\ Target(g, p) = g.root
                      \/ \E k \in 1..n : p = <<"lhs", k>> /\ Target(g, p) = g.lhs[k]
                      \/ \E k \in 1..n : p = <<"rhs", k>> /\ Target(g, p) = g.rhs[k]
    OBVIOUS
  <2>1. \/ p = <<"root", 0>>
        \/ \E k \in 1..n : p = <<"lhs", k>>
        \/ \E k \in 1..n : p = <<"rhs", k>>
    BY DEF Pointers
  <2> HIDE DEF n
  <2>2. CASE p = <<"root", 0>>
    BY <2>2 DEF Target
  <2>3. ASSUME NEW k \in 1..n, p = <<"lhs", k>> PROVE Target(g, p) = g.lhs[k]
    BY <2>3 DEF Target
  <2>4. ASSUME NEW k \in 1..n, p = <<"rhs", k>> PROVE Target(g, p) = g.rhs[k]
    BY <2>4 DEF Target
  <2> QED BY <2>1, <2>2, <2>3, <2>4
<1> SUFFICES ASSUME NEW p \in Pointers(g), NEW q \in Pointers(g), p # q
             PROVE  Target(g, p) # Target(g, q)
  OBVIOUS
<1> HIDE DEF n
<1>2. /\ \A k \in 1..n : g.root # g.lhs[k] /\ g.root # g.rhs[k]
      /\ \A j, k \in 1..n : /\ g.lhs[j] # g.rhs[k]
                            /\ j # k => g.lhs[j] # g.lhs[k] /\ g.rhs[j] # g.rhs[k]
  BY DEF Apart, n
<1>3. CASE p = <<"root", 0>> /\ Target(g, p) = g.root
  BY <1>1, <1>2, <1>3
<1>4. ASSUME NEW j \in 1..n, p = <<"lhs", j>>, Target(g, p) = g.lhs[j]
      PROVE  Target(g, p) # Target(g, q)
  BY <1>1, <1>2, <1>4
<1>5. ASSUME NEW j \in 1..n, p = <<"rhs", j>>, Target(g, p) = g.rhs[j]
      PROVE  Target(g, p) # Target(g, q)
  BY <1>1, <1>2, <1>5
<1> QED BY <1>1, <1>3, <1>4, <1>5

(* merge_expr moves a pointer, or makes one to what is new; it copies none *)
(* that stays where it was.                                                *)
LEMMA MergeApart ==
  ASSUME NEW g, Pending(g), GroupApart(g)
  PROVE  GroupApart(Merge(g))
<1> DEFINE n == Merged(g)
           h == Merge(g)
           r == g.root[2]
<1>1. n \in Nat /\ GroupOK(g)
  BY DEF Pending, Groups, Merged
<1>2. /\ Merged(h) = n + 1
      /\ h.rhs[n + 1] = Val(n + 2)
      /\ \A k \in 1..n : h.lhs[k] = g.lhs[k]
      /\ ~BindsTighter(g) =>
           /\ h.root = Opr(n + 1)
           /\ h.lhs[n + 1] = g.root
           /\ \A k \in 1..n : h.rhs[k] = g.rhs[k]
      /\ BindsTighter(g) =>
           /\ r \in 1..n
           /\ g.root = Opr(r)
           /\ h.root = g.root
           /\ h.lhs[n + 1] = g.rhs[r]
           /\ h.rhs[r] = Opr(n + 1)
           /\ \A k \in 1..n : k # r => h.rhs[k] = g.rhs[k]
  BY MergeFields
<1>3. \A ref : Within(ref, n) => ref # Val(n + 2) /\ ref # Opr(n + 1)
  BY <1>1 DEF Within, Val, Opr
<1>4. /\ Within(g.root, n)
      /\ \A k \in 1..n : Within(g.lhs[k], n) /\ Within(g.rhs[k], n)
  BY DEF GroupOK, Pending
<1>5. Val(n + 2) # Opr(n + 1)
  BY DEF Val, Opr
<1>6. \A i, j : Opr(i) = Opr(j) => i = j
  BY DEF Opr
<1>7. \A i, j : Val(i) # Opr(j)
  BY DEF Val, Opr
<1>8. /\ Apart(n, g.root, g.lhs, g.rhs) /\ InOrder(n, g.lhs, g.rhs)
  BY DEF GroupApart
<1> HIDE DEF n, h, r
<1>9. \A k \in 1..(n + 1) : k \in 1..n \/ k = n + 1
  BY <1>1
<1>10. CASE ~BindsTighter(g)
  <2>1. Apart(n + 1, h.root, h.lhs, h.rhs)
    BY <1>1, <1>2, <1>3, <1>4, <1>5, <1>8, <1>9, <1>10 DEF Apart
  <2>2. InOrder(n + 1, h.lhs, h.rhs)
    BY <1>1, <1>2, <1>3, <1>4, <1>7, <1>8, <1>9, <1>10 DEF InOrder
  <2> QED BY <1>2, <2>1, <2>2 DEF GroupApart, h
<1>11. CASE BindsTighter(g)
  <2>1. Apart(n + 1, h.root, h.lhs, h.rhs)
    BY <1>1, <1>2, <1>3, <1>4, <1>5, <1>8, <1>9, <1>11 DEF Apart
  <2>2. InOrder(n + 1, h.lhs, h.rhs)
    BY <1>1, <1>2, <1>3, <1>4, <1>6, <1>7, <1>8, <1>9, <1>11 DEF InOrder
  <2> QED BY <1>2, <2>1, <2>2 DEF GroupApart, h
<1> QED BY <1>10, <1>11

LEMMA DeliverApart ==
  ASSUME NEW g \in Groups, GroupOK(g), Waiting(g), NEW val \in Vals
  PROVE  /\ Deliver(g, val).vals = Append(g.vals, val)
         /\ GroupApart(g) => GroupApart(Deliver(g, val))
<1> DEFINE with == [g EXCEPT !.vals = Append(@, val)]
<1>1. /\ with \in Groups
      /\ with.vals = Append(g.vals, val)
      /\ with.ops = g.ops /\ with.mode = g.mode
      /\ with.lhs = g.lhs /\ with.rhs = g.rhs /\ with.root = g.root
  <2> DEFINE V == Append(g.vals, val)
  <2>1. V \in Seq(Vals)
    BY DEF Groups
  <2>2. with = [g EXCEPT !.vals = V]
    OBVIOUS
  <2> HIDE DEF V, with
  <2>3. /\ with \in Groups
        /\ with.vals = V
        /\ with.ops = g.ops /\ with.mode = g.mode
        /\ with.lhs = g.lhs /\ with.rhs = g.rhs /\ with.root = g.root
    BY <2>1, <2>2 DEF Groups
  <2> QED BY <2>3 DEF V
<1>2. /\ GroupOK(with) /\ Merged(with) = Merged(g)
      /\ GroupApart(g) => GroupApart(with)
  BY <1>1 DEF GroupOK, Merged, GroupApart
<1>3. Deliver(g, val) = IF g.ops = <<>> THEN with ELSE Merge(with)
  BY DEF Deliver
<1> HIDE DEF with
<1>4. CASE g.ops = <<>>
  BY <1>1, <1>2, <1>3, <1>4
<1>5. CASE g.ops # <<>>
  <2>1. Len(g.vals) = Merged(g) + 1 /\ Len(g.ops) = Merged(g) + 1
    BY <1>5 DEF Waiting, Fresh, GroupOK
  <2>2. Merged(g) \in Nat /\ g.vals \in Seq(Vals)
    BY DEF Groups, Merged
  <2>3. Pending(with)
    BY <1>1, <1>2, <2>1, <2>2 DEF Pending
  <2>4. Merge(with).vals = with.vals
    BY <2>3, MergeFields
  <2>5. GroupApart(with) => GroupApart(Merge(with))
    BY <2>3, MergeApart
  <2> QED BY <1>1, <1>2, <1>3, <1>5, <2>4, <2>5
<1> QED BY <1>4, <1>5

(* Group id is operand i of group h.                                       *)
Holds(h, i, id) ==
  /\ h \in 1..Len(groups) /\ i \in 1..Len(groups[h].vals)
  /\ groups[h].vals[i] = ExprValue(id)

(* A group is the operand of at most one other, begun before it, and of    *)
(* none while it is being parsed.                                          *)
NestedOnce ==
  \A h, i, id : Holds(h, i, id) =>
    /\ id \in 1..Len(groups) /\ h < id
    /\ \A s \in 1..Len(stack) : stack[s] # id
    /\ \A l, j : Holds(l, j, id) => l = h /\ j = i

AllApart == \A id \in 1..Len(groups) : GroupApart(groups[id])

(* The operand of the outermost expression that is being read.             *)
Reading == Len(groups[stack[1]].vals) + 1

(* It is made of values.                                                   *)
Open == Inner /\ groups[stack[2]].mode \in Composite

(* The end of a line that is not skipped is refused, and then the operand  *)
(* is NULL; one that is skipped outside parentheses is within a call or a  *)
(* qualified name.                                                         *)
Breaking == pc = "null" \/ (pc = "fail" /\ ~Inner) \/ Open
Crossings ==
  \A i \in crossed :
    \/ i \in 1..Len(groups[stack[1]].vals) /\ MayBreak(stack[1], i)
    \/ i = Reading /\ Breaking

Shared == NestedOnce /\ AllApart /\ Crossings

(* The innermost call goes on or returns.                                  *)
Returned == stack' = stack \/ (Inner /\ stack' = Callers)

LEMMA StackPrefix ==
  ASSUME TypeOK, Returned
  PROVE  \A s \in 1..Len(stack') : s \in 1..Len(stack) /\ stack'[s] = stack[s]
<1>1. /\ Len(stack') \in Nat /\ Len(stack') <= Len(stack) /\ Len(stack) \in Nat
      /\ \A i \in 1..Len(stack') : stack'[i] = stack[i]
  BY StackOK DEF Returned, TypeOK
<1> QED BY <1>1

(* No operand is added.                                                    *)
LEMMA NestedSame ==
  ASSUME TypeOK, NestedOnce, Returned, Len(groups') = Len(groups),
         \A id \in 1..Len(groups) : groups'[id].vals = groups[id].vals
  PROVE  NestedOnce'
<1>1. \A h, i, id : Holds(h, i, id)' => Holds(h, i, id)
  BY DEF Holds
<1>2. \A h, i, id : Holds(h, i, id) => Holds(h, i, id)'
  BY DEF Holds
<1> QED BY <1>1, <1>2, StackPrefix DEF NestedOnce

(* An operand is added to the group that is innermost afterwards: not a    *)
(* group, or the one that was innermost.                                   *)
LEMMA NestedDeliver ==
  ASSUME TypeOK, NestedOnce, NEW val, NEW d \in 1..Len(groups),
         Len(groups') = Len(groups),
         groups'[d].vals = Append(groups[d].vals, val),
         \A id \in 1..Len(groups) : id # d => groups'[id].vals = groups[id].vals,
         \/ stack' = stack /\ \A id : val # ExprValue(id)
         \/ /\ Inner /\ stack' = Callers /\ val = ExprValue(Cur) /\ d < Cur
            /\ \A s \in 1..Len(stack') : stack'[s] # Cur
  PROVE  NestedOnce'
<1> DEFINE n == Len(groups[d].vals)
<1>1. \A s \in 1..Len(stack') : s \in 1..Len(stack) /\ stack'[s] = stack[s]
  BY StackPrefix DEF Returned
<1>2. /\ n \in Nat /\ Len(groups'[d].vals) = n + 1 /\ groups'[d].vals[n + 1] = val
      /\ \A i \in 1..n : groups'[d].vals[i] = groups[d].vals[i]
  <2>1. groups[d].vals \in Seq(Vals)
    <3>1. groups[d] \in Groups
      BY DEF TypeOK
    <3> QED BY <3>1 DEF Groups
  <2> QED BY <2>1
<1> HIDE DEF n
<1>3. ASSUME NEW h, NEW i, NEW id, Holds(h, i, id)'
      PROVE  \/ h = d /\ i = n + 1 /\ val = ExprValue(id)
             \/ Holds(h, i, id)
  <2>1. h \in 1..Len(groups) /\ i \in 1..Len(groups'[h].vals)
        /\ groups'[h].vals[i] = ExprValue(id)
    BY <1>3 DEF Holds
  <2>2. CASE h # d
    BY <2>1, <2>2 DEF Holds
  <2>3. CASE h = d
    <3>1. i = n + 1 \/ i \in 1..n
      BY <1>2, <2>1, <2>3
    <3>2. i \in 1..n => groups[h].vals[i] = ExprValue(id) /\ i \in 1..Len(groups[h].vals)
      BY <1>2, <2>1, <2>3 DEF n
    <3>3. i = n + 1 => val = ExprValue(id)
      BY <1>2, <2>1, <2>3
    <3> QED BY <2>1, <2>3, <3>1, <3>2, <3>3 DEF Holds
  <2> QED BY <2>2, <2>3
<1>4. \A i, j : ExprValue(i) = ExprValue(j) => i = j
  BY DEF ExprValue
<1>5. /\ Cur \in 1..Len(groups) /\ Len(stack) \in 1..Len(stack)
      /\ stack[Len(stack)] = Cur
  BY DEF TypeOK, Cur
<1>6. \A h, i : ~Holds(h, i, Cur)
  BY <1>5 DEF NestedOnce
<1> SUFFICES ASSUME NEW h, NEW i, NEW id, Holds(h, i, id)'
             PROVE  /\ id \in 1..Len(groups) /\ h < id
                    /\ \A s \in 1..Len(stack') : stack'[s] # id
                    /\ \A l, j : Holds(l, j, id)' => l = h /\ j = i
  BY DEF NestedOnce
<1>7. CASE h = d /\ i = n + 1 /\ val = ExprValue(id)
  <2>1. CASE stack' = stack /\ \A e : val # ExprValue(e)
    BY <1>7, <2>1
  <2>2. CASE /\ Inner /\ stack' = Callers /\ val = ExprValue(Cur) /\ d < Cur
             /\ \A s \in 1..Len(stack') : stack'[s] # Cur
    <3>1. id = Cur
      BY <1>4, <1>7, <2>2
    <3>2. \A l, j : Holds(l, j, id)' => l = h /\ j = i
      BY <1>3, <1>6, <1>7, <3>1
    <3>3. \A s \in 1..Len(stack') : stack'[s] # id
      BY <2>2, <3>1
    <3>4. id \in 1..Len(groups) /\ h < id
      BY <1>5, <1>7, <2>2, <3>1
    <3> QED BY <3>2, <3>3, <3>4
  <2> QED BY <2>1, <2>2
<1>8. CASE Holds(h, i, id)
  <2>1. /\ id \in 1..Len(groups) /\ h < id
        /\ \A s \in 1..Len(stack) : stack[s] # id
        /\ \A l, j : Holds(l, j, id) => l = h /\ j = i
    BY <1>8 DEF NestedOnce
  <2>2. val # ExprValue(id)
    <3>1. id # Cur
      BY <1>5, <2>1
    <3> QED BY <1>4, <3>1
  <2>3. \A l, j : Holds(l, j, id)' => l = h /\ j = i
    BY <1>3, <2>1, <2>2
  <2>4. \A s \in 1..Len(stack') : stack'[s] # id
    BY <1>1, <2>1
  <2> QED BY <2>1, <2>3, <2>4
<1> QED BY <1>3, <1>7, <1>8

LEMMA StackFirst ==
  ASSUME TypeOK
  PROVE  /\ stack[1] \in 1..Len(groups) /\ Len(stack) \in Nat /\ Len(stack) >= 1
         /\ Returned => stack'[1] = stack[1]
         /\ ~Inner => Cur = stack[1]
<1>1. stack \in Seq(1..Len(groups)) /\ stack # <<>>
  BY DEF TypeOK
<1>2. Len(stack) \in Nat /\ Len(stack) >= 1 /\ stack[1] \in 1..Len(groups)
  BY <1>1
<1>3. Returned => stack'[1] = stack[1]
  BY StackOK DEF Returned
<1>4. ASSUME ~Inner PROVE Cur = stack[1]
  <2>1. ~(Len(stack) > 1)
    BY <1>4 DEF Inner
  <2>2. \A l \in Nat : l >= 1 /\ ~(l > 1) => l = 1
    OBVIOUS
  <2>3. Len(stack) = 1
    BY <1>2, <2>1, <2>2
  <2> QED BY <2>3 DEF Cur
<1> QED BY <1>2, <1>3, <1>4

(* What there is of the groups stays, but for operands that are added.     *)
Kept ==
  /\ Len(groups) \in Nat /\ Len(groups') \in Nat /\ Len(groups) <= Len(groups')
  /\ \A id \in 1..Len(groups) :
       /\ groups'[id].mode = groups[id].mode
       /\ Len(groups[id].vals) \in Nat /\ Len(groups'[id].vals) \in Nat
       /\ Len(groups[id].vals) <= Len(groups'[id].vals)
       /\ \A i \in 1..Len(groups[id].vals) : groups'[id].vals[i] = groups[id].vals[i]

(* So operands that were read stay as they are, and only the one being read*)
(* has to be looked at.                                                    *)
LEMMA CrossingsStay ==
  ASSUME TypeOK, NestedOnce, Crossings, Kept, stack'[1] = stack[1],
         NEW f, NEW r, f = stack[1], r = Reading, crossed' \subseteq crossed \cup {r},
         r \in crossed' =>
           \/ r \in 1..Len(groups'[f].vals) /\ MayBreak(f, r)'
           \/ Reading' = r /\ Breaking'
  PROVE  Crossings'
<1>1. f = stack[1] /\ f = stack'[1] /\ f \in 1..Len(groups)
  BY StackFirst
<1>2. ASSUME NEW i \in 1..Len(groups[f].vals), MayBreak(f, i)
      PROVE  i \in 1..Len(groups'[f].vals) /\ MayBreak(f, i)'
  <2>1. i \in 1..Len(groups'[f].vals) /\ groups'[f].vals[i] = groups[f].vals[i]
    BY <1>1 DEF Kept
  <2>2. CASE groups[f].vals[i].kind = "null"
    BY <2>1, <2>2 DEF MayBreak
  <2>3. CASE /\ groups[f].vals[i].kind = "expr"
             /\ groups[groups[f].vals[i].expr].mode \in Composite
    <3>1. groups[f].vals[i] \in Vals
      <4>1. groups[f] \in Groups
        BY <1>1 DEF TypeOK
      <4> QED BY <4>1 DEF Groups
    <3> DEFINE id == groups[f].vals[i].expr
    <3>2. groups[f].vals[i] = ExprValue(id)
      BY <2>3, <3>1 DEF Vals, ExprValue
    <3>3. id \in 1..Len(groups)
      <4>1. Holds(f, i, id)
        BY <1>1, <3>2 DEF Holds
      <4> QED BY <4>1 DEF NestedOnce
    <3>4. groups'[id].mode = groups[id].mode
      BY <3>3 DEF Kept
    <3> QED BY <2>1, <2>3, <3>4 DEF MayBreak
  <2> QED BY <1>2, <2>2, <2>3 DEF MayBreak
<1> SUFFICES ASSUME NEW i \in crossed'
             PROVE  \/ i \in 1..Len(groups'[f].vals) /\ MayBreak(f, i)'
                    \/ i = Reading' /\ Breaking'
  BY <1>1 DEF Crossings
<1>3. CASE i = r
  BY <1>3
<1>4. CASE i # r
  <2>1. i \in crossed /\ i \in 1..Len(groups[f].vals) /\ MayBreak(f, i)
    BY <1>1, <1>4 DEF Crossings
  <2> QED BY <1>2, <2>1
<1> QED BY <1>3, <1>4

(* What eat_tok adds to the history.                                       *)
LEMMA EatTokCrosses ==
  ASSUME EatTok
  PROVE  /\ crossed' \subseteq crossed \cup {Reading}
         /\ tok \notin Eols \/ ~Outside => crossed' = crossed
BY DEF EatTok, Reading

LEMMA OutsideOpen ==
  ASSUME TypeOK, Outside, Inner
  PROVE  Open
<1>1. Len(stack) \in Nat /\ Len(stack) > 1
  BY DEF TypeOK, Inner
<1>2. 2 \in 2..Len(stack)
  BY <1>1
<1> QED BY <1>2 DEF Outside, Open

(* In an expression within another, a parenthesis is open.                 *)
LEMMA ExprNotOutside ==
  ASSUME TypeOK, Inner, Group.mode \notin Composite
  PROVE  ~Outside
<1>1. Len(stack) \in Nat /\ Len(stack) > 1
  BY DEF TypeOK, Inner
<1>2. Len(stack) \in 2..Len(stack)
  BY <1>1
<1> QED BY <1>2 DEF Outside, Group, Cur

(* The groups and those that are innermost stay, but for one that is begun.*)
LEMMA CrossingsSame ==
  ASSUME TypeOK, NestedOnce, Crossings, Kept,
         \A id \in 1..Len(groups) : Len(groups'[id].vals) = Len(groups[id].vals),
         Len(stack') \in Nat, Len(stack) <= Len(stack'),
         \A s \in 1..Len(stack) : stack'[s] = stack[s],
         pc \notin {"fail", "null"},
         crossed' \subseteq crossed \cup {Reading},
         crossed' # crossed => Open \/ (~Inner' /\ pc' = "fail")
  PROVE  Crossings'
<1>1. /\ stack'[1] = stack[1] /\ stack[1] \in 1..Len(groups)
      /\ Len(stack) \in Nat /\ Len(stack) >= 1
  BY StackFirst
<1>2. Reading' = Reading
  BY <1>1 DEF Reading
<1>3. Open => Open'
  <2> SUFFICES ASSUME Open PROVE Open'
    OBVIOUS
  <2>1. 2 \in 1..Len(stack) /\ stack[2] \in 1..Len(groups)
    BY <1>1 DEF Open, Inner, TypeOK
  <2>2. stack'[2] = stack[2] /\ groups'[stack[2]].mode = groups[stack[2]].mode
    BY <2>1 DEF Kept
  <2>3. Len(stack') > 1
    BY <1>1 DEF Open, Inner
  <2> QED BY <2>2, <2>3 DEF Open, Inner
<1>4. ASSUME Reading \in crossed' PROVE Breaking'
  <2>1. CASE Reading \in crossed
    <3>1. Reading \notin 1..Len(groups[stack[1]].vals)
      <4>1. Len(groups[stack[1]].vals) \in Nat
        BY <1>1 DEF Kept
      <4> QED BY <4>1 DEF Reading
    <3>2. Open
      BY <2>1, <3>1 DEF Crossings, Breaking
    <3> QED BY <1>3, <3>2 DEF Breaking
  <2>2. CASE Reading \notin crossed
    <3>1. crossed' # crossed
      BY <1>4, <2>2
    <3> QED BY <1>3, <3>1 DEF Breaking
  <2> QED BY <2>1, <2>2
<1>5. PICK f, r : f = stack[1] /\ r = Reading
  OBVIOUS
<1>6. crossed' \subseteq crossed \cup {r} /\ (r \in crossed' => Reading' = r /\ Breaking')
  BY <1>2, <1>4, <1>5
<1> QED BY <1>1, <1>5, <1>6, CrossingsStay

(* The operands and the pointers of the groups stay.                       *)
LEMMA SharedSame ==
  ASSUME TypeOK, NestedOnce, AllApart, Returned, Len(groups') = Len(groups),
         \A id \in 1..Len(groups) :
           /\ groups'[id].vals = groups[id].vals /\ groups'[id].root = groups[id].root
           /\ groups'[id].lhs = groups[id].lhs /\ groups'[id].rhs = groups[id].rhs
           /\ groups'[id].mode = groups[id].mode
  PROVE  /\ NestedOnce' /\ AllApart' /\ Kept
         /\ \A id \in 1..Len(groups) : Len(groups'[id].vals) = Len(groups[id].vals)
<1>1. NestedOnce'
  BY NestedSame
<1>2. AllApart'
  BY DEF AllApart, GroupApart, Merged
<1>3. Kept
  <2>1. Len(groups) \in Nat /\ \A id \in 1..Len(groups) : groups[id] \in Groups
    BY DEF TypeOK
  <2> QED BY <2>1 DEF Kept, Groups
<1> QED BY <1>1, <1>2, <1>3

LEMMA SharedDeliver ==
  ASSUME TypeOK, NestedOnce, AllApart, NEW val \in Vals, NEW d \in 1..Len(groups),
         Waiting(groups[d]), groups' = [groups EXCEPT ![d] = Deliver(groups[d], val)],
         \/ stack' = stack /\ \A id : val # ExprValue(id)
         \/ /\ Inner /\ stack' = Callers /\ val = ExprValue(Cur) /\ d < Cur
            /\ \A s \in 1..Len(stack') : stack'[s] # Cur
  PROVE  /\ NestedOnce' /\ AllApart' /\ Kept /\ Len(groups') = Len(groups)
         /\ groups'[d].vals = Append(groups[d].vals, val)
         /\ \A id \in 1..Len(groups) : id # d => groups'[id] = groups[id]
<1> DEFINE g == groups[d]
           h == Deliver(g, val)
           n == Len(g.vals)
<1>1. g \in Groups /\ GroupOK(g) /\ GroupApart(g) /\ groups \in Seq(Groups)
  BY DEF TypeOK, AllApart
<1>2. /\ h \in Groups /\ h.vals = Append(g.vals, val) /\ GroupApart(h)
  BY <1>1, DeliverOK, DeliverApart
<1> HIDE DEF h
<1>3. /\ groups' = [groups EXCEPT ![d] = h]
  BY DEF h
<1>4. /\ Len(groups') = Len(groups) /\ groups'[d] = h
      /\ \A id \in 1..Len(groups) : id # d => groups'[id] = groups[id]
  BY <1>1, <1>2, <1>3
<1>5. NestedOnce'
  <2>1. groups'[d].vals = Append(groups[d].vals, val)
    BY <1>2, <1>4
  <2> QED BY <1>4, <2>1, NestedDeliver
<1>6. AllApart'
  <2>1. \A id \in 1..Len(groups) : GroupApart(groups'[id])
    BY <1>2, <1>4 DEF AllApart
  <2> QED BY <1>4, <2>1 DEF AllApart
<1>7. Kept
  <2>1. /\ g.vals \in Seq(Vals) /\ h.mode = g.mode /\ Len(groups) \in Nat
        /\ \A id \in 1..Len(groups) : groups[id] \in Groups
    <3>1. h.mode = g.mode
      BY <1>1, DeliverOK DEF h
    <3>2. g.vals \in Seq(Vals)
      BY <1>1 DEF Groups
    <3>3. Len(groups) \in Nat /\ \A id \in 1..Len(groups) : groups[id] \in Groups
      BY <1>1
    <3> QED BY <3>1, <3>2, <3>3
  <2>2. ASSUME NEW id \in 1..Len(groups)
        PROVE  /\ groups'[id].mode = groups[id].mode
               /\ Len(groups[id].vals) \in Nat /\ Len(groups'[id].vals) \in Nat
               /\ Len(groups[id].vals) <= Len(groups'[id].vals)
               /\ \A i \in 1..Len(groups[id].vals) : groups'[id].vals[i] = groups[id].vals[i]
    <3>1. CASE id = d
      <4>1. groups'[id].vals = Append(g.vals, val) /\ groups[id].vals = g.vals
            /\ groups'[id].mode = groups[id].mode
        BY <1>2, <1>4, <2>1, <3>1
      <4> QED BY <2>1, <4>1
    <3>2. CASE id # d
      BY <1>4, <2>1, <3>2 DEF Groups
    <3> QED BY <3>1, <3>2
  <2> QED BY <1>4, <2>1, <2>2 DEF Kept
<1> QED BY <1>2, <1>4, <1>5, <1>6, <1>7

(* An operand that is not a group, for the innermost group.                *)
LEMMA SharedAtom ==
  ASSUME TypeOK, Shared, NEW kind \in {"value", "type", "null"},
         Waiting(Group), stack' = stack, crossed' = crossed, pc # "null",
         kind = "null" \/ pc # "fail",
         groups' = [groups EXCEPT ![Cur] = Deliver(Group, Atom(kind))]
  PROVE  Shared'
<1>1. PICK d \in 1..Len(groups) : d = Cur
  BY DEF TypeOK, Cur
<1>2. Atom(kind) \in Vals /\ Atom(kind).kind = kind /\ \A id : Atom(kind) # ExprValue(id)
  BY DEF Atom, Vals, ExprValue
<1>3. groups' = [groups EXCEPT ![d] = Deliver(groups[d], Atom(kind))] /\ Waiting(groups[d])
  BY <1>1 DEF Group
<1>4. /\ NestedOnce' /\ AllApart' /\ Kept /\ Len(groups') = Len(groups)
      /\ groups'[d].vals = Append(groups[d].vals, Atom(kind))
      /\ \A id \in 1..Len(groups) : id # d => groups'[id] = groups[id]
  BY <1>2, <1>3, SharedDeliver DEF Shared
<1>5. stack[1] \in 1..Len(groups) /\ Len(groups[stack[1]].vals) \in Nat
  BY <1>4, StackFirst DEF Kept
<1>6. ASSUME Reading \in crossed PROVE Breaking
  <2>1. Reading \notin 1..Len(groups[stack[1]].vals)
    BY <1>5 DEF Reading
  <2> QED BY <1>6, <2>1 DEF Shared, Crossings
<1> PICK f, r : f = stack[1] /\ r = Reading
  OBVIOUS
<1>7. ASSUME r \in crossed'
      PROVE  \/ r \in 1..Len(groups'[f].vals) /\ MayBreak(f, r)'
             \/ Reading' = r /\ Breaking'
  <2>1. CASE Inner
    <3>1. Open
      BY <1>6, <1>7, <2>1 DEF Breaking
    <3>2. /\ stack[1] # d /\ stack[2] \in 1..Len(groups)
          /\ groups'[stack[2]].mode = groups[stack[2]].mode
      <4>1. /\ Len(stack) \in Nat /\ Len(stack) > 1
            /\ \A i, j \in 1..Len(stack) : i < j => stack[i] < stack[j]
            /\ \A i \in 1..Len(stack) : stack[i] \in 1..Len(groups)
        BY <2>1 DEF Inner, TypeOK
      <4>2. stack[1] < stack[Len(stack)] /\ stack[2] \in 1..Len(groups)
            /\ stack[Len(stack)] \in 1..Len(groups)
        BY <4>1
      <4> QED BY <1>1, <1>4, <1>5, <4>2 DEF Kept, Cur
    <3>3. Reading' = r
      BY <1>4, <1>5, <3>2 DEF Reading
    <3>4. Open'
      BY <3>1, <3>2 DEF Open, Inner
    <3> QED BY <3>3, <3>4 DEF Breaking
  <2>2. CASE ~Inner
    <3>1. kind = "null"
      BY <1>6, <1>7, <2>2 DEF Breaking, Open
    <3>2. d = stack[1] /\ d = f
      BY <1>1, <2>2, StackFirst
    <3>3. /\ r \in 1..Len(groups'[d].vals)
          /\ groups'[d].vals[r] = Atom(kind)
      <4>1. groups[d].vals \in Seq(Vals)
        <5>1. groups[d] \in Groups
          BY DEF TypeOK
        <5> QED BY <5>1 DEF Groups
      <4> QED BY <1>4, <3>2, <4>1 DEF Reading
    <3> QED BY <1>2, <3>1, <3>2, <3>3 DEF MayBreak
  <2> QED BY <2>1, <2>2
<1>8. crossed' \subseteq crossed \cup {r} /\ stack'[1] = stack[1]
  OBVIOUS
<1>9. Crossings'
  BY <1>4, <1>7, <1>8, CrossingsStay DEF Shared
<1> QED BY <1>4, <1>9 DEF Shared

(* Group h is begun.                                                       *)
LEMMA SharedEnter ==
  ASSUME TypeOK, Shared, NEW h \in Groups, h.vals = <<>>, GroupApart(h),
         NEW at, Enter(h, at), crossed' = crossed, pc \notin {"fail", "null"}
  PROVE  Shared'
<1> DEFINE n == Len(groups)
<1>1. groups' = Append(groups, h) /\ stack' = Append(stack, Len(groups'))
  BY DEF Enter
<1>2. /\ n \in Nat /\ Len(groups') = n + 1 /\ groups'[n + 1] = h
      /\ \A id \in 1..n : groups'[id] = groups[id] /\ groups[id] \in Groups
  BY <1>1 DEF TypeOK
<1>3. /\ Len(stack) \in Nat /\ Len(stack') = Len(stack) + 1
      /\ stack'[Len(stack) + 1] = n + 1
      /\ \A i \in 1..Len(stack) : stack'[i] = stack[i]
  BY <1>1, <1>2 DEF TypeOK
<1>4. Kept /\ \A id \in 1..Len(groups) : Len(groups'[id].vals) = Len(groups[id].vals)
  <2>1. \A id \in 1..n : Len(groups[id].vals) \in Nat
    BY <1>2 DEF Groups
  <2> QED BY <1>2, <2>1 DEF Kept
<1> HIDE DEF n
<1>5. \A k, i, id : Holds(k, i, id)' => Holds(k, i, id)
  <2> SUFFICES ASSUME NEW k \in 1..(n + 1), NEW i \in 1..Len(groups'[k].vals), NEW id,
                      groups'[k].vals[i] = ExprValue(id)
               PROVE  Holds(k, i, id)
    BY <1>2 DEF Holds
  <2>1. CASE k = n + 1
    BY <1>2, <2>1
  <2>2. CASE k \in 1..n
    BY <1>2, <2>2 DEF Holds, n
  <2> QED BY <1>2, <2>1, <2>2
<1>6. NestedOnce'
  <2> SUFFICES ASSUME NEW k, NEW i, NEW id, Holds(k, i, id)
               PROVE  /\ id \in 1..Len(groups') /\ k < id
                      /\ \A s \in 1..Len(stack') : stack'[s] # id
                      /\ \A l, j : Holds(l, j, id)' => l = k /\ j = i
    BY <1>5 DEF NestedOnce
  <2>1. /\ id \in 1..n /\ k < id
        /\ \A s \in 1..Len(stack) : stack[s] # id
        /\ \A l, j : Holds(l, j, id) => l = k /\ j = i
    BY DEF Shared, NestedOnce, n
  <2>2. id # n + 1 /\ id \in 1..(n + 1)
    BY <1>2, <2>1
  <2>3. \A s \in 1..Len(stack') : s \in 1..Len(stack) \/ s = Len(stack) + 1
    BY <1>3
  <2>4. \A s \in 1..Len(stack') : stack'[s] # id
    BY <1>3, <2>1, <2>2, <2>3
  <2> QED BY <1>2, <1>5, <2>1, <2>2, <2>4
<1>7. AllApart'
  <2>1. \A id \in 1..(n + 1) : id = n + 1 \/ id \in 1..n
    BY <1>2
  <2>2. \A id \in 1..(n + 1) : GroupApart(groups'[id])
    BY <1>2, <2>1 DEF Shared, AllApart, n
  <2> QED BY <1>2, <2>2 DEF AllApart
<1>8. Crossings'
  BY <1>3, <1>4, CrossingsSame DEF Shared
<1> QED BY <1>6, <1>7, <1>8 DEF Shared

(* The innermost group ends, and its caller is the outermost or not.       *)
LEMMA PoppedOpen ==
  ASSUME TypeOK, Inner, stack' = Callers, Kept
  PROVE  /\ Len(stack) = 2 => ~Inner' /\ Cur = stack[2] /\ stack[1] # Cur
         /\ Len(stack) # 2 /\ Open => Open'
<1>1. /\ Len(stack) \in Nat /\ Len(stack) > 1 /\ Len(stack') = Len(stack) - 1
      /\ \A i \in 1..Len(stack') : stack'[i] = stack[i]
      /\ \A i, j \in 1..Len(stack) : i < j => stack[i] < stack[j]
      /\ \A i \in 1..Len(stack) : stack[i] \in 1..Len(groups)
  <2>1. /\ Len(stack) \in Nat
        /\ \A i, j \in 1..Len(stack) : i < j => stack[i] < stack[j]
        /\ \A i \in 1..Len(stack) : stack[i] \in 1..Len(groups)
    BY DEF TypeOK
  <2>2. Len(stack) > 1
    BY DEF Inner
  <2> QED BY <2>1, <2>2, CallersOK
<1>2. ASSUME Len(stack) = 2 PROVE ~Inner' /\ Cur = stack[2] /\ stack[1] # Cur
  <2>1. stack[1] < stack[2] /\ stack[1] \in 1..Len(groups) /\ stack[2] \in 1..Len(groups)
    BY <1>1, <1>2
  <2>2. Len(groups) \in Nat
    BY DEF Kept
  <2> QED BY <1>1, <1>2, <2>1, <2>2 DEF Inner, Cur
<1>3. ASSUME Len(stack) # 2, Open PROVE Open'
  <2>1. 2 \in 1..Len(stack') /\ stack'[2] = stack[2] /\ stack[2] \in 1..Len(groups)
    BY <1>1, <1>3
  <2>2. groups'[stack[2]].mode = groups[stack[2]].mode
    BY <2>1 DEF Kept
  <2> QED BY <1>1, <1>3, <2>1, <2>2 DEF Open, Inner
<1> QED BY <1>2, <1>3

(* The innermost group is returned as NULL.                                *)
LEMMA SharedNull ==
  ASSUME TypeOK, Shared, Inner, stack' = Callers, groups' = groups, pc' = "fail",
         crossed' \subseteq crossed \cup {Reading},
         crossed' # crossed => Outside, pc # "null"
  PROVE  Shared'
<1>1. /\ NestedOnce' /\ AllApart' /\ Kept
  BY SharedSame DEF Returned, Shared
<1>2. stack[1] \in 1..Len(groups) /\ stack'[1] = stack[1]
  BY StackFirst DEF Returned
<1>3. Reading' = Reading /\ Reading \notin 1..Len(groups[stack[1]].vals)
  <2>1. Len(groups[stack[1]].vals) \in Nat
    BY <1>1, <1>2 DEF Kept
  <2> QED BY <1>2, <2>1 DEF Reading
<1>4. ASSUME Reading \in crossed' PROVE Breaking'
  <2>1. Open
    <3>1. CASE Reading \in crossed
      BY <1>3, <3>1 DEF Shared, Crossings, Breaking
    <3>2. CASE Reading \notin crossed
      BY <1>4, <3>2, OutsideOpen
    <3> QED BY <3>1, <3>2
  <2> QED BY <1>1, <2>1, PoppedOpen DEF Breaking
<1>5. PICK f, r : f = stack[1] /\ r = Reading
  OBVIOUS
<1>6. crossed' \subseteq crossed \cup {r} /\ (r \in crossed' => Reading' = r /\ Breaking')
  BY <1>3, <1>4, <1>5
<1>7. Crossings'
  BY <1>1, <1>2, <1>5, <1>6, CrossingsStay DEF Shared
<1> QED BY <1>1, <1>7 DEF Shared

(* The innermost group is handed to its caller.                            *)
LEMMA SharedReturn ==
  ASSUME TypeOK, Shared, Inner, ReturnValue, crossed' = crossed,
         pc \notin {"fail", "null"}
  PROVE  Shared'
<1>1. /\ stack' = Callers /\ Returned
      /\ groups' = [groups EXCEPT ![stack[Len(stack) - 1]] = Deliver(@, ExprValue(Cur))]
  BY DEF ReturnValue, Returned
<1>2. PICK d : d = stack[Len(stack) - 1]
  OBVIOUS
<1>3. d \in 1..Len(groups) /\ Waiting(groups[d]) /\ d < Cur /\ (d = stack[1] <=> Len(stack) = 2)
  <2> DEFINE m == Len(stack)
  <2>1. /\ stack \in Seq(1..Len(groups)) /\ m \in Nat /\ m > 1
        /\ \A i, j \in 1..m : i < j => stack[i] < stack[j]
        /\ \A i \in 1..m : i < m => Waiting(groups[stack[i]])
    BY DEF TypeOK, Inner
  <2> HIDE DEF m
  <2>2. m - 1 \in 1..m /\ m \in 1..m /\ m - 1 < m /\ 1 \in 1..m
        /\ (m = 2 <=> ~(1 < m - 1))
    BY <2>1
  <2>3. d = stack[m - 1] /\ Cur = stack[m] /\ \A i \in 1..m : stack[i] \in 1..Len(groups)
    BY <1>2, <2>1 DEF m, Cur
  <2>4. Len(stack) = 2 => d = stack[1]
    BY <1>2
  <2>5. 1 < m - 1 => stack[1] < d
    BY <2>1, <2>2, <2>3
  <2>6. m # 2 => d # stack[1]
    BY <2>2, <2>3, <2>5
  <2> QED BY <2>1, <2>2, <2>3, <2>4, <2>6 DEF m
<1>4. \A s \in 1..Len(stack') : stack'[s] # Cur
  <2> DEFINE m == Len(stack)
  <2>1. /\ Len(stack') = m - 1 /\ m \in Nat /\ m \in 1..m
        /\ \A i \in 1..(m - 1) : stack'[i] = stack[i]
    BY <1>1, CallersOK, StackFirst
  <2>2. /\ \A i, j \in 1..m : i < j => stack[i] < stack[j]
        /\ \A i \in 1..m : stack[i] \in Nat
    BY DEF TypeOK
  <2> HIDE DEF m
  <2>3. ASSUME NEW s \in 1..(m - 1) PROVE stack'[s] # Cur
    <3>1. s \in 1..m /\ s < m /\ Cur = stack[m]
      BY <2>1 DEF Cur, m
    <3>2. stack[s] < stack[m] /\ stack[s] \in Nat /\ stack[m] \in Nat
      BY <2>1, <2>2, <3>1
    <3> QED BY <2>1, <3>1, <3>2
  <2> QED BY <2>1, <2>3
<1>5. groups' = [groups EXCEPT ![d] = Deliver(groups[d], ExprValue(Cur))]
  BY <1>1, <1>2, <1>3 DEF TypeOK
<1>6. ExprValue(Cur) \in Vals
  BY DEF ExprValue, Vals, TypeOK, Cur
<1>7. /\ NestedOnce' /\ AllApart' /\ Kept
      /\ groups'[d].vals = Append(groups[d].vals, ExprValue(Cur))
      /\ \A id \in 1..Len(groups) : id # d => groups'[id] = groups[id]
  BY <1>1, <1>3, <1>4, <1>5, <1>6, SharedDeliver DEF Shared
<1>8. stack'[1] = stack[1] /\ stack[1] \in 1..Len(groups)
  BY <1>1, StackFirst
<1>9. ASSUME Reading \in crossed PROVE Open
  <2>1. Reading \notin 1..Len(groups[stack[1]].vals)
    <3>1. Len(groups[stack[1]].vals) \in Nat
      BY <1>7, <1>8 DEF Kept
    <3> QED BY <3>1 DEF Reading
  <2> QED BY <1>9, <2>1 DEF Shared, Crossings, Breaking
<1> PICK f, r : f = stack[1] /\ r = Reading
  OBVIOUS
<1>10. ASSUME r \in crossed'
       PROVE  \/ r \in 1..Len(groups'[f].vals) /\ MayBreak(f, r)'
              \/ Reading' = r /\ Breaking'
  <2>1. CASE Len(stack) = 2
    <3>1. /\ d = stack[1] /\ Cur = stack[2] /\ d # Cur /\ Cur \in 1..Len(groups)
          /\ groups[Cur].mode \in Composite
      <4>1. Cur \in 1..Len(groups)
        BY DEF TypeOK, Cur
      <4> QED BY <1>1, <1>3, <1>7, <1>9, <1>10, <2>1, <4>1, PoppedOpen DEF Open
    <3>2. groups'[Cur].mode \in Composite
      BY <1>7, <3>1
    <3>3. /\ r \in 1..Len(groups'[d].vals)
          /\ groups'[d].vals[r] = ExprValue(Cur)
      <4>1. groups[d].vals \in Seq(Vals)
        <5>1. groups[d] \in Groups
          BY <1>3 DEF TypeOK
        <5> QED BY <5>1 DEF Groups
      <4> QED BY <1>7, <3>1, <4>1 DEF Reading
    <3>4. d = f
      BY <3>1
    <3> QED BY <3>2, <3>3, <3>4 DEF MayBreak, ExprValue
  <2>2. CASE Len(stack) # 2
    <3>1. Open'
      BY <1>1, <1>7, <1>9, <1>10, <2>2, PoppedOpen
    <3>2. Reading' = r
      BY <1>3, <1>7, <1>8, <2>2 DEF Reading
    <3> QED BY <3>1, <3>2 DEF Breaking
  <2> QED BY <2>1, <2>2
<1>11. crossed' \subseteq crossed \cup {r}
  OBVIOUS
<1>12. Crossings'
  BY <1>7, <1>8, <1>10, <1>11, CrossingsStay DEF Shared
<1> QED BY <1>7, <1>12 DEF Shared

(* The groups stay, and so do those that are innermost.                    *)
LEMMA SharedStay ==
  ASSUME TypeOK, Shared, UNCHANGED <<groups, stack>>, pc \notin {"fail", "null"},
         crossed' \subseteq crossed \cup {Reading},
         crossed' # crossed => Open \/ (~Inner /\ pc' = "fail")
  PROVE  Shared'
<1>1. Len(stack) \in Nat /\ (Inner' <=> Inner)
  BY DEF TypeOK, Inner
<1>2. /\ NestedOnce' /\ AllApart' /\ Kept
      /\ \A id \in 1..Len(groups) : Len(groups'[id].vals) = Len(groups[id].vals)
  BY SharedSame DEF Shared, Returned
<1>3. Crossings'
  BY <1>1, <1>2, CrossingsSame DEF Shared
<1> QED BY <1>2, <1>3 DEF Shared

LEMMA NextShared ==
  ASSUME TypeOK, Shared, [Next]_vars
  PROVE  Shared'
<1>1. CASE Operand \/ NoIndex
  <2>1. PICK kind \in {"value", "type"} :
          groups' = [groups EXCEPT ![Cur] = Deliver(Group, Atom(kind))]
    BY <1>1 DEF Operand, NoIndex
  <2>2. /\ Waiting(Group) /\ stack' = stack /\ crossed' = crossed
        /\ pc \notin {"fail", "null"}
    BY <1>1, EatTokCrosses DEF Operand, NoIndex, AtIdent, Literals, Eols, TypeOK
  <2> QED BY <2>1, <2>2, SharedAtom
<1>2. CASE OpenParen \/ OpenList \/ Call \/ Module \/ Index
  <2>1. PICK mode \in {"default"} \cup Composite, argc \in Nat,
             at \in {"value", "list", "dot"} : Enter(NewGroup(mode, argc), at)
    <3>1. CASE Call
      <4>1. PICK k \in 1..MaxParams : Enter(NewGroup("call", k), "value")
        BY <3>1 DEF Call
      <4>2. k \in Nat
        BY BoundsAssumption
      <4> QED BY <4>1, <4>2 DEF Composite
    <3> QED BY <1>2, <3>1 DEF OpenParen, OpenList, Module, Index, Composite
  <2> DEFINE h == NewGroup(mode, argc)
  <2>2. h \in Groups /\ h.vals = <<>> /\ GroupApart(h)
    BY RefFacts DEF NewGroup, Groups, GroupApart, Apart, InOrder, Merged
  <2>3. crossed' = crossed /\ pc \notin {"fail", "null"}
    BY <1>2, EatTokCrosses DEF OpenParen, OpenList, Call, Module, Index, AtIdent, Eols
  <2> HIDE DEF h
  <2>4. Enter(h, at)
    BY <2>1 DEF h
  <2> QED BY <2>2, <2>3, <2>4, SharedEnter
<1>3. CASE NoOperand
  <2>1. /\ UNCHANGED <<groups, stack>> /\ pc \notin {"fail", "null"} /\ pc' = "fail"
        /\ crossed' \subseteq crossed \cup {Reading}
        /\ crossed' # crossed => Outside
    BY <1>3, EatTokCrosses DEF NoOperand
  <2> QED BY <2>1, OutsideOpen, SharedStay
<1>4. CASE FailFirst
  <2>1. groups' = groups /\ crossed' = crossed /\ pc = "fail"
    BY <1>4 DEF FailFirst
  <2>2. CASE Inner
    BY <1>4, <2>1, <2>2, SharedNull DEF FailFirst
  <2>3. CASE ~Inner
    <3>1. stack' = stack /\ pc' = "null"
      BY <1>4, <2>3 DEF FailFirst
    <3>2. /\ NestedOnce' /\ AllApart' /\ Kept
      BY <2>1, <3>1, SharedSame DEF Shared, Returned
    <3>3. Reading' = Reading /\ Breaking'
      BY <2>1, <3>1 DEF Reading, Breaking
    <3>4. PICK f, r : f = stack[1] /\ r = Reading
      OBVIOUS
    <3>5. crossed' \subseteq crossed \cup {r} /\ Reading' = r /\ Breaking'
      BY <2>1, <3>3, <3>4
    <3>6. Crossings'
      BY <3>1, <3>2, <3>4, <3>5, CrossingsStay DEF Shared
    <3> QED BY <3>2, <3>6 DEF Shared
  <2> QED BY <2>2, <2>3
<1>5. CASE FailLater
  <2>1. /\ pc = "fail" /\ stack' = stack /\ crossed' = crossed /\ Waiting(Group)
        /\ groups' = [groups EXCEPT ![Cur] = Deliver(Group, Atom("null"))]
    BY <1>5 DEF FailLater, TypeOK
  <2> QED BY <2>1, SharedAtom
<1>6. CASE SkipWhite \/ SkipToComma
  <2>1. /\ UNCHANGED <<groups, stack>> /\ pc \notin {"fail", "null"}
        /\ crossed' \subseteq crossed \cup {Reading}
        /\ crossed' # crossed => Outside
        /\ Group.mode \in Composite
    BY <1>6, EatTokCrosses DEF SkipWhite, SkipToComma, LacksArgs, TypeOK, Composite
  <2> QED BY <2>1, CompositeInner, OutsideOpen, SharedStay
<1>7. CASE SkipEol
  <2>1. Group.mode \notin Composite /\ Inner
    BY <1>7 DEF SkipEol, TypeOK, Full
  <2>2. /\ UNCHANGED <<groups, stack>> /\ pc \notin {"fail", "null"} /\ crossed' = crossed
    BY <1>7, <2>1, EatTokCrosses, ExprNotOutside DEF SkipEol
  <2> QED BY <2>2, SharedStay
<1>8. CASE Dot \/ ArrName \/ Comma \/ ListComma \/ ListElem \/ NoOperator \/ Done \/ NullToken
  <2>1. /\ UNCHANGED <<groups, stack>> /\ pc \notin {"fail", "null"} /\ crossed' = crossed
    BY <1>8, EatTokCrosses DEF Dot, ArrName, AtIdent, Comma, ListComma, ListElem,
       NoOperator, Done, NullToken, Closing, Eols
  <2> QED BY <2>1, SharedStay
<1>9. CASE Operator
  <2> DEFINE h == [Group EXCEPT !.ops = Append(@, tok)]
  <2>1. /\ stack' = stack /\ Returned /\ pc = "op" /\ crossed' = crossed
        /\ Cur \in 1..Len(groups) /\ Group \in Groups /\ groups \in Seq(Groups)
        /\ groups' = [groups EXCEPT ![Cur].ops = Append(@, tok)]
    BY <1>9, EatTokCrosses DEF Operator, Returned, TypeOK, Cur, Group, IsOp, Infix, Cmp, Eols
  <2>2. groups' = [groups EXCEPT ![Cur] = h]
    BY <2>1 DEF Group
  <2>3. /\ h.vals = Group.vals /\ h.root = Group.root /\ h.mode = Group.mode
        /\ h.lhs = Group.lhs /\ h.rhs = Group.rhs
    BY <2>1 DEF Groups
  <2> HIDE DEF h
  <2>4. /\ Len(groups') = Len(groups) /\ groups'[Cur] = h
        /\ \A id \in 1..Len(groups) : id # Cur => groups'[id] = groups[id]
    BY <2>1, <2>2
  <2>5. \A id \in 1..Len(groups) :
          /\ groups'[id].vals = groups[id].vals /\ groups'[id].root = groups[id].root
          /\ groups'[id].lhs = groups[id].lhs /\ groups'[id].rhs = groups[id].rhs
          /\ groups'[id].mode = groups[id].mode
    BY <2>3, <2>4 DEF Group
  <2>6. /\ NestedOnce' /\ AllApart' /\ Kept
        /\ \A id \in 1..Len(groups) : Len(groups'[id].vals) = Len(groups[id].vals)
    BY <2>1, <2>4, <2>5, SharedSame DEF Shared
  <2>7. Len(stack) \in Nat
    BY DEF TypeOK
  <2>8. Crossings'
    BY <2>1, <2>6, <2>7, CrossingsSame DEF Shared
  <2> QED BY <2>6, <2>8 DEF Shared
<1>10. CASE Close \/ EndValue
  <2>1. Inner
    <3>1. Inner \/ Group.mode \in Composite
      BY <1>10 DEF Close, Closing, EndValue, TypeOK, Composite
    <3> QED BY <3>1, CompositeInner
  <2>2. /\ ReturnValue /\ crossed' = crossed /\ pc \notin {"fail", "null"}
    BY <1>10, EatTokCrosses DEF Close, Closing, Closer, EndValue, Eols
  <2> QED BY <2>1, <2>2, SharedReturn
<1>11. CASE NotClosed
  <2>1. Inner
    <3>1. Inner \/ Group.mode \in Composite
      BY <1>11 DEF NotClosed, Closing, Composite
    <3> QED BY <3>1, CompositeInner
  <2>2. /\ stack' = Callers /\ groups' = groups /\ pc' = "fail" /\ pc # "null"
        /\ crossed' \subseteq crossed \cup {Reading}
        /\ crossed' # crossed => Outside
    BY <1>11, EatTokCrosses DEF NotClosed, ReturnNull, Closing
  <2> QED BY <2>1, <2>2, SharedNull
<1>12. CASE UNCHANGED vars
  BY <1>12 DEF vars, Shared, NestedOnce, Holds, AllApart, Crossings, Reading, Breaking,
     Open, MayBreak, Inner
<1> QED BY <1>1, <1>2, <1>3, <1>4, <1>5, <1>6, <1>7, <1>8, <1>9, <1>10, <1>11,
           <1>12 DEF Next

LEMMA InitShared == Init => Shared
<1> SUFFICES ASSUME Init PROVE Shared
  OBVIOUS
<1>1. PICK mode \in {"default", "cmp"} : groups = <<NewGroup(mode, 0)>>
  BY DEF Init
<1>2. NewGroup(mode, 0).vals = <<>> /\ GroupApart(NewGroup(mode, 0))
  BY DEF NewGroup, GroupApart, Apart, InOrder, Merged
<1>3. Len(groups) = 1 /\ groups[1].vals = <<>> /\ GroupApart(groups[1])
  BY <1>1, <1>2
<1>4. NestedOnce /\ AllApart
  BY <1>3 DEF NestedOnce, Holds, AllApart
<1>5. Crossings
  BY DEF Init, Crossings
<1> QED BY <1>4, <1>5 DEF Shared

-----------------------------------------------------------------------------
(* Theorems.                                                               *)

(* The parser's state has its type for sources of any length: pointers of  *)
(* a tree stay within it, a group whose call returns is complete, callers  *)
(* await an operand, and a comparison never reaches merge_expr.            *)
THEOREM TypeCorrect == Spec => []TypeOK
<1>1. Init => TypeOK /\ PrecedenceRespected
  BY InitOK
<1>2. TypeOK /\ PrecedenceRespected /\ [Next]_vars => TypeOK' /\ PrecedenceRespected'
  BY NextOK
<1> QED BY <1>1, <1>2, PTL DEF Spec

(* merge_expr, which compares the powers of the root alone, builds the     *)
(* tree that the powers of all operators mean, for expressions of any      *)
(* length and nesting in which a cast is followed only by casts.           *)
THEOREM MergeRespectsPrecedence == Spec => []PrecedenceRespected
<1>1. Init => TypeOK /\ PrecedenceRespected
  BY InitOK
<1>2. TypeOK /\ PrecedenceRespected /\ [Next]_vars => TypeOK' /\ PrecedenceRespected'
  BY NextOK
<1> QED BY <1>1, <1>2, PTL DEF Spec

(* No two pointers of the trees, and no two operands of the groups, lead   *)
(* to the same thing, and none leads back: free_expr, which follows them   *)
(* all, frees everything once, for expressions of any length and nesting.  *)
THEOREM NothingShared == Spec => []TreesShareNothing
<1>1. TypeOK /\ Shared => TreesShareNothing
  <2> SUFFICES ASSUME TypeOK, Shared PROVE TreesShareNothing
    OBVIOUS
  <2>1. groups \in Seq(Groups) /\ stack \in Seq(1..Len(groups))
    BY DEF TypeOK
  <2>2. /\ DOMAIN groups = 1..Len(groups) /\ DOMAIN stack = 1..Len(stack)
        /\ \A id \in 1..Len(groups) : groups[id] \in Groups
    BY <2>1
  <2>3. ASSUME NEW id \in 1..Len(groups)
        PROVE  LET g == groups[id]
               IN  /\ \A p, q \in Pointers(g) : p # q => Target(g, p) # Target(g, q)
                   /\ \A k, j \in 1..Merged(g) : /\ g.lhs[k] = Opr(j) => j < k
                                                 /\ g.rhs[k] = Opr(j) => j > k
    BY <2>2, ApartPointers DEF Shared, AllApart, GroupApart, InOrder
  <2>4. ASSUME NEW h \in 1..Len(groups)
        PROVE  DOMAIN groups[h].vals = 1..Len(groups[h].vals)
    <3>1. groups[h].vals \in Seq(Vals)
      BY <2>2 DEF Groups
    <3> QED BY <3>1
  <2>5. ASSUME NEW id \in 1..Len(groups), NEW h \in 1..Len(groups),
               NEW i \in 1..Len(groups[h].vals), groups[h].vals[i] = ExprValue(id)
        PROVE  /\ h < id /\ \A s \in 1..Len(stack) : stack[s] # id
               /\ \A l \in 1..Len(groups) : \A j \in 1..Len(groups[l].vals) :
                    groups[l].vals[j] = ExprValue(id) => l = h /\ j = i
    BY <2>5 DEF Shared, NestedOnce, Holds
  <2>6. \A id, h \in DOMAIN groups : \A i \in DOMAIN groups[h].vals :
          groups[h].vals[i] = ExprValue(id) =>
            /\ h < id
            /\ \A s \in DOMAIN stack : stack[s] # id
            /\ \A l \in DOMAIN groups : \A j \in DOMAIN groups[l].vals :
                 groups[l].vals[j] = ExprValue(id) => l = h /\ j = i
    <3> SUFFICES ASSUME NEW id \in DOMAIN groups, NEW h \in DOMAIN groups,
                        NEW i \in DOMAIN groups[h].vals,
                        groups[h].vals[i] = ExprValue(id)
                 PROVE  /\ h < id
                        /\ \A s \in DOMAIN stack : stack[s] # id
                        /\ \A l \in DOMAIN groups : \A j \in DOMAIN groups[l].vals :
                             groups[l].vals[j] = ExprValue(id) => l = h /\ j = i
      OBVIOUS
    <3>1. id \in 1..Len(groups) /\ h \in 1..Len(groups)
      BY <2>2
    <3>2. i \in 1..Len(groups[h].vals)
      BY <2>4, <3>1
    <3>3. /\ h < id /\ \A s \in 1..Len(stack) : stack[s] # id
          /\ \A l \in 1..Len(groups) : \A j \in 1..Len(groups[l].vals) :
               groups[l].vals[j] = ExprValue(id) => l = h /\ j = i
      BY <2>5, <3>1, <3>2
    <3>4. \A l \in DOMAIN groups : \A j \in DOMAIN groups[l].vals :
            groups[l].vals[j] = ExprValue(id) => l = h /\ j = i
      BY <2>2, <2>4, <3>3
    <3> QED BY <2>2, <3>3, <3>4
  <2>7. \A id \in DOMAIN groups :
          LET g == groups[id]
          IN  /\ \A p, q \in Pointers(g) : p # q => Target(g, p) # Target(g, q)
              /\ \A k, j \in 1..Merged(g) : /\ g.lhs[k] = Opr(j) => j < k
                                            /\ g.rhs[k] = Opr(j) => j > k
    BY <2>2, <2>3, Zenon
  <2> QED BY <2>6, <2>7, Zenon DEF TreesShareNothing
<1>2. Init => TypeOK /\ PrecedenceRespected /\ Shared
  BY InitOK, InitShared
<1>3. /\ TypeOK /\ PrecedenceRespected /\ Shared /\ [Next]_vars
      => TypeOK' /\ PrecedenceRespected' /\ Shared'
  BY NextOK, NextShared
<1> QED BY <1>1, <1>2, <1>3, PTL DEF Spec

(* An expression that leaves its line outside parentheses does so within   *)
(* an operand: one that is NULL because the end of a line was refused, or  *)
(* one made of values, of which a call skips the end of a line before a    *)
(* comma and a qualified name around its dot.  No operator is taken from a *)
(* later line, for sources of any length and any nesting of values.        *)
THEOREM LinesEndExpressions == Spec => []EndsWithItsLine
<1>1. TypeOK /\ Shared => EndsWithItsLine
  <2> SUFFICES ASSUME TypeOK, Shared, pc = "done", NEW i \in crossed
               PROVE  i \in DOMAIN Group.vals /\ MayBreak(Cur, i)
    BY DEF EndsWithItsLine
  <2>1. Cur = stack[1] /\ ~Inner
    <3>1. Len(stack) = 1
      BY DEF TypeOK
    <3> QED BY <3>1 DEF Cur, Inner
  <2>2. i \in 1..Len(groups[stack[1]].vals) /\ MayBreak(stack[1], i)
    BY <2>1 DEF Shared, Crossings, Breaking, Open
  <2>3. groups[stack[1]].vals \in Seq(Vals)
    <3>1. stack[1] \in 1..Len(groups) /\ groups \in Seq(Groups)
      BY StackFirst DEF TypeOK
    <3>2. groups[stack[1]] \in Groups
      BY <3>1
    <3> QED BY <3>2 DEF Groups
  <2> QED BY <2>1, <2>2, <2>3 DEF Group
<1>2. Init => TypeOK /\ PrecedenceRespected /\ Shared
  BY InitOK, InitShared
<1>3. /\ TypeOK /\ PrecedenceRespected /\ Shared /\ [Next]_vars
      => TypeOK' /\ PrecedenceRespected' /\ Shared'
  BY NextOK, NextShared
<1> QED BY <1>1, <1>2, <1>3, PTL DEF Spec
=============================================================================
