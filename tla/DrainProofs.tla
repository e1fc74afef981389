----------------------------- MODULE DrainProofs -----------------------------
(***************************************************************************)
(* Proofs about Drain: the types, that a run which nobody disturbs visits  *)
(* every row once, and that no disturbance makes it send more requests     *)
(* than its first batch or than there ever were rows.                      *)
(*                                                                         *)
(* The induction theorems of the library take an operator as a parameter.  *)
(* Where a fact about finite sets needs induction on their size, the proof *)
(* looks at a smallest counterexample instead: WFMin takes sets only.      *)
(***************************************************************************)
EXTENDS Drain, FiniteSetTheorems, WellFoundedInduction, TLAPS

-----------------------------------------------------------------------------
(* Numbers.                                                                 *)

\* A set of natural numbers with a member has a least one.
LEMMA LeastNumber ==
  ASSUME NEW T \in SUBSET Nat, T # {}
  PROVE  \E n \in T : \A k \in T : n <= k
<1>1. PICK n \in T : \A k \in T : ~ (<<k, n>> \in OpToRel(<, Nat))
  BY NatLessThanWellFounded, WFMin
<1>2. ASSUME NEW k \in T PROVE n <= k
  <2>1. <<k, n>> \in Nat \X Nat /\ ~ (<<k, n>> \in OpToRel(<, Nat))
    BY <1>1
  <2>2. ~ (k < n)
    BY <2>1 DEF OpToRel
  <2> QED BY <2>2
<1> QED BY <1>2

\* A finite set of natural numbers with a member has a greatest one.
LEMMA GreatestNumber ==
  ASSUME NEW S \in SUBSET Nat, IsFiniteSet(S), S # {}
  PROVE  \E m \in S : \A k \in S : m >= k
<1> DEFINE Bad(X) == X # {} /\ ~ \E m \in X : \A k \in X : m >= k
           Sizes == {n \in Nat : \E X \in SUBSET Nat :
                       IsFiniteSet(X) /\ Cardinality(X) = n /\ Bad(X)}
<1> SUFFICES ASSUME Sizes # {} PROVE FALSE
  BY FS_CardinalityType
<1>1. PICK n \in Sizes : \A k \in Sizes : n <= k
  BY LeastNumber
<1>2. PICK X \in SUBSET Nat : IsFiniteSet(X) /\ Cardinality(X) = n /\ Bad(X)
  BY <1>1
<1>3. PICK x \in X : TRUE
  BY <1>2
<1> DEFINE Y == X \ {x}
<1>4. IsFiniteSet(Y) /\ Cardinality(Y) = n - 1 /\ Cardinality(Y) \in Nat
  BY <1>2, <1>3, FS_RemoveElement, FS_CardinalityType
<1>5. ~ Bad(Y)
  <2>1. ~ (n - 1 \in Sizes)
    BY <1>1, <1>4
  <2> QED BY <1>4, <2>1
<1>6. CASE Y = {}
  BY <1>2, <1>3, <1>6
<1>7. CASE Y # {}
  <2>1. PICK m \in Y : \A k \in Y : m >= k
    BY <1>5, <1>7
  <2>2. CASE m >= x
    BY <1>2, <1>3, <2>1, <2>2
  <2>3. CASE x >= m
    BY <1>2, <1>3, <2>1, <2>3
  <2> QED BY <1>3, <2>2, <2>3
<1> QED BY <1>6, <1>7

LEMMA MaxOf ==
  ASSUME NEW S \in SUBSET Nat, IsFiniteSet(S), S # {}
  PROVE  Max(S) \in S /\ \A k \in S : Max(S) >= k
BY GreatestNumber DEF Max

LEMMA MinOfTwo ==
  ASSUME NEW a \in Int, NEW b \in Int
  PROVE  /\ Min({a, b}) \in {a, b}
         /\ Min({a, b}) <= a /\ Min({a, b}) <= b
<1>1. \E x \in {a, b} : \A y \in {a, b} : x =< y
  OBVIOUS
<1> QED BY <1>1 DEF Min

-----------------------------------------------------------------------------
(* The rotation: which rows a batch takes, and in which order.              *)

\* A finite set of rows told apart by their numbers.
Numbered(S) ==
  /\ IsFiniteSet(S)
  /\ \A r \in S : r.seq \in Nat
  /\ \A q, r \in S : q.seq = r.seq => q = r

LEMMA NumberedSubset ==
  ASSUME NEW S, Numbered(S), NEW T \in SUBSET S
  PROVE  /\ Numbered(T)
         /\ Cardinality(T) \in Nat /\ Cardinality(S) \in Nat
         /\ Cardinality(T) <= Cardinality(S)
         /\ Cardinality(S) = Cardinality(T) => S = T
<1>1. IsFiniteSet(S)
  BY DEF Numbered
<1> QED BY <1>1, FS_Subset, FS_CardinalityType DEF Numbered

LEMMA OneMore ==
  ASSUME NEW S, NEW x, IsFiniteSet(S)
  PROVE  /\ IsFiniteSet(S \cup {x})
         /\ Cardinality(S) \in Nat
         /\ Cardinality(S \cup {x}) <= Cardinality(S) + 1
         /\ x \notin S => Cardinality(S \cup {x}) = Cardinality(S) + 1
<1>1. /\ Cardinality(S) \in Nat
      /\ IsFiniteSet(S \cup {x})
      /\ Cardinality(S \cup {x}) = IF x \in S THEN Cardinality(S) ELSE Cardinality(S) + 1
  BY FS_AddElement, FS_CardinalityType
<1> QED BY <1>1

\* The numbers of such a set.
LEMMA NumbersFinite ==
  ASSUME NEW S, Numbered(S)
  PROVE  IsFiniteSet({r.seq : r \in S}) /\ {r.seq : r \in S} \in SUBSET Nat
<1> DEFINE f == [r \in S |-> r.seq]
<1>1. f \in Surjection(S, {r.seq : r \in S})
  BY DEF Surjection
<1> QED BY <1>1, FS_Surjection DEF Numbered

LEMMA LeastRow ==
  ASSUME NEW S, Numbered(S), S # {}
  PROVE  \E r \in S : \A q \in S : r.seq <= q.seq
<1> DEFINE numbers == {r.seq : r \in S}
<1>1. numbers \in SUBSET Nat /\ numbers # {}
  BY DEF Numbered
<1>2. PICK n \in numbers : \A k \in numbers : n <= k
  BY <1>1, LeastNumber
<1>3. PICK r \in S : r.seq = n
  BY <1>2
<1> QED BY <1>2, <1>3

LEMMA GreatestRow ==
  ASSUME NEW S, Numbered(S), S # {}
  PROVE  \E r \in S : \A q \in S : r.seq >= q.seq
<1> DEFINE numbers == {r.seq : r \in S}
<1>1. numbers \in SUBSET Nat /\ numbers # {} /\ IsFiniteSet(numbers)
  BY NumbersFinite
<1>2. PICK n \in numbers : \A k \in numbers : n >= k
  BY <1>1, GreatestNumber
<1>3. PICK r \in S : r.seq = n
  BY <1>2
<1> QED BY <1>2, <1>3

\* `ORDER BY seq LIMIT n' returns at most n rows, no row without all rows of
\* lower numbers, and fewer than n rows only when there are no others.
LEMMA LowestRows ==
  ASSUME NEW S, Numbered(S), NEW n \in Nat
  PROVE  /\ Lowest(S, n) \in SUBSET S
         /\ Cardinality(Lowest(S, n)) \in Nat
         /\ Cardinality(Lowest(S, n)) <= n
         /\ \A r \in Lowest(S, n), q \in S : q.seq < r.seq => q \in Lowest(S, n)
         /\ Cardinality(Lowest(S, n)) < n => Lowest(S, n) = S
<1> DEFINE L == Lowest(S, n)
           below(r) == {q \in S : q.seq < r.seq}
<1>1. L \in SUBSET S /\ \A r \in S : r \in L <=> Cardinality(below(r)) < n
  BY DEF Lowest
<1>2. \A r \in S : below(r) \in SUBSET S /\ IsFiniteSet(below(r)) /\ Cardinality(below(r)) \in Nat
  BY FS_Subset, FS_CardinalityType DEF Numbered
<1>3. IsFiniteSet(S) /\ Numbered(L) /\ IsFiniteSet(L) /\ Cardinality(L) \in Nat
  <2>1. Numbered(L) /\ Cardinality(L) \in Nat
    BY <1>1, NumberedSubset
  <2> QED BY <2>1 DEF Numbered
<1> HIDE DEF L
<1>4. Cardinality(L) <= n
  <2>1. CASE L = {}
    BY <2>1, FS_EmptySet
  <2>2. CASE L # {}
    <3>1. PICK m \in L : \A q \in L : m.seq >= q.seq
      BY <1>3, <2>2, GreatestRow
    <3>2. m \in S /\ Cardinality(below(m)) < n
      BY <1>1, <3>1
    <3>3. L \in SUBSET (below(m) \cup {m})
      BY <1>1, <3>1, <3>2 DEF Numbered
    <3> HIDE DEF below
    <3>4. /\ IsFiniteSet(below(m) \cup {m})
          /\ Cardinality(below(m) \cup {m}) <= Cardinality(below(m)) + 1
      BY <1>2, <3>2, OneMore
    <3>5. Cardinality(below(m) \cup {m}) \in Nat
      BY <3>4, FS_CardinalityType
    <3>6. Cardinality(L) <= Cardinality(below(m) \cup {m})
      BY <3>3, <3>4, FS_Subset
    <3> QED BY <1>2, <1>3, <3>2, <3>4, <3>5, <3>6
  <2> QED BY <2>1, <2>2
<1>5. ASSUME NEW r \in L, NEW q \in S, q.seq < r.seq PROVE q \in L
  <2>1. r \in S /\ r.seq \in Nat /\ q.seq \in Nat
    BY <1>1 DEF Numbered
  <2>2. below(q) \in SUBSET below(r)
    BY <1>5, <2>1 DEF Numbered
  <2> HIDE DEF below
  <2>3. Cardinality(below(q)) <= Cardinality(below(r))
    BY <1>2, <2>1, <2>2, FS_Subset
  <2>4. Cardinality(below(q)) < n
    BY <1>1, <1>2, <2>1, <2>3
  <2> QED BY <1>1, <2>4
<1>6. ASSUME L # S PROVE Cardinality(L) >= n
  <2>1. Numbered(S \ L) /\ S \ L # {}
    BY <1>1, <1>6, NumberedSubset
  <2>2. PICK x \in S \ L : \A q \in S \ L : x.seq <= q.seq
    BY <2>1, LeastRow
  <2>3. below(x) \in SUBSET L
    BY <2>2 DEF Numbered
  <2>4. ~ (Cardinality(below(x)) < n)
    BY <1>1, <2>2
  <2> HIDE DEF below
  <2>5. Cardinality(below(x)) <= Cardinality(L)
    BY <1>3, <2>3, FS_Subset
  <2> QED BY <1>2, <1>3, <2>2, <2>4, <2>5
<1> QED BY <1>1, <1>3, <1>4, <1>5, <1>6 DEF L

\* q is visited before r by a rotation that starts after number `at'.
Before(q, r, at) ==
  IF q.seq > at THEN r.seq > at => q.seq < r.seq
                ELSE r.seq <= at /\ q.seq < r.seq

\* The same of a batch, in the order of the rotation.
LEMMA BatchRows ==
  ASSUME NEW S, Numbered(S), NEW at \in Nat, NEW n \in Nat
  PROVE  /\ Batch(S, at, n) \in SUBSET S
         /\ Cardinality(Batch(S, at, n)) \in Nat
         /\ Cardinality(Batch(S, at, n)) <= n
         /\ \A r \in Batch(S, at, n), q \in S : Before(q, r, at) => q \in Batch(S, at, n)
         /\ Cardinality(Batch(S, at, n)) < n => Batch(S, at, n) = S
<1> DEFINE A == Ahead(S, at)
           B == Behind(S, at)
           a == Lowest(A, n)
           k == n - Cardinality(a)
           b == Lowest(B, k)
<1>1. Batch(S, at, n) = a \cup b
  BY DEF Batch, Wrapped
<1>2. /\ A \in SUBSET S /\ B \in SUBSET S /\ A \cup B = S /\ A \cap B = {}
      /\ \A r \in S : r \in A <=> r.seq > at
      /\ \A r \in S : r \in B <=> r.seq <= at
  BY DEF Ahead, Behind, Numbered
<1>3. Numbered(A) /\ Numbered(B)
  BY <1>2, NumberedSubset
<1> HIDE DEF A, B
<1>4. /\ a \in SUBSET A /\ Cardinality(a) \in Nat /\ Cardinality(a) <= n
      /\ \A r \in a, q \in A : q.seq < r.seq => q \in a
      /\ Cardinality(a) < n => a = A
  BY <1>3, LowestRows
<1> HIDE DEF a
<1>5. k \in Nat
  BY <1>4
<1> HIDE DEF k
<1>6. /\ b \in SUBSET B /\ Cardinality(b) \in Nat /\ Cardinality(b) <= k
      /\ \A r \in b, q \in B : q.seq < r.seq => q \in b
      /\ Cardinality(b) < k => b = B
  BY <1>3, <1>5, LowestRows
<1>7. b # {} => a = A
  <2> SUFFICES ASSUME NEW r \in b PROVE Cardinality(a) < n
    BY <1>4
  <2>1. r \in B /\ Cardinality({q \in B : q.seq < r.seq}) < k
    BY DEF Lowest
  <2>2. Cardinality({q \in B : q.seq < r.seq}) \in Nat
    BY <1>3, NumberedSubset
  <2> QED BY <1>4, <2>1, <2>2 DEF k
<1> HIDE DEF b
<1>8. IsFiniteSet(a) /\ IsFiniteSet(b)
  BY <1>3, <1>4, <1>6, FS_Subset DEF Numbered
<1>9. Cardinality(a \cup b) = Cardinality(a) + Cardinality(b)
  <2>1. a \cap b = {}
    BY <1>2, <1>4, <1>6
  <2> QED BY <1>4, <1>6, <1>8, <2>1, FS_Union, FS_EmptySet
<1>10. ASSUME NEW r \in a \cup b, NEW q \in S, Before(q, r, at) PROVE q \in a \cup b
  <2>1. r \in S /\ r.seq \in Nat /\ q.seq \in Nat
    BY <1>2, <1>4, <1>6 DEF Numbered
  <2>2. CASE q.seq > at
    BY <1>2, <1>4, <1>6, <1>7, <1>10, <2>1, <2>2 DEF Before
  <2>3. CASE q.seq <= at
    BY <1>2, <1>4, <1>6, <1>10, <2>1, <2>3 DEF Before
  <2> QED BY <2>1, <2>2, <2>3
<1>11. Cardinality(a \cup b) < n => a \cup b = S
  BY <1>2, <1>4, <1>6, <1>9 DEF k
<1> QED BY <1>1, <1>2, <1>4, <1>6, <1>9, <1>10, <1>11 DEF k

\* Any two rows are in some order, and no row is before itself.
LEMMA BeforeTotal ==
  ASSUME NEW S, Numbered(S), NEW at \in Nat, NEW q \in S, NEW r \in S
  PROVE  /\ q # r => Before(q, r, at) \/ Before(r, q, at)
         /\ ~ (Before(q, r, at) /\ Before(r, q, at))
BY DEF Before, Numbered

\* A batch no larger than a set of rows that come before all others lies in it.
LEMMA BatchInside ==
  ASSUME NEW S, Numbered(S), NEW at \in Nat, NEW n \in Nat, NEW U \in SUBSET S,
         \A q \in U, r \in S \ U : Before(q, r, at),
         Cardinality(Batch(S, at, n)) <= Cardinality(U)
  PROVE  Batch(S, at, n) \in SUBSET U
<1> DEFINE C == Batch(S, at, n)
<1>1. /\ C \in SUBSET S
      /\ \A r \in C, q \in S : Before(q, r, at) => q \in C
  BY BatchRows
<1> HIDE DEF C
<1>2. ASSUME NEW x \in C, x \notin U PROVE FALSE
  <2>1. U \in SUBSET (C \ {x})
    BY <1>1, <1>2
  <2>2. IsFiniteSet(C) /\ Cardinality(C) \in Nat
    <3>1. Numbered(C) /\ Cardinality(C) \in Nat
      BY <1>1, NumberedSubset
    <3> QED BY <3>1 DEF Numbered
  <2>3. IsFiniteSet(C \ {x}) /\ Cardinality(C \ {x}) = Cardinality(C) - 1
    BY <1>2, <2>2, FS_RemoveElement
  <2>4. Cardinality(U) <= Cardinality(C) - 1 /\ Cardinality(U) \in Nat
    BY <2>1, <2>3, NumberedSubset, FS_Subset
  <2>5. Cardinality(C) <= Cardinality(U)
    BY DEF C
  <2> QED BY <2>2, <2>4, <2>5
<1> QED BY <1>2 DEF C

\* The row visited next comes before all others of the batch.
LEMMA NextIsFirst ==
  ASSUME NEW S, Numbered(S), NEW at \in Nat, NEW r \in S, IsNext(r, S, at)
  PROVE  \A q \in S \ {r} : Before(r, q, at)
<1> DEFINE X == IF Ahead(S, at) # {} THEN Ahead(S, at) ELSE S
<1>1. r \in Lowest(X, 1)
  BY DEF IsNext
<1>2. X \in SUBSET S
  BY DEF Ahead
<1>3. r \in X /\ Cardinality({q \in X : q.seq < r.seq}) < 1
  BY <1>1 DEF Lowest
<1>4. IsFiniteSet({q \in X : q.seq < r.seq}) /\ Cardinality({q \in X : q.seq < r.seq}) \in Nat
  <2> HIDE DEF X
  <2> QED BY <1>2, FS_Subset, FS_CardinalityType DEF Numbered
<1>5. {q \in X : q.seq < r.seq} = {}
  <2> HIDE DEF X
  <2> QED BY <1>3, <1>4, FS_EmptySet
<1> QED BY <1>2, <1>3, <1>5 DEF Before, Ahead, Numbered

\* Once the cursor has moved to the row that was first, that row is last and
\* the order of the others is what it was.
LEMMA Turn ==
  ASSUME NEW S, Numbered(S), NEW at \in Nat, NEW r \in S,
         \A q \in S \ {r} : Before(r, q, at)
  PROVE  /\ \A q \in S \ {r} : Before(q, r, r.seq)
         /\ \A p, q \in S \ {r} : Before(p, q, at) => Before(p, q, r.seq)
BY DEF Before, Numbered

-----------------------------------------------------------------------------
(* Sums.  FiniteSetsExt adds up the values of a function one member of the  *)
(* set after the other, by a recursive function on its subsets.             *)

Pick(s) == CHOOSE x \in s : TRUE
SumOver(f, g, s) == IF s = {} THEN 0 ELSE f[Pick(s)] + g[s \ {Pick(s)}]

\* The sum as an operator of two sets: the lemmas below are applied to it.
Total(f, S) == MapThenSumSet(LAMBDA x : f[x], S)

LEMMA PickIn ==
  ASSUME NEW s, s # {}
  PROVE  Pick(s) \in s
BY DEF Pick

\* The recursion has a solution: a smallest size up to which it has none would
\* have to be 0, or one more than a size up to which it has one.
LEMMA SumExists ==
  ASSUME NEW S, IsFiniteSet(S), NEW f \in [S -> Nat]
  PROVE  \E g \in [SUBSET S -> Nat] : g = [s \in SUBSET S |-> SumOver(f, g, s)]
<1> DEFINE Upto(n, g) == \A s \in SUBSET S : Cardinality(s) <= n => g[s] = SumOver(f, g, s)
           Bad == {n \in Nat : ~ \E g \in [SUBSET S -> Nat] : Upto(n, g)}
<1>0. \A s \in SUBSET S : IsFiniteSet(s) /\ Cardinality(s) \in Nat /\ Cardinality(s) <= Cardinality(S)
  BY FS_Subset, FS_CardinalityType
<1>1. ASSUME Bad # {} PROVE FALSE
  <2>1. PICK n \in Bad : \A k \in Bad : n <= k
    BY <1>1, LeastNumber
  <2>2. ASSUME NEW h \in [SUBSET S -> Nat], n = 0 \/ Upto(n - 1, h)
        PROVE  FALSE
    <3> DEFINE g == [s \in SUBSET S |-> SumOver(f, h, s)]
    <3>1. ASSUME NEW s \in SUBSET S, s # {}
          PROVE  /\ Pick(s) \in S /\ s \ {Pick(s)} \in SUBSET S
                 /\ Cardinality(s \ {Pick(s)}) = Cardinality(s) - 1
      <4>1. Pick(s) \in s
        BY <3>1, PickIn
      <4> QED BY <1>0, <4>1, FS_RemoveElement
    <3>2. g \in [SUBSET S -> Nat]
      <4>1. ASSUME NEW s \in SUBSET S PROVE SumOver(f, h, s) \in Nat
        <5>1. CASE s = {}
          BY <5>1 DEF SumOver
        <5>2. CASE s # {}
          <6>1. f[Pick(s)] \in Nat /\ h[s \ {Pick(s)}] \in Nat
            BY <3>1, <5>2
          <6> QED BY <5>2, <6>1 DEF SumOver
        <5> QED BY <5>1, <5>2
      <4> QED BY <4>1
    <3>3. ASSUME NEW s \in SUBSET S, Cardinality(s) <= n PROVE g[s] = SumOver(f, g, s)
      <4>1. CASE s = {}
        BY <4>1 DEF SumOver
      <4>2. CASE s # {}
        <5> DEFINE t == s \ {Pick(s)}
        <5>1. t \in SUBSET S /\ Cardinality(t) = Cardinality(s) - 1 /\ Cardinality(t) \in Nat
          BY <1>0, <3>1, <4>2
        <5>2. n # 0 /\ Cardinality(t) <= n - 1
          BY <1>0, <2>1, <3>3, <5>1
        <5>3. h[t] = SumOver(f, h, t)
          BY <2>2, <5>1, <5>2
        <5>4. g[t] = h[t]
          BY <5>1, <5>3
        <5>5. g[s] = f[Pick(s)] + h[t]
          BY <4>2 DEF SumOver
        <5>6. SumOver(f, g, s) = f[Pick(s)] + g[t]
          BY <4>2 DEF SumOver
        <5> QED BY <5>4, <5>5, <5>6
      <4> QED BY <4>1, <4>2
    <3> HIDE DEF g
    <3>4. Upto(n, g)
      BY <3>3
    <3> QED BY <2>1, <3>2, <3>4
  <2>3. CASE n = 0
    <3>1. [s \in SUBSET S |-> 0] \in [SUBSET S -> Nat]
      OBVIOUS
    <3> QED BY <2>2, <2>3, <3>1
  <2>4. CASE n # 0
    <3>1. n \in Nat /\ \A k \in Bad : k \in Nat /\ n <= k
      BY <2>1
    <3> HIDE DEF Bad
    <3>2. n - 1 \in Nat /\ ~ (n - 1 \in Bad)
      BY <2>4, <3>1
    <3>3. PICK h \in [SUBSET S -> Nat] : Upto(n - 1, h)
      BY <3>2 DEF Bad
    <3> QED BY <2>2, <3>3
  <2> QED BY <2>3, <2>4
<1>2. PICK g \in [SUBSET S -> Nat] : Upto(Cardinality(S), g)
  <2>1. Cardinality(S) \in Nat
    BY FS_CardinalityType
  <2> QED BY <1>1, <2>1
<1>3. \A s \in SUBSET S : g[s] = SumOver(f, g, s)
  BY <1>0, <1>2
<1> QED BY <1>3

\* What MapThenSumSet computes satisfies that recursion.
LEMMA SumIs ==
  ASSUME NEW S, IsFiniteSet(S), NEW f \in [S -> Nat]
  PROVE  \E g : /\ g = [s \in SUBSET S |-> SumOver(f, g, s)]
                /\ Total(f, S) = g[S]
<1> DEFINE G == CHOOSE g : g = [s \in SUBSET S |-> SumOver(f, g, s)]
<1>1. G = [s \in SUBSET S |-> SumOver(f, G, s)]
  BY SumExists
<1>2. Total(f, S) = G[S]
  BY Zenon DEF Total, MapThenSumSet, MapThenFoldSet, SumOver, Pick
<1> QED BY <1>1, <1>2

\* A smallest subset on which a claim about sums fails would be one member
\* larger than one on which it holds.
LEMMA SmallestSubset ==
  ASSUME NEW S, IsFiniteSet(S), NEW Bad \in SUBSET (SUBSET S), Bad # {}
  PROVE  \E s \in Bad : s # {} => s \ {Pick(s)} \notin Bad
<1> DEFINE sizes == {Cardinality(s) : s \in Bad}
<1>0. \A s \in SUBSET S : IsFiniteSet(s) /\ Cardinality(s) \in Nat
  BY FS_Subset, FS_CardinalityType
<1>1. PICK n \in sizes : \A k \in sizes : n <= k
  <2>1. sizes \in SUBSET Nat /\ sizes # {}
    BY <1>0
  <2> HIDE DEF sizes
  <2> QED BY <2>1, LeastNumber
<1>2. PICK s \in Bad : Cardinality(s) = n
  BY <1>1
<1>3. ASSUME s # {}, s \ {Pick(s)} \in Bad PROVE FALSE
  <2>1. Cardinality(s \ {Pick(s)}) = Cardinality(s) - 1
    BY <1>0, <1>3, PickIn, FS_RemoveElement
  <2>2. n <= Cardinality(s) - 1 /\ n \in Nat
    BY <1>0, <1>1, <1>2, <1>3, <2>1
  <2> QED BY <1>2, <2>2
<1> QED BY <1>3

LEMMA SumOfZeros ==
  ASSUME NEW S, IsFiniteSet(S)
  PROVE  Total([y \in S |-> 0], S) = 0
<1> DEFINE f == [y \in S |-> 0]
<1>1. f \in [S -> Nat]
  OBVIOUS
<1>2. PICK g : /\ g = [s \in SUBSET S |-> SumOver(f, g, s)]
               /\ Total(f, S) = g[S]
  BY <1>1, SumIs
<1> DEFINE Bad == {s \in SUBSET S : g[s] # 0}
<1>3. ASSUME Bad # {} PROVE FALSE
  <2>1. PICK s \in Bad : s # {} => s \ {Pick(s)} \notin Bad
    BY <1>3, SmallestSubset
  <2>2. g[s] = SumOver(f, g, s)
    BY <1>2
  <2>3. CASE s = {}
    BY <2>1, <2>2, <2>3 DEF SumOver
  <2>4. CASE s # {}
    <3>1. Pick(s) \in S /\ s \ {Pick(s)} \in SUBSET S
      BY <2>4, PickIn
    <3>2. g[s \ {Pick(s)}] = 0 /\ f[Pick(s)] = 0
      BY <2>1, <2>4, <3>1
    <3> QED BY <2>1, <2>2, <2>4, <3>2 DEF SumOver
  <2> QED BY <2>3, <2>4
<1> QED BY <1>2, <1>3

\* One more at one member of the set is one more in the sum.
LEMMA SumOneMore ==
  ASSUME NEW S, IsFiniteSet(S), NEW f \in [S -> Nat], NEW e \in [S -> Nat], NEW x \in S,
         e = [f EXCEPT ![x] = @ + 1]
  PROVE  Total(f, S) \in Nat /\ Total(e, S) = Total(f, S) + 1
<1>1. PICK g : /\ g = [s \in SUBSET S |-> SumOver(f, g, s)]
               /\ Total(f, S) = g[S]
  BY SumIs
<1>2. PICK h : /\ h = [s \in SUBSET S |-> SumOver(e, h, s)]
               /\ Total(e, S) = h[S]
  BY SumIs
<1> DEFINE Good(s) == g[s] \in Nat /\ h[s] = IF x \in s THEN g[s] + 1 ELSE g[s]
           Bad == {s \in SUBSET S : ~ Good(s)}
<1>3. ASSUME Bad # {} PROVE FALSE
  <2>1. PICK s \in Bad : s # {} => s \ {Pick(s)} \notin Bad
    BY <1>3, SmallestSubset
  <2>2. g[s] = SumOver(f, g, s) /\ h[s] = SumOver(e, h, s)
    BY <1>1, <1>2
  <2>3. CASE s = {}
    BY <2>1, <2>2, <2>3 DEF SumOver
  <2>4. CASE s # {}
    <3> DEFINE p == Pick(s)
               t == s \ {p}
    <3>1. p \in s /\ p \in S /\ t \in SUBSET S
      BY <2>4, PickIn
    <3>2. Good(t)
      BY <2>1, <2>4, <3>1
    <3>3. g[s] = f[p] + g[t] /\ h[s] = e[p] + h[t]
      BY <2>2, <2>4 DEF SumOver
    <3>4. f[p] \in Nat /\ e[p] = IF p = x THEN f[p] + 1 ELSE f[p]
      BY <3>1
    <3> HIDE DEF p
    <3>5. x \in s <=> (x = p \/ x \in t)
      BY <3>1
    <3>6. p \notin t
      OBVIOUS
    <3> HIDE DEF t
    <3>7. Good(s)
      BY <3>2, <3>3, <3>4, <3>5, <3>6
    <3> QED BY <2>1, <3>7
  <2> QED BY <2>3, <2>4
<1>4. Good(S)
  BY <1>3
<1> QED BY <1>1, <1>2, <1>4

-----------------------------------------------------------------------------
(* Types.                                                                   *)

Typed ==
  /\ TypeOK
  /\ IsFiniteSet(rows)
  /\ {r.id : r \in rows} \subseteq start \cup late
  /\ refused <= attempted
  /\ pc = "call" => todo = {}
  /\ pc \in {"call", "visit"} => round < Batches

LEMMA RowsNumbered ==
  ASSUME Typed
  PROVE  Numbered(rows) /\ \A r \in rows : r.seq \in Nat \ {0} /\ r.id \in Ids
BY DEF Typed, TypeOK, Numbered

\* seq of a stored row is past all others.
LEMMA NumberPastAll ==
  ASSUME Typed
  PROVE  Number \in Nat \ {0} /\ \A r \in rows : r.seq < Number
<1> DEFINE numbers == {r.seq : r \in rows}
<1>1. numbers \in SUBSET Nat /\ IsFiniteSet(numbers)
  BY RowsNumbered, NumbersFinite
<1> HIDE DEF numbers
<1>2. numbers \cup {0} \in SUBSET Nat /\ IsFiniteSet(numbers \cup {0})
  <2>1. numbers \cup {0} \in SUBSET Nat
    BY <1>1
  <2> QED BY <1>1, <2>1, OneMore
<1>3. Max0(numbers) \in Nat /\ \A k \in numbers : Max0(numbers) >= k
  BY <1>2, MaxOf DEF Max0
<1>4. Number = Max0(numbers) + 1
  BY DEF Number, numbers
<1>5. \A r \in rows : r.seq \in numbers /\ r.seq \in Nat
  BY RowsNumbered DEF numbers
<1> QED BY <1>3, <1>4, <1>5

\* One visit: the least row of the batch, whatever the answer to it is.
LEMMA VisitEffect ==
  ASSUME Typed, NEW r \in todo, Delivered(r) \/ Refused(r) \/ Stopped(r)
  PROVE  /\ r \in rows /\ r.seq \in Nat \ {0} /\ r.id \in Ids
         /\ pc = "visit" /\ pc' \in {"visit", "stopped"}
         /\ IsNext(r, todo, cursor)
         /\ cursor' = r.seq
         /\ todo' = todo \ {r}
         /\ attempted' = attempted + 1
         /\ visits' = [visits EXCEPT ![r.id] = @ + 1]
         /\ UNCHANGED <<round, visited, budget, start, late, manual>>
         /\ \/ rows' = rows \ {r} /\ refused' = refused /\ pc' = "visit"
            \/ rows' = rows /\ refused' = refused + 1 /\ pc' = "visit"
            \/ rows' = rows /\ refused' = refused /\ pc' = "stopped"
<1>1. r \in rows /\ r.seq \in Nat \ {0} /\ r.id \in Ids
  BY RowsNumbered DEF Typed, TypeOK
<1> QED BY <1>1 DEF Delivered, Refused, Stopped, Visiting, drainVars

\* Pending rows at the start of a run: as many as there are ids.
LEMMA InitialRows ==
  ASSUME Init
  PROVE  /\ IsFiniteSet(rows) /\ IsFiniteSet(start)
         /\ Cardinality(rows) = Cardinality(start)
         /\ rows \subseteq [seq : Nat \ {0}, id : Ids]
         /\ \A q, r \in rows : (q.seq = r.seq \/ q.id = r.id) => q = r
         /\ {r.id : r \in rows} = start
<1>1. PICK ids \in SUBSET Ids : \E number \in Injection(ids, Seqs) :
        rows = {[seq |-> number[id], id |-> id] : id \in ids} /\ start = ids
  BY DEF Init
<1>2. PICK number \in Injection(ids, Seqs) :
        rows = {[seq |-> number[id], id |-> id] : id \in ids} /\ start = ids
  BY <1>1
<1>3. /\ \A id \in ids : number[id] \in Seqs
      /\ \A i, j \in ids : number[i] = number[j] => i = j
  BY DEF Injection, IsInjective
<1> DEFINE f == [id \in ids |-> [seq |-> number[id], id |-> id]]
<1>4. f \in Surjection(ids, rows)
  BY <1>2 DEF Surjection
<1>5. f \in Injection(ids, rows)
  BY <1>2 DEF Injection, IsInjective
<1>6. IsFiniteSet(ids)
  BY FS_Subset, DrainAssumption DEF DrainAssumption
<1>7. IsFiniteSet(rows) /\ Cardinality(rows) = Cardinality(ids)
  BY <1>4, <1>5, <1>6, FS_Surjection
<1>8. ASSUME NEW r \in rows PROVE r \in [seq : Nat \ {0}, id : Ids]
  <2>1. PICK id \in ids : r = [seq |-> number[id], id |-> id]
    BY <1>2
  <2>2. number[id] \in Nat \ {0} /\ id \in Ids
    BY <1>3, DrainAssumption DEF DrainAssumption
  <2> QED BY <2>1, <2>2
<1>9. \A q, r \in rows : (q.seq = r.seq \/ q.id = r.id) => q = r
  BY <1>2, <1>3
<1>10. {r.id : r \in rows} = start
  <2>1. ASSUME NEW id \in ids PROVE id \in {r.id : r \in rows}
    <3>1. f[id] \in rows /\ f[id].id = id
      BY <1>2
    <3> QED BY <3>1
  <2>2. ASSUME NEW r \in rows PROVE r.id \in ids
    BY <1>2
  <2> QED BY <1>2, <2>1, <2>2
<1> QED BY <1>2, <1>6, <1>7, <1>8, <1>9, <1>10

LEMMA TypedInit == Init => Typed
<1> SUFFICES ASSUME Init PROVE Typed
  OBVIOUS
<1>0. /\ visits = [id \in Ids |-> 0] /\ cursor \in Seqs \cup {0} /\ budget = BatchSize
      /\ start \subseteq Ids
  BY Zenon DEF Init
<1>1. visits = [id \in Ids |-> 0] /\ cursor \in Nat /\ budget \in Nat /\ start \subseteq Ids
  BY <1>0, DrainAssumption DEF DrainAssumption
<1>2. 0 \in 0..Batches /\ 0 < Batches
  BY DrainAssumption DEF DrainAssumption
<1>3. /\ IsFiniteSet(rows) /\ {r.id : r \in rows} = start
      /\ rows \subseteq [seq : Nat \ {0}, id : Ids]
      /\ \A q, r \in rows : (q.seq = r.seq \/ q.id = r.id) => q = r
  BY InitialRows
<1>4. /\ pc = "call" /\ round = 0 /\ visited = 0 /\ todo = {}
      /\ attempted = 0 /\ refused = 0 /\ late = {}
  BY DEF Init
<1>5. TypeOK
  BY <1>1, <1>2, <1>3, <1>4 DEF TypeOK
<1> QED BY <1>2, <1>3, <1>4, <1>5 DEF Typed

LEMMA BatchOfRows ==
  ASSUME NEW S, NEW at, NEW n
  PROVE  Batch(S, at, n) \subseteq S
BY DEF Batch, Wrapped, Lowest, Ahead, Behind

LEMMA TypedStep == Typed /\ [Next]_vars => Typed'
<1> SUFFICES ASSUME Typed, [Next]_vars PROVE Typed'
  OBVIOUS
<1> USE DEF drainVars, batchVars, history
<1>1. ASSUME NEW id \in Ids, Store(id) PROVE Typed'
  <2>1. Number \in Nat \ {0} /\ \A r \in rows : r.seq < Number /\ r.seq \in Nat
    BY NumberPastAll, RowsNumbered
  <2> DEFINE new == [seq |-> Number, id |-> id]
  <2>2. /\ rows' = rows \cup {new} /\ late' = late \cup {id} /\ id \notin start \cup late
        /\ UNCHANGED <<cursor, pc, drainVars, batchVars, start, visits, manual>>
    BY <1>1 DEF Store
  <2>3. new.seq = Number /\ new.id = id /\ new \in [seq : Nat \ {0}, id : Ids]
    BY <2>1
  <2>4. \A r \in rows : r.seq # new.seq /\ r.id # new.id
    BY <2>1, <2>2, <2>3 DEF Typed
  <2> HIDE DEF new
  <2>5. IsFiniteSet(rows')
    BY <2>2, OneMore DEF Typed
  <2>6. {r.id : r \in rows'} \subseteq start' \cup late'
    BY <2>2, <2>3 DEF Typed
  <2>7. \A q, r \in rows' : (q.seq = r.seq \/ q.id = r.id) => q = r
    BY <2>2, <2>4 DEF Typed, TypeOK
  <2>8. TypeOK'
    BY <2>2, <2>3, <2>7 DEF Typed, TypeOK
  <2> QED BY <2>2, <2>5, <2>6, <2>8 DEF Typed
<1>2. CASE ManualSync
  <2>1. PICK gone \in SUBSET rows, last \in rows : rows' = rows \ gone /\ cursor' = last.seq
    BY <1>2 DEF ManualSync
  <2>2. UNCHANGED <<pc, drainVars, batchVars, start, late, visits>> /\ pc = "call"
    BY <1>2 DEF ManualSync
  <2>3. IsFiniteSet(rows') /\ rows' \subseteq rows /\ cursor' \in Nat
    BY <2>1, RowsNumbered, FS_Subset DEF Typed
  <2>4. TypeOK'
    BY <2>2, <2>3 DEF Typed, TypeOK
  <2> QED BY <2>2, <2>3, <2>4 DEF Typed
<1>3. CASE Call
  <2>1. todo' \subseteq rows
    BY <1>3, BatchOfRows DEF Call
  <2> QED BY <1>3, <2>1 DEF Call, Typed, TypeOK
<1>4. CASE Return
  <2>1. Cardinality(rows) \in Nat
    BY FS_CardinalityType DEF Typed
  <2>2. /\ visited' = visited + attempted
        /\ budget' = IF round = 0 THEN Cardinality(rows) + attempted - refused ELSE budget
        /\ round' = round + 1
        /\ pc' \in {"call", "done"} /\ (pc' = "call" => round' # Batches)
        /\ UNCHANGED <<rows, cursor, batchVars, history>>
        /\ pc = "visit" /\ todo = {}
    BY <1>4 DEF Return, Budget
  <2>3. visited' \in Nat /\ budget' \in Nat
    BY <2>1, <2>2 DEF Typed, TypeOK
  <2>4. round' \in 0..Batches /\ (pc' = "call" => round' < Batches)
    BY <2>2, DrainAssumption DEF Typed, TypeOK, DrainAssumption
  <2> QED BY <2>2, <2>3, <2>4 DEF Typed, TypeOK
<1>5. ASSUME NEW r \in todo, Delivered(r) \/ Refused(r) \/ Stopped(r) PROVE Typed'
  <2>1. IsFiniteSet(rows') /\ rows' \subseteq rows /\ todo' \subseteq rows'
    <3>1. rows' \subseteq rows /\ todo' \subseteq rows'
      BY <1>5, VisitEffect DEF Typed, TypeOK
    <3> QED BY <3>1, FS_Subset DEF Typed
  <2>2. visits' \in [Ids -> Nat]
    BY <1>5, VisitEffect DEF Typed, TypeOK
  <2>3. {cursor, visited, attempted, refused, budget}' \subseteq Nat /\ refused' <= attempted'
    BY <1>5, VisitEffect DEF Typed, TypeOK
  <2> QED BY <1>5, <2>1, <2>2, <2>3, VisitEffect DEF Typed, TypeOK
<1>6. CASE UNCHANGED vars
  BY <1>6 DEF vars, Typed, TypeOK
<1> QED BY <1>1, <1>2, <1>3, <1>4, <1>5, <1>6 DEF Next

\* Types and keys of the rows, the batch of a call among the pending rows.
THEOREM DrainTypeCorrect == Spec => []TypeOK
<1>1. Typed => TypeOK
  BY DEF Typed
<1> QED BY <1>1, TypedInit, TypedStep, PTL DEF Spec

-----------------------------------------------------------------------------
(* Requests.                                                                *)

\* The requests of the run: those of finished calls and of the one under way.
Calling == pc \in {"visit", "stopped"}
Sent == visited + (IF Calling THEN attempted ELSE 0)

Seen == start \cup late

\* The budget of the first call is one batch.  What that call delivered and
\* what is pending are different observations, so the budget computed after
\* it is no more than there ever were; and no later call may exceed it.
Budgeted ==
  /\ Calling => attempted + Cardinality(todo) <= LimitNow
  /\ round = 0 => visited = 0 /\ budget = BatchSize
  /\ round = 0 /\ pc = "call" => attempted = 0 /\ refused = 0
  /\ round = 0 /\ pc \in {"call", "visit"} =>
       Cardinality(rows) + attempted - refused <= Cardinality(Seen)
  /\ round > 0 => budget <= Cardinality(Seen)
  /\ pc # "done" => visited < budget
  /\ Sent <= BatchSize \/ Sent <= Cardinality(Seen)

LEMMA LimitFacts ==
  ASSUME Typed
  PROVE  /\ LimitNow \in {BatchSize, budget - visited}
         /\ LimitNow <= BatchSize /\ LimitNow <= budget - visited
         /\ visited < budget => LimitNow \in Nat \ {0}
<1>1. BatchSize \in Nat \ {0} /\ budget \in Nat /\ visited \in Nat
  BY DrainAssumption DEF Typed, TypeOK, DrainAssumption
<1>2. BatchSize \in Int /\ budget - visited \in Int
  BY <1>1
<1>3. /\ LimitNow \in {BatchSize, budget - visited}
      /\ LimitNow <= BatchSize /\ LimitNow <= budget - visited
  BY <1>2, MinOfTwo DEF LimitNow
<1> QED BY <1>1, <1>3

LEMMA SizeFacts ==
  ASSUME Typed
  PROVE  /\ Cardinality(rows) \in Nat /\ IsFiniteSet(rows)
         /\ Cardinality(todo) \in Nat /\ IsFiniteSet(todo)
         /\ Cardinality(Seen) \in Nat /\ IsFiniteSet(Seen)
         /\ BatchSize \in Nat \ {0}
         /\ {round, visited, budget, attempted, refused} \subseteq Nat
         /\ refused <= attempted
<1>1. IsFiniteSet(rows) /\ todo \in SUBSET rows /\ Seen \in SUBSET Ids
  BY DEF Typed, TypeOK, Seen
<1>2. IsFiniteSet(todo) /\ IsFiniteSet(Seen)
  BY <1>1, FS_Subset, DrainAssumption DEF DrainAssumption
<1>3. /\ {round, visited, budget, attempted, refused} \subseteq Nat
      /\ BatchSize \in Nat \ {0} /\ refused <= attempted
  BY DrainAssumption DEF Typed, TypeOK, DrainAssumption
<1> QED BY <1>1, <1>2, <1>3, FS_CardinalityType

LEMMA BudgetedInit == Init => Budgeted
<1> SUFFICES ASSUME Init PROVE Budgeted
  OBVIOUS
<1>1. /\ pc = "call" /\ round = 0 /\ visited = 0 /\ budget = BatchSize
      /\ attempted = 0 /\ refused = 0 /\ Seen = start
  BY DEF Init, Seen
<1>2. Cardinality(rows) = Cardinality(start) /\ Cardinality(rows) \in Nat
  BY InitialRows, FS_CardinalityType
<1>3. BatchSize \in Nat \ {0}
  BY DrainAssumption DEF DrainAssumption
<1> QED BY <1>1, <1>2, <1>3 DEF Budgeted, Calling, Sent

\* The sizes that a visit changes.
LEMMA VisitSizes ==
  ASSUME Typed, NEW r \in todo, Delivered(r) \/ Refused(r) \/ Stopped(r)
  PROVE  /\ Cardinality(todo') = Cardinality(todo) - 1 /\ Cardinality(todo') \in Nat
         /\ pc' = "visit" =>
              Cardinality(rows') + attempted' - refused' = Cardinality(rows) + attempted - refused
<1>1. Cardinality(todo \ {r}) = Cardinality(todo) - 1 /\ Cardinality(todo \ {r}) \in Nat
  BY SizeFacts, FS_RemoveElement, FS_CardinalityType
<1>2. Cardinality(rows \ {r}) = Cardinality(rows) - 1
  BY SizeFacts, VisitEffect, FS_RemoveElement
<1>3. CASE rows' = rows \ {r} /\ refused' = refused
  BY <1>1, <1>2, <1>3, VisitEffect, SizeFacts
<1>4. CASE rows' = rows /\ refused' = refused + 1
  BY <1>1, <1>4, VisitEffect, SizeFacts
<1>5. CASE pc' = "stopped"
  BY <1>1, <1>5, VisitEffect
<1> QED BY <1>3, <1>4, <1>5, VisitEffect

LEMMA BudgetedStep ==
  Typed /\ Typed' /\ Budgeted /\ [Next]_vars => Budgeted'
<1> SUFFICES ASSUME Typed, Typed', Budgeted, [Next]_vars PROVE Budgeted'
  OBVIOUS
<1> USE DEF drainVars, batchVars, history
<1>0. /\ Cardinality(rows) \in Nat /\ Cardinality(todo) \in Nat /\ Cardinality(Seen) \in Nat
      /\ BatchSize \in Nat \ {0} /\ round \in Nat /\ visited \in Nat /\ budget \in Nat
      /\ attempted \in Nat /\ refused \in Nat /\ refused <= attempted
  BY SizeFacts
<1>1. ASSUME NEW id \in Ids, Store(id) PROVE Budgeted'
  <2>1. /\ UNCHANGED <<pc, round, visited, budget, todo, attempted, refused>>
        /\ rows' = rows \cup {[seq |-> Number, id |-> id]}
        /\ Seen' = Seen \cup {id} /\ id \notin Seen /\ pc # "done"
    BY <1>1 DEF Store, Seen
  <2>2. Cardinality(rows') <= Cardinality(rows) + 1 /\ Cardinality(rows') \in Nat
    BY <2>1, OneMore, SizeFacts, FS_CardinalityType
  <2>3. Cardinality(Seen') = Cardinality(Seen) + 1
    BY <2>1, OneMore, SizeFacts
  <2>4. LimitNow' = LimitNow /\ Sent' = Sent /\ Calling' = Calling
    BY <2>1 DEF LimitNow, Sent, Calling
  <2>5. Sent \in Nat
    BY <1>0 DEF Sent
  <2> QED BY <1>0, <2>1, <2>2, <2>3, <2>4, <2>5 DEF Budgeted
<1>2. CASE ManualSync
  <2>1. /\ UNCHANGED <<pc, round, visited, budget, todo, attempted, refused, Seen>>
        /\ rows' \in SUBSET rows /\ pc = "call"
    BY <1>2 DEF ManualSync, Seen
  <2>2. Cardinality(rows') <= Cardinality(rows) /\ Cardinality(rows') \in Nat
    BY <2>1, SizeFacts, FS_Subset, FS_CardinalityType
  <2>3. Sent' = Sent /\ ~ Calling'
    BY <2>1 DEF Sent, Calling
  <2> QED BY <1>0, <2>1, <2>2, <2>3 DEF Budgeted
<1>3. CASE Call
  <2>1. /\ todo' = Batch(rows, cursor, LimitNow) /\ attempted' = 0 /\ refused' = 0
        /\ pc = "call" /\ pc' = "visit"
        /\ UNCHANGED <<rows, round, visited, budget, Seen>>
    BY <1>3 DEF Call, Seen
  <2>2. LimitNow \in Nat
    BY <2>1, LimitFacts DEF Budgeted
  <2>3. Cardinality(todo') <= LimitNow /\ Cardinality(todo') \in Nat
    BY <2>1, <2>2, BatchRows, RowsNumbered DEF Typed, TypeOK
  <2>4. LimitNow' = LimitNow /\ Sent' = Sent
    BY <1>0, <2>1 DEF LimitNow, Sent, Calling
  <2> QED BY <1>0, <2>1, <2>2, <2>3, <2>4 DEF Budgeted
<1>4. CASE Return
  <2>1. /\ visited' = visited + attempted
        /\ budget' = IF round = 0 THEN Cardinality(rows) + attempted - refused ELSE budget
        /\ round' = round + 1
        /\ pc = "visit" /\ pc' \in {"call", "done"}
        /\ UNCHANGED <<rows, todo, attempted, refused, Seen>>
    BY <1>4 DEF Return, Budget, Seen
  <2>2. pc' = "call" => ~ (visited' >= budget')
    BY <1>4 DEF Return, Enough
  <2>3. Sent = visited + attempted /\ Sent' = visited' /\ ~ Calling'
    BY <2>1, <1>0 DEF Sent, Calling
  <2>4. visited' \in Nat /\ budget' \in Nat
    BY DEF Typed, TypeOK
  <2>5. budget' <= Cardinality(Seen)
    BY <1>0, <2>1 DEF Budgeted
  <2> QED BY <1>0, <2>1, <2>2, <2>3, <2>4, <2>5 DEF Budgeted
<1>5. ASSUME NEW r \in todo, Delivered(r) \/ Refused(r) \/ Stopped(r) PROVE Budgeted'
  <2>1. /\ pc = "visit" /\ pc' \in {"visit", "stopped"} /\ attempted' = attempted + 1
        /\ UNCHANGED <<round, visited, budget, Seen>>
    BY <1>5, VisitEffect DEF Seen
  <2>2. LimitNow' = LimitNow /\ Calling /\ Calling' /\ Sent = visited + attempted /\ Sent' = Sent + 1
    BY <1>0, <2>1 DEF LimitNow, Calling, Sent
  <2>3. /\ Cardinality(todo') = Cardinality(todo) - 1 /\ Cardinality(todo') \in Nat
        /\ pc' = "visit" =>
             Cardinality(rows') + attempted' - refused' = Cardinality(rows) + attempted - refused
    BY <1>5, VisitSizes
  <2>4. attempted' + Cardinality(todo') <= LimitNow'
    BY <1>0, <2>1, <2>2, <2>3, LimitFacts DEF Budgeted
  <2>5. attempted' <= LimitNow /\ LimitNow <= BatchSize /\ LimitNow <= budget - visited /\ LimitNow \in Int
    BY <1>0, <2>1, <2>2, <2>3, <2>4, LimitFacts
  <2>6. Sent' <= BatchSize \/ Sent' <= Cardinality(Seen')
    BY <1>0, <2>1, <2>2, <2>5 DEF Budgeted
  <2> QED BY <1>0, <2>1, <2>2, <2>3, <2>4, <2>6 DEF Budgeted
<1>6. CASE UNCHANGED vars
  BY <1>6 DEF vars, Budgeted, LimitNow, Calling, Sent, Seen
<1> QED BY <1>1, <1>2, <1>3, <1>4, <1>5, <1>6 DEF Next

\* Every visit is a request that was counted.
Requests == Total(visits, Ids)
Counted == Requests \in Nat /\ Requests = Sent

LEMMA CountedInit == Init => Counted
<1> SUFFICES ASSUME Init PROVE Counted
  OBVIOUS
<1>1. visits = [id \in Ids |-> 0] /\ IsFiniteSet(Ids)
  BY DrainAssumption DEF Init, DrainAssumption
<1>2. Requests = 0
  BY <1>1, SumOfZeros DEF Requests
<1>3. Sent = 0
  BY DEF Init, Sent, Calling
<1> QED BY <1>2, <1>3 DEF Counted

LEMMA CountedStep ==
  Typed /\ Typed' /\ Counted /\ [Next]_vars => Counted'
<1> SUFFICES ASSUME Typed, Typed', Counted, [Next]_vars PROVE Counted'
  OBVIOUS
<1> USE DEF drainVars, batchVars, history
<1>1. ASSUME NEW r \in todo, Delivered(r) \/ Refused(r) \/ Stopped(r) PROVE Counted'
  <2>1. /\ visits \in [Ids -> Nat] /\ visits' \in [Ids -> Nat] /\ r.id \in Ids
        /\ visits' = [visits EXCEPT ![r.id] = @ + 1] /\ IsFiniteSet(Ids)
    BY <1>1, VisitEffect, DrainAssumption DEF Typed, TypeOK, DrainAssumption
  <2>2. Requests' = Requests + 1
    BY <2>1, SumOneMore DEF Requests
  <2>3. Sent' = Sent + 1 /\ Sent \in Nat
    BY <1>1, VisitEffect, SizeFacts DEF Sent, Calling
  <2> QED BY <2>2, <2>3 DEF Counted
<1>2. CASE UNCHANGED visits /\ ~ \E r \in todo : Delivered(r) \/ Refused(r) \/ Stopped(r)
  <2>1. Requests' = Requests
    BY <1>2 DEF Requests
  <2>2. Sent' = Sent
    <3>1. ASSUME NEW id \in Ids, Store(id) PROVE Sent' = Sent
      BY <3>1 DEF Store, Sent, Calling
    <3>2. CASE ManualSync \/ UNCHANGED vars
      BY <3>2 DEF ManualSync, vars, Sent, Calling
    <3>3. CASE Call
      BY <3>3, SizeFacts DEF Call, Sent, Calling
    <3>4. CASE Return
      BY <3>4, SizeFacts DEF Return, Sent, Calling
    <3> QED BY <1>2, <3>1, <3>2, <3>3, <3>4 DEF Next
  <2> QED BY <2>1, <2>2 DEF Counted
<1>3. ASSUME ~ \E r \in todo : Delivered(r) \/ Refused(r) \/ Stopped(r)
      PROVE  UNCHANGED visits
  BY <1>3 DEF Next, Store, ManualSync, Call, Return, vars
<1> QED BY <1>1, <1>2, <1>3

\* However it is disturbed, a run sends no more requests than its first batch
\* or one for each row that ever was pending.
THEOREM RequestsAreBounded == Spec => []RequestsBounded
<1>1. Typed /\ Budgeted /\ Counted => RequestsBounded
  <2> SUFFICES ASSUME Typed, Budgeted, Counted PROVE RequestsBounded
    OBVIOUS
  <2> DEFINE two == {BatchSize, Cardinality(Seen)}
  <2>1. BatchSize \in Nat /\ Cardinality(Seen) \in Nat /\ two \in SUBSET Nat /\ two # {}
    BY SizeFacts
  <2>2. IsFiniteSet(two)
    <3>1. IsFiniteSet({BatchSize} \cup {Cardinality(Seen)})
      BY OneMore, FS_Singleton
    <3>2. two = {BatchSize} \cup {Cardinality(Seen)}
      OBVIOUS
    <3> QED BY <3>1, <3>2
  <2>3. Max(two) \in Nat /\ Max(two) >= BatchSize /\ Max(two) >= Cardinality(Seen)
    <3> HIDE DEF two
    <3>1. Max(two) \in two /\ \A k \in two : Max(two) >= k
      BY <2>1, <2>2, MaxOf
    <3> QED BY <2>1, <3>1 DEF two
  <2>4. Requests <= Max(two)
    <3> HIDE DEF two
    <3> QED BY <2>1, <2>3 DEF Counted, Budgeted
  <2>5. Requests = MapThenSumSet(LAMBDA id : visits[id], Ids)
    BY Zenon DEF Requests, Total
  <2> QED BY <2>4, <2>5, Zenon DEF RequestsBounded, Seen
<1> QED BY <1>1, TypedInit, TypedStep, BudgetedInit, BudgetedStep, CountedInit, CountedStep, PTL
       DEF Spec

-----------------------------------------------------------------------------
(* A run that nobody disturbs.                                              *)

Undisturbed == late = {} /\ ~manual

\* Pending rows the run has not sent yet.
Unseen == {r \in rows : visits[r.id] = 0}

\* The cursor turns: what was not sent comes before what was, the batch under
\* way before the rest, and both counts of rows agree with the budget.
Orderly ==
  /\ \A id \in start : visits[id] <= 1
  /\ \A id \in start : visits[id] = 0 => \E r \in rows : r.id = id
  /\ Cardinality(Unseen) + Sent = Cardinality(start)
  /\ todo \subseteq Unseen
  /\ round = 0 /\ pc \in {"call", "visit"} =>
       Cardinality(rows) + attempted - refused = Cardinality(start)
  /\ round > 0 => budget = Cardinality(start)
  /\ \A q \in Unseen, r \in rows \ Unseen : Before(q, r, cursor)
  /\ \A q \in todo, r \in rows \ todo : Before(q, r, cursor)
  /\ pc = "visit" /\ attempted + Cardinality(todo) < LimitNow => Unseen \subseteq todo
  /\ pc = "done" /\ round < Batches => Unseen = {}

LEMMA UnseenFacts ==
  ASSUME Typed
  PROVE  /\ Unseen \in SUBSET rows /\ IsFiniteSet(Unseen) /\ Cardinality(Unseen) \in Nat
         /\ Cardinality(Unseen) <= Cardinality(rows)
         /\ Sent \in Nat
         /\ IsFiniteSet(start) /\ Cardinality(start) \in Nat
<1>1. Unseen \in SUBSET rows
  BY DEF Unseen
<1>2. IsFiniteSet(Unseen) /\ Cardinality(Unseen) \in Nat /\ Cardinality(Unseen) <= Cardinality(rows)
  BY <1>1, SizeFacts, FS_Subset, FS_CardinalityType
<1>3. IsFiniteSet(start)
  BY FS_Subset, DrainAssumption DEF Typed, TypeOK, DrainAssumption
<1>4. Sent \in Nat
  BY SizeFacts DEF Sent
<1> QED BY <1>1, <1>2, <1>3, <1>4, FS_CardinalityType

LEMMA OrderlyInit == Init => Orderly
<1> SUFFICES ASSUME Init PROVE Orderly
  OBVIOUS
<1>1. /\ visits = [id \in Ids |-> 0] /\ todo = {} /\ pc = "call" /\ round = 0
      /\ attempted = 0 /\ refused = 0 /\ Sent = 0 /\ start \subseteq Ids
  BY DEF Init, Sent, Calling
<1>2. /\ Cardinality(rows) = Cardinality(start) /\ Cardinality(start) \in Nat
      /\ {r.id : r \in rows} = start
  BY InitialRows, FS_CardinalityType
<1>3. Unseen = rows
  BY <1>1, <1>2 DEF Unseen
<1> QED BY <1>1, <1>2, <1>3 DEF Orderly

\* The batch of a call is made of rows the run has not sent yet.
LEMMA BatchUnseen ==
  ASSUME Typed, Budgeted, Orderly, pc = "call"
  PROVE  /\ LimitNow \in Nat
         /\ Batch(rows, cursor, LimitNow) \in SUBSET Unseen
<1>1. LimitNow \in Nat /\ cursor \in Nat
  BY LimitFacts DEF Budgeted, Typed, TypeOK
<1> DEFINE taken == Batch(rows, cursor, LimitNow)
<1>2. /\ taken \in SUBSET rows /\ Cardinality(taken) \in Nat
      /\ Cardinality(taken) <= LimitNow
  BY <1>1, BatchRows, RowsNumbered
<1>3. Cardinality(taken) <= Cardinality(rows)
  BY <1>2, RowsNumbered, NumberedSubset
<1> HIDE DEF taken
<1>4. Cardinality(taken) <= Cardinality(Unseen)
  <2>1. Sent = visited
    BY SizeFacts DEF Sent, Calling
  <2>2. CASE round = 0
    BY <1>2, <1>3, <2>1, <2>2, SizeFacts, UnseenFacts DEF Orderly, Budgeted
  <2>3. CASE round > 0
    <3>1. LimitNow <= budget - visited
      BY LimitFacts
    <3>2. budget = Cardinality(start) /\ Cardinality(Unseen) + visited = Cardinality(start)
      BY <2>1, <2>3 DEF Orderly
    <3> QED BY <1>1, <1>2, <3>1, <3>2, SizeFacts, UnseenFacts
  <2>4. round \in Nat
    BY SizeFacts
  <2> QED BY <2>2, <2>3, <2>4
<1> QED BY <1>1, <1>4, BatchInside, RowsNumbered, UnseenFacts DEF Orderly, taken

LEMMA OrderlyCall ==
  ASSUME Typed, Typed', Budgeted, Orderly, Call
  PROVE  Orderly'
<1> USE DEF drainVars, history
<1>1. /\ todo' = Batch(rows, cursor, LimitNow) /\ attempted' = 0 /\ refused' = 0
      /\ pc = "call" /\ pc' = "visit"
      /\ UNCHANGED <<rows, cursor, round, visited, budget, start, visits>>
  BY DEF Call
<1>2. LimitNow \in Nat /\ todo' \in SUBSET Unseen
  BY <1>1, BatchUnseen
<1>3. /\ Unseen' = Unseen /\ LimitNow' = LimitNow /\ Sent' = Sent
  BY <1>1, SizeFacts DEF Unseen, LimitNow, Sent, Calling
<1>4. /\ Cardinality(todo') \in Nat
      /\ \A r \in todo', q \in rows : Before(q, r, cursor) => q \in todo'
      /\ Cardinality(todo') < LimitNow => todo' = rows
  BY <1>1, <1>2, BatchRows, RowsNumbered DEF Typed, TypeOK
<1>5. ASSUME NEW q \in todo', NEW r \in rows \ todo' PROVE Before(q, r, cursor)
  <2>1. q \in rows /\ r \in rows /\ q # r /\ cursor \in Nat
    BY <1>2, <1>5, UnseenFacts DEF Typed, TypeOK
  <2> QED BY <1>4, <1>5, <2>1, BeforeTotal, RowsNumbered
<1>6. round = 0 => Cardinality(rows) + attempted' - refused' = Cardinality(start)
  BY <1>1 DEF Orderly, Budgeted
<1>7. attempted' + Cardinality(todo') < LimitNow => Unseen \subseteq todo'
  BY <1>1, <1>4, UnseenFacts
<1> QED BY <1>1, <1>2, <1>3, <1>5, <1>6, <1>7 DEF Orderly

LEMMA OrderlyReturn ==
  ASSUME Typed, Typed', Budgeted, Orderly, Return
  PROVE  Orderly'
<1> USE DEF batchVars, history
<1>1. /\ visited' = visited + attempted
      /\ budget' = IF round = 0 THEN Cardinality(rows) + attempted - refused ELSE budget
      /\ round' = round + 1
      /\ pc = "visit" /\ pc' \in {"call", "done"} /\ todo = {}
      /\ pc' = "done" => Enough(visited', budget') \/ round' = Batches
      /\ UNCHANGED <<rows, cursor, todo, attempted, refused, start, visits>>
  BY DEF Return, Budget
<1>2. Unseen' = Unseen /\ Sent' = Sent /\ Sent = visited'
  BY <1>1, SizeFacts DEF Unseen, Sent, Calling
<1>3. budget' = Cardinality(start) /\ round' > 0
  BY <1>1, SizeFacts DEF Orderly
<1>4. ASSUME pc' = "done", round' < Batches PROVE Unseen = {}
  <2>1. Enough(visited', budget')
    BY <1>1, <1>4, SizeFacts, DrainAssumption DEF DrainAssumption
  <2>2. CASE rows = {}
    BY <2>2, UnseenFacts
  <2>3. CASE attempted < LimitNow
    <3>1. attempted + Cardinality(todo) < LimitNow
      BY <1>1, <2>3, SizeFacts, FS_EmptySet
    <3> QED BY <1>1, <3>1 DEF Orderly
  <2>4. CASE visited' >= budget'
    <3>1. Cardinality(Unseen) = 0
      BY <1>2, <1>3, <2>4, UnseenFacts DEF Orderly
    <3> QED BY <3>1, UnseenFacts, FS_EmptySet
  <2> QED BY <2>1, <2>2, <2>3, <2>4 DEF Enough
<1>5. round \in Nat /\ round' # 0
  BY <1>1, SizeFacts
<1> QED BY <1>1, <1>2, <1>3, <1>4, <1>5 DEF Orderly

LEMMA OrderlyVisit ==
  ASSUME Typed, Typed', Budgeted, Orderly, Undisturbed,
         NEW r \in todo, Delivered(r) \/ Refused(r) \/ Stopped(r)
  PROVE  Orderly'
<1>1. /\ r \in rows /\ r.seq \in Nat \ {0} /\ r.id \in Ids
      /\ pc = "visit" /\ pc' \in {"visit", "stopped"}
      /\ IsNext(r, todo, cursor)
      /\ cursor' = r.seq
      /\ todo' = todo \ {r}
      /\ attempted' = attempted + 1
      /\ visits' = [visits EXCEPT ![r.id] = @ + 1]
      /\ UNCHANGED <<round, visited, budget, start, late, manual>>
      /\ rows' \in {rows, rows \ {r}}
  BY VisitEffect
<1>2. r \in Unseen /\ visits[r.id] = 0 /\ visits'[r.id] = 1 /\ r.id \in start
  BY <1>1 DEF Orderly, Unseen, Typed, TypeOK, Undisturbed
<1>3. \A q \in rows : q # r => q.id # r.id /\ q.id \in Ids /\ visits'[q.id] = visits[q.id]
  BY <1>1 DEF Typed, TypeOK
<1>4. Unseen' = Unseen \ {r}
  BY <1>1, <1>2, <1>3 DEF Unseen
<1>5. Cardinality(Unseen') = Cardinality(Unseen) - 1
  BY <1>2, <1>4, UnseenFacts, FS_RemoveElement
<1>6. Sent' = Sent + 1 /\ LimitNow' = LimitNow
  BY <1>1, SizeFacts DEF Sent, Calling, LimitNow
<1>7. Cardinality(Unseen') + Sent' = Cardinality(start')
  BY <1>1, <1>5, <1>6, UnseenFacts DEF Orderly
<1>8. /\ Cardinality(todo') = Cardinality(todo) - 1
      /\ pc' = "visit" =>
           Cardinality(rows') + attempted' - refused' = Cardinality(rows) + attempted - refused
  BY VisitSizes
<1>9. \A q \in rows \ {r} : Before(r, q, cursor)
  <2>1. Numbered(todo) /\ cursor \in Nat
    BY RowsNumbered, NumberedSubset DEF Typed, TypeOK
  <2>2. \A q \in todo \ {r} : Before(r, q, cursor)
    BY <1>1, <2>1, NextIsFirst
  <2>3. \A q \in rows \ todo : Before(r, q, cursor)
    BY DEF Orderly
  <2> QED BY <2>2, <2>3
<1>10. /\ \A q \in rows \ {r} : Before(q, r, r.seq)
       /\ \A p, q \in rows \ {r} : Before(p, q, cursor) => Before(p, q, r.seq)
  BY <1>1, <1>9, Turn, RowsNumbered DEF Typed, TypeOK
<1>11. ASSUME NEW p \in Unseen', NEW q \in rows' \ Unseen' PROVE Before(p, q, cursor')
  <2>1. p \in rows \ {r} /\ p \in Unseen /\ q \in rows /\ (q = r \/ q \notin Unseen)
    BY <1>1, <1>4, <1>11, UnseenFacts
  <2>2. CASE q = r
    BY <1>1, <1>10, <2>1, <2>2
  <2>3. CASE q # r
    <3>1. Before(p, q, cursor)
      BY <2>1, <2>3 DEF Orderly
    <3> QED BY <1>1, <1>10, <2>1, <2>3, <3>1
  <2> QED BY <2>2, <2>3
<1>12. ASSUME NEW p \in todo', NEW q \in rows' \ todo' PROVE Before(p, q, cursor')
  <2>1. p \in rows \ {r} /\ p \in todo /\ q \in rows /\ (q = r \/ q \notin todo)
    BY <1>1, <1>12 DEF Typed, TypeOK
  <2>2. CASE q = r
    BY <1>1, <1>10, <2>1, <2>2
  <2>3. CASE q # r
    <3>1. Before(p, q, cursor)
      BY <2>1, <2>3 DEF Orderly
    <3> QED BY <1>1, <1>10, <2>1, <2>3, <3>1
  <2> QED BY <2>2, <2>3
<1>13. \A id \in start' : visits'[id] <= 1
  BY <1>1, <1>2 DEF Orderly, Typed, TypeOK
<1>14. ASSUME NEW id \in start', visits'[id] = 0 PROVE \E q \in rows' : q.id = id
  <2>1. id # r.id /\ visits[id] = 0 /\ id \in start
    BY <1>1, <1>2, <1>14 DEF Typed, TypeOK
  <2>2. PICK q \in rows : q.id = id
    BY <2>1 DEF Orderly
  <2> QED BY <1>1, <2>1, <2>2
<1>15. todo' \subseteq Unseen'
  BY <1>1, <1>4 DEF Orderly
<1>16. attempted' + Cardinality(todo') < LimitNow' => Unseen' \subseteq todo'
  <2>1. attempted' + Cardinality(todo') = attempted + Cardinality(todo)
    BY <1>1, <1>8, SizeFacts
  <2> QED BY <1>1, <1>4, <1>6, <2>1 DEF Orderly
<1>17. round' = 0 /\ pc' \in {"call", "visit"} =>
         Cardinality(rows') + attempted' - refused' = Cardinality(start')
  BY <1>1, <1>8 DEF Orderly
<1>18. round' > 0 => budget' = Cardinality(start')
  BY <1>1 DEF Orderly
<1> QED BY <1>1, <1>7, <1>11, <1>12, <1>13, <1>14, <1>15, <1>16, <1>17, <1>18 DEF Orderly

LEMMA OrderlyStep ==
  Typed /\ Typed' /\ Budgeted /\ (Undisturbed => Orderly) /\ [Next]_vars
    => (Undisturbed => Orderly)'
<1> SUFFICES ASSUME Typed, Typed', Budgeted, Undisturbed => Orderly, [Next]_vars, Undisturbed'
             PROVE  Orderly'
  OBVIOUS
<1> USE DEF history
<1>1. ASSUME NEW id \in Ids, Store(id) PROVE FALSE
  BY <1>1 DEF Store, Undisturbed
<1>2. CASE ManualSync
  BY <1>2 DEF ManualSync, Undisturbed
<1>3. CASE Call
  <2>1. Undisturbed
    BY <1>3 DEF Call, Undisturbed
  <2> QED BY <1>3, <2>1, OrderlyCall
<1>4. CASE Return
  <2>1. Undisturbed
    BY <1>4 DEF Return, Undisturbed
  <2> QED BY <1>4, <2>1, OrderlyReturn
<1>5. ASSUME NEW r \in todo, Delivered(r) \/ Refused(r) \/ Stopped(r) PROVE Orderly'
  <2>1. Undisturbed
    BY <1>5, VisitEffect DEF Undisturbed
  <2> QED BY <1>5, <2>1, OrderlyVisit
<1>6. CASE UNCHANGED vars
  <2>1. /\ UNCHANGED <<rows, cursor, pc, round, visited, budget, todo, attempted,
                       refused, start, late, visits, manual>>
    BY <1>6 DEF vars, drainVars, batchVars
  <2> QED BY <2>1 DEF Undisturbed, Orderly, Unseen, Sent, Calling, LimitNow
<1> QED BY <1>1, <1>2, <1>3, <1>4, <1>5, <1>6 DEF Next

\* As long as nobody stores a row or runs another sync, no row that was pending
\* at the start is sent twice; and a run that ends by itself before its last
\* call has sent every one of them.
THEOREM UndisturbedRunVisitsOnce == Spec => []UndisturbedVisitsEachOnce
<1>1. Typed /\ (Undisturbed => Orderly) => UndisturbedVisitsEachOnce
  <2> SUFFICES ASSUME Typed, Orderly PROVE UndisturbedVisitsEachOnce
    BY DEF Undisturbed, UndisturbedVisitsEachOnce
  <2>1. VisitedAtMostOnce
    BY DEF Orderly, VisitedAtMostOnce
  <2>2. ASSUME pc = "done", round < Batches, NEW id \in start PROVE visits[id] >= 1
    <3>1. visits[id] \in Nat
      BY DEF Typed, TypeOK
    <3>2. CASE visits[id] = 0
      <4>1. PICK r \in rows : r.id = id
        BY <3>2 DEF Orderly
      <4> QED BY <2>2, <3>2, <4>1 DEF Orderly, Unseen
    <3> QED BY <3>1, <3>2
  <2> QED BY <2>1, <2>2 DEF UndisturbedVisitsEachOnce
<1>2. Init => (Undisturbed => Orderly)
  BY OrderlyInit
<1> QED BY <1>1, <1>2, TypedInit, TypedStep, BudgetedInit, BudgetedStep, OrderlyStep, PTL
       DEF Spec
=============================================================================
