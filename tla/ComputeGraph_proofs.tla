------------------------- MODULE ComputeGraph_proofs -------------------------
(***************************************************************************)
(* Proofs about ComputeGraph: what the steps of a call do to the edges and *)
(* nodes of its graph, and what follows for the graphs, their order, the   *)
(* nodes a call is not about, and what is above a node or an output.       *)
(***************************************************************************)
EXTENDS ComputeGraph, FiniteSetTheorems, SequenceTheorems, WellFoundedInduction, TLAPS

-----------------------------------------------------------------------------
(* Natural numbers and folds *)

LEMMA Smallest ==
  ASSUME NEW T \in SUBSET Nat, T # {}
  PROVE  \E k \in T : \A l \in T : k <= l
<1>1. PICK k \in T : \A l \in T : ~ (<<l, k>> \in OpToRel(<, Nat))
  BY NatLessThanWellFounded, WFMin
<1>2. \A l \in T : ~ (l < k)
  BY <1>1 DEF OpToRel
<1> QED BY <1>2

\* A set of numbers that holds 0 and each successor holds all.
LEMMA Everywhere ==
  ASSUME NEW T, 0 \in T, \A k \in Nat : k \in T => k + 1 \in T
  PROVE  \A k \in Nat : k \in T
<1> SUFFICES ASSUME Nat \ T # {} PROVE FALSE
  OBVIOUS
<1>1. PICK k \in Nat \ T : \A l \in Nat \ T : k <= l
  BY Smallest
<1>2. k - 1 \in Nat /\ k - 1 \notin Nat \ T
  BY <1>1
<1> QED BY <1>1, <1>2

LEMMA Greatest ==
  ASSUME NEW n \in Nat, NEW T \in SUBSET (0 .. n), T # {}
  PROVE  Max(T) \in T /\ \A l \in T : l <= Max(T)
<1> DEFINE U == {n - l : l \in T}
<1>1. U \in SUBSET Nat /\ U # {}
  <2>1. \A l \in T : l \in 0 .. n /\ n - l \in Nat
    OBVIOUS
  <2> QED BY <2>1
<1>2. PICK u \in U : \A l \in U : u <= l
  BY <1>1, Smallest
<1>3. PICK k \in T : u = n - k
  BY <1>2
<1>4. \A l \in T : k >= l
  BY <1>2, <1>3
<1> QED BY <1>4 DEF Max

LEMMA GreatestIs ==
  ASSUME NEW k \in Nat, NEW T \in SUBSET (0 .. k), k \in T
  PROVE  Max(T) = k
<1>1. Max(T) \in T /\ \A l \in T : l <= Max(T)
  BY Greatest
<1>2. Max(T) \in 0 .. k
  BY <1>1
<1> QED BY <1>1, <1>2

\* What a fold by f computes on the first n positions of s, by the set of positions.
Folding(it, n, base, f, s) ==
  \A T \in SUBSET (1 .. n) :
    it[T] = IF T = {} THEN base ELSE f[<<it[T \ {Max(T)}], s[Max(T)]>>]

LEMMA FoldExists ==
  ASSUME NEW R, NEW X, NEW base \in R, NEW f \in [R \X X -> R], NEW n \in Nat,
         NEW s, \A i \in 1 .. n : s[i] \in X
  PROVE  \E it \in [SUBSET (1 .. n) -> R] : Folding(it, n, base, f, s)
<1> DEFINE Is(it, k) ==
             \A T \in SUBSET (1 .. k) :
               it[T] = IF T = {} THEN base ELSE f[<<it[T \ {Max(T)}], s[Max(T)]>>]
           Known(k) == k <= n => \E it \in [SUBSET (1 .. k) -> R] : Is(it, k)
           U == {k \in Nat : Known(k)}
<1>1. 0 \in U
  <2>1. Is([T \in SUBSET (1 .. 0) |-> base], 0)
    OBVIOUS
  <2>2. [T \in SUBSET (1 .. 0) |-> base] \in [SUBSET (1 .. 0) -> R]
    OBVIOUS
  <2> QED BY <2>1, <2>2
<1>2. ASSUME NEW k \in Nat, k \in U
      PROVE  k + 1 \in U
  <2> HIDE DEF Known
  <2>0. Known(k)
    BY <1>2
  <2> SUFFICES Known(k + 1)
    OBVIOUS
  <2> HIDE DEF Is
  <2> SUFFICES ASSUME k + 1 <= n
               PROVE  \E it \in [SUBSET (1 .. k + 1) -> R] : Is(it, k + 1)
    BY DEF Known
  <2>1. PICK old \in [SUBSET (1 .. k) -> R] : Is(old, k)
    <3>1. k <= n
      OBVIOUS
    <3> QED BY <2>0, <3>1 DEF Known
  <2> USE DEF Is
  <2> DEFINE it == [T \in SUBSET (1 .. k + 1) |->
                      IF k + 1 \in T THEN f[<<old[T \ {k + 1}], s[k + 1]>>] ELSE old[T]]
  <2>2. \A T \in SUBSET (1 .. k + 1) : T \ {k + 1} \in SUBSET (1 .. k)
    OBVIOUS
  <2>3. s[k + 1] \in X
    OBVIOUS
  <2>4. it \in [SUBSET (1 .. k + 1) -> R]
    <3>1. ASSUME NEW T \in SUBSET (1 .. k + 1)
          PROVE  (IF k + 1 \in T THEN f[<<old[T \ {k + 1}], s[k + 1]>>] ELSE old[T]) \in R
      <4>1. CASE k + 1 \in T
        <5>1. old[T \ {k + 1}] \in R
          BY <2>2
        <5> QED BY <2>3, <4>1, <5>1
      <4>2. CASE k + 1 \notin T
        BY <4>2, <2>2
      <4> QED BY <4>1, <4>2
    <3> QED BY <3>1
  <2>5. ASSUME NEW T \in SUBSET (1 .. k + 1)
        PROVE  it[T] = IF T = {} THEN base ELSE f[<<it[T \ {Max(T)}], s[Max(T)]>>]
    <3>1. CASE k + 1 \in T
      <4>1. Max(T) = k + 1
        BY <3>1, GreatestIs
      <4>2. it[T \ {k + 1}] = old[T \ {k + 1}]
        BY <2>2
      <4> QED BY <3>1, <4>1, <4>2
    <3>2. CASE k + 1 \notin T
      <4>1. T \in SUBSET (1 .. k) /\ it[T] = old[T]
        BY <3>2
      <4>2. CASE T = {}
        BY <2>1, <4>1, <4>2
      <4>3. CASE T # {}
        <5>1. Max(T) \in T
          <6>1. T \in SUBSET (0 .. k)
            BY <4>1
          <6> QED BY <4>3, <6>1, Greatest
        <5>2. T \ {Max(T)} \in SUBSET (1 .. k) /\ k + 1 \notin T \ {Max(T)}
          BY <3>2, <4>1
        <5>3. it[T \ {Max(T)}] = old[T \ {Max(T)}]
          BY <5>2
        <5> QED BY <2>1, <4>1, <4>3, <5>3
      <4> QED BY <4>2, <4>3
    <3> QED BY <3>1, <3>2
  <2>6. Is(it, k + 1)
    BY <2>5
  <2> QED BY <2>4, <2>6
<1>3. n \in U
  <2> HIDE DEF U
  <2> QED BY <1>1, <1>2, Everywhere
<1> HIDE DEF Known
<1>4. Known(n)
  BY <1>3
<1> HIDE DEF Is
<1>5. \E it \in [SUBSET (1 .. n) -> R] : Is(it, n)
  <2>1. n <= n
    OBVIOUS
  <2> QED BY <1>4, <2>1 DEF Known
<1> QED BY <1>5 DEF Is, Folding

\* The results of a fold after each position, from its results by sets of positions.
LEMMA FoldPositions ==
  ASSUME NEW k \in Nat, k # 0
  PROVE  Max(1 .. k) = k /\ (1 .. k) \ {k} = 1 .. k - 1 /\ 1 .. k # {}
BY GreatestIs

\* What a recursion over the numbers computes.
Recursion(q, n, base, f) == q[0] = base /\ \A k \in 1 .. n : q[k] = f[q[k - 1]]

LEMMA RecursionExists ==
  ASSUME NEW R, NEW base \in R, NEW f \in [R -> R], NEW n \in Nat
  PROVE  \E q \in [0 .. n -> R] : Recursion(q, n, base, f)
<1> DEFINE Is(q, m) == \A k \in 0 .. m : q[k] = IF k = 0 THEN base ELSE f[q[k - 1]]
           U == {m \in Nat : \E q \in [0 .. m -> R] : Is(q, m)}
<1>1. 0 \in U
  <2>1. [k \in 0 .. 0 |-> base] \in [0 .. 0 -> R] /\ Is([k \in 0 .. 0 |-> base], 0)
    OBVIOUS
  <2> QED BY <2>1
<1>2. ASSUME NEW m \in Nat, m \in U
      PROVE  m + 1 \in U
  <2>1. PICK old \in [0 .. m -> R] : Is(old, m)
    BY <1>2
  <2> DEFINE q == [k \in 0 .. m + 1 |-> IF k = m + 1 THEN f[old[m]] ELSE old[k]]
  <2>2. q \in [0 .. m + 1 -> R]
    OBVIOUS
  <2>3. Is(q, m + 1)
    <3>1. ASSUME NEW k \in 0 .. m + 1
          PROVE  q[k] = IF k = 0 THEN base ELSE f[q[k - 1]]
      <4>1. CASE k = m + 1
        <5>1. q[k] = f[old[m]] /\ q[k - 1] = old[m] /\ k # 0
          BY <4>1
        <5> QED BY <5>1
      <4>2. CASE k # m + 1
        <5>1. k \in 0 .. m /\ q[k] = old[k] /\ (k # 0 => q[k - 1] = old[k - 1])
          BY <4>2
        <5> QED BY <2>1, <5>1
      <4> QED BY <4>1, <4>2
    <3> QED BY <3>1
  <2> HIDE DEF Is, q
  <2> QED BY <2>2, <2>3
<1>3. n \in U
  <2> HIDE DEF U
  <2> QED BY <1>1, <1>2, Everywhere
<1>4. PICK q \in [0 .. n -> R] : Is(q, n)
  BY <1>3
<1>5. q[0] = base
  BY <1>4
<1>6. \A k \in 1 .. n : q[k] = f[q[k - 1]]
  BY <1>4
<1> QED BY <1>5, <1>6 DEF Recursion

-----------------------------------------------------------------------------
(* Lists *)

LEMMA ElementsIn ==
  ASSUME NEW S, NEW s \in Seq(S)
  PROVE  ToSet(s) \subseteq S /\ s \in Seq(ToSet(s))
<1>1. Len(s) \in Nat /\ s \in [1 .. Len(s) -> S] /\ DOMAIN s = 1 .. Len(s)
  BY LenProperties
<1>2. ToSet(s) \subseteq S /\ s \in [1 .. Len(s) -> ToSet(s)]
  BY <1>1 DEF ToSet
<1> QED BY <1>1, <1>2, SeqDef

LEMMA Appended ==
  ASSUME NEW S, NEW s \in Seq(S), NEW n \in S, NEW t, t = Append(s, n)
  PROVE  /\ t \in Seq(S)
         /\ ToSet(t) = ToSet(s) \cup {n}
         /\ IsInjective(s) /\ n \notin ToSet(s) => IsInjective(t)
<1>1. /\ Len(s) \in Nat /\ Len(t) = Len(s) + 1 /\ t \in Seq(S)
      /\ \A i \in 1 .. Len(s) : t[i] = s[i]
      /\ t[Len(s) + 1] = n
  BY AppendProperties, LenProperties
<1>2. DOMAIN s = 1 .. Len(s) /\ DOMAIN t = 1 .. Len(s) \cup {Len(s) + 1}
  <2>1. DOMAIN t = 1 .. Len(t) /\ DOMAIN s = 1 .. Len(s)
    BY <1>1, LenProperties
  <2> QED BY <1>1, <2>1
<1>3. ToSet(t) = ToSet(s) \cup {n}
  BY <1>1, <1>2 DEF ToSet
<1>4. IsInjective(s) /\ n \notin ToSet(s) => IsInjective(t)
  BY <1>1, <1>2 DEF ToSet, IsInjective
<1> QED BY <1>1, <1>3, <1>4

\* Without goes through the list, a node at a time.
LEMMA WithoutSteps ==
  ASSUME NEW X, NEW s \in Seq(X), NEW S
  PROVE  \E q : /\ q[0] = <<>> /\ q[Len(s)] = Without(s, S)
                /\ \A k \in 1 .. Len(s) :
                     q[k] = IF s[k] \in S THEN q[k - 1] ELSE Append(q[k - 1], s[k])
<1>1. Len(s) \in Nat /\ DOMAIN s = 1 .. Len(s) /\ \A k \in 1 .. Len(s) : s[k] \in X
  BY LenProperties
<1> DEFINE step(a, x) == IF x \in S THEN a ELSE Append(a, x)
           f == [p \in Seq(X) \X X |-> step(p[1], p[2])]
           Is(it) == it = [T \in SUBSET (DOMAIN s) |->
                             IF T = {} THEN <<>> ELSE step(it[T \ {Max(T)}], s[Max(T)])]
<1>2. \E it : Is(it)
  <2>1. <<>> \in Seq(X)
    BY EmptySeq
  <2>2. f \in [Seq(X) \X X -> Seq(X)]
    BY AppendProperties
  <2> HIDE DEF f
  <2>3. PICK it \in [SUBSET (1 .. Len(s)) -> Seq(X)] : Folding(it, Len(s), <<>>, f, s)
    BY <1>1, <2>1, <2>2, FoldExists
  <2>4. ASSUME NEW T \in SUBSET (1 .. Len(s)), T # {}
        PROVE  it[T] = step(it[T \ {Max(T)}], s[Max(T)])
    <3>1. Max(T) \in 1 .. Len(s)
      <4>1. T \in SUBSET (0 .. Len(s))
        OBVIOUS
      <4> QED BY <1>1, <2>4, <4>1, Greatest
    <3>2. it[T \ {Max(T)}] \in Seq(X) /\ s[Max(T)] \in X
      BY <1>1, <2>3, <3>1
    <3> QED BY <2>3, <2>4, <3>2 DEF f, Folding
  <2>5. Is(it)
    BY <1>1, <2>3, <2>4 DEF Folding
  <2> QED BY <2>5
<1> DEFINE it == CHOOSE m : Is(m)
<1>3. Is(it)
  BY <1>2
<1>4. Without(s, S) = it[DOMAIN s]
  BY DEF Without, FoldLeft, MapThenFoldSet
<1> HIDE DEF it
<1>5. it[{}] = <<>>
  BY <1>3
<1>6. ASSUME NEW k \in 1 .. Len(s)
      PROVE  it[1 .. k] = step(it[1 .. k - 1], s[k])
  <2>1. Max(1 .. k) = k /\ (1 .. k) \ {k} = 1 .. k - 1 /\ 1 .. k # {}
    BY FoldPositions
  <2>2. 1 .. k \in SUBSET (DOMAIN s)
    BY <1>1
  <2> QED BY <1>3, <2>1, <2>2
<1> DEFINE q == [k \in 0 .. Len(s) |-> it[1 .. k]]
<1>7. q[0] = <<>> /\ q[Len(s)] = Without(s, S)
  BY <1>1, <1>4, <1>5
<1>8. ASSUME NEW k \in 1 .. Len(s)
      PROVE  q[k] = step(q[k - 1], s[k])
  BY <1>1, <1>6
<1> HIDE DEF q
<1> QED BY <1>7, <1>8

\* Without keeps the other nodes in their order.
LEMMA WithoutList ==
  ASSUME NEW X, NEW s \in Seq(X), NEW S, NEW t, t = Without(s, S)
  PROVE  /\ t \in Seq(X)
         /\ ToSet(t) = ToSet(s) \ S
         /\ IsInjective(s) => IsInjective(t)
         /\ S = {} => t = s
<1>1. /\ Len(s) \in Nat /\ DOMAIN s = 1 .. Len(s) /\ \A k \in 1 .. Len(s) : s[k] \in X
      /\ s \in [1 .. Len(s) -> X]
  BY LenProperties
<1>2. PICK q : /\ q[0] = <<>> /\ q[Len(s)] = t
               /\ \A k \in 1 .. Len(s) :
                    q[k] = IF s[k] \in S THEN q[k - 1] ELSE Append(q[k - 1], s[k])
  BY WithoutSteps
<1> DEFINE First(k) == {s[i] : i \in 1 .. k}
           I(k) == /\ q[k] \in Seq(X)
                   /\ ToSet(q[k]) = First(k) \ S
                   /\ IsInjective(s) => IsInjective(q[k])
                   /\ S = {} => Len(q[k]) = k /\ \A i \in 1 .. k : q[k][i] = s[i]
           U == {k \in Nat : k <= Len(s) => I(k)}
<1>3. 0 \in U
  <2>1. <<>> \in Seq(X) /\ Len(<<>>) = 0 /\ DOMAIN <<>> = {}
    BY EmptySeq
  <2>2. ToSet(<<>>) = {} /\ IsInjective(<<>>)
    BY <2>1 DEF ToSet, IsInjective
  <2>3. First(0) = {}
    OBVIOUS
  <2> QED BY <1>2, <2>1, <2>2, <2>3
<1>4. ASSUME NEW k \in Nat, k \in U
      PROVE  k + 1 \in U
  <2> SUFFICES ASSUME k + 1 <= Len(s) PROVE I(k + 1)
    OBVIOUS
  <2>1. k <= Len(s) /\ k + 1 \in 1 .. Len(s) /\ (k + 1) - 1 = k
    BY <1>1
  <2>2. I(k)
    BY <1>4, <2>1
  <2>3. s[k + 1] \in X /\ q[k + 1] = IF s[k + 1] \in S THEN q[k] ELSE Append(q[k], s[k + 1])
    BY <1>1, <1>2, <2>1
  <2>4. First(k + 1) = First(k) \cup {s[k + 1]}
    <3>1. 1 .. k + 1 = 1 .. k \cup {k + 1}
      OBVIOUS
    <3> QED BY <3>1
  <2>5. CASE s[k + 1] \in S
    <3>1. q[k + 1] = q[k] /\ S # {}
      BY <2>3, <2>5
    <3>2. First(k + 1) \ S = First(k) \ S
      BY <2>4, <2>5
    <3> HIDE DEF First
    <3> QED BY <2>2, <3>1, <3>2
  <2>6. CASE s[k + 1] \notin S
    <3>0. PICK a, b, x : a = q[k] /\ b = q[k + 1] /\ x = s[k + 1]
      OBVIOUS
    <3>1. b = Append(a, x) /\ x \in X
      BY <2>3, <2>6, <3>0
    <3>2. a \in Seq(X)
      BY <2>2, <3>0
    <3>3. /\ b \in Seq(X)
          /\ ToSet(b) = ToSet(a) \cup {x}
          /\ IsInjective(a) /\ x \notin ToSet(a) => IsInjective(b)
      <4>1. b = Append(a, x)
        BY <3>1
      <4> HIDE DEF First, I, U
      <4> QED BY <3>1, <3>2, <4>1, Appended
    <3>4. ToSet(b) = First(k + 1) \ S
      BY <2>2, <2>4, <2>6, <3>0, <3>3
    <3>5. IsInjective(s) => x \notin ToSet(a)
      <4>1. IsInjective(s) => \A i \in 1 .. k : s[i] # s[k + 1]
        BY <1>1, <2>1 DEF IsInjective
      <4> QED BY <2>2, <3>0, <4>1
    <3>6. ASSUME S = {}
          PROVE  Len(b) = k + 1 /\ \A i \in 1 .. k + 1 : b[i] = s[i]
      <4>1. /\ Len(b) = Len(a) + 1 /\ b[Len(a) + 1] = x
            /\ \A i \in 1 .. Len(a) : b[i] = a[i]
        BY <3>1, <3>2, AppendProperties
      <4>2. Len(a) = k /\ \A i \in 1 .. k : a[i] = s[i]
        BY <2>2, <3>0, <3>6
      <4>3. \A i \in 1 .. k + 1 : i \in 1 .. k \/ i = k + 1
        OBVIOUS
      <4> QED BY <3>0, <4>1, <4>2, <4>3
    <3>7. IsInjective(s) => IsInjective(b)
      BY <2>2, <3>0, <3>3, <3>5
    <3> HIDE DEF First
    <3> QED BY <3>0, <3>3, <3>4, <3>6, <3>7
  <2> QED BY <2>5, <2>6
<1>5. I(Len(s))
  <2> HIDE DEF I
  <2>1. Len(s) \in U
    <3> HIDE DEF U
    <3> QED BY <1>1, <1>3, <1>4, Everywhere
  <2>2. Len(s) <= Len(s)
    BY <1>1
  <2> QED BY <2>1, <2>2
<1>6. First(Len(s)) = ToSet(s)
  BY <1>1 DEF ToSet
<1>7. S = {} => t = s
  BY <1>2, <1>5, SeqEqual
<1> QED BY <1>2, <1>5, <1>6, <1>7

\* The sequences of the elements of a set.
LEMMA SeqsOfSet ==
  ASSUME NEW S, IsFiniteSet(S), NEW s \in SetToSeqs(S)
  PROVE  /\ s \in Seq(S) /\ ToSet(s) = S /\ IsInjective(s)
         /\ Len(s) = Cardinality(S)
<1>1. Cardinality(S) \in Nat
  BY FS_CardinalityType
<1>2. /\ s \in [1 .. Cardinality(S) -> S]
      /\ \A i, j \in 1 .. Cardinality(S) : i # j => s[i] # s[j]
  BY DEF SetToSeqs
<1>3. s \in Seq(S) /\ Len(s) = Cardinality(S)
  BY <1>1, <1>2, SeqDef, LenProperties
<1>4. IsInjective(s)
  BY <1>2 DEF IsInjective
<1>5. s \in Injection(1 .. Cardinality(S), S)
  BY <1>2 DEF Injection, IsInjective
<1>6. s \in Surjection(1 .. Cardinality(S), S)
  <2>1. Cardinality(1 .. Cardinality(S)) = Cardinality(S)
    BY <1>1, FS_Interval
  <2> QED BY <1>5, <2>1, FS_Injection
<1>7. ToSet(s) = S
  BY <1>2, <1>6 DEF Surjection, ToSet
<1> QED BY <1>3, <1>4, <1>7

\* A finite set whose elements have distinct keys can be put in their order.
LEMMA Sortable ==
  ASSUME NEW S, IsFiniteSet(S), NEW key \in [S -> Int],
         \A x, y \in S : key[x] = key[y] => x = y
  PROVE  \E s \in SetToSeqs(S) : \A i, j \in DOMAIN s : i < j => key[s[i]] < key[s[j]]
<1> DEFINE N == Cardinality(S)
           Less(x) == {y \in S : key[y] < key[x]}
           rank == [x \in S |-> Cardinality(Less(x)) + 1]
<1>1. N \in Nat
  BY FS_CardinalityType
<1>2. ASSUME NEW x \in S
      PROVE  /\ IsFiniteSet(Less(x)) /\ Cardinality(Less(x)) \in Nat
             /\ Cardinality(Less(x)) + 1 \in 1 .. N
  <2>1. IsFiniteSet(Less(x)) /\ Cardinality(Less(x)) <= N
    BY FS_Subset
  <2>2. Cardinality(Less(x)) \in Nat
    BY <2>1, FS_CardinalityType
  <2>3. Less(x) # S
    OBVIOUS
  <2>4. Cardinality(Less(x)) # N
    <3>1. Less(x) \in SUBSET S
      OBVIOUS
    <3> QED BY <2>3, <3>1, FS_Subset
  <2> QED BY <1>1, <2>1, <2>2, <2>4
<1>3. ASSUME NEW x \in S, NEW y \in S, key[x] < key[y]
      PROVE  rank[x] < rank[y]
  <2>1. Less(x) \in SUBSET Less(y) /\ x \in Less(y) /\ x \notin Less(x)
    <3>1. key[x] \in Int /\ key[y] \in Int
      OBVIOUS
    <3>2. \A z \in S : key[z] \in Int /\ (key[z] < key[x] => key[z] < key[y])
      BY <1>3, <3>1
    <3> QED BY <1>3, <3>1, <3>2
  <2>2. Cardinality(Less(x)) <= Cardinality(Less(y)) /\ Cardinality(Less(x)) # Cardinality(Less(y))
    <3> HIDE DEF Less
    <3>1. IsFiniteSet(Less(y)) /\ Less(x) # Less(y)
      BY <1>2, <2>1
    <3> QED BY <2>1, <3>1, FS_Subset
  <2> HIDE DEF Less
  <2> QED BY <1>2, <2>2
<1>4. rank \in [S -> 1 .. N]
  <2> HIDE DEF Less, N
  <2> QED BY <1>2
<1> HIDE DEF rank, Less
<1>5. \A x, y \in S : rank[x] = rank[y] => x = y
  <2> SUFFICES ASSUME NEW x \in S, NEW y \in S, x # y PROVE rank[x] # rank[y]
    OBVIOUS
  <2>1. key[x] < key[y] \/ key[y] < key[x]
    <3>1. key[x] \in Int /\ key[y] \in Int /\ key[x] # key[y]
      OBVIOUS
    <3> QED BY <3>1
  <2>2. rank[x] \in Nat /\ rank[y] \in Nat
    BY <1>1, <1>4
  <2> QED BY <1>3, <2>1, <2>2
<1>6. \A i \in 1 .. N : \E x \in S : rank[x] = i
  <2>1. rank \in Injection(S, 1 .. N)
    BY <1>4, <1>5 DEF Injection, IsInjective
  <2>2. IsFiniteSet(1 .. N) /\ Cardinality(1 .. N) = N
    BY <1>1, FS_Interval
  <2>3. rank \in Surjection(S, 1 .. N)
    BY <2>1, <2>2, FS_Injection
  <2> QED BY <2>3 DEF Surjection
<1> DEFINE s == [i \in 1 .. N |-> CHOOSE x \in S : rank[x] = i]
<1>7. \A i \in 1 .. N : s[i] \in S /\ rank[s[i]] = i
  BY <1>6
<1>8. s \in SetToSeqs(S)
  <2>1. s \in [1 .. N -> S]
    BY <1>6
  <2> HIDE DEF s
  <2>2. \A i, j \in 1 .. N : i # j => s[i] # s[j]
    BY <1>7
  <2> QED BY <2>1, <2>2 DEF SetToSeqs
<1>9. DOMAIN s = 1 .. N
  OBVIOUS
<1> HIDE DEF s
<1>10. ASSUME NEW i \in 1 .. N, NEW j \in 1 .. N, i < j
       PROVE  key[s[i]] < key[s[j]]
  <2>1. s[i] \in S /\ s[j] \in S /\ rank[s[i]] = i /\ rank[s[j]] = j
    BY <1>7
  <2>2. key[s[i]] \in Int /\ key[s[j]] \in Int
    BY <2>1
  <2>3. CASE key[s[j]] < key[s[i]]
    <3>1. rank[s[j]] < rank[s[i]]
      BY <1>3, <2>1, <2>3
    <3> QED BY <1>1, <1>10, <2>1, <3>1
  <2>4. CASE key[s[j]] = key[s[i]]
    <3>1. s[j] = s[i]
      BY <2>1, <2>4
    <3> QED BY <1>1, <1>10, <2>1, <3>1
  <2> QED BY <2>2, <2>3, <2>4
<1> QED BY <1>8, <1>9, <1>10

LEMMA AddressList ==
  ASSUME NEW S \in SUBSET Node
  PROVE  ByAddress(S) \in Seq(S) /\ ToSet(ByAddress(S)) = S
<1>1. IsFiniteSet(S)
  BY GraphAssumption, FS_Subset
<1> DEFINE key == [n \in S |-> Address[n]]
<1>2. key \in [S -> Int] /\ \A x, y \in S : key[x] = key[y] => x = y
  BY GraphAssumption
<1>3. PICK s \in SetToSeqs(S) : \A i, j \in DOMAIN s : i < j => key[s[i]] < key[s[j]]
  <2> HIDE DEF key
  <2> QED BY <1>1, <1>2, Sortable
<1>4. \A i \in DOMAIN s : s[i] \in S
  BY <1>1, SeqsOfSet, LenProperties
<1>5. \A i, j \in DOMAIN s : i < j => Address[s[i]] < Address[s[j]]
  BY <1>3, <1>4
<1>6. ByAddress(S) \in SetToSeqs(S)
  BY <1>5 DEF ByAddress
<1> QED BY <1>1, <1>6, SeqsOfSet

\* What is left of a list of inputs or outputs when nodes leave.
LEMMA ErasedList ==
  ASSUME NEW s \in Seq(Node), NEW S, NEW t, t = Erase(s, S)
  PROVE  t \in Seq(Node) /\ ToSet(t) = ToSet(s) \ S
<1>1. ToSet(s) \ S \in SUBSET Node
  BY ElementsIn
<1>2. CASE S = {}
  BY <1>2 DEF Erase
<1>3. CASE S # {}
  <2>1. t = ByAddress(ToSet(s) \ S)
    BY <1>3 DEF Erase
  <2> QED BY <1>1, <2>1, AddressList, SeqMonotonic
<1> QED BY <1>2, <1>3

\* InsertAt moves the elements behind the position.
LEMMA InsertedList ==
  ASSUME NEW X, NEW s \in Seq(X), NEW n \in X, NEW i \in 1 .. Len(s) + 1, NEW t, t = InsertAt(s, i, n)
  PROVE  /\ t \in Seq(X)
         /\ ToSet(t) = ToSet(s) \cup {n}
         /\ IsInjective(s) /\ n \notin ToSet(s) => IsInjective(t)
<1>1. Len(s) \in Nat /\ DOMAIN s = 1 .. Len(s) /\ \A k \in 1 .. Len(s) : s[k] \in X
  BY LenProperties
<1> DEFINE a == SubSeq(s, 1, i - 1)
           b == SubSeq(s, i, Len(s))
           c == <<n>>
<1>2. /\ a \in Seq(X) /\ Len(a) = i - 1
      /\ \A k \in 1 .. i - 1 : a[k] = s[k]
  <2>1. \A k \in 1 .. i - 1 : s[k] \in X
    BY <1>1
  <2> QED BY <1>1, <2>1, SubSeqProperties
<1>3. /\ b \in Seq(X) /\ Len(b) = Len(s) - i + 1
      /\ \A k \in 1 .. Len(s) - i + 1 : b[k] = s[i + k - 1]
  <2>1. \A k \in i .. Len(s) : s[k] \in X
    BY <1>1
  <2> QED BY <1>1, <2>1, SubSeqProperties
<1>4. c \in Seq(X) /\ Len(c) = 1 /\ c[1] = n
  OBVIOUS
<1>5. t = (a \o c) \o b
  BY DEF InsertAt
<1> DEFINE d == a \o c
<1>50. t = d \o b
  BY <1>5
<1> HIDE DEF a, b, c
<1>6. /\ d \in Seq(X) /\ Len(d) = i
      /\ \A k \in 1 .. i : d[k] = IF k < i THEN s[k] ELSE n
  <2>1. /\ d \in Seq(X) /\ Len(d) = Len(a) + Len(c)
        /\ \A k \in 1 .. Len(a) + Len(c) : d[k] = IF k <= Len(a) THEN a[k] ELSE c[k - Len(a)]
    BY <1>2, <1>4, ConcatProperties
  <2> QED BY <1>1, <1>2, <1>4, <2>1
<1> HIDE DEF d
<1>7. /\ t \in Seq(X) /\ Len(t) = Len(s) + 1
      /\ \A k \in 1 .. Len(s) + 1 :
           t[k] = IF k < i THEN s[k] ELSE IF k = i THEN n ELSE s[k - 1]
  <2>1. /\ t \in Seq(X) /\ Len(t) = Len(d) + Len(b)
        /\ \A k \in 1 .. Len(d) + Len(b) : t[k] = IF k <= Len(d) THEN d[k] ELSE b[k - Len(d)]
    <3>1. d \in Seq(X) /\ b \in Seq(X)
      BY <1>3, <1>6
    <3> QED BY <1>50, <3>1, ConcatProperties
  <2>2. ASSUME NEW k \in 1 .. Len(s) + 1
        PROVE  t[k] = IF k < i THEN s[k] ELSE IF k = i THEN n ELSE s[k - 1]
    <3>1. CASE k <= i
      BY <1>1, <1>3, <1>6, <2>1, <3>1
    <3>2. CASE k > i
      <4>1. t[k] = b[k - i] /\ k - i \in 1 .. Len(s) - i + 1 /\ i + (k - i) - 1 = k - 1
        BY <1>1, <1>3, <1>6, <2>1, <3>2
      <4> QED BY <1>1, <1>3, <3>2, <4>1
    <3> QED BY <1>1, <3>1, <3>2
  <2> QED BY <1>1, <1>3, <1>6, <2>1, <2>2
<1>8. DOMAIN t = 1 .. Len(s) + 1
  BY <1>7, LenProperties
<1>9. ToSet(t) = ToSet(s) \cup {n}
  <2>1. ASSUME NEW k \in 1 .. Len(s) + 1
        PROVE  t[k] \in ToSet(s) \cup {n}
    BY <1>1, <1>7 DEF ToSet
  <2>2. ASSUME NEW k \in 1 .. Len(s)
        PROVE  \E l \in 1 .. Len(s) + 1 : t[l] = s[k]
    <3>1. CASE k < i
      <4>1. k \in 1 .. Len(s) + 1 /\ t[k] = s[k]
        BY <1>1, <1>7, <3>1
      <4> QED BY <4>1
    <3>2. CASE k >= i
      <4>1. k + 1 \in 1 .. Len(s) + 1 /\ t[k + 1] = s[k]
        BY <1>1, <1>7, <3>2
      <4> QED BY <4>1
    <3> QED BY <1>1, <3>1, <3>2
  <2>3. t[i] = n
    BY <1>7
  <2> QED BY <1>1, <1>8, <2>1, <2>2, <2>3 DEF ToSet
<1>10. ASSUME IsInjective(s), n \notin ToSet(s)
       PROVE  IsInjective(t)
  <2>1. \A k \in 1 .. Len(s) : s[k] # n
    BY <1>1, <1>10 DEF ToSet
  <2>2. \A k, l \in 1 .. Len(s) : s[k] = s[l] => k = l
    BY <1>1, <1>10 DEF IsInjective
  <2>3. \A k, l \in 1 .. Len(s) + 1 : t[k] = t[l] => k = l
    BY <1>1, <1>7, <2>1, <2>2
  <2> QED BY <1>8, <2>3 DEF IsInjective
<1> QED BY <1>7, <1>9, <1>10

\* Found is the part of the list before the first stranger.
LEMMA FoundList ==
  ASSUME NEW g, NEW s \in Seq(Node)
  PROVE  Found(g, s) \in Seq(Node) /\ ToSet(Found(g, s)) \subseteq Stored(g)
<1>1. Len(s) \in Nat /\ DOMAIN s = 1 .. Len(s) /\ \A k \in 1 .. Len(s) : s[k] \in Node
  BY LenProperties
<1> DEFINE I == {i \in 1 .. Len(s) : s[i] \notin Stored(g)}
<1>2. Found(g, s) = IF I = {} \/ Min(I) = 0 THEN s ELSE SubSeq(s, 1, Min(I) - 1)
  BY DEF Found, SelectInSeq
<1>3. CASE I = {}
  BY <1>1, <1>2, <1>3 DEF ToSet
<1>4. CASE I # {}
  <2>1. I \in SUBSET Nat
    BY <1>1
  <2>2. PICK m \in I : \A l \in I : m <= l
    BY <1>4, <2>1, Smallest
  <2>3. Min(I) \in I /\ \A l \in I : Min(I) <= l
    BY <2>2 DEF Min
  <2>4. PICK k : k = Min(I)
    OBVIOUS
  <2>5. k \in 1 .. Len(s) /\ \A i \in 1 .. k - 1 : i \in 1 .. Len(s) /\ s[i] \in Stored(g)
    <3>1. k \in I /\ \A l \in I : k <= l
      BY <2>3, <2>4
    <3>2. k \in 1 .. Len(s)
      BY <3>1
    <3>3. ASSUME NEW i \in 1 .. k - 1
          PROVE  i \in 1 .. Len(s) /\ s[i] \in Stored(g)
      <4>1. i \in 1 .. Len(s) /\ ~ (k <= i)
        BY <1>1, <3>2
      <4> QED BY <3>1, <4>1
    <3> QED BY <3>2, <3>3
  <2>6. PICK t : t = SubSeq(s, 1, k - 1)
    OBVIOUS
  <2>7. /\ t \in Seq(Node) /\ Len(t) = k - 1
        /\ \A i \in 1 .. k - 1 : t[i] = s[i]
    BY <1>1, <2>5, <2>6, SubSeqProperties
  <2>8. DOMAIN t = 1 .. k - 1
    BY <2>7, LenProperties
  <2>9. Found(g, s) = t
    <3>1. Min(I) # 0
      BY <2>4, <2>5
    <3> HIDE DEF I
    <3> QED BY <1>2, <1>4, <2>4, <2>6, <3>1
  <2> QED BY <2>5, <2>7, <2>8, <2>9 DEF ToSet
<1> QED BY <1>3, <1>4

-----------------------------------------------------------------------------
(* The results after each step of the folds; R is any set that the steps   *)
(* keep within.                                                            *)

\* Constants are taken off one by one.
ConstStepping(g, R, X) == \A r \in R, e \in X : ConstStep(g, r, e) \in R

LEMMA ConstStepsRun ==
  ASSUME NEW g, NEW R, NEW X, NEW s \in Seq(X), NEW b \in R,
         ConstStepping(g, R, X)
  PROVE  \E q \in [0 .. Len(s) -> R] :
           /\ q[0] = b /\ q[Len(s)] = ConstSteps(g, b, s)
           /\ \A k \in 1 .. Len(s) : q[k] = ConstStep(g, q[k - 1], s[k])
<1>1. Len(s) \in Nat /\ DOMAIN s = 1 .. Len(s) /\ \A k \in 1 .. Len(s) : s[k] \in X
  BY LenProperties
<1> DEFINE step(a, x) == ConstStep(g, a, x)
           f == [p \in R \X X |-> step(p[1], p[2])]
           Is(it) == it = [T \in SUBSET (DOMAIN s) |->
                             IF T = {} THEN b ELSE step(it[T \ {Max(T)}], s[Max(T)])]
<1>2. f \in [R \X X -> R]
  BY DEF ConstStepping
<1>3. PICK made \in [SUBSET (1 .. Len(s)) -> R] : Folding(made, Len(s), b, f, s)
  <2> HIDE DEF f
  <2> QED BY <1>1, <1>2, FoldExists
<1>4. Is(made)
  <2>1. ASSUME NEW T \in SUBSET (1 .. Len(s)), T # {}
        PROVE  made[T] = step(made[T \ {Max(T)}], s[Max(T)])
    <3>1. Max(T) \in 1 .. Len(s)
      <4>1. T \in SUBSET (0 .. Len(s))
        OBVIOUS
      <4> QED BY <1>1, <2>1, <4>1, Greatest
    <3>2. made[T \ {Max(T)}] \in R /\ s[Max(T)] \in X
      BY <1>1, <1>3, <3>1
    <3>3. made[T] = f[<<made[T \ {Max(T)}], s[Max(T)]>>]
      BY <1>3, <2>1 DEF Folding
    <3> QED BY <3>2, <3>3
  <2>2. made[{}] = b
    BY <1>3 DEF Folding
  <2> QED BY <1>1, <1>3, <2>1, <2>2
<1> DEFINE it == CHOOSE m : Is(m)
<1>5. Is(it)
  BY <1>4
<1>6. ConstSteps(g, b, s) = it[DOMAIN s]
  BY DEF ConstSteps, FoldLeft, MapThenFoldSet
<1> HIDE DEF it
<1>7. it[{}] = b
  BY <1>5
<1>8. ASSUME NEW k \in 1 .. Len(s)
      PROVE  it[1 .. k] = step(it[1 .. k - 1], s[k])
  <2>1. Max(1 .. k) = k /\ (1 .. k) \ {k} = 1 .. k - 1 /\ 1 .. k # {}
    BY FoldPositions
  <2>2. 1 .. k \in SUBSET (DOMAIN s)
    BY <1>1
  <2> QED BY <1>5, <2>1, <2>2
<1> HIDE DEF step
<1> DEFINE q == [k \in 0 .. Len(s) |-> it[1 .. k]]
           U == {k \in Nat : k <= Len(s) => q[k] \in R}
<1>9. q[0] = b /\ q[Len(s)] = ConstSteps(g, b, s)
  BY <1>1, <1>6, <1>7
<1>10. ASSUME NEW k \in 1 .. Len(s)
       PROVE  q[k] = step(q[k - 1], s[k])
  BY <1>1, <1>8
<1>11. 0 \in U
  BY <1>1, <1>9
<1> HIDE DEF q
<1>12. ASSUME NEW k \in Nat, k \in U
       PROVE  k + 1 \in U
  <2>1. SUFFICES ASSUME k + 1 <= Len(s)
                 PROVE  q[k + 1] \in R
    OBVIOUS
  <2>2. k + 1 \in 1 .. Len(s) /\ k <= Len(s) /\ k + 1 - 1 = k
    BY <1>1, <2>1
  <2>3. q[k + 1] = step(q[k], s[k + 1])
    BY <1>10, <2>2
  <2>4. q[k] \in R /\ s[k + 1] \in X
    BY <1>1, <1>12, <2>2
  <2> QED BY <2>3, <2>4 DEF step, ConstStepping
<1>13. \A k \in Nat : k \in U
  <2> HIDE DEF U
  <2> QED BY <1>11, <1>12, Everywhere
<1>14. \A k \in 0 .. Len(s) : q[k] \in R
  <2>1. \A k \in 0 .. Len(s) : k \in Nat /\ k <= Len(s)
    BY <1>1
  <2> QED BY <1>13, <2>1
<1>15. q \in [0 .. Len(s) -> R]
  BY <1>14 DEF q
<1>16. \A k \in 1 .. Len(s) : q[k] = ConstStep(g, q[k - 1], s[k])
  BY <1>10 DEF step
<1> QED BY <1>9, <1>15, <1>16

\* The readers get the new node one by one.
Relinking(g, n, R, X) == \A r \in R, e \in X : Relink(g, r, n, e) \in R

LEMMA RelinkRun ==
  ASSUME NEW g, NEW n, NEW R, NEW X, NEW s \in Seq(X), NEW b \in R,
         Relinking(g, n, R, X)
  PROVE  \E q \in [0 .. Len(s) -> R] :
           /\ q[0] = b /\ q[Len(s)] = RelinkAll(g, b, n, s)
           /\ \A k \in 1 .. Len(s) : q[k] = Relink(g, q[k - 1], n, s[k])
<1>1. Len(s) \in Nat /\ DOMAIN s = 1 .. Len(s) /\ \A k \in 1 .. Len(s) : s[k] \in X
  BY LenProperties
<1> DEFINE step(a, x) == Relink(g, a, n, x)
           f == [p \in R \X X |-> step(p[1], p[2])]
           Is(it) == it = [T \in SUBSET (DOMAIN s) |->
                             IF T = {} THEN b ELSE step(it[T \ {Max(T)}], s[Max(T)])]
<1>2. f \in [R \X X -> R]
  BY DEF Relinking
<1>3. PICK made \in [SUBSET (1 .. Len(s)) -> R] : Folding(made, Len(s), b, f, s)
  <2> HIDE DEF f
  <2> QED BY <1>1, <1>2, FoldExists
<1>4. Is(made)
  <2>1. ASSUME NEW T \in SUBSET (1 .. Len(s)), T # {}
        PROVE  made[T] = step(made[T \ {Max(T)}], s[Max(T)])
    <3>1. Max(T) \in 1 .. Len(s)
      <4>1. T \in SUBSET (0 .. Len(s))
        OBVIOUS
      <4> QED BY <1>1, <2>1, <4>1, Greatest
    <3>2. made[T \ {Max(T)}] \in R /\ s[Max(T)] \in X
      BY <1>1, <1>3, <3>1
    <3>3. made[T] = f[<<made[T \ {Max(T)}], s[Max(T)]>>]
      BY <1>3, <2>1 DEF Folding
    <3> QED BY <3>2, <3>3
  <2>2. made[{}] = b
    BY <1>3 DEF Folding
  <2> QED BY <1>1, <1>3, <2>1, <2>2
<1> DEFINE it == CHOOSE m : Is(m)
<1>5. Is(it)
  BY <1>4
<1>6. RelinkAll(g, b, n, s) = it[DOMAIN s]
  BY DEF RelinkAll, FoldLeft, MapThenFoldSet
<1> HIDE DEF it
<1>7. it[{}] = b
  BY <1>5
<1>8. ASSUME NEW k \in 1 .. Len(s)
      PROVE  it[1 .. k] = step(it[1 .. k - 1], s[k])
  <2>1. Max(1 .. k) = k /\ (1 .. k) \ {k} = 1 .. k - 1 /\ 1 .. k # {}
    BY FoldPositions
  <2>2. 1 .. k \in SUBSET (DOMAIN s)
    BY <1>1
  <2> QED BY <1>5, <2>1, <2>2
<1> HIDE DEF step
<1> DEFINE q == [k \in 0 .. Len(s) |-> it[1 .. k]]
           U == {k \in Nat : k <= Len(s) => q[k] \in R}
<1>9. q[0] = b /\ q[Len(s)] = RelinkAll(g, b, n, s)
  BY <1>1, <1>6, <1>7
<1>10. ASSUME NEW k \in 1 .. Len(s)
       PROVE  q[k] = step(q[k - 1], s[k])
  BY <1>1, <1>8
<1>11. 0 \in U
  BY <1>1, <1>9
<1> HIDE DEF q
<1>12. ASSUME NEW k \in Nat, k \in U
       PROVE  k + 1 \in U
  <2>1. SUFFICES ASSUME k + 1 <= Len(s)
                 PROVE  q[k + 1] \in R
    OBVIOUS
  <2>2. k + 1 \in 1 .. Len(s) /\ k <= Len(s) /\ k + 1 - 1 = k
    BY <1>1, <2>1
  <2>3. q[k + 1] = step(q[k], s[k + 1])
    BY <1>10, <2>2
  <2>4. q[k] \in R /\ s[k + 1] \in X
    BY <1>1, <1>12, <2>2
  <2> QED BY <2>3, <2>4 DEF step, Relinking
<1>13. \A k \in Nat : k \in U
  <2> HIDE DEF U
  <2> QED BY <1>11, <1>12, Everywhere
<1>14. \A k \in 0 .. Len(s) : q[k] \in R
  <2>1. \A k \in 0 .. Len(s) : k \in Nat /\ k <= Len(s)
    BY <1>1
  <2> QED BY <1>13, <2>1
<1>15. q \in [0 .. Len(s) -> R]
  BY <1>14 DEF q
<1>16. \A k \in 1 .. Len(s) : q[k] = Relink(g, q[k - 1], n, s[k])
  BY <1>10 DEF step
<1> QED BY <1>9, <1>15, <1>16

\* An in edge is joined with each out edge.
Stepping(g, i, R, X) == \A r \in R, d \in X : Step(g, r, LinkPoint(i, d)) \in R

LEMMA LinkToRun ==
  ASSUME NEW g, NEW i, NEW R, NEW X, NEW s \in Seq(X), NEW b \in R, Stepping(g, i, R, X)
  PROVE  \E q \in [0 .. Len(s) -> R] :
           /\ q[0] = b /\ q[Len(s)] = LinkTo(g, b, i, s)
           /\ \A k \in 1 .. Len(s) : q[k] = Step(g, q[k - 1], LinkPoint(i, s[k]))
<1>1. Len(s) \in Nat /\ DOMAIN s = 1 .. Len(s) /\ \A k \in 1 .. Len(s) : s[k] \in X
  BY LenProperties
<1> DEFINE step(a, x) == Step(g, a, LinkPoint(i, x))
           f == [p \in R \X X |-> step(p[1], p[2])]
           Is(it) == it = [T \in SUBSET (DOMAIN s) |->
                             IF T = {} THEN b ELSE step(it[T \ {Max(T)}], s[Max(T)])]
<1>2. f \in [R \X X -> R]
  BY DEF Stepping
<1>3. PICK made \in [SUBSET (1 .. Len(s)) -> R] : Folding(made, Len(s), b, f, s)
  <2> HIDE DEF f
  <2> QED BY <1>1, <1>2, FoldExists
<1>4. Is(made)
  <2>1. ASSUME NEW T \in SUBSET (1 .. Len(s)), T # {}
        PROVE  made[T] = step(made[T \ {Max(T)}], s[Max(T)])
    <3>1. Max(T) \in 1 .. Len(s)
      <4>1. T \in SUBSET (0 .. Len(s))
        OBVIOUS
      <4> QED BY <1>1, <2>1, <4>1, Greatest
    <3>2. made[T \ {Max(T)}] \in R /\ s[Max(T)] \in X
      BY <1>1, <1>3, <3>1
    <3>3. made[T] = f[<<made[T \ {Max(T)}], s[Max(T)]>>]
      BY <1>3, <2>1 DEF Folding
    <3> QED BY <3>2, <3>3
  <2>2. made[{}] = b
    BY <1>3 DEF Folding
  <2> QED BY <1>1, <1>3, <2>1, <2>2
<1> DEFINE it == CHOOSE m : Is(m)
<1>5. Is(it)
  BY <1>4
<1>6. LinkTo(g, b, i, s) = it[DOMAIN s]
  BY DEF LinkTo, FoldLeft, MapThenFoldSet
<1> HIDE DEF it
<1>7. it[{}] = b
  BY <1>5
<1>8. ASSUME NEW k \in 1 .. Len(s)
      PROVE  it[1 .. k] = step(it[1 .. k - 1], s[k])
  <2>1. Max(1 .. k) = k /\ (1 .. k) \ {k} = 1 .. k - 1 /\ 1 .. k # {}
    BY FoldPositions
  <2>2. 1 .. k \in SUBSET (DOMAIN s)
    BY <1>1
  <2> QED BY <1>5, <2>1, <2>2
<1> HIDE DEF step
<1> DEFINE q == [k \in 0 .. Len(s) |-> it[1 .. k]]
           U == {k \in Nat : k <= Len(s) => q[k] \in R}
<1>9. q[0] = b /\ q[Len(s)] = LinkTo(g, b, i, s)
  BY <1>1, <1>6, <1>7
<1>10. ASSUME NEW k \in 1 .. Len(s)
       PROVE  q[k] = step(q[k - 1], s[k])
  BY <1>1, <1>8
<1>11. 0 \in U
  BY <1>1, <1>9
<1> HIDE DEF q
<1>12. ASSUME NEW k \in Nat, k \in U
       PROVE  k + 1 \in U
  <2>1. SUFFICES ASSUME k + 1 <= Len(s)
                 PROVE  q[k + 1] \in R
    OBVIOUS
  <2>2. k + 1 \in 1 .. Len(s) /\ k <= Len(s) /\ k + 1 - 1 = k
    BY <1>1, <2>1
  <2>3. q[k + 1] = step(q[k], s[k + 1])
    BY <1>10, <2>2
  <2>4. q[k] \in R /\ s[k + 1] \in X
    BY <1>1, <1>12, <2>2
  <2> QED BY <2>3, <2>4 DEF step, Stepping
<1>13. \A k \in Nat : k \in U
  <2> HIDE DEF U
  <2> QED BY <1>11, <1>12, Everywhere
<1>14. \A k \in 0 .. Len(s) : q[k] \in R
  <2>1. \A k \in 0 .. Len(s) : k \in Nat /\ k <= Len(s)
    BY <1>1
  <2> QED BY <1>13, <2>1
<1>15. q \in [0 .. Len(s) -> R]
  BY <1>14 DEF q
<1>16. \A k \in 1 .. Len(s) : q[k] = Step(g, q[k - 1], LinkPoint(i, s[k]))
  BY <1>10 DEF step
<1> QED BY <1>9, <1>15, <1>16

\* Each in edge is joined with all out edges.
Joining(g, R, X, ds) == \A r \in R, i \in X : LinkTo(g, r, i, ds) \in R

LEMMA LinkPointsRun ==
  ASSUME NEW g, NEW ds, NEW R, NEW X, NEW s \in Seq(X), NEW b \in R, Joining(g, R, X, ds)
  PROVE  \E q \in [0 .. Len(s) -> R] :
           /\ q[0] = b /\ q[Len(s)] = LinkPoints(g, b, s, ds)
           /\ \A k \in 1 .. Len(s) : q[k] = LinkTo(g, q[k - 1], s[k], ds)
<1>1. Len(s) \in Nat /\ DOMAIN s = 1 .. Len(s) /\ \A k \in 1 .. Len(s) : s[k] \in X
  BY LenProperties
<1> DEFINE step(a, x) == LinkTo(g, a, x, ds)
           f == [p \in R \X X |-> step(p[1], p[2])]
           Is(it) == it = [T \in SUBSET (DOMAIN s) |->
                             IF T = {} THEN b ELSE step(it[T \ {Max(T)}], s[Max(T)])]
<1>2. f \in [R \X X -> R]
  BY DEF Joining
<1>3. PICK made \in [SUBSET (1 .. Len(s)) -> R] : Folding(made, Len(s), b, f, s)
  <2> HIDE DEF f
  <2> QED BY <1>1, <1>2, FoldExists
<1>4. Is(made)
  <2>1. ASSUME NEW T \in SUBSET (1 .. Len(s)), T # {}
        PROVE  made[T] = step(made[T \ {Max(T)}], s[Max(T)])
    <3>1. Max(T) \in 1 .. Len(s)
      <4>1. T \in SUBSET (0 .. Len(s))
        OBVIOUS
      <4> QED BY <1>1, <2>1, <4>1, Greatest
    <3>2. made[T \ {Max(T)}] \in R /\ s[Max(T)] \in X
      BY <1>1, <1>3, <3>1
    <3>3. made[T] = f[<<made[T \ {Max(T)}], s[Max(T)]>>]
      BY <1>3, <2>1 DEF Folding
    <3> QED BY <3>2, <3>3
  <2>2. made[{}] = b
    BY <1>3 DEF Folding
  <2> QED BY <1>1, <1>3, <2>1, <2>2
<1> DEFINE it == CHOOSE m : Is(m)
<1>5. Is(it)
  BY <1>4
<1>6. LinkPoints(g, b, s, ds) = it[DOMAIN s]
  BY DEF LinkPoints, FoldLeft, MapThenFoldSet
<1> HIDE DEF it
<1>7. it[{}] = b
  BY <1>5
<1>8. ASSUME NEW k \in 1 .. Len(s)
      PROVE  it[1 .. k] = step(it[1 .. k - 1], s[k])
  <2>1. Max(1 .. k) = k /\ (1 .. k) \ {k} = 1 .. k - 1 /\ 1 .. k # {}
    BY FoldPositions
  <2>2. 1 .. k \in SUBSET (DOMAIN s)
    BY <1>1
  <2> QED BY <1>5, <2>1, <2>2
<1> HIDE DEF step
<1> DEFINE q == [k \in 0 .. Len(s) |-> it[1 .. k]]
           U == {k \in Nat : k <= Len(s) => q[k] \in R}
<1>9. q[0] = b /\ q[Len(s)] = LinkPoints(g, b, s, ds)
  BY <1>1, <1>6, <1>7
<1>10. ASSUME NEW k \in 1 .. Len(s)
       PROVE  q[k] = step(q[k - 1], s[k])
  BY <1>1, <1>8
<1>11. 0 \in U
  BY <1>1, <1>9
<1> HIDE DEF q
<1>12. ASSUME NEW k \in Nat, k \in U
       PROVE  k + 1 \in U
  <2>1. SUFFICES ASSUME k + 1 <= Len(s)
                 PROVE  q[k + 1] \in R
    OBVIOUS
  <2>2. k + 1 \in 1 .. Len(s) /\ k <= Len(s) /\ k + 1 - 1 = k
    BY <1>1, <2>1
  <2>3. q[k + 1] = step(q[k], s[k + 1])
    BY <1>10, <2>2
  <2>4. q[k] \in R /\ s[k + 1] \in X
    BY <1>1, <1>12, <2>2
  <2> QED BY <2>3, <2>4 DEF step, Joining
<1>13. \A k \in Nat : k \in U
  <2> HIDE DEF U
  <2> QED BY <1>11, <1>12, Everywhere
<1>14. \A k \in 0 .. Len(s) : q[k] \in R
  <2>1. \A k \in 0 .. Len(s) : k \in Nat /\ k <= Len(s)
    BY <1>1
  <2> QED BY <1>13, <2>1
<1>15. q \in [0 .. Len(s) -> R]
  BY <1>14 DEF q
<1>16. \A k \in 1 .. Len(s) : q[k] = LinkTo(g, q[k - 1], s[k], ds)
  BY <1>10 DEF step
<1> QED BY <1>9, <1>15, <1>16

-----------------------------------------------------------------------------
(* The inductive invariant *)

GraphsTyped ==
  /\ store \in [Graph -> Seq(Node)]
  /\ inputs \in [Graph -> Seq(Node)] /\ outputs \in [Graph -> Seq(Node)]
  /\ change \in [Graph -> BOOLEAN]
  /\ edges \subseteq Links /\ IsFiniteSet(edges) /\ \A e \in edges : Anchored(e)
  /\ shared \subseteq Node

Sound ==
  /\ GraphsTyped
  /\ NodesOwned
  /\ OrderCurrent

Said == ok \in BOOLEAN /\ call \in [op : Calls, graph : Graph \cup {None}, node : Node \cup {None}]

IInv == Sound /\ Said /\ calls \in 0 .. MAX_CALLS

-----------------------------------------------------------------------------
(* The steps of a call *)

Results == [ok : BOOLEAN, edges : SUBSET Links, gone : SUBSET Node, told : BOOLEAN]

\* The nodes that are left in a graph when those of gone have left graph h.
Left(h, gone) == UNION {Stored(k) \ (IF k = h THEN gone ELSE {}) : k \in Graph}

\* What a call on graph g has done so far leaves graphs behind that go together,
\* links nodes of g only, and is told of unless it only took edges away.
Good(g, r) ==
  /\ r \in Results
  /\ IsFiniteSet(r.edges) /\ \A e \in r.edges : Anchored(e)
  /\ r.gone \subseteq Stored(g)
  /\ \A e \in r.edges : {e.src, e.dst} \subseteq Left(g, r.gone)
  /\ \A d, e \in r.edges : IsData(d) /\ d.dst = e.dst /\ d.in = e.in => d = e
  /\ \A e \in r.edges \ edges : {e.src, e.dst} \subseteq Stored(g)
  /\ ~r.told => r.gone = {} /\ r.edges \subseteq edges

LEMMA StoredIn ==
  ASSUME GraphsTyped, NEW g \in Graph
  PROVE  /\ Stored(g) \subseteq Node /\ Stored(g) \subseteq AllStored
         /\ store[g] \in Seq(Stored(g))
<1>1. store[g] \in Seq(Node)
  BY DEF GraphsTyped
<1> QED BY <1>1, ElementsIn DEF Stored, AllStored

LEMMA LeftAre ==
  ASSUME NEW h \in Graph, NEW gone
  PROVE  /\ \A x : x \in Left(h, gone) <=> \E k \in Graph : x \in Stored(k) /\ (k = h => x \notin gone)
         /\ Stored(h) \ gone \subseteq Left(h, gone)
         /\ Left(h, gone) \subseteq AllStored /\ Left(h, {}) = AllStored
         /\ \A n : Left(h, gone) \ {n} \subseteq Left(h, gone \cup {n})
         /\ \A n : \A k \in Graph : n \in Stored(k) /\ k # h => n \in Left(h, gone)
<1>1. \A G : \A x : x \in Left(h, G) <=> \E k \in Graph : x \in Stored(k) /\ (k = h => x \notin G)
  BY DEF Left
<1>2. \A x : x \in AllStored <=> \E k \in Graph : x \in Stored(k)
  BY DEF AllStored
<1>3. Left(h, {}) = AllStored
  <2>1. \A x : x \in Left(h, {}) <=> x \in AllStored
    BY <1>1, <1>2
  <2> QED BY <2>1
<1>4. \A n : Left(h, gone) \ {n} \subseteq Left(h, gone \cup {n})
  BY <1>1
<1> QED BY <1>1, <1>2, <1>3, <1>4

LEMMA SameGood ==
  ASSUME Sound, NEW g \in Graph
  PROVE  Good(g, Same)
<1>1. Same \in Results
  BY DEF Same, Results, Sound, GraphsTyped
<1>2. \A e \in edges : {e.src, e.dst} \subseteq Left(g, {})
  BY LeftAre DEF Sound, NodesOwned, Owned, AllStored, Stored
<1>3. \A d, e \in edges : IsData(d) /\ d.dst = e.dst /\ d.in = e.in => d = e
  BY DEF Sound, NodesOwned, Owned
<1> QED BY <1>1, <1>2, <1>3 DEF Good, Same, Sound, GraphsTyped

LEMMA FailedGood ==
  ASSUME NEW g, NEW r, Good(g, r)
  PROVE  Good(g, Failed(r))
<1>1. PICK q : q = Failed(r)
  OBVIOUS
<1>2. q \in Results /\ q.edges = r.edges /\ q.gone = r.gone /\ q.told = r.told
  BY <1>1 DEF Failed, Good, Results
<1>3. Good(g, q)
  BY <1>2 DEF Good
<1> QED BY <1>1, <1>3

LEMMA RemovedGood ==
  ASSUME Sound, NEW g \in Graph, NEW r, Good(g, r), NEW n \in Stored(g)
  PROVE  Good(g, Removed(r, n))
<1>1. PICK q : q = Removed(r, n)
  OBVIOUS
<1>2. n \in Node
  BY StoredIn DEF Sound
<1>3. r \in Results
  BY DEF Good
<1>4. /\ q.edges = {e \in r.edges : n \notin {e.src, e.dst}}
      /\ q.gone = r.gone \cup {n} /\ q.told = TRUE
  BY <1>1, <1>3 DEF Removed, Results
<1>5. q \in Results
  BY <1>1, <1>2, <1>3 DEF Removed, Results
<1>6. q.edges \subseteq r.edges
  BY <1>4
<1>7. IsFiniteSet(q.edges)
  BY <1>6, FS_Subset DEF Good
<1>8. \A e \in q.edges : {e.src, e.dst} \subseteq Left(g, q.gone)
  BY <1>4, LeftAre DEF Good
<1>9. Good(g, q)
  BY <1>4, <1>5, <1>6, <1>7, <1>8 DEF Good
<1> QED BY <1>1, <1>9

\* A node that another graph holds keeps its edges.
LEMMA ReleasedGood ==
  ASSUME Sound, NEW g \in Graph, NEW r, Good(g, r), NEW n \in Stored(g)
  PROVE  Good(g, Released(g, r, n))
<1>1. CASE \E h \in Graph \ {g} : n \in Stored(h)
  <2>1. PICK q : q = Released(g, r, n)
    OBVIOUS
  <2>2. n \in Node
    BY StoredIn DEF Sound
  <2>3. r \in Results
    BY DEF Good
  <2>4. q = [r EXCEPT !.gone = r.gone \cup {n}, !.told = TRUE]
    BY <1>1, <2>1 DEF Released
  <2>5. q \in Results /\ q.edges = r.edges /\ q.gone = r.gone \cup {n} /\ q.told = TRUE
    BY <2>2, <2>3, <2>4 DEF Results
  <2>6. Left(g, r.gone) \subseteq Left(g, q.gone)
    BY <1>1, <2>5, LeftAre
  <2>7. Good(g, q)
    BY <2>5, <2>6 DEF Good
  <2> QED BY <2>1, <2>7
<1>2. CASE ~\E h \in Graph \ {g} : n \in Stored(h)
  <2>1. Released(g, r, n) = Removed(r, n)
    BY <1>2 DEF Released
  <2> QED BY <2>1, RemovedGood
<1> QED BY <1>1, <1>2

LEMMA AddedGood ==
  ASSUME Sound, NEW g \in Graph, NEW r, Good(g, r), NEW e \in Links,
         {e.src, e.dst} \subseteq Stored(g) \ r.gone, Linkable(r.edges, e)
  PROVE  Good(g, Added(r, e))
<1>1. PICK q : q = Added(r, e)
  OBVIOUS
<1>2. r \in Results
  BY DEF Good
<1>3. q \in Results /\ q.edges = r.edges \cup {e} /\ q.gone = r.gone /\ q.told = TRUE
  BY <1>1, <1>2 DEF Added, Results
<1>4. IsFiniteSet(q.edges)
  BY <1>3, FS_AddElement DEF Good
<1>5. Stored(g) \ r.gone \subseteq Left(g, r.gone)
  BY LeftAre
<1>6. Anchored(e)
  BY DEF Linkable, Anchored
<1>7. \A c, d \in q.edges : IsData(c) /\ c.dst = d.dst /\ c.in = d.in => c = d
  <2>1. ASSUME NEW d \in r.edges, d.dst = e.dst, d.in = e.in
        PROVE  ~IsData(d) /\ ~IsData(e)
    <3>1. IsCtrl(e)
      BY <2>1 DEF Linkable, Fed
    <3> QED BY <2>1, <3>1 DEF IsCtrl, IsData, CTRL
  <2> QED BY <1>3, <2>1 DEF Good
<1>8. Good(g, q)
  BY <1>3, <1>4, <1>5, <1>6, <1>7 DEF Good
<1> QED BY <1>1, <1>8

\* One edge less, told or not.
Cut(r, e, told) == [r EXCEPT !.edges = @ \ {e}, !.told = @ \/ told]

LEMMA CutGood ==
  ASSUME NEW g, NEW r, Good(g, r), NEW e, NEW told \in BOOLEAN, NEW q, q = Cut(r, e, told)
  PROVE  Good(g, q)
<1>1. r \in Results
  BY DEF Good
<1>2. q \in Results /\ q.edges = r.edges \ {e} /\ q.gone = r.gone /\ q.told = (r.told \/ told)
  BY <1>1 DEF Results, Cut
<1>3. q.edges \subseteq r.edges
  BY <1>2
<1>4. IsFiniteSet(q.edges)
  BY <1>3, FS_Subset DEF Good
<1> QED BY <1>2, <1>3, <1>4 DEF Good

\* The cases of Step.
LEMMA StepCases ==
  ASSUME NEW g, NEW r, NEW s, NEW q, q = Step(g, r, s)
  PROVE  \/ q = r /\ ~r.ok
         \/ q = Failed(r)
         \/ /\ r.ok /\ s.op \in {"del", "unlink"} /\ s.edge \in r.edges
            /\ {s.edge.src, s.edge.dst} \subseteq Stored(g) \ r.gone
            /\ q = Cut(r, s.edge, s.op = "del")
         \/ /\ r.ok /\ q = r /\ s.op = "ensure" /\ s.edge \in r.edges
         \/ /\ r.ok /\ s.op \in {"add", "ensure"} /\ s.edge.src # s.edge.dst
            /\ {s.edge.src, s.edge.dst} \subseteq Stored(g) \ r.gone
            /\ Linkable(r.edges, s.edge)
            /\ q = Added(r, s.edge)
<1>1. CASE ~r.ok
  BY <1>1 DEF Step
<1>2. CASE r.ok
  <2> DEFINE inside == {s.edge.src, s.edge.dst} \subseteq Stored(g) \ r.gone
  <2>1. q = CASE s.op \in {"del", "unlink"} /\ inside /\ s.edge \in r.edges ->
                  Cut(r, s.edge, s.op = "del")
              [] s.op = "ensure" /\ inside /\ s.edge \in r.edges -> r
              [] s.op \in {"add", "ensure"} /\ inside /\ s.edge.src # s.edge.dst
                   /\ Linkable(r.edges, s.edge) -> Added(r, s.edge)
              [] OTHER -> Failed(r)
    BY <1>2, Zenon DEF Step, Cut
  <2>2. CASE s.op \in {"del", "unlink"} /\ inside /\ s.edge \in r.edges
    <3>1. s.op # "ensure" /\ s.op # "add"
      BY <2>2
    <3>2. q = Cut(r, s.edge, s.op = "del")
      BY <2>1, <2>2, <3>1
    <3> QED BY <1>2, <2>2, <3>2
  <2>3. CASE s.op = "ensure" /\ inside /\ s.edge \in r.edges
    <3>0. ~Linkable(r.edges, s.edge)
      BY <2>3 DEF Linkable, Fed
    <3>1. q = r
      BY <2>1, <2>3, <3>0
    <3> QED BY <1>2, <2>3, <3>1
  <2> QED BY <1>2, <2>1, <2>2, <2>3
<1> QED BY <1>1, <1>2

LEMMA StepGood ==
  ASSUME Sound, NEW g \in Graph, NEW r, Good(g, r), NEW s,
         s.op \in {"add", "ensure"} => s.edge \in Links
  PROVE  Good(g, Step(g, r, s))
<1>1. PICK q : q = Step(g, r, s)
  OBVIOUS
<1>2. CASE q = r \/ q = Failed(r)
  BY <1>1, <1>2, FailedGood
<1>3. CASE q = Cut(r, s.edge, s.op = "del")
  <2>1. PICK e, told : e = s.edge /\ told = (s.op = "del")
    OBVIOUS
  <2>2. q = Cut(r, e, told)
    BY <1>3, <2>1
  <2>3. told \in BOOLEAN
    BY <2>1
  <2> QED BY <1>1, <2>2, <2>3, CutGood
<1>4. CASE /\ s.op \in {"add", "ensure"}
           /\ {s.edge.src, s.edge.dst} \subseteq Stored(g) \ r.gone
           /\ Linkable(r.edges, s.edge)
           /\ q = Added(r, s.edge)
  BY <1>1, <1>4, AddedGood
<1>5. \/ q = r \/ q = Failed(r)
      \/ q = Cut(r, s.edge, s.op = "del")
      \/ /\ s.op \in {"add", "ensure"}
         /\ {s.edge.src, s.edge.dst} \subseteq Stored(g) \ r.gone
         /\ Linkable(r.edges, s.edge)
         /\ q = Added(r, s.edge)
  BY <1>1, StepCases
<1> QED BY <1>1, <1>2, <1>3, <1>4, <1>5

LEMMA ConstStepGood ==
  ASSUME Sound, NEW g \in Graph, NEW r, Good(g, r), NEW e
  PROVE  Good(g, ConstStep(g, r, e))
<1>1. PICK s, q : s = Do("del", e) /\ q = Step(g, r, s)
  OBVIOUS
<1>2. s.op = "del" /\ s.edge = e
  BY <1>1 DEF Do
<1>3. Good(g, q)
  BY <1>1, <1>2, StepGood
<1>4. ConstStep(g, r, e) = q \/ (q.ok /\ ConstStep(g, r, e) = Released(g, q, e.src))
  BY <1>1 DEF ConstStep
<1>5. ASSUME q.ok
      PROVE  e.src \in Stored(g)
  <2>1. ~Failed(r).ok
    BY DEF Failed, Good, Results
  <2>2. \/ q = r /\ ~r.ok
        \/ q = Failed(r)
        \/ {s.edge.src, s.edge.dst} \subseteq Stored(g) \ r.gone
        \/ s.op = "ensure"
    BY <1>1, StepCases
  <2> QED BY <1>2, <1>5, <2>1, <2>2
<1> QED BY <1>3, <1>4, <1>5, ReleasedGood

-----------------------------------------------------------------------------
(* Constants, insertions and bypasses *)

\* A list made of two lists.
LEMMA Joined ==
  ASSUME NEW s \in Seq(Links), NEW t \in Seq(Links), NEW q, q = s \o t
  PROVE  q \in Seq(Links) /\ ToSet(q) = ToSet(s) \cup ToSet(t)
<1>1. /\ Len(s) \in Nat /\ Len(t) \in Nat /\ Len(q) = Len(s) + Len(t) /\ q \in Seq(Links)
      /\ \A i \in 1 .. Len(s) + Len(t) : q[i] = IF i <= Len(s) THEN s[i] ELSE t[i - Len(s)]
  BY ConcatProperties, LenProperties
<1>2. DOMAIN s = 1 .. Len(s) /\ DOMAIN t = 1 .. Len(t) /\ DOMAIN q = 1 .. Len(s) + Len(t)
  BY <1>1, LenProperties
<1>3. \A i \in 1 .. Len(s) : i \in 1 .. Len(s) + Len(t) /\ q[i] = s[i]
  BY <1>1
<1>4. \A i \in 1 .. Len(t) : Len(s) + i \in 1 .. Len(s) + Len(t) /\ q[Len(s) + i] = t[i]
  BY <1>1
<1>5. ASSUME NEW i \in 1 .. Len(s) + Len(t)
      PROVE  \/ i \in 1 .. Len(s) /\ q[i] = s[i]
             \/ i - Len(s) \in 1 .. Len(t) /\ q[i] = t[i - Len(s)]
  <2>1. CASE i <= Len(s)
    BY <1>1, <2>1
  <2>2. CASE ~ (i <= Len(s))
    <3>1. i - Len(s) \in 1 .. Len(t)
      BY <1>1, <2>2
    <3> QED BY <1>1, <2>2, <3>1
  <2> QED BY <2>1, <2>2
<1>6. ToSet(s) \subseteq ToSet(q)
  BY <1>2, <1>3 DEF ToSet
<1>7. ToSet(t) \subseteq ToSet(q)
  BY <1>2, <1>4 DEF ToSet
<1>8. ToSet(q) \subseteq ToSet(s) \cup ToSet(t)
  BY <1>2, <1>5 DEF ToSet
<1> QED BY <1>1, <1>6, <1>7, <1>8

LEMMA SeqsOf ==
  ASSUME NEW X, NEW S \in SUBSET X, IsFiniteSet(S), NEW s \in SetToSeqs(S)
  PROVE  s \in Seq(X) /\ ToSet(s) = S
BY SeqsOfSet, SeqMonotonic

\* The edges of a node as a bypass lists them.
LEMMA OrdersListed ==
  ASSUME NEW E \in SUBSET Links, IsFiniteSet(E), NEW n
  PROVE  /\ \A s \in InOrders(E, n) : s \in Seq(Links) /\ ToSet(s) = InData(E, n) \cup InCtrl(E, n)
         /\ \A s \in OutOrders(E, n) : s \in Seq(Links) /\ ToSet(s) = OutData(E, n) \cup OutCtrl(E, n)
<1>1. /\ InData(E, n) \subseteq E /\ InCtrl(E, n) \subseteq E
      /\ OutData(E, n) \subseteq E /\ OutCtrl(E, n) \subseteq E
  BY DEF InData, InCtrl, OutData, OutCtrl
<1>2. \A S \in SUBSET E : S \in SUBSET Links /\ IsFiniteSet(S)
  BY FS_Subset
<1>3. ASSUME NEW A \in SUBSET E, NEW B \in SUBSET E, NEW d \in SetToSeqs(A), NEW c \in SetToSeqs(B)
      PROVE  d \o c \in Seq(Links) /\ ToSet(d \o c) = A \cup B
  <2>1. d \in Seq(Links) /\ ToSet(d) = A
    BY <1>2, SeqsOf
  <2>2. c \in Seq(Links) /\ ToSet(c) = B
    BY <1>2, SeqsOf
  <2>3. PICK q : q = d \o c
    OBVIOUS
  <2>4. d \in Seq(Links) /\ c \in Seq(Links)
    BY <2>1, <2>2
  <2>5. q \in Seq(Links) /\ ToSet(q) = ToSet(d) \cup ToSet(c)
    BY <2>3, <2>4, Joined
  <2> QED BY <2>1, <2>2, <2>3, <2>5
<1>4. ASSUME NEW s \in InOrders(E, n)
      PROVE  s \in Seq(Links) /\ ToSet(s) = InData(E, n) \cup InCtrl(E, n)
  <2>1. PICK d \in SetToSeqs(InData(E, n)), c \in SetToSeqs(InCtrl(E, n)) : s = d \o c
    BY DEF InOrders, ByAnchor
  <2> QED BY <1>1, <1>3, <2>1
<1>5. ASSUME NEW s \in OutOrders(E, n)
      PROVE  s \in Seq(Links) /\ ToSet(s) = OutData(E, n) \cup OutCtrl(E, n)
  <2>1. PICK d \in SetToSeqs(OutData(E, n)), c \in SetToSeqs(OutCtrl(E, n)) : s = d \o c
    BY DEF OutOrders
  <2> QED BY <1>1, <1>3, <2>1
<1> QED BY <1>4, <1>5

\* The steps that only make edges, and those that only take them away.
Makes == {"add", "ensure", "fail"}
Takes == {"del", "unlink"}

LEMMA LinkPointMade ==
  ASSUME NEW s \in Links, NEW d \in Links
  PROVE  \E op \in Makes, e \in Links : LinkPoint(s, d) = Do(op, e)
<1>1. PICK e1, e2 : e1 = Link(s.src, CTRL, d.dst, CTRL) /\ e2 = Link(s.src, s.out, d.dst, d.in)
  OBVIOUS
<1>2. e1 \in Links /\ e2 \in Links
  BY <1>1 DEF Link, Links, CTRL
<1>3. LinkPoint(s, d) \in {Do("ensure", e1), Do("fail", d), Do("add", e2)}
  BY <1>1 DEF LinkPoint
<1> QED BY <1>2, <1>3 DEF Makes

\* The results in T are closed under the steps that make edges of graph g.
Linking(g, T) ==
  \A r \in T, op \in Makes, e \in Links : Step(g, r, Do(op, e)) \in T

LEMMA LinkPointsWithin ==
  ASSUME NEW g, NEW T, Linking(g, T), NEW srcs \in Seq(Links), NEW dsts \in Seq(Links), NEW b \in T
  PROVE  LinkPoints(g, b, srcs, dsts) \in T
<1>1. \A r \in T, i \in Links, d \in Links : Step(g, r, LinkPoint(i, d)) \in T
  BY LinkPointMade DEF Linking
<1>2. ASSUME NEW r \in T, NEW i \in Links
      PROVE  LinkTo(g, r, i, dsts) \in T
  <2>0. Stepping(g, i, T, Links)
    BY <1>1 DEF Stepping
  <2>1. PICK q \in [0 .. Len(dsts) -> T] : q[Len(dsts)] = LinkTo(g, r, i, dsts)
    BY <2>0, LinkToRun
  <2>2. Len(dsts) \in 0 .. Len(dsts)
    BY LenProperties
  <2> QED BY <2>1, <2>2
<1>3. PICK q \in [0 .. Len(srcs) -> T] : q[Len(srcs)] = LinkPoints(g, b, srcs, dsts)
  <2>1. Joining(g, T, Links, dsts)
    BY <1>2 DEF Joining
  <2>2. PICK q \in [0 .. Len(srcs) -> T] :
          /\ q[0] = b /\ q[Len(srcs)] = LinkPoints(g, b, srcs, dsts)
          /\ \A k \in 1 .. Len(srcs) : q[k] = LinkTo(g, q[k - 1], srcs[k], dsts)
    BY <2>1, LinkPointsRun
  <2> QED BY <2>2
<1>4. Len(srcs) \in 0 .. Len(srcs)
  BY LenProperties
<1> QED BY <1>3, <1>4

LEMMA ByPassedWithin ==
  ASSUME NEW g, NEW r, r.edges \in SUBSET Links, IsFiniteSet(r.edges), NEW n,
         NEW T, Linking(g, T), Removed(r, n) \in T, NEW z \in ByPassed(g, r, n)
  PROVE  (z \in T /\ PreCheck(g, r.edges, n)) \/ z = Failed(r)
<1>1. CASE ~PreCheck(g, r.edges, n)
  BY <1>1 DEF ByPassed
<1>2. CASE PreCheck(g, r.edges, n)
  <2>1. PICK srcs \in InOrders(r.edges, n), dsts \in OutOrders(r.edges, n) :
          z = LinkPoints(g, Removed(r, n), srcs, dsts)
    BY <1>2 DEF ByPassed
  <2>2. srcs \in Seq(Links) /\ dsts \in Seq(Links)
    <3>1. PICK E \in SUBSET Links : E = r.edges
      OBVIOUS
    <3> QED BY <2>1, <3>1, OrdersListed
  <2> QED BY <1>2, <2>1, <2>2, LinkPointsWithin
<1> QED BY <1>1, <1>2

\* A step takes no node out, and nothing goes well again.
LEMMA StepKeeps ==
  ASSUME NEW g, NEW r \in Results, NEW s, s.op \in {"add", "ensure"} => s.edge \in Links,
         NEW q, q = Step(g, r, s)
  PROVE  q \in Results /\ q.gone = r.gone /\ (q.ok => r.ok)
<1>1. PICK e, told, z : e = s.edge /\ told = (s.op = "del") /\ z = q
  OBVIOUS
<1>2. told \in BOOLEAN
  BY <1>1
<1>3. CASE z = r
  BY <1>1, <1>3
<1>4. CASE z = Failed(r)
  <2>1. z \in Results /\ z.gone = r.gone /\ ~z.ok
    BY <1>4 DEF Failed, Results
  <2> QED BY <1>1, <2>1
<1>5. CASE z = Cut(r, e, told) /\ r.ok
  <2>1. z \in Results /\ z.gone = r.gone
    BY <1>2, <1>5 DEF Cut, Results
  <2> QED BY <1>1, <1>5, <2>1
<1>6. CASE z = Added(r, e) /\ r.ok /\ e \in Links
  <2>1. z \in Results /\ z.gone = r.gone
    BY <1>6 DEF Added, Results
  <2> QED BY <1>1, <1>6, <2>1
<1>7. \/ z = r \/ z = Failed(r)
      \/ r.ok /\ z = Cut(r, e, told)
      \/ r.ok /\ s.op \in {"add", "ensure"} /\ z = Added(r, e)
  BY <1>1, StepCases
<1> QED BY <1>1, <1>3, <1>4, <1>5, <1>6, <1>7

LEMMA LinkingGood ==
  ASSUME Sound, NEW g \in Graph, NEW gone
  PROVE  Linking(g, {r \in Results : Good(g, r) /\ r.gone = gone})
<1> SUFFICES ASSUME NEW r \in Results, Good(g, r), r.gone = gone,
                    NEW op \in Makes, NEW e \in Links
             PROVE  /\ Step(g, r, Do(op, e)) \in Results /\ Good(g, Step(g, r, Do(op, e)))
                    /\ Step(g, r, Do(op, e)).gone = gone
  BY DEF Linking
<1>1. PICK s, q : s = Do(op, e) /\ q = Step(g, r, s)
  OBVIOUS
<1>2. s.edge \in Links
  BY <1>1 DEF Do
<1>3. Good(g, q)
  BY <1>1, <1>2, StepGood
<1>4. q \in Results /\ q.gone = r.gone
  BY <1>1, <1>2, StepKeeps
<1> QED BY <1>1, <1>3, <1>4

\* A bypass that goes well takes out the node.
LEMMA ByPassedGood ==
  ASSUME Sound, NEW g \in Graph, NEW r, Good(g, r), NEW n, NEW z \in ByPassed(g, r, n)
  PROVE  Good(g, z) /\ (z.ok => n \in Stored(g) /\ z.gone = r.gone \cup {n})
<1>1. r \in Results /\ r.edges \in SUBSET Links /\ IsFiniteSet(r.edges)
  BY DEF Good, Results
<1>2. CASE ~PreCheck(g, r.edges, n)
  <2>1. z = Failed(r)
    BY <1>2 DEF ByPassed
  <2>2. ~Failed(r).ok
    BY <1>1 DEF Failed, Results
  <2> QED BY <2>1, <2>2, FailedGood
<1>3. CASE PreCheck(g, r.edges, n)
  <2>1. n \in Stored(g)
    BY <1>3 DEF PreCheck
  <2>2. PICK p, gone, T : /\ p = Removed(r, n) /\ gone = r.gone \cup {n}
                          /\ T = {q \in Results : Good(g, q) /\ q.gone = gone}
    OBVIOUS
  <2>3. Good(g, p) /\ p.gone = gone
    <3>1. Good(g, p)
      BY <2>1, <2>2, RemovedGood
    <3> QED BY <1>1, <2>2, <3>1 DEF Removed, Results
  <2>4. p \in T /\ Linking(g, T)
    BY <2>2, <2>3, LinkingGood DEF Good
  <2>5. z \in T \/ z = Failed(r)
    BY <1>1, <2>2, <2>4, ByPassedWithin
  <2>6. ~Failed(r).ok
    BY <1>1 DEF Failed, Results
  <2> QED BY <2>1, <2>2, <2>5, <2>6, FailedGood
<1> QED BY <1>2, <1>3

\* The constants a node reads, by the anchors they enter.
LEMMA ConstsListed ==
  ASSUME Sound, NEW n, NEW s, s = CHOOSE c \in ByAnchor({e \in InData(edges, n) : Kind[e.src] = "Const"}) : TRUE
  PROVE  s \in Seq(Links) /\ ToSet(s) = {e \in InData(edges, n) : Kind[e.src] = "Const"}
<1> DEFINE S == {e \in InData(edges, n) : Kind[e.src] = "Const"}
           key == [e \in S |-> e.in]
<1>1. S \in SUBSET Links /\ S \subseteq edges /\ IsFiniteSet(S)
  <2>1. S \subseteq edges
    BY DEF InData
  <2> QED BY <2>1, FS_Subset DEF Sound, GraphsTyped
<1>2. key \in [S -> Int] /\ \A x, y \in S : key[x] = key[y] => x = y
  <2>1. \A x \in S : x.in \in Int /\ IsData(x) /\ x.dst = n /\ x \in edges
    BY <1>1 DEF Links, InData
  <2>2. \A x, y \in S : x.in = y.in => x = y
    BY <2>1 DEF Sound, NodesOwned, Owned
  <2> QED BY <2>1, <2>2
<1>3. PICK t \in SetToSeqs(S) : \A i, j \in DOMAIN t : i < j => key[t[i]] < key[t[j]]
  <2> HIDE DEF S, key
  <2> QED BY <1>1, <1>2, Sortable
<1>4. \A i \in DOMAIN t : t[i] \in S
  BY <1>1, SeqsOfSet, LenProperties
<1>5. t \in ByAnchor(S)
  BY <1>3, <1>4 DEF ByAnchor
<1>6. s \in ByAnchor(S)
  BY <1>5
<1>7. s \in SetToSeqs(S)
  BY <1>6 DEF ByAnchor
<1> QED BY <1>1, <1>7, SeqsOf

LEMMA WithoutConstsGood ==
  ASSUME Sound, NEW g \in Graph, NEW n
  PROVE  Good(g, WithoutConsts(g, n))
<1>1. PICK s : s = CHOOSE c \in ByAnchor({e \in InData(edges, n) : Kind[e.src] = "Const"}) : TRUE
  OBVIOUS
<1>2. s \in Seq(Links)
  BY <1>1, ConstsListed
<1>3. WithoutConsts(g, n) = ConstSteps(g, Same, s)
  BY <1>1 DEF WithoutConsts
<1>4. PICK T : T = {r \in Results : Good(g, r)}
  OBVIOUS
<1>5. Same \in T
  BY <1>4, SameGood DEF Good
<1>6. ConstStepping(g, T, Links)
  BY <1>4, ConstStepGood DEF Good, ConstStepping
<1>7. PICK q \in [0 .. Len(s) -> T] : q[Len(s)] = ConstSteps(g, Same, s)
  BY <1>2, <1>5, <1>6, ConstStepsRun
<1>8. Len(s) \in 0 .. Len(s)
  BY <1>2, LenProperties
<1> QED BY <1>3, <1>4, <1>7, <1>8

LEMMA RelinkAllGood ==
  ASSUME Sound, NEW g \in Graph, NEW r, Good(g, r), NEW n \in Node, NEW s \in Seq(Links)
  PROVE  Good(g, RelinkAll(g, r, n, s))
<1>1. PICK T : T = {q \in Results : Good(g, q)}
  OBVIOUS
<1>2. ASSUME NEW q \in T, NEW e \in Links
      PROVE  Relink(g, q, n, e) \in T
  <2>1. PICK d, a, p, z : /\ d = Do("del", e) /\ a = Do("add", Link(n, 0, e.dst, e.in))
                          /\ p = Step(g, q, d) /\ z = Step(g, p, a)
    OBVIOUS
  <2>2. d.op = "del" /\ a.edge \in Links
    BY <2>1 DEF Do, Link, Links
  <2>3. Good(g, p)
    BY <1>1, <2>1, <2>2, StepGood
  <2>4. Good(g, z)
    BY <2>1, <2>2, <2>3, StepGood
  <2> QED BY <1>1, <2>1, <2>4 DEF Relink, Good
<1>3. r \in T
  BY <1>1 DEF Good
<1>4. PICK q \in [0 .. Len(s) -> T] : q[Len(s)] = RelinkAll(g, r, n, s)
  <2>1. Relinking(g, n, T, Links)
    BY <1>2 DEF Relinking
  <2> QED BY <1>3, <2>1, RelinkRun
<1>5. Len(s) \in 0 .. Len(s)
  BY LenProperties
<1> QED BY <1>1, <1>4, <1>5

-----------------------------------------------------------------------------
(* What a call leaves behind *)

\* Nodes leave graph h and come to graph to, where they are new, what two graphs then
\* have is known to be shared, and no edge is left to or from a node that is in no graph.
Moves(h, gone, to, come) ==
  /\ come \cap Left(h, gone) \subseteq shared'
  /\ \A k, l \in Graph : k # l => (Stored(k) \cap Stored(l)) \ come \subseteq shared'
  /\ \A k \in Graph : IsInjective(store'[k])
  /\ \A k \in Graph : ToSet(store'[k]) = (Stored(k) \ (IF k = h THEN gone ELSE {})) \cup (IF k = to THEN come ELSE {})
  /\ \A k \in Graph : ToSet(inputs'[k]) \cup ToSet(outputs'[k]) \subseteq
                        Stored(k) \ (IF k = h THEN gone ELSE {})
  /\ \A e \in edges' : {e.src, e.dst} \subseteq Left(h, gone) \cup come
  /\ \A d, e \in edges' : IsData(d) /\ d.dst = e.dst /\ d.in = e.in => d = e

LEMMA OwnedAfter ==
  ASSUME Sound, NEW h \in Graph, NEW gone \in SUBSET Stored(h), NEW to \in Graph, NEW come,
         Moves(h, gone, to, come)
  PROVE  NodesOwned'
<1>3. \A k, l \in Graph : k # l => ToSet(store'[k]) \cap ToSet(store'[l]) \subseteq shared'
  <2> SUFFICES ASSUME NEW k \in Graph, NEW l \in Graph, k # l, NEW n \in ToSet(store'[k]), n \in ToSet(store'[l])
               PROVE  n \in shared'
    OBVIOUS
  <2>1. /\ (n \in Stored(k) /\ (k = h => n \notin gone)) \/ (k = to /\ n \in come)
        /\ (n \in Stored(l) /\ (l = h => n \notin gone)) \/ (l = to /\ n \in come)
    BY DEF Moves
  <2>2. \A j \in Graph : n \in Stored(j) /\ (j = h => n \notin gone) => n \in Left(h, gone)
    BY LeftAre
  <2> QED BY <2>1, <2>2 DEF Moves
<1>4. \A k \in Graph : ToSet(inputs'[k]) \cup ToSet(outputs'[k]) \subseteq ToSet(store'[k])
  BY DEF Moves
<1>5. \A e \in edges' : {e.src, e.dst} \subseteq UNION {ToSet(store'[k]) : k \in Graph}
  <2>1. ASSUME NEW n \in Left(h, gone) \cup come
        PROVE  \E k \in Graph : n \in ToSet(store'[k])
    <3>1. CASE n \in come
      BY <3>1 DEF Moves
    <3>2. CASE n \in Left(h, gone)
      <4>1. PICK k \in Graph : n \in Stored(k) /\ (k = h => n \notin gone)
        BY <3>2, LeftAre
      <4> QED BY <3>2, <4>1 DEF Moves
    <3> QED BY <3>1, <3>2
  <2> QED BY <2>1 DEF Moves
<1>6. /\ \A k \in Graph : IsInjective(store'[k])
      /\ \A d, e \in edges' : IsData(d) /\ d.dst = e.dst /\ d.in = e.in => d = e
  BY DEF Moves
<1> QED BY <1>3, <1>4, <1>5, <1>6 DEF NodesOwned, Owned

\* A graph that no call told of a change keeps its order.
LEMMA OrderKept ==
  ASSUME Sound,
         \A h \in Graph : ~change'[h] /\ Stored(h)' \cap shared' = {} =>
           /\ ~change[h] /\ store'[h] = store[h] /\ Stored(h) \cap shared = {}
           /\ \A e \in edges' : e.dst \in Stored(h) => e \in edges
  PROVE  OrderCurrent'
<1> SUFFICES ASSUME NEW h \in Graph, ~change'[h], Stored(h)' \cap shared' = {}
             PROVE  InOrder(store[h])' /\ (store'[h] # <<>> => Kind[store'[h][1]] = "Data")
  BY DEF OrderCurrent
<1>1. /\ ~change[h] /\ store'[h] = store[h] /\ Stored(h) \cap shared = {}
      /\ \A e \in edges' : e.dst \in Stored(h) => e \in edges
  OBVIOUS
<1>2. InOrder(store[h]) /\ (store[h] # <<>> => Kind[store[h][1]] = "Data")
  BY <1>1 DEF Sound, OrderCurrent
<1>3. \A j \in DOMAIN store[h] : store[h][j] \in Stored(h)
  BY DEF Stored, ToSet
<1>4. InOrder(store[h])'
  <2> SUFFICES ASSUME NEW e \in edges', NEW j \in DOMAIN store[h], store[h][j] = e.dst
               PROVE  \E i \in 1 .. j - 1 : store[h][i] = e.src
    BY <1>1 DEF InOrder
  <2>1. e \in edges
    BY <1>1, <1>3
  <2> QED BY <1>2, <2>1 DEF InOrder
<1> QED BY <1>1, <1>2, <1>4

\* The call that ends with r leaves graphs that go together.
LEMMA CommitSound ==
  ASSUME Sound, NEW g \in Graph, NEW r, Good(g, r), Commit(g, r)
  PROVE  Sound'
<1>1. r \in Results /\ r.gone \in SUBSET Stored(g)
  BY DEF Good
<1>2. \A k \in Graph : store[k] \in Seq(Node) /\ inputs[k] \in Seq(Node) /\ outputs[k] \in Seq(Node)
  BY DEF Sound, GraphsTyped
<1>3. PICK s, i, o : s = Without(store[g], r.gone) /\ i = Erase(inputs[g], r.gone) /\ o = Erase(outputs[g], r.gone)
  OBVIOUS
<1>4. /\ s \in Seq(Node) /\ ToSet(s) = Stored(g) \ r.gone
      /\ r.gone = {} => s = store[g]
      /\ IsInjective(s)
  <2>1. IsInjective(store[g])
    BY DEF Sound, NodesOwned, Owned
  <2>2. PICK old : old = store[g]
    OBVIOUS
  <2>3. /\ s \in Seq(Node) /\ ToSet(s) = ToSet(old) \ r.gone
        /\ r.gone = {} => s = old
        /\ IsInjective(old) => IsInjective(s)
    BY <1>2, <1>3, <2>2, WithoutList
  <2> QED BY <2>1, <2>2, <2>3 DEF Stored
<1>5. /\ i \in Seq(Node) /\ ToSet(i) = ToSet(inputs[g]) \ r.gone
      /\ o \in Seq(Node) /\ ToSet(o) = ToSet(outputs[g]) \ r.gone
  <2>1. PICK a, b : a = inputs[g] /\ b = outputs[g]
    OBVIOUS
  <2>2. i \in Seq(Node) /\ ToSet(i) = ToSet(a) \ r.gone
    BY <1>2, <1>3, <2>1, ErasedList
  <2>3. o \in Seq(Node) /\ ToSet(o) = ToSet(b) \ r.gone
    BY <1>2, <1>3, <2>1, ErasedList
  <2> QED BY <2>1, <2>2, <2>3
<1>6. /\ store' = [store EXCEPT ![g] = s]
      /\ inputs' = [inputs EXCEPT ![g] = i] /\ outputs' = [outputs EXCEPT ![g] = o]
      /\ edges' = r.edges /\ shared' = shared
      /\ change' = [change EXCEPT ![g] = change[g] \/ r.told]
  BY <1>3 DEF Commit
<1>7. /\ store' \in [Graph -> Seq(Node)]
      /\ inputs' \in [Graph -> Seq(Node)] /\ outputs' \in [Graph -> Seq(Node)]
  BY <1>4, <1>5, <1>6 DEF Sound, GraphsTyped
<1>8. change' \in [Graph -> BOOLEAN]
  BY <1>1, <1>6 DEF Sound, GraphsTyped, Results
<1>9. edges' \subseteq Links /\ IsFiniteSet(edges') /\ \A e \in edges' : Anchored(e)
  BY <1>1, <1>6 DEF Good, Results
<1>10. \A k \in Graph : /\ store'[k] = IF k = g THEN s ELSE store[k]
                        /\ inputs'[k] = IF k = g THEN i ELSE inputs[k]
                        /\ outputs'[k] = IF k = g THEN o ELSE outputs[k]
                        /\ change'[k] = IF k = g THEN change[g] \/ r.told ELSE change[k]
  BY <1>6 DEF Sound, GraphsTyped
<1>11. Moves(g, r.gone, g, {})
  <2>1. \A k \in Graph : IsInjective(store'[k])
    BY <1>4, <1>10 DEF Sound, NodesOwned, Owned
  <2>2. \A k \in Graph : ToSet(store'[k]) = Stored(k) \ (IF k = g THEN r.gone ELSE {})
    BY <1>4, <1>10 DEF Stored
  <2>3. \A k \in Graph : ToSet(inputs[k]) \cup ToSet(outputs[k]) \subseteq Stored(k)
    BY DEF Sound, NodesOwned, Owned, Stored
  <2>4. \A k \in Graph : ToSet(inputs'[k]) \cup ToSet(outputs'[k]) \subseteq Stored(k) \ (IF k = g THEN r.gone ELSE {})
    BY <1>5, <1>10, <2>3
  <2>5. \A e \in edges' : {e.src, e.dst} \subseteq Left(g, r.gone)
    BY <1>6 DEF Good
  <2>6. \A d, e \in edges' : IsData(d) /\ d.dst = e.dst /\ d.in = e.in => d = e
    BY <1>6 DEF Good
  <2>7. \A k, l \in Graph : k # l => Stored(k) \cap Stored(l) \subseteq shared'
    BY <1>6 DEF Sound, NodesOwned, Owned, Stored
  <2> QED BY <2>1, <2>2, <2>4, <2>5, <2>6, <2>7 DEF Moves
<1>12. NodesOwned'
  BY <1>1, <1>11, OwnedAfter
<1>13. OrderCurrent'
  <2> SUFFICES ASSUME NEW h \in Graph, ~change'[h], Stored(h)' \cap shared' = {}
               PROVE  /\ ~change[h] /\ store'[h] = store[h] /\ Stored(h) \cap shared = {}
                      /\ \A e \in edges' : e.dst \in Stored(h) => e \in edges
    BY OrderKept
  <2>0. store'[h] = store[h] => Stored(h) \cap shared = {}
    BY <1>6 DEF Stored
  <2>1. CASE h = g
    <3>1. ~r.told /\ ~change[h]
      BY <1>10, <2>1
    <3>2. r.gone = {} /\ r.edges \subseteq edges
      BY <3>1 DEF Good
    <3> QED BY <1>4, <1>6, <1>10, <2>0, <2>1, <3>1, <3>2
  <2>2. CASE h # g
    <3>0. store'[h] = store[h]
      BY <1>10, <2>2
    <3>1. Stored(h) \cap Stored(g) \subseteq shared
      BY <2>2 DEF Sound, NodesOwned, Owned, Stored
    <3>2. \A e \in r.edges \ edges : e.dst \in Stored(g)
      BY DEF Good
    <3>3. Stored(h) \cap Stored(g) = {}
      BY <2>0, <3>0, <3>1
    <3> QED BY <1>6, <1>10, <2>0, <2>2, <3>0, <3>2, <3>3
  <2> QED BY <2>1, <2>2
<1>14. shared' \subseteq Node
  BY <1>6 DEF Sound, GraphsTyped
<1> QED BY <1>7, <1>8, <1>9, <1>12, <1>13, <1>14 DEF Sound, GraphsTyped

-----------------------------------------------------------------------------
(* The calls *)

\* The call on graph g did r, and said so.
Did(g) ==
  \E r : /\ Good(g, r) /\ Commit(g, r)
         /\ \E op \in Calls, n \in Node \cup {None}, o \in BOOLEAN : Return(op, g, n, o)

LEMMA DidSound ==
  ASSUME Sound, NEW g \in Graph, Did(g)
  PROVE  Sound' /\ Said'
<1>1. PICK r : Good(g, r) /\ Commit(g, r)
  BY DEF Did
<1>2. Said'
  BY DEF Did, Return, Said
<1> QED BY <1>1, <1>2, CommitSound

LEMMA DidIt ==
  ASSUME NEW g, NEW r, Good(g, r), Commit(g, r),
         NEW op \in Calls, NEW n \in Node \cup {None}, Return(op, g, n, r.ok)
  PROVE  Did(g)
<1>1. r.ok \in BOOLEAN
  BY DEF Good, Results
<1> QED BY <1>1 DEF Did

LEMMA RemoveNodeDone ==
  ASSUME Sound, NEW g \in Graph, NEW n \in Node, RemoveNode(g, n)
  PROVE  Did(g)
<1>1. PICK r : /\ r = IF n \in Stored(g) THEN Removed(Same, n) ELSE Failed(Same)
               /\ Commit(g, r) /\ Return("remove", g, n, r.ok)
  BY DEF RemoveNode
<1>2. Good(g, Same)
  BY SameGood
<1>3. Good(g, r)
  BY <1>1, <1>2, RemovedGood, FailedGood
<1>4. "remove" \in Calls
  BY DEF Calls
<1> QED BY <1>1, <1>3, <1>4, DidIt

LEMMA RemoveNodesDone ==
  ASSUME Sound, NEW g \in Graph, NEW m \in Node, NEW n \in Node, RemoveNodes(g, m, n)
  PROVE  Did(g)
<1>1. PICK p, r : /\ p = Removed(Same, m) /\ r = IF n \in Stored(g) THEN Removed(p, n) ELSE p
                  /\ Commit(g, r) /\ Return("removeAll", g, None, TRUE)
  BY DEF RemoveNodes
<1>2. m \in Stored(g)
  BY DEF RemoveNodes
<1>3. Good(g, Same)
  BY SameGood
<1>4. Good(g, p)
  BY <1>1, <1>2, <1>3, RemovedGood
<1>5. Good(g, r)
  BY <1>1, <1>4, RemovedGood
<1>6. "removeAll" \in Calls
  BY DEF Calls
<1> QED BY <1>1, <1>5, <1>6 DEF Did

LEMMA RemoveNodeWithConstInputsDone ==
  ASSUME Sound, NEW g \in Graph, NEW n \in Node, RemoveNodeWithConstInputs(g, n)
  PROVE  Did(g)
<1>1. PICK q, r : /\ q = WithoutConsts(g, n) /\ r = IF q.ok THEN Removed(q, n) ELSE q
                  /\ Commit(g, r) /\ Return("remove", g, n, r.ok)
  BY DEF RemoveNodeWithConstInputs
<1>2. n \in Stored(g)
  BY DEF RemoveNodeWithConstInputs
<1>3. Good(g, q)
  BY <1>1, WithoutConstsGood
<1>4. Good(g, r)
  BY <1>1, <1>2, <1>3, RemovedGood
<1>5. "remove" \in Calls
  BY DEF Calls
<1> QED BY <1>1, <1>4, <1>5, DidIt

LEMMA EdgeCallDone ==
  ASSUME Sound, NEW g \in Graph, NEW s, s.op \in {"add", "ensure"} => s.edge \in Links, EdgeCall(g, s)
  PROVE  Did(g)
<1>1. PICK r : r = Step(g, Same, s) /\ Commit(g, r) /\ Return("edge", g, None, r.ok)
  BY DEF EdgeCall
<1>2. Good(g, r)
  BY <1>1, SameGood, StepGood
<1>3. "edge" \in Calls /\ None \in Node \cup {None}
  BY DEF Calls
<1> QED BY <1>1, <1>2, <1>3, DidIt

LEMMA EdgeCallsDone ==
  ASSUME Sound, NEW g \in Graph,
         \/ \E e \in Edge : AddEdge(g, e)
         \/ \E e \in edges : RemoveEdge(g, e) \/ RemoveEdgeOfEndpoints(g, e)
         \/ \E m, n \in Node : RemoveEdgeBetween(g, m, n)
  PROVE  Did(g)
<1>1. CASE \E e \in Edge : AddEdge(g, e)
  <2>0. PICK e \in Edge : AddEdge(g, e)
    BY <1>1
  <2>1. PICK s : s = Do("add", e) /\ EdgeCall(g, s)
    BY <2>0 DEF AddEdge
  <2>2. s.edge \in Links
    BY <2>1, GraphAssumption DEF Do
  <2> QED BY <2>1, <2>2, EdgeCallDone
<1>2. CASE \E e \in edges : RemoveEdge(g, e) \/ RemoveEdgeOfEndpoints(g, e)
  <2>1. PICK s, e : s \in {Do("del", e), Do("unlink", e)} /\ EdgeCall(g, s)
    BY <1>2 DEF RemoveEdge, RemoveEdgeOfEndpoints
  <2>2. s.op \notin {"add", "ensure"}
    BY <2>1 DEF Do
  <2> QED BY <2>1, <2>2, EdgeCallDone
<1>3. CASE \E m, n \in Node : RemoveEdgeBetween(g, m, n)
  <2>1. PICK s, e, d : s \in {Do("fail", e), Do("unlink", d)} /\ EdgeCall(g, s)
    BY <1>3 DEF RemoveEdgeBetween
  <2>2. s.op \notin {"add", "ensure"}
    BY <2>1 DEF Do
  <2> QED BY <2>1, <2>2, EdgeCallDone
<1> QED BY <1>1, <1>2, <1>3

LEMMA InsertBeforeDone ==
  ASSUME Sound, NEW g \in Graph, NEW target \in Node, NEW n \in Node, NEW idx \in Indices,
         InsertBefore(g, target, idx, n)
  PROVE  Did(g)
<1>1. PICK feeds, old, d, a, b, p, q, r :
        /\ feeds = {e \in InData(edges, target) : e.in = idx} /\ old = (CHOOSE e \in feeds : TRUE)
        /\ d = Do("unlink", old) /\ a = Do("add", Link(old.src, old.out, n, 0))
        /\ b = Do("add", Link(n, 0, target, idx))
        /\ p = Step(g, Same, d) /\ q = Step(g, p, a)
        /\ r = IF feeds = {} \/ ~HasSingleIdleInputAndSingleOutput(n) THEN Failed(Same) ELSE Step(g, q, b)
        /\ Commit(g, r) /\ Return("insert", g, n, r.ok)
  BY DEF InsertBefore
<1>2. Good(g, Same)
  BY SameGood
<1>3. "insert" \in Calls
  BY DEF Calls
<1>4. CASE r = Failed(Same)
  <2>1. Good(g, r)
    BY <1>2, <1>4, FailedGood
  <2> QED BY <1>1, <1>3, <2>1, DidIt
<1>5. CASE r # Failed(Same)
  <2>1. feeds # {} /\ r = Step(g, q, b)
    BY <1>1, <1>5
  <2>2. old \in feeds
    BY <1>1, <2>1
  <2>3. old \in Links
    BY <1>1, <2>2 DEF InData, Sound, GraphsTyped
  <2>4. d.op = "unlink" /\ a.edge \in Links /\ b.edge \in Links
    BY <1>1, <2>3 DEF Do, Link, Links, Indices
  <2>5. Good(g, p)
    BY <1>1, <1>2, <2>4, StepGood
  <2>6. Good(g, q)
    BY <1>1, <2>4, <2>5, StepGood
  <2>7. Good(g, r)
    BY <2>1, <2>4, <2>6, StepGood
  <2> QED BY <1>1, <1>3, <2>7, DidIt
<1> QED BY <1>4, <1>5

LEMMA InsertAfterDone ==
  ASSUME Sound, NEW g \in Graph, NEW target \in Node, NEW n \in Node, NEW idx \in Indices,
         InsertAfter(g, target, idx, n)
  PROVE  Did(g)
<1>1. PICK peers, a, q, r :
        /\ peers \in SetToSeqs({e \in OutData(edges, target) : e.out = idx})
        /\ q = RelinkAll(g, Same, n, peers) /\ a = Do("add", Link(target, idx, n, 0))
        /\ r = IF ~HasSingleIdleInputAndSingleOutput(n) THEN Failed(Same) ELSE Step(g, q, a)
        /\ Commit(g, r) /\ Return("insert", g, n, r.ok)
  BY DEF InsertAfter
<1>2. Good(g, Same)
  BY SameGood
<1>3. "insert" \in Calls
  BY DEF Calls
<1>4. peers \in Seq(Links)
  <2>1. PICK S : S = {e \in OutData(edges, target) : e.out = idx}
    OBVIOUS
  <2>2. S \subseteq edges /\ edges \in SUBSET Links /\ IsFiniteSet(edges)
    BY <2>1 DEF OutData, Sound, GraphsTyped
  <2>3. S \in SUBSET Links /\ IsFiniteSet(S)
    BY <2>2, FS_Subset
  <2>4. peers \in SetToSeqs(S)
    BY <1>1, <2>1
  <2> QED BY <2>3, <2>4, SeqsOf
<1>5. Good(g, q)
  BY <1>1, <1>2, <1>4, RelinkAllGood
<1>6. a.edge \in Links
  BY <1>1 DEF Do, Link, Links, Indices
<1>7. Good(g, Step(g, q, a))
  BY <1>5, <1>6, StepGood
<1>8. Good(g, r)
  BY <1>1, <1>2, <1>7, FailedGood
<1> QED BY <1>1, <1>3, <1>8, DidIt

LEMMA ByPassNodeDone ==
  ASSUME Sound, NEW g \in Graph, NEW n \in Node, ByPassNode(g, n)
  PROVE  Did(g)
<1>1. PICK r \in ByPassed(g, Same, n) : Commit(g, r) /\ Return("bypass", g, n, r.ok)
  BY DEF ByPassNode
<1>2. Good(g, r)
  BY SameGood, ByPassedGood
<1>3. "bypass" \in Calls
  BY DEF Calls
<1> QED BY <1>1, <1>2, <1>3, DidIt

LEMMA LegacyRemoveNodeDone ==
  ASSUME Sound, NEW g \in Graph, NEW n \in Node, LegacyRemoveNode(g, n)
  PROVE  Did(g)
<1>1. PICK q, r : /\ q = WithoutConsts(g, n)
                  /\ r \in IF ~q.ok \/ n \notin Stored(g) THEN {Failed(q)}
                           ELSE IF PreCheck(g, q.edges, n) THEN ByPassed(g, q, n)
                           ELSE {Removed(q, n)}
                  /\ Commit(g, r) /\ Return("remove", g, n, r.ok)
  BY DEF LegacyRemoveNode
<1>2. Good(g, q)
  BY <1>1, WithoutConstsGood
<1>3. Good(g, r)
  <2>1. CASE r = Failed(q)
    BY <1>2, <2>1, FailedGood
  <2>2. CASE r \in ByPassed(g, q, n)
    BY <1>2, <2>2, ByPassedGood
  <2>3. CASE r = Removed(q, n) /\ n \in Stored(g)
    BY <1>2, <2>3, RemovedGood
  <2> QED BY <1>1, <2>1, <2>2, <2>3
<1>4. "remove" \in Calls
  BY DEF Calls
<1> QED BY <1>1, <1>3, <1>4, DidIt

-----------------------------------------------------------------------------
(* What a node reads from *)

\* The nodes that can be reached up in one step.
Above(E, T) == {e.src : e \in {d \in E : d.dst \in T}}

Growth(up, n, E, S) ==
  /\ up[0] = S /\ up[n] = Upstream(E, S)
  /\ \A k \in 1 .. n : up[k] = up[k - 1] \cup Above(E, up[k - 1])

LEMMA UpstreamSteps ==
  ASSUME NEW E \in SUBSET Links, NEW S \in SUBSET Node, NEW n, n = Cardinality(Node)
  PROVE  \E up \in [0 .. n -> SUBSET Node] : Growth(up, n, E, S)
<1>1. n \in Nat
  BY GraphAssumption, FS_CardinalityType
<1> DEFINE f == [T \in SUBSET Node |-> T \cup Above(E, T)]
           Is(up) == up = [k \in 0 .. n |-> IF k = 0 THEN S
                                            ELSE LET T == up[k - 1]
                                                 IN  T \cup {e.src : e \in {d \in E : d.dst \in T}}]
<1>2. f \in [SUBSET Node -> SUBSET Node]
  BY DEF Above, Links
<1>3. PICK q \in [0 .. n -> SUBSET Node] : Recursion(q, n, S, f)
  <2> HIDE DEF f
  <2> QED BY <1>1, <1>2, RecursionExists
<1>4. q[0] = S /\ \A k \in 1 .. n : q[k] = q[k - 1] \cup Above(E, q[k - 1])
  <2>1. ASSUME NEW k \in 1 .. n
        PROVE  q[k] = q[k - 1] \cup Above(E, q[k - 1])
    <3>1. q[k - 1] \in SUBSET Node
      BY <1>1
    <3>2. q[k] = f[q[k - 1]]
      BY <1>3 DEF Recursion
    <3> QED BY <3>1, <3>2
  <2> QED BY <1>3, <2>1 DEF Recursion
<1>5. Is(q)
  <2>1. \A k \in 0 .. n : k # 0 => k \in 1 .. n
    BY <1>1
  <2> QED BY <1>4, <2>1 DEF Above
<1> DEFINE it == CHOOSE up : Is(up)
<1>6. Is(it)
  BY <1>5
<1>7. Upstream(E, S) = it[n]
  BY <1>1 DEF Upstream
<1>8. it[0] = S /\ \A k \in 1 .. n : it[k] = it[k - 1] \cup Above(E, it[k - 1])
  <2> HIDE DEF it
  <2>1. 0 \in 0 .. n /\ \A k \in 1 .. n : k \in 0 .. n /\ k # 0
    BY <1>1
  <2> QED BY <1>6, <2>1 DEF Above
<1>9. it = [k \in 0 .. n |-> it[k]]
  <2> HIDE DEF it
  <2> QED BY <1>6
<1> HIDE DEF it, Is
<1> DEFINE U == {k \in Nat : k <= n => it[k] \in SUBSET Node}
<1>10. 0 \in U
  BY <1>8
<1>11. ASSUME NEW k \in Nat, k \in U
       PROVE  k + 1 \in U
  <2> SUFFICES ASSUME k + 1 <= n PROVE it[k + 1] \in SUBSET Node
    OBVIOUS
  <2>1. k <= n /\ k + 1 \in 1 .. n /\ k + 1 - 1 = k
    BY <1>1
  <2>2. it[k + 1] = it[k] \cup Above(E, it[k])
    BY <1>8, <2>1
  <2>3. it[k] \in SUBSET Node
    BY <1>11, <2>1
  <2> QED BY <2>2, <2>3 DEF Above, Links
<1>12. \A k \in Nat : k \in U
  <2> HIDE DEF U
  <2> QED BY <1>10, <1>11, Everywhere
<1>13. it \in [0 .. n -> SUBSET Node]
  <2>1. \A k \in 0 .. n : it[k] \in SUBSET Node
    BY <1>1, <1>12
  <2> QED BY <1>9, <2>1
<1> QED BY <1>7, <1>8, <1>13 DEF Growth

\* Upstream holds the nodes it starts with, and lies in any set that holds them
\* and what its nodes read from.
LEMMA UpstreamLeast ==
  ASSUME NEW E \in SUBSET Links, NEW S \in SUBSET Node
  PROVE  /\ S \subseteq Upstream(E, S) /\ Upstream(E, S) \subseteq Node
         /\ \A T : S \subseteq T /\ Above(E, T) \subseteq T => Upstream(E, S) \subseteq T
<1>1. PICK n \in Nat : n = Cardinality(Node)
  BY GraphAssumption, FS_CardinalityType
<1>2. PICK up \in [0 .. n -> SUBSET Node] : Growth(up, n, E, S)
  BY <1>1, UpstreamSteps
<1>3. /\ up[0] = S /\ up[n] = Upstream(E, S)
      /\ \A k \in 1 .. n : up[k] = up[k - 1] \cup Above(E, up[k - 1])
  BY <1>2 DEF Growth
<1>4. Upstream(E, S) \subseteq Node
  BY <1>1, <1>3
<1>5. ASSUME NEW T, S \subseteq T, Above(E, T) \subseteq T
      PROVE  S \subseteq up[n] /\ up[n] \subseteq T
  <2> DEFINE U == {k \in Nat : k <= n => S \subseteq up[k] /\ up[k] \subseteq T}
  <2>1. 0 \in U
    BY <1>3, <1>5
  <2>2. ASSUME NEW k \in Nat, k \in U
        PROVE  k + 1 \in U
    <3> SUFFICES ASSUME k + 1 <= n PROVE S \subseteq up[k + 1] /\ up[k + 1] \subseteq T
      OBVIOUS
    <3>1. k + 1 \in 1 .. n /\ k <= n /\ k + 1 - 1 = k
      OBVIOUS
    <3>2. up[k + 1] = up[k] \cup Above(E, up[k])
      BY <1>3, <3>1
    <3>3. S \subseteq up[k] /\ up[k] \subseteq T
      BY <2>2, <3>1
    <3>4. Above(E, up[k]) \subseteq Above(E, T)
      BY <3>3 DEF Above
    <3> QED BY <1>5, <3>2, <3>3, <3>4
  <2>3. n \in U
    <3> HIDE DEF U
    <3> QED BY <2>1, <2>2, Everywhere
  <2> QED BY <2>3
<1>6. S \subseteq Node /\ Above(E, Node) \subseteq Node
  BY DEF Above, Links
<1> QED BY <1>3, <1>4, <1>5, <1>6

\* It holds what its nodes read from: a set of nodes cannot grow more often than
\* there are nodes.
LEMMA UpstreamClosed ==
  ASSUME NEW E \in SUBSET Links, NEW S \in SUBSET Node
  PROVE  Above(E, Upstream(E, S)) \subseteq Upstream(E, S)
<1>1. PICK n \in Nat : n = Cardinality(Node)
  BY GraphAssumption, FS_CardinalityType
<1>2. PICK up \in [0 .. n -> SUBSET Node] : Growth(up, n, E, S)
  BY <1>1, UpstreamSteps
<1>3. /\ up[0] = S /\ up[n] = Upstream(E, S)
      /\ \A k \in 1 .. n : up[k] = up[k - 1] \cup Above(E, up[k - 1])
  BY <1>2 DEF Growth
<1> DEFINE U == {k \in Nat : k <= n => Above(E, up[k]) \subseteq up[k] \/ k <= Cardinality(up[k])}
<1>4. \A T \in SUBSET Node : IsFiniteSet(T) /\ Cardinality(T) \in Nat
  BY GraphAssumption, FS_Subset, FS_CardinalityType
<1>5. 0 \in U
  BY <1>3, <1>4
<1>6. ASSUME NEW k \in Nat, k \in U
      PROVE  k + 1 \in U
  <2> SUFFICES ASSUME k + 1 <= n, ~ (Above(E, up[k + 1]) \subseteq up[k + 1])
               PROVE  k + 1 <= Cardinality(up[k + 1])
    OBVIOUS
  <2>1. k + 1 \in 1 .. n /\ k \in 0 .. n /\ k + 1 \in 0 .. n /\ k <= n /\ k + 1 - 1 = k
    OBVIOUS
  <2>2. up[k + 1] = up[k] \cup Above(E, up[k])
    BY <1>3, <2>1
  <2>3. ~ (Above(E, up[k]) \subseteq up[k])
    <3>1. Above(E, up[k]) \subseteq up[k] => up[k + 1] = up[k]
      BY <2>2
    <3> QED BY <3>1
  <2>4. k <= Cardinality(up[k])
    BY <1>6, <2>1, <2>3
  <2>5. PICK A, B : A = up[k] /\ B = up[k + 1]
    OBVIOUS
  <2>6. A \in SUBSET Node /\ B \in SUBSET Node /\ A \subseteq B /\ A # B
    BY <2>1, <2>2, <2>3, <2>5
  <2>7. Cardinality(A) < Cardinality(B)
    <3>1. Cardinality(A) <= Cardinality(B) /\ (Cardinality(A) = Cardinality(B) => A = B)
      BY <1>4, <2>6, FS_Subset
    <3> QED BY <1>4, <2>6, <3>1
  <2> QED BY <1>4, <2>4, <2>5, <2>6, <2>7
<1>7. n \in U
  <2> HIDE DEF U
  <2> QED BY <1>5, <1>6, Everywhere
<1>8. CASE Above(E, up[n]) \subseteq up[n]
  BY <1>3, <1>8
<1>9. CASE ~ (Above(E, up[n]) \subseteq up[n])
  <2>1. n <= Cardinality(up[n]) /\ up[n] \in SUBSET Node
    BY <1>7, <1>9
  <2>2. PICK A \in SUBSET Node : A = up[n]
    BY <2>1
  <2>3. Cardinality(A) <= Cardinality(Node) /\ (Cardinality(A) = Cardinality(Node) => A = Node)
    BY GraphAssumption, FS_Subset
  <2>4. up[n] = Node
    BY <1>1, <1>4, <2>1, <2>2, <2>3
  <2>5. Above(E, Node) \subseteq Node
    BY DEF Above, Links
  <2> QED BY <1>9, <2>4, <2>5
<1> QED BY <1>8, <1>9

-----------------------------------------------------------------------------
(* Nodes that come and move *)

LEMMA NodeAppended ==
  ASSUME NEW s \in Seq(Node), NEW n \in Node, NEW t, t = Append(s, n),
         IsInjective(s), n \notin ToSet(s)
  PROVE  t \in Seq(Node) /\ ToSet(t) = ToSet(s) \cup {n} /\ IsInjective(t)
<1>1. /\ Len(s) \in Nat /\ Len(t) = Len(s) + 1 /\ t \in Seq(Node)
      /\ \A i \in 1 .. Len(s) : t[i] = s[i]
      /\ t[Len(s) + 1] = n
  BY AppendProperties, LenProperties
<1>2. DOMAIN s = 1 .. Len(s) /\ DOMAIN t = 1 .. Len(s) \cup {Len(s) + 1}
  <2>1. DOMAIN t = 1 .. Len(t) /\ DOMAIN s = 1 .. Len(s)
    BY <1>1, LenProperties
  <2> QED BY <1>1, <2>1
<1>3. ToSet(t) = ToSet(s) \cup {n}
  BY <1>1, <1>2 DEF ToSet
<1>4. IsInjective(t)
  BY <1>1, <1>2 DEF ToSet, IsInjective
<1> QED BY <1>1, <1>3, <1>4

\* What all the graphs keep in common.
LEMMA SoundParts ==
  ASSUME Sound
  PROVE  /\ \A k \in Graph : store[k] \in Seq(Node) /\ inputs[k] \in Seq(Node) /\ outputs[k] \in Seq(Node)
         /\ \A k \in Graph : IsInjective(store[k])
         /\ \A k \in Graph : ToSet(inputs[k]) \cup ToSet(outputs[k]) \subseteq Stored(k)
         /\ \A k, l \in Graph : k # l => Stored(k) \cap Stored(l) \subseteq shared
         /\ \A k \in Graph : Stored(k) \subseteq Node /\ Stored(k) \subseteq AllStored
         /\ \A e \in edges : e \in Links /\ {e.src, e.dst} \subseteq AllStored
         /\ \A d, e \in edges : IsData(d) /\ d.dst = e.dst /\ d.in = e.in => d = e
<1>1. \A k \in Graph : store[k] \in Seq(Node) /\ inputs[k] \in Seq(Node) /\ outputs[k] \in Seq(Node)
  BY DEF Sound, GraphsTyped
<1>2. \A k \in Graph : Stored(k) \subseteq Node /\ Stored(k) \subseteq AllStored
  BY StoredIn DEF Sound
<1>3. \A e \in edges : {e.src, e.dst} \subseteq AllStored
  BY DEF Sound, NodesOwned, Owned, AllStored, Stored
<1>4. edges \subseteq Links
  BY DEF Sound, GraphsTyped
<1>5. /\ \A k \in Graph : IsInjective(store[k])
      /\ \A k \in Graph : ToSet(inputs[k]) \cup ToSet(outputs[k]) \subseteq Stored(k)
      /\ \A k, l \in Graph : k # l => Stored(k) \cap Stored(l) \subseteq shared
      /\ \A d, e \in edges : IsData(d) /\ d.dst = e.dst /\ d.in = e.in => d = e
  BY DEF Sound, NodesOwned, Owned, Stored
<1> QED BY <1>1, <1>2, <1>3, <1>4, <1>5

\* What is shared after a node was put into one graph more.
SharedWith(n) == IF n \in AllStored THEN shared \cup {n} ELSE shared \ {n}

\* A list s with one node more makes the graph larger.
LEMMA Entered ==
  ASSUME Sound, NEW g \in Graph, NEW n \in Node \ Stored(g), NEW s \in Seq(Node),
         ToSet(s) = Stored(g) \cup {n}, IsInjective(s),
         store' = [store EXCEPT ![g] = s], change' = [change EXCEPT ![g] = TRUE],
         shared' = SharedWith(n), UNCHANGED <<inputs, outputs, edges>>
  PROVE  Sound'
<1>1. \A k \in Graph : store'[k] = IF k = g THEN s ELSE store[k]
  BY DEF Sound, GraphsTyped
<1>2. \A k \in Graph : change'[k] = IF k = g THEN TRUE ELSE change[k]
  BY DEF Sound, GraphsTyped
<1>3. GraphsTyped'
  <2>1. store' \in [Graph -> Seq(Node)]
    BY DEF Sound, GraphsTyped
  <2>2. change' \in [Graph -> BOOLEAN]
    BY DEF Sound, GraphsTyped
  <2>3. shared' \subseteq Node
    BY DEF Sound, GraphsTyped, SharedWith
  <2> QED BY <2>1, <2>2, <2>3 DEF Sound, GraphsTyped
<1>4. Moves(g, {}, g, {n})
  <2>1. {n} \cap Left(g, {}) \subseteq shared'
    BY LeftAre DEF SharedWith
  <2>2. \A k \in Graph : IsInjective(store'[k])
    BY <1>1, SoundParts
  <2>3. \A k \in Graph : ToSet(store'[k]) = (Stored(k) \ (IF k = g THEN {} ELSE {})) \cup (IF k = g THEN {n} ELSE {})
    BY <1>1 DEF Stored
  <2>4. \A k \in Graph : ToSet(inputs'[k]) \cup ToSet(outputs'[k]) \subseteq Stored(k) \ (IF k = g THEN {} ELSE {})
    BY SoundParts
  <2>5. \A e \in edges' : {e.src, e.dst} \subseteq Left(g, {}) \cup {n}
    BY SoundParts, LeftAre
  <2>6. \A d, e \in edges' : IsData(d) /\ d.dst = e.dst /\ d.in = e.in => d = e
    BY SoundParts
  <2>7. \A k, l \in Graph : k # l => (Stored(k) \cap Stored(l)) \ {n} \subseteq shared'
    BY SoundParts DEF SharedWith
  <2> QED BY <2>1, <2>2, <2>3, <2>4, <2>5, <2>6, <2>7 DEF Moves
<1>5. NodesOwned'
  <2>1. {} \in SUBSET Stored(g)
    OBVIOUS
  <2> QED BY <1>4, <2>1, OwnedAfter
<1>6. OrderCurrent'
  <2> SUFFICES ASSUME NEW h \in Graph, ~change'[h], Stored(h)' \cap shared' = {}
               PROVE  /\ ~change[h] /\ store'[h] = store[h] /\ Stored(h) \cap shared = {}
                      /\ \A e \in edges' : e.dst \in Stored(h) => e \in edges
    BY OrderKept
  <2>1. ~change[h] /\ store'[h] = store[h]
    BY <1>1, <1>2
  <2>2. Stored(h)' = Stored(h) /\ (n \notin AllStored => n \notin Stored(h))
    BY <2>1 DEF Stored, AllStored
  <2>3. Stored(h) \cap shared = {}
    BY <2>2 DEF SharedWith
  <2> QED BY <2>1, <2>3
<1> QED BY <1>3, <1>5, <1>6 DEF Sound

LEMMA AddNodeSound ==
  ASSUME Sound, NEW g \in Graph, NEW n \in Node, AddNode(g, n) \/ AddNodeFront(g, n)
  PROVE  Sound' /\ Said'
<1>1. PICK old : old = store[g] /\ old \in Seq(Node) /\ IsInjective(old) /\ ToSet(old) = Stored(g)
  BY SoundParts DEF Stored
<1>2. n \in Node \ Stored(g) /\ shared' = SharedWith(n)
  BY SoundParts DEF AddNode, AddNodeFront, SharedWith
<1>3. PICK s : /\ s = Append(old, n) \/ \E i \in 1 .. Len(old) + 1 : s = InsertAt(old, i, n)
               /\ store' = [store EXCEPT ![g] = s] /\ change' = [change EXCEPT ![g] = TRUE]
  <2>1. CASE AddNode(g, n)
    BY <1>1, <2>1 DEF AddNode
  <2>2. CASE AddNodeFront(g, n)
    <3>1. PICK offset : /\ offset = IF store[g] # <<>> /\ Kind[Head(store[g])] = "Data" THEN 1 ELSE 0
                        /\ store' = [store EXCEPT ![g] = InsertAt(store[g], offset + 1, n)]
                        /\ change' = [change EXCEPT ![g] = TRUE]
      BY <2>2 DEF AddNodeFront
    <3>2. offset + 1 \in 1 .. Len(old) + 1
      <4>1. Len(old) \in Nat /\ (old # <<>> => Len(old) # 0)
        BY <1>1, EmptySeq, LenProperties
      <4> QED BY <1>1, <3>1, <4>1
    <3> QED BY <1>1, <3>1, <3>2
  <2> QED BY <2>1, <2>2
<1>4. s \in Seq(Node) /\ ToSet(s) = Stored(g) \cup {n} /\ IsInjective(s)
  <2>1. CASE s = Append(old, n)
    <3>1. n \in Node /\ n \notin ToSet(old)
      BY <1>1, <1>2
    <3>2. s \in Seq(Node) /\ ToSet(s) = ToSet(old) \cup {n} /\ IsInjective(s)
      BY <1>1, <2>1, <3>1, NodeAppended
    <3> QED BY <1>1, <3>2
  <2>2. CASE \E i \in 1 .. Len(old) + 1 : s = InsertAt(old, i, n)
    <3>1. PICK i \in 1 .. Len(old) + 1 : s = InsertAt(old, i, n)
      BY <2>2
    <3> QED BY <1>1, <1>2, <3>1, InsertedList
  <2> QED BY <1>3, <2>1, <2>2
<1>5. Sound'
  BY <1>2, <1>3, <1>4, Entered DEF AddNode, AddNodeFront
<1>6. Said'
  <2>1. Return("add", g, n, TRUE)
    BY DEF AddNode, AddNodeFront
  <2> QED BY <2>1 DEF Return, Said, Calls
<1> QED BY <1>5, <1>6

\* Nodes leave graph h, where the lists of inputs and outputs lose them, and one of
\* them may come to graph g.
Moving(g, h, gone, s, come, told, got) ==
  /\ g # h /\ gone \subseteq Stored(h) /\ come \subseteq gone /\ {told, got} \subseteq BOOLEAN
  /\ s \in Seq(Node) /\ ToSet(s) = Stored(g) \cup come /\ IsInjective(s)
  /\ (come = {} => s = store[g]) /\ (~got => come = {})
  /\ ~told => gone = {} /\ edges' \subseteq edges
  /\ store' = [store EXCEPT ![h] = Without(store[h], gone), ![g] = s]
  /\ inputs' = [inputs EXCEPT ![h] = Erase(inputs[h], gone)]
  /\ outputs' = [outputs EXCEPT ![h] = Erase(outputs[h], gone)]
  /\ change' = [change EXCEPT ![h] = change[h] \/ told, ![g] = change[g] \/ got]
  /\ shared' = shared
  /\ edges' \subseteq Links /\ IsFiniteSet(edges') /\ \A e \in edges' : Anchored(e)
  /\ \A e \in edges' : {e.src, e.dst} \subseteq Left(h, gone) \cup come
  /\ \A d, e \in edges' : IsData(d) /\ d.dst = e.dst /\ d.in = e.in => d = e
  /\ \A e \in edges' \ edges : {e.src, e.dst} \subseteq Stored(h)

LEMMA Moved ==
  ASSUME Sound, NEW g \in Graph, NEW h \in Graph, NEW gone, NEW s, NEW come, NEW told, NEW got,
         Moving(g, h, gone, s, come, told, got)
  PROVE  Sound'
<1>1. /\ g # h /\ gone \subseteq Stored(h) /\ come \subseteq gone /\ told \in BOOLEAN /\ got \in BOOLEAN
      /\ s \in Seq(Node) /\ ToSet(s) = Stored(g) \cup come /\ IsInjective(s)
      /\ (come = {} => s = store[g]) /\ (~got => come = {})
      /\ ~told => gone = {} /\ edges' \subseteq edges
  BY DEF Moving
<1>2. PICK a, i, o : a = Without(store[h], gone) /\ i = Erase(inputs[h], gone) /\ o = Erase(outputs[h], gone)
  OBVIOUS
<1>3. /\ a \in Seq(Node) /\ ToSet(a) = Stored(h) \ gone /\ IsInjective(a)
      /\ gone = {} => a = store[h]
  <2>1. PICK old : old = store[h] /\ old \in Seq(Node) /\ IsInjective(old)
    BY SoundParts
  <2>2. /\ a \in Seq(Node) /\ ToSet(a) = ToSet(old) \ gone
        /\ gone = {} => a = old
        /\ IsInjective(old) => IsInjective(a)
    BY <1>2, <2>1, WithoutList
  <2> QED BY <2>1, <2>2 DEF Stored
<1>4. /\ i \in Seq(Node) /\ ToSet(i) = ToSet(inputs[h]) \ gone
      /\ o \in Seq(Node) /\ ToSet(o) = ToSet(outputs[h]) \ gone
  <2>1. PICK b, c : b = inputs[h] /\ b \in Seq(Node) /\ c = outputs[h] /\ c \in Seq(Node)
    BY SoundParts
  <2>2. i \in Seq(Node) /\ ToSet(i) = ToSet(b) \ gone
    BY <1>2, <2>1, ErasedList
  <2>3. o \in Seq(Node) /\ ToSet(o) = ToSet(c) \ gone
    BY <1>2, <2>1, ErasedList
  <2> QED BY <2>1, <2>2, <2>3
<1>5. \A k \in Graph : store'[k] = IF k = g THEN s ELSE IF k = h THEN a ELSE store[k]
  BY <1>2 DEF Moving, Sound, GraphsTyped
<1>6. \A k \in Graph : /\ inputs'[k] = IF k = h THEN i ELSE inputs[k]
                       /\ outputs'[k] = IF k = h THEN o ELSE outputs[k]
  BY <1>2 DEF Moving, Sound, GraphsTyped
<1>7. \A k \in Graph : change'[k] = IF k = g THEN change[g] \/ got ELSE IF k = h THEN change[h] \/ told ELSE change[k]
  BY <1>1 DEF Moving, Sound, GraphsTyped
<1>8. GraphsTyped'
  <2>1. store' \in [Graph -> Seq(Node)]
    BY <1>1, <1>2, <1>3 DEF Moving, Sound, GraphsTyped
  <2>2. inputs' \in [Graph -> Seq(Node)] /\ outputs' \in [Graph -> Seq(Node)]
    BY <1>2, <1>4 DEF Moving, Sound, GraphsTyped
  <2>3. change' \in [Graph -> BOOLEAN]
    BY <1>1 DEF Moving, Sound, GraphsTyped
  <2> QED BY <2>1, <2>2, <2>3 DEF Moving, Sound, GraphsTyped
<1>9. Moves(h, gone, g, come)
  <2>1. come \cap Left(h, gone) \subseteq shared'
    <3>1. ASSUME NEW n \in come \cap Left(h, gone)
          PROVE  n \in shared
      <4>1. PICK k \in Graph : n \in Stored(k) /\ (k = h => n \notin gone)
        BY <3>1, LeftAre
      <4>2. k # h /\ n \in Stored(h)
        BY <1>1, <3>1, <4>1
      <4> QED BY <4>1, <4>2, SoundParts
    <3> QED BY <3>1 DEF Moving
  <2>2. \A k \in Graph : IsInjective(store'[k])
    BY <1>1, <1>3, <1>5, SoundParts
  <2>3. \A k \in Graph : ToSet(store'[k]) = (Stored(k) \ (IF k = h THEN gone ELSE {})) \cup (IF k = g THEN come ELSE {})
    BY <1>1, <1>3, <1>5 DEF Stored
  <2>4. \A k \in Graph : ToSet(inputs'[k]) \cup ToSet(outputs'[k]) \subseteq Stored(k) \ (IF k = h THEN gone ELSE {})
    BY <1>4, <1>6, SoundParts
  <2>5. \A k, l \in Graph : k # l => (Stored(k) \cap Stored(l)) \ come \subseteq shared'
    BY SoundParts DEF Moving
  <2> QED BY <2>1, <2>2, <2>3, <2>4, <2>5 DEF Moves, Moving
<1>10. NodesOwned'
  BY <1>1, <1>9, OwnedAfter
<1>11. OrderCurrent'
  <2> SUFFICES ASSUME NEW k \in Graph, ~change'[k], Stored(k)' \cap shared' = {}
               PROVE  /\ ~change[k] /\ store'[k] = store[k] /\ Stored(k) \cap shared = {}
                      /\ \A e \in edges' : e.dst \in Stored(k) => e \in edges
    BY OrderKept
  <2>1. ~change[k] /\ store'[k] = store[k]
    BY <1>1, <1>3, <1>5, <1>7
  <2>0. Stored(k) \cap shared = {}
    BY <2>1 DEF Stored, Moving
  <2>2. CASE k = h
    BY <1>1, <1>7, <2>0, <2>1, <2>2
  <2>3. CASE k # h
    <3>1. Stored(k) \cap Stored(h) \subseteq shared
      BY <2>3, SoundParts
    <3>2. \A e \in edges' \ edges : e.dst \in Stored(h)
      BY DEF Moving
    <3> QED BY <2>0, <2>1, <3>1, <3>2
  <2> QED BY <2>1, <2>2, <2>3
<1> QED BY <1>8, <1>10, <1>11 DEF Sound

LEMMA MoveNodeFromSound ==
  ASSUME Sound, NEW g \in Graph, NEW h \in Graph, NEW n \in Node, MoveNodeFrom(g, h, n)
  PROVE  Sound' /\ Said'
<1>1. g # h /\ n \in Stored(h) /\ n \notin Stored(g) /\ shared' = shared
  BY DEF MoveNodeFrom
<1>2. PICK r \in ByPassed(h, Same, n) :
       /\ inputs' = [inputs EXCEPT ![h] = Erase(inputs[h], r.gone)]
       /\ outputs' = [outputs EXCEPT ![h] = Erase(outputs[h], r.gone)]
       /\ edges' = r.edges
       /\ store' = [store EXCEPT ![h] = Without(store[h], r.gone),
                                 ![g] = IF r.ok THEN Append(store[g], n) ELSE store[g]]
       /\ change' = [change EXCEPT ![h] = change[h] \/ r.told, ![g] = change[g] \/ r.ok]
       /\ Return("bypass", g, n, r.ok)
  BY <1>1 DEF MoveNodeFrom
<1>3. Good(h, r) /\ (r.ok => r.gone = {n})
  <2>1. Good(h, Same) /\ Same.gone = {}
    BY SameGood DEF Same
  <2> QED BY <2>1, ByPassedGood
<1>4. r \in Results
  BY <1>3 DEF Good
<1>5. PICK s, old, come, gone, told, got :
        /\ old = store[g] /\ s = IF r.ok THEN Append(old, n) ELSE old
        /\ come = (IF r.ok THEN {n} ELSE {}) /\ gone = r.gone /\ told = r.told /\ got = r.ok
  OBVIOUS
<1>6. /\ old \in Seq(Node) /\ IsInjective(old) /\ ToSet(old) = Stored(g)
      /\ n \notin Stored(g)
  BY <1>1, <1>5, SoundParts DEF Stored
<1>7. s \in Seq(Node) /\ ToSet(s) = Stored(g) \cup come /\ IsInjective(s) /\ (come = {} => s = store[g])
  <2>1. CASE r.ok
    <3>1. s = Append(old, n) /\ come = {n}
      BY <1>5, <2>1
    <3>2. n \notin ToSet(old)
      BY <1>6
    <3>3. s \in Seq(Node) /\ ToSet(s) = ToSet(old) \cup {n} /\ IsInjective(s)
      BY <1>6, <3>1, <3>2, NodeAppended
    <3> QED BY <1>6, <3>1, <3>3
  <2>2. CASE ~r.ok
    BY <1>5, <1>6, <2>2
  <2> QED BY <2>1, <2>2
<1>8. gone \in SUBSET Stored(h) /\ come \in SUBSET gone /\ told \in BOOLEAN /\ got \in BOOLEAN
  BY <1>3, <1>4, <1>5 DEF Good, Results
<1>9. (~told => gone = {}) /\ (~got => come = {})
  BY <1>3, <1>5 DEF Good
<1>10. /\ store' = [store EXCEPT ![h] = Without(store[h], gone), ![g] = s]
       /\ inputs' = [inputs EXCEPT ![h] = Erase(inputs[h], gone)]
       /\ outputs' = [outputs EXCEPT ![h] = Erase(outputs[h], gone)]
       /\ change' = [change EXCEPT ![h] = change[h] \/ told, ![g] = change[g] \/ got]
  BY <1>2, <1>5
<1>11. /\ edges' \subseteq Links /\ IsFiniteSet(edges') /\ \A e \in edges' : Anchored(e)
       /\ \A e \in edges' : {e.src, e.dst} \subseteq Left(h, gone) \cup come
       /\ \A d, e \in edges' : IsData(d) /\ d.dst = e.dst /\ d.in = e.in => d = e
       /\ ~told => edges' \subseteq edges
       /\ \A e \in edges' \ edges : {e.src, e.dst} \subseteq Stored(h)
  BY <1>2, <1>3, <1>4, <1>5 DEF Good, Results
<1>12. Sound'
  <2>1. Moving(g, h, gone, s, come, told, got)
    BY <1>1, <1>7, <1>8, <1>9, <1>10, <1>11 DEF Moving
  <2> QED BY <2>1, Moved
<1>13. Said'
  BY <1>2, <1>4 DEF Return, Said, Calls, Results
<1> QED BY <1>12, <1>13

LEMMA MoveNodeSound ==
  ASSUME Sound, NEW g \in Graph, NEW h \in Graph, NEW n \in Node, MoveNode(g, h, n)
  PROVE  Sound' /\ Said'
<1>1. g # h /\ n \in Stored(g) /\ shared' = shared
  BY DEF MoveNode
<1>2. PICK old, s, gone, come, told, got :
        /\ got = (n \notin Stored(h)) /\ told = TRUE /\ gone = {n}
        /\ come = (IF got THEN {n} ELSE {})
        /\ old = store[h] /\ s = IF got THEN Append(old, n) ELSE old
  OBVIOUS
<1>3. old \in Seq(Node) /\ IsInjective(old) /\ ToSet(old) = Stored(h)
  BY <1>2, SoundParts DEF Stored
<1>4. /\ s \in Seq(Node) /\ ToSet(s) = Stored(h) \cup come /\ IsInjective(s)
      /\ come = {} => s = store[h]
  <2>1. CASE got
    <3>1. n \notin ToSet(old) /\ s = Append(old, n) /\ come = {n}
      BY <1>2, <1>3, <2>1
    <3>2. s \in Seq(Node) /\ ToSet(s) = ToSet(old) \cup {n} /\ IsInjective(s)
      BY <1>3, <3>1, NodeAppended
    <3> QED BY <1>3, <3>1, <3>2
  <2>2. CASE ~got
    BY <1>2, <1>3, <2>2
  <2> QED BY <1>2, <2>1, <2>2
<1>5. /\ got \in BOOLEAN /\ told \in BOOLEAN /\ told
      /\ gone \in SUBSET Stored(g) /\ gone # {} /\ come \in SUBSET gone
  BY <1>1, <1>2
<1>6. /\ store' = [store EXCEPT ![g] = Without(store[g], gone), ![h] = s]
      /\ inputs' = [inputs EXCEPT ![g] = Erase(inputs[g], gone)]
      /\ outputs' = [outputs EXCEPT ![g] = Erase(outputs[g], gone)]
      /\ change' = [change EXCEPT ![g] = change[g] \/ told, ![h] = change[h] \/ got]
      /\ edges' = edges
  <2>1. change' = [change EXCEPT ![g] = TRUE, ![h] = change[h] \/ got]
    BY <1>1, <1>2 DEF MoveNode
  <2>2. (change[g] \/ told) = TRUE
    BY <1>2
  <2>3. change' = [change EXCEPT ![g] = change[g] \/ told, ![h] = change[h] \/ got]
    BY <2>1, <2>2
  <2>4. store' = [store EXCEPT ![g] = Without(store[g], {n}), ![h] = IF got THEN Append(store[h], n) ELSE store[h]]
    BY <1>1, <1>2 DEF MoveNode
  <2> QED BY <1>1, <1>2, <2>3, <2>4 DEF MoveNode
<1>7. /\ edges' \subseteq Links /\ IsFiniteSet(edges') /\ \A e \in edges' : Anchored(e)
      /\ \A e \in edges' : {e.src, e.dst} \subseteq Left(g, gone) \cup come
      /\ \A d, e \in edges' : IsData(d) /\ d.dst = e.dst /\ d.in = e.in => d = e
      /\ edges' \subseteq edges
      /\ \A e \in edges' \ edges : {e.src, e.dst} \subseteq Stored(g)
  <2>1. \A e \in edges' : {e.src, e.dst} \subseteq AllStored
    BY <1>6, SoundParts
  <2>2. AllStored \subseteq Left(g, gone) \cup come
    <3>1. CASE got
      <4>1. gone = {n} /\ come = {n}
        BY <1>2, <3>1
      <4>2. \A x : x \in AllStored => \E k \in Graph : x \in Stored(k)
        BY DEF AllStored
      <4>3. \A x \in AllStored : x # n => x \in Left(g, gone)
        BY <4>1, <4>2, LeftAre
      <4> QED BY <4>1, <4>3
    <3>2. CASE ~got
      <4>0. n \in Stored(h) /\ h # g
        BY <1>1, <1>2, <3>2
      <4>1. n \in Left(g, gone)
        BY <4>0, LeftAre
      <4>2. \A x \in AllStored : x # n => x \in Left(g, gone)
        BY <1>2, LeftAre DEF AllStored
      <4> QED BY <4>1, <4>2
    <3> QED BY <3>1, <3>2
  <2>3. \A d, e \in edges' : IsData(d) /\ d.dst = e.dst /\ d.in = e.in => d = e
    BY <1>6, SoundParts
  <2> QED BY <1>6, <2>1, <2>2, <2>3 DEF Sound, GraphsTyped
<1>8. ~got => come = {}
  BY <1>2
<1>9. Sound'
  <2>1. Moving(h, g, gone, s, come, told, got)
    BY <1>1, <1>4, <1>5, <1>6, <1>7, <1>8 DEF Moving
  <2> QED BY <2>1, Moved
<1>10. Said'
  <2>1. Return("move", g, n, got)
    BY <1>2 DEF MoveNode
  <2> QED BY <1>5, <2>1 DEF Return, Said, Calls
<1> QED BY <1>9, <1>10

-----------------------------------------------------------------------------
(* Inputs, outputs, pruning and the sorted walk *)

\* Only the lists of inputs and outputs change, and hold nodes of their graphs.
LEMMA ListsSound ==
  ASSUME Sound, inputs' \in [Graph -> Seq(Node)], outputs' \in [Graph -> Seq(Node)],
         \A k \in Graph : ToSet(inputs'[k]) \cup ToSet(outputs'[k]) \subseteq Stored(k),
         UNCHANGED <<store, edges, change, shared>>
  PROVE  Sound'
<1>1. GraphsTyped'
  BY DEF Sound, GraphsTyped
<1>2. NodesOwned'
  <2>1. UNION {ToSet(store'[k]) : k \in Graph} = AllStored
    BY DEF AllStored, Stored
  <2>2. \A k \in Graph : IsInjective(store'[k])
    BY SoundParts
  <2>3. \A k, l \in Graph : k # l => ToSet(store'[k]) \cap ToSet(store'[l]) \subseteq shared'
    BY SoundParts DEF Stored
  <2>4. \A k \in Graph : ToSet(inputs'[k]) \cup ToSet(outputs'[k]) \subseteq ToSet(store'[k])
    BY DEF Stored
  <2>5. \A e \in edges' : {e.src, e.dst} \subseteq AllStored
    BY SoundParts
  <2>6. \A d, e \in edges' : IsData(d) /\ d.dst = e.dst /\ d.in = e.in => d = e
    BY SoundParts
  <2> QED BY <2>1, <2>2, <2>3, <2>4, <2>5, <2>6 DEF NodesOwned, Owned
<1>3. OrderCurrent'
  BY DEF Sound, OrderCurrent, InOrder, Stored
<1> QED BY <1>1, <1>2, <1>3 DEF Sound

LEMMA ListCallSound ==
  ASSUME Sound, NEW g \in Graph, NEW s \in Seq(Node), ToSet(s) \subseteq Stored(g),
         NEW n \in Node \cup {None}, NEW o \in BOOLEAN, Return("list", g, n, o),
         \/ inputs' = [inputs EXCEPT ![g] = s] /\ UNCHANGED outputs
         \/ outputs' = [outputs EXCEPT ![g] = s] /\ UNCHANGED inputs
         \/ UNCHANGED <<inputs, outputs>>,
         UNCHANGED <<store, edges, change, shared>>
  PROVE  Sound' /\ Said'
<1>1. inputs' \in [Graph -> Seq(Node)] /\ outputs' \in [Graph -> Seq(Node)]
  BY DEF Sound, GraphsTyped
<1>2. \A k \in Graph : ToSet(inputs[k]) \cup ToSet(outputs[k]) \subseteq Stored(k)
  BY SoundParts
<1>3. \A k \in Graph : ToSet(inputs'[k]) \cup ToSet(outputs'[k]) \subseteq Stored(k)
  BY <1>2 DEF Sound, GraphsTyped
<1>4. Said'
  BY DEF Return, Said, Calls
<1> QED BY <1>1, <1>3, <1>4, ListsSound

LEMMA AddListedSound ==
  ASSUME Sound, NEW g \in Graph, NEW n \in Node, AddInput(g, n) \/ AddOutput(g, n)
  PROVE  Sound' /\ Said'
<1>1. PICK old : /\ old \in Seq(Node) /\ ToSet(old) \subseteq Stored(g)
                 /\ old = IF AddInput(g, n) THEN inputs[g] ELSE outputs[g]
  BY SoundParts
<1>2. PICK s : s = Append(old, n)
  OBVIOUS
<1>3. s \in Seq(Node) /\ ToSet(s) = ToSet(old) \cup {n}
  <2>1. /\ Len(old) \in Nat /\ Len(s) = Len(old) + 1 /\ s \in Seq(Node)
        /\ \A i \in 1 .. Len(old) : s[i] = old[i]
        /\ s[Len(old) + 1] = n
    BY <1>1, <1>2, AppendProperties, LenProperties
  <2>2. DOMAIN old = 1 .. Len(old) /\ DOMAIN s = 1 .. Len(old) \cup {Len(old) + 1}
    <3>1. DOMAIN s = 1 .. Len(s) /\ DOMAIN old = 1 .. Len(old)
      BY <1>1, <2>1, LenProperties
    <3> QED BY <2>1, <3>1
  <2> QED BY <2>1, <2>2 DEF ToSet
<1>4. PICK o : o = (n \in Stored(g)) /\ Return("list", g, None, o)
  BY DEF AddInput, AddOutput
<1>5. o \in BOOLEAN
  BY <1>4
<1>6. UNCHANGED <<store, edges, change, shared>>
  BY DEF AddInput, AddOutput
<1>7. CASE n \in Stored(g)
  <2>1. \/ inputs' = [inputs EXCEPT ![g] = s] /\ UNCHANGED outputs
        \/ outputs' = [outputs EXCEPT ![g] = s] /\ UNCHANGED inputs
    BY <1>1, <1>2, <1>7 DEF AddInput, AddOutput
  <2>2. ToSet(s) \subseteq Stored(g)
    BY <1>1, <1>3, <1>7
  <2> QED BY <1>3, <1>4, <1>5, <1>6, <2>1, <2>2, ListCallSound
<1>8. CASE n \notin Stored(g)
  <2>1. UNCHANGED <<inputs, outputs>>
    BY <1>8 DEF AddInput, AddOutput
  <2> QED BY <1>1, <1>4, <1>5, <1>6, <2>1, ListCallSound
<1> QED BY <1>7, <1>8

LEMMA SetListedSound ==
  ASSUME Sound, NEW g \in Graph, NEW s \in Lists, SetInputs(g, s) \/ SetOutputs(g, s)
  PROVE  Sound' /\ Said'
<1>1. PICK f : f = Found(g, s) /\ f \in Seq(Node) /\ ToSet(f) \subseteq Stored(g)
  BY FoundList, GraphAssumption
<1>2. PICK o \in BOOLEAN : o = (f = s) /\ Return("list", g, None, o)
  BY <1>1 DEF SetInputs, SetOutputs
<1>3. /\ \/ inputs' = [inputs EXCEPT ![g] = f] /\ UNCHANGED outputs
         \/ outputs' = [outputs EXCEPT ![g] = f] /\ UNCHANGED inputs
      /\ UNCHANGED <<store, edges, change, shared>>
  BY <1>1 DEF SetInputs, SetOutputs
<1> QED BY <1>1, <1>2, <1>3, ListCallSound

LEMMA RemoveOutputNodeSound ==
  ASSUME Sound, NEW g \in Graph, NEW n \in Node, RemoveOutputNode(g, n)
  PROVE  Sound' /\ Said'
<1>1. PICK old, s : /\ old \in Seq(Node) /\ ToSet(old) \subseteq Stored(g)
                    /\ old = outputs[g] /\ s = Erase(old, {n})
  BY SoundParts
<1>2. s \in Seq(Node) /\ ToSet(s) = ToSet(old) \ {n}
  BY <1>1, ErasedList
<1>3. ToSet(s) \subseteq Stored(g)
  BY <1>1, <1>2
<1>4. PICK o : o = Contains(outputs[g], n) /\ Return("list", g, None, o)
  BY DEF RemoveOutputNode
<1>5. o \in BOOLEAN
  BY <1>4 DEF Contains
<1>6. /\ outputs' = [outputs EXCEPT ![g] = s] /\ UNCHANGED inputs
      /\ UNCHANGED <<store, edges, change, shared>>
  BY <1>1 DEF RemoveOutputNode
<1> QED BY <1>2, <1>3, <1>4, <1>5, <1>6, ListCallSound

\* The nodes a walk starts from are nodes of the graph.
LEMMA OutNodesStored ==
  ASSUME Sound, NEW g \in Graph
  PROVE  OutNodes(g) \subseteq Stored(g) /\ OutNodes(g) \in SUBSET Node
<1>1. ToSet(outputs[g]) \subseteq Stored(g) /\ Stored(g) \subseteq Node
  BY SoundParts
<1> QED BY <1>1 DEF OutNodes

\* Pruning leaves the inputs, the outputs and all they read from.
LEMMA PruneLeaves ==
  ASSUME Sound, NEW g \in Graph
  PROVE  /\ ToSet(inputs[g]) \subseteq ActiveNodes(g) /\ ToSet(outputs[g]) \subseteq ActiveNodes(g)
         /\ OutNodes(g) \subseteq ActiveNodes(g) /\ Upstream(edges, OutNodes(g)) \subseteq ActiveNodes(g)
<1>1. edges \in SUBSET Links
  BY DEF Sound, GraphsTyped
<1>2. OutNodes(g) \in SUBSET Node
  BY OutNodesStored
<1>3. PICK S : S = OutNodes(g)
  OBVIOUS
<1>4. S \subseteq Upstream(edges, S)
  BY <1>1, <1>2, <1>3, UpstreamLeast
<1>5. ToSet(outputs[g]) \subseteq OutNodes(g)
  <2>1. CASE outputs[g] = <<>>
    <3>1. ToSet(outputs[g]) = {}
      BY <2>1 DEF ToSet
    <3> QED BY <3>1
  <2>2. CASE outputs[g] # <<>>
    BY <2>2 DEF OutNodes
  <2> QED BY <2>1, <2>2
<1> QED BY <1>3, <1>4, <1>5 DEF ActiveNodes

LEMMA PruneSound ==
  ASSUME Sound, NEW g \in Graph, Prune(g)
  PROVE  Sound' /\ Said'
<1>1. PICK dead, s : dead = Stored(g) \ ActiveNodes(g) /\ s = Without(store[g], dead)
  OBVIOUS
<1>2. /\ store' = [store EXCEPT ![g] = s]
      /\ edges' = {e \in edges : {e.src, e.dst} \cap dead = {}}
      /\ change' = [change EXCEPT ![g] = change[g] \/ dead # {}]
      /\ Return("prune", g, None, TRUE)
      /\ UNCHANGED <<inputs, outputs, shared>>
  BY <1>1 DEF Prune
<1>3. /\ s \in Seq(Node) /\ ToSet(s) = Stored(g) \ dead /\ IsInjective(s)
      /\ dead = {} => s = store[g]
  <2>1. PICK old : old = store[g] /\ old \in Seq(Node) /\ IsInjective(old)
    BY SoundParts
  <2>2. /\ s \in Seq(Node) /\ ToSet(s) = ToSet(old) \ dead
        /\ dead = {} => s = old
        /\ IsInjective(old) => IsInjective(s)
    BY <1>1, <2>1, WithoutList
  <2> QED BY <2>1, <2>2 DEF Stored
<1>4. \A k \in Graph : /\ store'[k] = IF k = g THEN s ELSE store[k]
                       /\ change'[k] = IF k = g THEN change[g] \/ dead # {} ELSE change[k]
  BY <1>2 DEF Sound, GraphsTyped
<1>5. edges' \subseteq edges /\ IsFiniteSet(edges')
  <2>1. edges' \subseteq edges
    BY <1>2
  <2> QED BY <2>1, FS_Subset DEF Sound, GraphsTyped
<1>6. GraphsTyped'
  <2>1. store' \in [Graph -> Seq(Node)]
    BY <1>2, <1>3 DEF Sound, GraphsTyped
  <2>2. change' \in [Graph -> BOOLEAN]
    BY <1>2 DEF Sound, GraphsTyped
  <2> QED BY <1>2, <1>5, <2>1, <2>2 DEF Sound, GraphsTyped
<1>7. Moves(g, dead, g, {})
  <2>1. \A k \in Graph : IsInjective(store'[k])
    BY <1>3, <1>4, SoundParts
  <2>2. \A k \in Graph : ToSet(store'[k]) = Stored(k) \ (IF k = g THEN dead ELSE {})
    BY <1>3, <1>4 DEF Stored
  <2>3. \A k \in Graph : ToSet(inputs'[k]) \cup ToSet(outputs'[k]) \subseteq Stored(k) \ (IF k = g THEN dead ELSE {})
    BY <1>1, <1>2, SoundParts, PruneLeaves
  <2>4. \A e \in edges' : {e.src, e.dst} \subseteq Left(g, dead)
    BY <1>2, SoundParts, LeftAre DEF AllStored
  <2>5. \A d, e \in edges' : IsData(d) /\ d.dst = e.dst /\ d.in = e.in => d = e
    BY <1>5, SoundParts
  <2>6. \A k, l \in Graph : k # l => Stored(k) \cap Stored(l) \subseteq shared'
    BY <1>2, SoundParts
  <2> QED BY <2>1, <2>2, <2>3, <2>4, <2>5, <2>6 DEF Moves
<1>8. NodesOwned'
  <2>1. dead \in SUBSET Stored(g)
    BY <1>1
  <2> QED BY <1>7, <2>1, OwnedAfter
<1>9. OrderCurrent'
  BY <1>2, <1>3, <1>4, <1>5, OrderKept DEF Stored
<1>10. Said'
  BY <1>2 DEF Return, Said, Calls
<1> QED BY <1>6, <1>8, <1>9, <1>10 DEF Sound

\* A list without doubles that is as long as the list of all nodes names them all.
LEMMA AllListed ==
  ASSUME NEW S \in SUBSET Node, NEW old \in Seq(Node), IsInjective(old), ToSet(old) = S,
         NEW s \in Seq(Node), IsInjective(s), ToSet(s) \subseteq S, Len(s) = Len(old)
  PROVE  ToSet(s) = S
<1>1. PICK n \in Nat : n = Len(old)
  BY LenProperties
<1>2. IsFiniteSet(S) /\ Cardinality(S) \in Nat
  BY GraphAssumption, FS_Subset, FS_CardinalityType
<1>3. DOMAIN old = 1 .. n /\ DOMAIN s = 1 .. n
  BY <1>1, LenProperties
<1>4. old \in [1 .. n -> S] /\ s \in [1 .. n -> S]
  <2>1. \A i \in 1 .. n : old[i] \in S /\ s[i] \in S
    BY <1>3 DEF ToSet
  <2>2. old = [i \in 1 .. n |-> old[i]] /\ s = [i \in 1 .. n |-> s[i]]
    BY <1>1, LenProperties
  <2> QED BY <2>1, <2>2
<1>5. old \in Injection(1 .. n, S) /\ s \in Injection(1 .. n, S)
  BY <1>3, <1>4 DEF Injection, IsInjective
<1>6. old \in Surjection(1 .. n, S)
  BY <1>3, <1>4 DEF Surjection, ToSet
<1>7. Cardinality(1 .. n) = Cardinality(S)
  BY <1>2, <1>5, <1>6, FS_Injection
<1>8. s \in Surjection(1 .. n, S)
  BY <1>2, <1>5, <1>7, FS_Injection
<1> QED BY <1>3, <1>4, <1>8 DEF Surjection, ToSet

\* What the sort may come to after k nodes.
Ready(g, s) == {n \in Stored(g) \ ToSet(s) : \A e \in edges : e.dst = n => e.src \in ToSet(s)}

Sorting(begun, n, g) ==
  begun[0] = {<<>>} /\ \A k \in 1 .. n : begun[k] = UNION {{Append(s, m) : m \in Ready(g, s)} : s \in begun[k - 1]}

LEMMA SortedSteps ==
  ASSUME Sound, NEW g \in Graph, NEW n, n = Len(store[g])
  PROVE  \E begun \in [0 .. n -> SUBSET Seq(Node)] :
           /\ Sorting(begun, n, g)
           /\ Sorted(g) = {s \in begun[n] : s # <<>> => Kind[s[1]] = "Data"}
<1>1. n \in Nat /\ Stored(g) \subseteq Node
  <2>1. store[g] \in Seq(Node) /\ Stored(g) \subseteq Node
    BY SoundParts
  <2> QED BY <2>1, LenProperties
<1> DEFINE next(B) == UNION {{Append(s, m) : m \in Ready(g, s)} : s \in B}
           f == [B \in SUBSET Seq(Node) |-> next(B)]
           Is(b) == b = [k \in 0 .. n |->
                           IF k = 0 THEN {<<>>}
                           ELSE UNION {{Append(s, m) : m \in {i \in Stored(g) \ ToSet(s) :
                                                                \A e \in edges : e.dst = i => e.src \in ToSet(s)}} :
                                         s \in b[k - 1]}]
<1>2. \A B \in SUBSET Seq(Node) : next(B) \in SUBSET Seq(Node)
  <2>1. \A s \in Seq(Node), m \in Node : Append(s, m) \in Seq(Node)
    BY AppendProperties
  <2>2. \A s : Ready(g, s) \subseteq Node
    BY <1>1 DEF Ready
  <2> QED BY <2>1, <2>2
<1>3. f \in [SUBSET Seq(Node) -> SUBSET Seq(Node)] /\ {<<>>} \in SUBSET Seq(Node)
  <2> HIDE DEF next
  <2> QED BY <1>2, EmptySeq
<1>4. PICK q \in [0 .. n -> SUBSET Seq(Node)] : Recursion(q, n, {<<>>}, f)
  <2> HIDE DEF f
  <2> QED BY <1>1, <1>3, RecursionExists
<1>5. q[0] = {<<>>} /\ \A k \in 1 .. n : q[k] = next(q[k - 1])
  <2>1. ASSUME NEW k \in 1 .. n
        PROVE  q[k] = next(q[k - 1])
    <3>1. q[k - 1] \in SUBSET Seq(Node)
      BY <1>1
    <3>2. q[k] = f[q[k - 1]]
      BY <1>4 DEF Recursion
    <3> HIDE DEF next
    <3> QED BY <3>1, <3>2
  <2> QED BY <1>4, <2>1 DEF Recursion
<1>6. Is(q)
  <2>1. \A k \in 0 .. n : k # 0 => k \in 1 .. n
    BY <1>1
  <2> QED BY <1>5, <2>1 DEF Ready
<1> DEFINE it == CHOOSE b : Is(b)
<1>7. Is(it)
  BY <1>6
<1>8. Sorted(g) = {s \in it[n] : s # <<>> => Kind[s[1]] = "Data"}
  BY DEF Sorted
<1>9. it[0] = {<<>>} /\ \A k \in 1 .. n : it[k] = next(it[k - 1])
  <2> HIDE DEF it
  <2>1. 0 \in 0 .. n /\ \A k \in 1 .. n : k \in 0 .. n /\ k # 0
    BY <1>1
  <2> QED BY <1>7, <2>1 DEF Ready
<1>10. it = [k \in 0 .. n |-> it[k]]
  <2> HIDE DEF it
  <2> QED BY <1>7
<1> HIDE DEF it, Is, next
<1> DEFINE U == {k \in Nat : k <= n => it[k] \in SUBSET Seq(Node)}
<1>11. 0 \in U
  BY <1>3, <1>9
<1>12. ASSUME NEW k \in Nat, k \in U
       PROVE  k + 1 \in U
  <2> SUFFICES ASSUME k + 1 <= n PROVE it[k + 1] \in SUBSET Seq(Node)
    OBVIOUS
  <2>1. k <= n /\ k + 1 \in 1 .. n /\ k + 1 - 1 = k
    BY <1>1
  <2>2. it[k + 1] = next(it[k])
    BY <1>9, <2>1
  <2>3. it[k] \in SUBSET Seq(Node)
    BY <1>12, <2>1
  <2> QED BY <1>2, <2>2, <2>3
<1>13. \A k \in Nat : k \in U
  <2> HIDE DEF U
  <2> QED BY <1>11, <1>12, Everywhere
<1>14. it \in [0 .. n -> SUBSET Seq(Node)]
  <2>1. \A k \in 0 .. n : it[k] \in SUBSET Seq(Node)
    BY <1>1, <1>13
  <2> QED BY <1>10, <2>1
<1> QED BY <1>8, <1>9, <1>14 DEF Sorting, next

\* A list of k nodes of graph g, each once, and behind those it reads from.
Begun(g, k, s) ==
  /\ s \in Seq(Node) /\ Len(s) = k /\ ToSet(s) \subseteq Stored(g) /\ IsInjective(s) /\ InOrder(s)

LEMMA BegunOneMore ==
  ASSUME Sound, NEW g \in Graph, NEW k \in Nat, NEW s, Begun(g, k, s), NEW m \in Ready(g, s),
         NEW t, t = Append(s, m)
  PROVE  Begun(g, k + 1, t)
<1>1. /\ s \in Seq(Node) /\ Len(s) = k /\ ToSet(s) \subseteq Stored(g) /\ IsInjective(s)
      /\ m \in Node /\ m \in Stored(g) /\ m \notin ToSet(s)
  BY SoundParts DEF Begun, Ready
<1>2. t \in Seq(Node) /\ ToSet(t) = ToSet(s) \cup {m} /\ IsInjective(t)
  BY <1>1, NodeAppended
<1>3. Len(t) = k + 1 /\ t[k + 1] = m /\ \A i \in 1 .. k : t[i] = s[i]
  BY <1>1, AppendProperties
<1>4. DOMAIN s = 1 .. k /\ DOMAIN t = 1 .. k + 1
  BY <1>1, <1>2, <1>3, LenProperties
<1>5. InOrder(t)
  <2> SUFFICES ASSUME NEW e \in edges, NEW j \in 1 .. k + 1, t[j] = e.dst
               PROVE  \E i \in 1 .. j - 1 : t[i] = e.src
    BY <1>4 DEF InOrder
  <2>1. CASE j = k + 1
    <3>1. e.src \in ToSet(s)
      BY <1>3, <2>1 DEF Ready
    <3>2. PICK i \in 1 .. k : s[i] = e.src
      BY <1>4, <3>1 DEF ToSet
    <3> QED BY <1>3, <2>1, <3>2
  <2>2. CASE j # k + 1
    <3>1. j \in 1 .. k /\ s[j] = e.dst
      BY <1>3, <2>2
    <3>2. PICK i \in 1 .. j - 1 : s[i] = e.src
      BY <1>4, <3>1 DEF Begun, InOrder
    <3>3. i \in 1 .. k
      BY <3>1
    <3> QED BY <1>3, <3>2, <3>3
  <2> QED BY <2>1, <2>2
<1> QED BY <1>1, <1>2, <1>3, <1>5 DEF Begun

\* The sort names every node of the graph, each behind those it reads from.
LEMMA SortedList ==
  ASSUME Sound, NEW g \in Graph, NEW s \in Sorted(g)
  PROVE  /\ s \in Seq(Node) /\ ToSet(s) = Stored(g) /\ IsInjective(s)
         /\ InOrder(s) /\ (s # <<>> => Kind[s[1]] = "Data")
<1>1. PICK old : old = store[g] /\ old \in Seq(Node) /\ IsInjective(old) /\ ToSet(old) = Stored(g)
  BY SoundParts DEF Stored
<1>2. PICK n \in Nat : n = Len(store[g])
  BY <1>1, LenProperties
<1>3. PICK begun \in [0 .. n -> SUBSET Seq(Node)] :
        /\ Sorting(begun, n, g)
        /\ Sorted(g) = {q \in begun[n] : q # <<>> => Kind[q[1]] = "Data"}
  BY <1>2, SortedSteps
<1> DEFINE U == {k \in Nat : k <= n => \A q \in begun[k] : Begun(g, k, q)}
<1>4. 0 \in U
  <2>1. <<>> \in Seq(Node) /\ Len(<<>>) = 0 /\ DOMAIN <<>> = {}
    BY EmptySeq
  <2>2. Begun(g, 0, <<>>)
    BY <2>1 DEF Begun, ToSet, IsInjective, InOrder
  <2> QED BY <1>3, <2>2 DEF Sorting
<1>5. ASSUME NEW k \in Nat, k \in U
      PROVE  k + 1 \in U
  <2> SUFFICES ASSUME k + 1 <= n, NEW t \in begun[k + 1]
               PROVE  Begun(g, k + 1, t)
    OBVIOUS
  <2>1. k + 1 \in 1 .. n /\ k <= n /\ k + 1 - 1 = k
    OBVIOUS
  <2>2. begun[k + 1] = UNION {{Append(q, m) : m \in Ready(g, q)} : q \in begun[k]}
    BY <1>3, <2>1 DEF Sorting
  <2>3. PICK q \in begun[k] : \E m \in Ready(g, q) : t = Append(q, m)
    BY <2>2
  <2>4. Begun(g, k, q)
    BY <1>5, <2>1, <2>3
  <2> QED BY <2>3, <2>4, BegunOneMore
<1>6. Begun(g, n, s)
  <2>1. n \in U
    <3> HIDE DEF U
    <3> QED BY <1>4, <1>5, Everywhere
  <2> QED BY <1>3, <2>1
<1>7. ToSet(s) = Stored(g)
  <2>1. Stored(g) \in SUBSET Node
    BY SoundParts
  <2> QED BY <1>1, <1>2, <1>6, <2>1, AllListed DEF Begun
<1> QED BY <1>3, <1>6, <1>7 DEF Begun

LEMMA DFSWalkSound ==
  ASSUME Sound, NEW g \in Graph, DFSWalk(g)
  PROVE  Sound' /\ Said'
<1>1. UNCHANGED <<inputs, outputs, edges, shared>>
  BY DEF DFSWalk
<1>2. Said'
  <2>1. \E o \in BOOLEAN : Return("walk", g, None, o)
    BY DEF DFSWalk
  <2> QED BY <2>1 DEF Return, Said, Calls
<1>3. CASE UNCHANGED <<store, change>>
  <2>1. inputs' \in [Graph -> Seq(Node)] /\ outputs' \in [Graph -> Seq(Node)]
    BY <1>1 DEF Sound, GraphsTyped
  <2>2. \A k \in Graph : ToSet(inputs'[k]) \cup ToSet(outputs'[k]) \subseteq Stored(k)
    BY <1>1, SoundParts
  <2> QED BY <1>1, <1>2, <1>3, <2>1, <2>2, ListsSound
<1>4. CASE \E s \in Sorted(g) : store' = [store EXCEPT ![g] = s] /\ change' = [change EXCEPT ![g] = FALSE]
  <2>1. PICK s \in Sorted(g) : store' = [store EXCEPT ![g] = s] /\ change' = [change EXCEPT ![g] = FALSE]
    BY <1>4
  <2>2. /\ s \in Seq(Node) /\ ToSet(s) = Stored(g) /\ IsInjective(s)
        /\ InOrder(s) /\ (s # <<>> => Kind[s[1]] = "Data")
    BY SortedList
  <2>3. \A k \in Graph : /\ store'[k] = IF k = g THEN s ELSE store[k]
                         /\ change'[k] = IF k = g THEN FALSE ELSE change[k]
    BY <2>1 DEF Sound, GraphsTyped
  <2>4. GraphsTyped'
    <3>1. store' \in [Graph -> Seq(Node)]
      BY <2>1, <2>2 DEF Sound, GraphsTyped
    <3>2. change' \in [Graph -> BOOLEAN]
      BY <2>1 DEF Sound, GraphsTyped
    <3> QED BY <1>1, <3>1, <3>2 DEF Sound, GraphsTyped
  <2>5. Moves(g, {}, g, {})
    <3>1. \A k \in Graph : IsInjective(store'[k])
      BY <2>2, <2>3, SoundParts
    <3>2. \A k \in Graph : ToSet(store'[k]) = Stored(k)
      BY <2>2, <2>3 DEF Stored
    <3>3. \A k \in Graph : ToSet(inputs'[k]) \cup ToSet(outputs'[k]) \subseteq Stored(k)
      BY <1>1, SoundParts
    <3>4. \A e \in edges' : {e.src, e.dst} \subseteq Left(g, {})
      BY <1>1, SoundParts, LeftAre
    <3>5. \A d, e \in edges' : IsData(d) /\ d.dst = e.dst /\ d.in = e.in => d = e
      BY <1>1, SoundParts
    <3>6. \A k, l \in Graph : k # l => Stored(k) \cap Stored(l) \subseteq shared'
      BY <1>1, SoundParts
    <3> QED BY <3>1, <3>2, <3>3, <3>4, <3>5, <3>6 DEF Moves
  <2>6. NodesOwned'
    <3>1. {} \in SUBSET Stored(g)
      OBVIOUS
    <3> QED BY <2>5, <3>1, OwnedAfter
  <2>7. OrderCurrent'
    <3> SUFFICES ASSUME NEW k \in Graph, ~change'[k], Stored(k)' \cap shared' = {}
                 PROVE  InOrder(store[k])' /\ (store'[k] # <<>> => Kind[store'[k][1]] = "Data")
      BY DEF OrderCurrent
    <3>1. CASE k = g
      <4>1. store'[k] = s
        BY <2>3, <3>1
      <4>2. InOrder(store[k])'
        BY <1>1, <2>2, <4>1 DEF InOrder
      <4> QED BY <2>2, <4>1, <4>2
    <3>2. CASE k # g
      <4>1. store'[k] = store[k] /\ ~change[k]
        BY <2>3, <3>2
      <4>2. InOrder(store[k]) /\ (store[k] # <<>> => Kind[store[k][1]] = "Data")
        BY <1>1, <4>1 DEF Sound, OrderCurrent, Stored
      <4>3. InOrder(store[k])'
        BY <1>1, <4>1, <4>2 DEF InOrder
      <4> QED BY <4>1, <4>2, <4>3
    <3> QED BY <3>1, <3>2
  <2> QED BY <1>2, <2>4, <2>6, <2>7 DEF Sound
<1> QED BY <1>3, <1>4 DEF DFSWalk

-----------------------------------------------------------------------------
(* The invariant *)

LEMMA InitInv ==
  Init => IInv
<1> SUFFICES ASSUME Init PROVE IInv
  OBVIOUS
<1>1. PICK s \in Start : store = s.store /\ inputs = s.inputs /\ outputs = s.outputs /\ edges = s.edges
  BY DEF Init
<1>2. /\ s.store \in [Graph -> Seq(Node)]
      /\ s.inputs \in [Graph -> Seq(Node)] /\ s.outputs \in [Graph -> Seq(Node)]
      /\ s.edges \subseteq Links /\ IsFiniteSet(s.edges) /\ \A e \in s.edges : Anchored(e)
      /\ Owned(s.store, s.inputs, s.outputs, s.edges, {})
  BY StartAssumption
<1>3. change = [g \in Graph |-> TRUE] /\ shared = {}
  BY DEF Init
<1>4. GraphsTyped
  BY <1>1, <1>2, <1>3 DEF GraphsTyped
<1>5. NodesOwned
  BY <1>1, <1>2, <1>3 DEF NodesOwned
<1>6. OrderCurrent
  BY <1>3 DEF OrderCurrent
<1>7. Said
  BY DEF Init, Said, Calls
<1>8. calls \in 0 .. MAX_CALLS
  BY GraphAssumption DEF Init
<1> QED BY <1>4, <1>5, <1>6, <1>7, <1>8 DEF IInv, Sound

LEMMA NodeCallSound ==
  ASSUME Sound, NEW g \in Graph, NEW n \in Node, NodeCall(g, n)
  PROVE  Sound' /\ Said'
<1>1. CASE AddNode(g, n) \/ AddNodeFront(g, n)
  BY <1>1, AddNodeSound
<1>2. CASE RemoveNode(g, n)
  BY <1>2, RemoveNodeDone, DidSound
<1>3. CASE RemoveNodeWithConstInputs(g, n)
  BY <1>3, RemoveNodeWithConstInputsDone, DidSound
<1>4. CASE LegacyRemoveNode(g, n)
  BY <1>4, LegacyRemoveNodeDone, DidSound
<1>5. CASE ByPassNode(g, n)
  BY <1>5, ByPassNodeDone, DidSound
<1>6. CASE AddInput(g, n) \/ AddOutput(g, n)
  BY <1>6, AddListedSound
<1>7. CASE RemoveOutputNode(g, n)
  BY <1>7, RemoveOutputNodeSound
<1>8. ASSUME NEW m \in Node, RemoveNodes(g, m, n)
      PROVE  Sound' /\ Said'
  BY <1>8, RemoveNodesDone, DidSound
<1>9. ASSUME NEW m \in Node, RemoveEdgeBetween(g, m, n)
      PROVE  Sound' /\ Said'
  BY <1>9, EdgeCallsDone, DidSound
<1>10. ASSUME NEW h \in Graph, MoveNodeFrom(g, h, n)
       PROVE  Sound' /\ Said'
  BY <1>10, MoveNodeFromSound
<1>11. ASSUME NEW h \in Graph, MoveNode(g, h, n)
       PROVE  Sound' /\ Said'
  BY <1>11, MoveNodeSound
<1> QED BY <1>1, <1>2, <1>3, <1>4, <1>5, <1>6, <1>7, <1>8, <1>9, <1>10, <1>11 DEF NodeCall

LEMMA NextInv ==
  IInv /\ [Next]_vars => IInv'
<1> SUFFICES ASSUME IInv, [Next]_vars PROVE IInv'
  OBVIOUS
<1>1. CASE UNCHANGED vars
  BY <1>1 DEF IInv, Sound, GraphsTyped, NodesOwned, Owned, OrderCurrent, InOrder, Stored, Said, vars, lists
<1>2. CASE Next
  <2>1. Sound
    BY DEF IInv
  <2>2. calls' \in 0 .. MAX_CALLS
    <3>1. calls < MAX_CALLS /\ calls' = calls + 1
      BY <1>2 DEF Next
    <3> QED BY <3>1, GraphAssumption DEF IInv
  <2> SUFFICES Sound' /\ Said'
    BY <2>2 DEF IInv
  <2>3. PICK g \in Graph :
          \/ \E n \in Node : NodeCall(g, n)
          \/ \E e \in Edge : AddEdge(g, e)
          \/ \E e \in edges : RemoveEdge(g, e) \/ RemoveEdgeOfEndpoints(g, e)
          \/ \E target, n \in Stored(g), idx \in Indices :
               InsertBefore(g, target, idx, n) \/ InsertAfter(g, target, idx, n)
          \/ \E s \in Lists : SetInputs(g, s) \/ SetOutputs(g, s)
          \/ Prune(g)
          \/ DFSWalk(g)
    BY <1>2 DEF Next
  <2>4. ASSUME NEW n \in Node, NodeCall(g, n)
        PROVE  Sound' /\ Said'
    BY <2>1, <2>4, NodeCallSound
  <2>5. CASE (\E e \in Edge : AddEdge(g, e)) \/ \E e \in edges : RemoveEdge(g, e) \/ RemoveEdgeOfEndpoints(g, e)
    BY <2>1, <2>5, EdgeCallsDone, DidSound
  <2>6. ASSUME NEW target \in Stored(g), NEW n \in Stored(g), NEW idx \in Indices,
               InsertBefore(g, target, idx, n) \/ InsertAfter(g, target, idx, n)
        PROVE  Sound' /\ Said'
    <3>1. target \in Node /\ n \in Node
      BY <2>1, SoundParts
    <3> QED BY <2>1, <2>6, <3>1, InsertBeforeDone, InsertAfterDone, DidSound
  <2>7. CASE \E s \in Lists : SetInputs(g, s) \/ SetOutputs(g, s)
    BY <2>1, <2>7, SetListedSound
  <2>8. CASE Prune(g)
    BY <2>1, <2>8, PruneSound
  <2>9. CASE DFSWalk(g)
    BY <2>1, <2>9, DFSWalkSound
  <2> QED BY <2>3, <2>4, <2>5, <2>6, <2>7, <2>8, <2>9
<1> QED BY <1>1, <1>2

LEMMA Invariance ==
  Spec => []IInv
<1>1. Init => IInv
  BY InitInv
<1>2. IInv /\ [Next]_vars => IInv'
  BY NextInv
<1> QED BY <1>1, <1>2, PTL DEF Spec

\* Every list of a graph holds nodes, and every edge leads between anchors that are
\* there, whatever calls are made in what order.
THEOREM TypeCorrect == Spec => []TypeOK
<1>1. IInv => TypeOK
  BY DEF IInv, Sound, GraphsTyped, Said, TypeOK
<1> QED BY <1>1, Invariance, PTL

\* Nodes, edges and the order of every graph describe one graph after any calls on
\* any graphs: a node is in a graph once, and in two only when it was given to the second;
\* the inputs, the outputs and the ends of the edges are nodes that are there, a data
\* input has one source, and a graph whose change flag is down and that has no node in
\* common with others is in order.
THEOREM StructureIsSound == Spec => []StructureSound
<1>1. IInv => StructureSound
  BY DEF IInv, Sound, StructureSound
<1> QED BY <1>1, Invariance, PTL

-----------------------------------------------------------------------------
(* What a step does to the edges *)

LEMMA StepAdds ==
  ASSUME NEW g, NEW r \in Results, NEW op \in Makes, NEW e \in Links,
         NEW q, q = Step(g, r, Do(op, e))
  PROVE  /\ q \in Results /\ r.edges \subseteq q.edges /\ q.gone = r.gone
         /\ q.ok => r.ok /\ op # "fail" /\ e \in q.edges
<1>1. PICK s : s = Do(op, e)
  OBVIOUS
<1>2. s.op = op /\ s.edge = e
  BY <1>1 DEF Do
<1>3. q \in Results /\ q.gone = r.gone /\ (q.ok => r.ok)
  BY <1>1, <1>2, StepKeeps
<1>4. \/ q = r /\ ~r.ok
      \/ q = Failed(r)
      \/ r.ok /\ q = r /\ op = "ensure" /\ e \in r.edges
      \/ r.ok /\ op \in {"add", "ensure"} /\ q = Added(r, e)
  <2>1. op \notin {"del", "unlink"}
    BY DEF Makes
  <2>2. q = Step(g, r, s)
    BY <1>1
  <2>3. \/ q = r /\ ~r.ok
        \/ q = Failed(r)
        \/ s.op \in {"del", "unlink"}
        \/ r.ok /\ q = r /\ s.op = "ensure" /\ s.edge \in r.edges
        \/ r.ok /\ s.op \in {"add", "ensure"} /\ q = Added(r, s.edge)
    BY <2>2, StepCases
  <2> QED BY <1>2, <2>1, <2>3
<1>5. Failed(r).edges = r.edges /\ ~Failed(r).ok
  BY DEF Failed, Results
<1>6. Added(r, e).edges = r.edges \cup {e}
  BY DEF Added, Results
<1> QED BY <1>3, <1>4, <1>5, <1>6

\* q is r, perhaps without edge e, and surely without it when all goes well.
CutOff(g, r, e, q) ==
  /\ q \in Results /\ r.edges \ {e} \subseteq q.edges /\ q.edges \subseteq r.edges /\ q.gone = r.gone
  /\ q.ok => r.ok /\ e \notin q.edges /\ {e.src, e.dst} \subseteq Stored(g) \ r.gone

LEMMA StepDels ==
  ASSUME NEW g, NEW r \in Results, NEW op \in Takes, NEW e,
         NEW q, q = Step(g, r, Do(op, e))
  PROVE  CutOff(g, r, e, q)
<1>1. PICK s : s = Do(op, e)
  OBVIOUS
<1>2. s.op = op /\ s.edge = e
  BY <1>1 DEF Do
<1>3. q \in Results /\ q.gone = r.gone /\ (q.ok => r.ok)
  <2>1. s.op \notin {"add", "ensure"}
    BY <1>2 DEF Takes
  <2> QED BY <1>1, <2>1, StepKeeps
<1>4. PICK told : told = (op = "del")
  OBVIOUS
<1>5. \/ q = r /\ ~r.ok
      \/ q = Failed(r)
      \/ /\ r.ok /\ {e.src, e.dst} \subseteq Stored(g) \ r.gone
         /\ q = Cut(r, e, told)
  <2>1. op \notin {"add", "ensure"}
    BY DEF Takes
  <2>2. q = Step(g, r, s)
    BY <1>1
  <2>3. \/ q = r /\ ~r.ok
        \/ q = Failed(r)
        \/ /\ r.ok /\ {s.edge.src, s.edge.dst} \subseteq Stored(g) \ r.gone
           /\ q = Cut(r, s.edge, s.op = "del")
        \/ s.op = "ensure"
        \/ s.op \in {"add", "ensure"}
    BY <2>2, StepCases
  <2> QED BY <1>2, <1>4, <2>1, <2>3
<1>6. Failed(r).edges = r.edges /\ ~Failed(r).ok
  BY DEF Failed, Results
<1>7. Cut(r, e, told).edges = r.edges \ {e}
  BY DEF Cut, Results
<1> QED BY <1>3, <1>5, <1>6, <1>7 DEF CutOff

-----------------------------------------------------------------------------
(* The nodes that a removal is not about *)

\* The nodes of G that are in no graph but g.
Lost(g, G) == {m \in G : \A h \in Graph \ {g} : m \notin Stored(h)}

\* What was done to remove node n took only edges of nodes that are gone or of n,
\* and only constants that nothing but n and nodes that are gone read.
Others(g, r, n) ==
  /\ r \in Results
  /\ {e \in edges : {e.src, e.dst} \cap (Lost(g, r.gone) \cup {n}) = {}} \subseteq r.edges
  /\ \A m \in Lost(g, r.gone) \ {n} :
       Kind[m] = "Const" /\ \A e \in edges : e.src = m => e.dst \in Lost(g, r.gone) \cup {n}

LEMMA SameOthers ==
  ASSUME Sound, NEW g, NEW n
  PROVE  Others(g, Same, n)
BY DEF Others, Lost, Same, Results, Sound, GraphsTyped

LEMMA FailedOthers ==
  ASSUME NEW g, NEW r, NEW n, Others(g, r, n)
  PROVE  Others(g, Failed(r), n)
<1>1. PICK q : q = Failed(r)
  OBVIOUS
<1>2. q \in Results /\ q.edges = r.edges /\ q.gone = r.gone
  BY <1>1 DEF Failed, Others, Results
<1>3. Others(g, q, n)
  BY <1>2 DEF Others
<1> QED BY <1>1, <1>3

LEMMA RemovedOthers ==
  ASSUME NEW g, NEW r, NEW n, Others(g, r, n), NEW m \in Node,
         m # n => m \in Lost(g, {m}) /\ Kind[m] = "Const"
                  /\ \A e \in edges : e.src = m => e.dst \in Lost(g, r.gone) \cup {n}
  PROVE  Others(g, Removed(r, m), n)
<1>1. PICK q : q = Removed(r, m)
  OBVIOUS
<1>2. /\ q \in Results /\ q.edges = {e \in r.edges : m \notin {e.src, e.dst}}
      /\ q.gone = r.gone \cup {m}
  BY <1>1 DEF Removed, Others, Results
<1>3. PICK before, lost : before = Lost(g, r.gone) \cup {n} /\ lost = Lost(g, q.gone) \cup {n}
  OBVIOUS
<1>4. lost = before \cup {m}
  BY <1>2, <1>3 DEF Lost
<1>5. /\ \A e \in edges : {e.src, e.dst} \cap before = {} => e \in r.edges
      /\ \A l \in before \ {n} : Kind[l] = "Const" /\ \A e \in edges : e.src = l => e.dst \in before
  BY <1>3 DEF Others
<1>6. \A e \in edges : {e.src, e.dst} \cap lost = {} => e \in q.edges
  BY <1>2, <1>4, <1>5
<1>7. \A l \in lost \ {n} : Kind[l] = "Const" /\ \A e \in edges : e.src = l => e.dst \in lost
  BY <1>3, <1>4, <1>5
<1>8. Others(g, q, n)
  BY <1>2, <1>3, <1>6, <1>7 DEF Others
<1> QED BY <1>1, <1>8

\* A constant that another graph holds is not lost.
LEMMA ReleasedOthers ==
  ASSUME NEW g \in Graph, NEW r, NEW n, Others(g, r, n), NEW m \in Node,
         m # n => Kind[m] = "Const" /\ \A e \in edges : e.src = m => e.dst \in Lost(g, r.gone) \cup {n}
  PROVE  Others(g, Released(g, r, m), n)
<1>1. CASE \E h \in Graph \ {g} : m \in Stored(h)
  <2>1. PICK q : q = Released(g, r, m)
    OBVIOUS
  <2>2. q = [r EXCEPT !.gone = r.gone \cup {m}, !.told = TRUE]
    BY <1>1, <2>1 DEF Released
  <2>3. q \in Results /\ q.edges = r.edges /\ q.gone = r.gone \cup {m}
    BY <2>2 DEF Others, Results
  <2>4. Lost(g, q.gone) = Lost(g, r.gone)
    BY <1>1, <2>3 DEF Lost
  <2>5. Others(g, q, n)
    BY <2>3, <2>4 DEF Others
  <2> QED BY <2>1, <2>5
<1>2. CASE ~\E h \in Graph \ {g} : m \in Stored(h)
  <2>1. Released(g, r, m) = Removed(r, m)
    BY <1>2 DEF Released
  <2>2. m \in Lost(g, {m})
    BY <1>2 DEF Lost
  <2> QED BY <2>1, <2>2, RemovedOthers
<1> QED BY <1>1, <1>2

LEMMA LinkingOthers ==
  ASSUME NEW g, NEW n
  PROVE  Linking(g, {r \in Results : Others(g, r, n)})
<1> SUFFICES ASSUME NEW r \in Results, Others(g, r, n),
                    NEW op \in Makes, NEW e \in Links
             PROVE  Step(g, r, Do(op, e)) \in Results /\ Others(g, Step(g, r, Do(op, e)), n)
  BY DEF Linking
<1>1. PICK q : q = Step(g, r, Do(op, e))
  OBVIOUS
<1>2. /\ q \in Results /\ r.edges \subseteq q.edges /\ q.gone = r.gone
      /\ q.ok => r.ok /\ op # "fail" /\ e \in q.edges
  <2>1. r \in Results /\ op \in Makes /\ e \in Links
    OBVIOUS
  <2> QED BY ONLY <1>1, <2>1, StepAdds
<1>3. Others(g, q, n)
  BY <1>2 DEF Others
<1> QED BY <1>1, <1>2, <1>3

LEMMA ByPassedOthers ==
  ASSUME Sound, NEW g, NEW r, NEW n, Good(g, r), Others(g, r, n), n \in Node, NEW z \in ByPassed(g, r, n)
  PROVE  Others(g, z, n)
<1>1. r.edges \in SUBSET Links /\ IsFiniteSet(r.edges)
  BY DEF Good, Results
<1>2. PICK p, T : p = Removed(r, n) /\ T = {q \in Results : Others(g, q, n)}
  OBVIOUS
<1>3. Others(g, p, n)
  <2>1. Others(g, Removed(r, n), n)
    BY RemovedOthers
  <2> QED BY <1>2, <2>1
<1>4. p \in T /\ Linking(g, T)
  BY <1>2, <1>3, LinkingOthers DEF Others
<1>5. z \in T \/ z = Failed(r)
  BY <1>1, <1>2, <1>4, ByPassedWithin
<1> QED BY <1>2, <1>5, FailedOthers

\* A constant that goes is read by no other node.
LEMMA ConstStepOthers ==
  ASSUME Sound, NEW g \in Graph, NEW n, NEW r, Others(g, r, n), NEW e \in InData(edges, n), Kind[e.src] = "Const"
  PROVE  Others(g, ConstStep(g, r, e), n)
<1>1. PICK q, op : op = "del" /\ q = Step(g, r, Do(op, e))
  OBVIOUS
<1>2. /\ q \in Results /\ r.edges \ {e} \subseteq q.edges /\ q.edges \subseteq r.edges /\ q.gone = r.gone
      /\ q.ok => r.ok /\ {e.src, e.dst} \subseteq Stored(g) \ r.gone
  <2>1. r \in Results
    BY DEF Others
  <2>2. op \in Takes
    BY <1>1 DEF Takes
  <2>3. CutOff(g, r, e, q)
    BY <1>1, <2>1, <2>2, StepDels
  <2> QED BY <2>3 DEF CutOff
<1>3. e \in edges /\ e.dst = n
  BY DEF InData
<1>4. Others(g, q, n)
  BY <1>2, <1>3 DEF Others
<1>5. CASE ~ (q.ok /\ \A f \in q.edges : f.src # e.src)
  <2>1. ConstStep(g, r, e) = q
    BY <1>1, <1>5 DEF ConstStep
  <2> QED BY <1>4, <2>1
<1>6. CASE q.ok /\ \A f \in q.edges : f.src # e.src
  <2>1. ConstStep(g, r, e) = Released(g, q, e.src)
    BY <1>1, <1>6 DEF ConstStep
  <2>2. e.src \in Stored(g) /\ e.src \notin q.gone
    BY <1>2, <1>6
  <2>3. e.src \in Node
    BY <2>2, SoundParts
  <2>4. ASSUME NEW f \in edges, f.src = e.src, e.src # n
        PROVE  f.dst \in Lost(g, q.gone) \cup {n}
    <3>1. f \notin q.edges
      BY <1>6, <2>4
    <3>2. f.src \notin Lost(g, q.gone)
      BY <2>2, <2>4 DEF Lost
    <3> QED BY <1>4, <2>4, <3>1, <3>2 DEF Others
  <2>5. PICK m \in Node : m = e.src
    BY <2>3
  <2>6. m # n => Kind[m] = "Const" /\ \A f \in edges : f.src = m => f.dst \in Lost(g, q.gone) \cup {n}
    BY <2>4, <2>5
  <2>7. Others(g, Released(g, q, m), n)
    BY <1>4, <2>6, ReleasedOthers
  <2> QED BY <2>1, <2>5, <2>7
<1> QED BY <1>5, <1>6

LEMMA WithoutConstsOthers ==
  ASSUME Sound, NEW g \in Graph, NEW n
  PROVE  Others(g, WithoutConsts(g, n), n)
<1> DEFINE S == {e \in InData(edges, n) : Kind[e.src] = "Const"}
<1>1. PICK s : s = CHOOSE c \in ByAnchor(S) : TRUE
  OBVIOUS
<1>2. s \in Seq(S)
  <2>1. s \in Seq(Links) /\ ToSet(s) = S
    BY <1>1, ConstsListed
  <2>2. s \in Seq(ToSet(s))
    BY <2>1, ElementsIn
  <2> QED BY <2>1, <2>2
<1>3. WithoutConsts(g, n) = ConstSteps(g, Same, s)
  BY <1>1 DEF WithoutConsts
<1>4. PICK T : T = {r \in Results : Others(g, r, n)}
  OBVIOUS
<1>5. Same \in T
  BY <1>4, SameOthers DEF Others
<1>6. ConstStepping(g, T, S)
  <2> SUFFICES ASSUME NEW r \in T, NEW e \in S
               PROVE  ConstStep(g, r, e) \in T
    BY DEF ConstStepping
  <2>1. Others(g, ConstStep(g, r, e), n)
    BY <1>4, ConstStepOthers
  <2> QED BY <1>4, <2>1 DEF Others
<1> HIDE DEF S
<1>7. PICK q \in [0 .. Len(s) -> T] : q[Len(s)] = ConstSteps(g, Same, s)
  BY <1>2, <1>5, <1>6, ConstStepsRun
<1>8. Len(s) \in 0 .. Len(s)
  BY <1>2, LenProperties
<1> QED BY <1>3, <1>4, <1>7, <1>8

\* The nodes in gone went with n, and what was not about them is as it was.
KeptBeside(gone, n) ==
  /\ {e \in edges : {e.src, e.dst} \cap (gone \cup {n}) = {}} \subseteq edges'
  /\ \A m \in gone \ {n} :
       Kind[m] = "Const" /\ \A e \in edges : e.src = m => e.dst \in gone \cup {n}

LEMMA OthersKeptBeside ==
  ASSUME NEW g, NEW r, NEW n, Others(g, r, n), edges' = r.edges,
         NEW gone, gone \cup {n} = Lost(g, r.gone) \cup {n}
  PROVE  KeptBeside(gone, n)
<1>1. gone \ {n} = Lost(g, r.gone) \ {n}
  OBVIOUS
<1> QED BY <1>1 DEF Others, KeptBeside

\* The nodes that no graph has after a call.
LEMMA CommitTakesOut ==
  ASSUME Sound, NEW g \in Graph, NEW r, Good(g, r), Commit(g, r)
  PROVE  AllStored \ AllStored' = Lost(g, r.gone)
<1>1. PICK old, s : old = store[g] /\ s = Without(old, r.gone)
  OBVIOUS
<1>2. old \in Seq(Node)
  BY <1>1 DEF Sound, GraphsTyped
<1>3. ToSet(s) = Stored(g) \ r.gone
  <2>1. ToSet(s) = ToSet(old) \ r.gone
    BY <1>1, <1>2, WithoutList
  <2> QED BY <1>1, <2>1 DEF Stored
<1>4. \A k \in Graph : store'[k] = IF k = g THEN s ELSE store[k]
  BY <1>1 DEF Commit, Sound, GraphsTyped
<1>5. \A k \in Graph : ToSet(store'[k]) = Stored(k) \ (IF k = g THEN r.gone ELSE {})
  BY <1>3, <1>4 DEF Stored
<1>6. AllStored' = UNION {ToSet(store'[k]) : k \in Graph}
  BY DEF AllStored, Stored
<1>8. r.gone \subseteq Stored(g)
  BY DEF Good
<1>9. ASSUME NEW m
      PROVE  m \in AllStored /\ m \notin AllStored' <=> m \in Lost(g, r.gone)
  <2>1. m \in AllStored' <=> \E k \in Graph : m \in Stored(k) /\ (k = g => m \notin r.gone)
    BY <1>5, <1>6
  <2>2. m \in AllStored <=> \E k \in Graph : m \in Stored(k)
    BY DEF AllStored
  <2> QED BY <1>8, <2>1, <2>2 DEF Lost
<1> QED BY <1>9

\* Moving a node out of graph h takes no node away when it goes well.
LEMMA MoveNodeFromTakesOut ==
  ASSUME Sound, NEW g \in Graph, NEW h \in Graph, NEW n \in Node, MoveNodeFrom(g, h, n),
         NEW r \in ByPassed(h, Same, n), Good(h, r), r.ok => r.gone = {n},
         store' = [store EXCEPT ![h] = Without(store[h], r.gone),
                                ![g] = IF r.ok THEN Append(store[g], n) ELSE store[g]]
  PROVE  AllStored \ AllStored' = IF r.ok THEN {} ELSE Lost(h, r.gone)
<1>1. PICK old, s, to, t : old = store[h] /\ s = Without(old, r.gone) /\ to = store[g] /\ t = Append(to, n)
  OBVIOUS
<1>2. old \in Seq(Node) /\ to \in Seq(Node) /\ g # h /\ n \in Stored(h) \ Stored(g)
  BY <1>1 DEF Sound, GraphsTyped, MoveNodeFrom
<1>3. ToSet(s) = Stored(h) \ r.gone
  <2>1. ToSet(s) = ToSet(old) \ r.gone
    BY <1>1, <1>2, WithoutList
  <2> QED BY <1>1, <2>1 DEF Stored
<1>4. ToSet(t) = Stored(g) \cup {n}
  <2>1. IsInjective(to) /\ n \notin ToSet(to)
    BY <1>1, <1>2, SoundParts DEF Stored
  <2>2. t \in Seq(Node) /\ ToSet(t) = ToSet(to) \cup {n} /\ IsInjective(t)
    BY <1>1, <1>2, <2>1, NodeAppended
  <2> QED BY <1>1, <2>2 DEF Stored
<1>5. \A k \in Graph : store'[k] = IF k = h THEN s ELSE IF k = g /\ r.ok THEN t ELSE store[k]
  BY <1>1, <1>2 DEF Sound, GraphsTyped
<1>6. \A m : \A k \in Graph : m \in ToSet(store'[k]) <=>
        (m \in Stored(k) /\ (k = h => m \notin r.gone)) \/ (k = g /\ r.ok /\ m = n)
  BY <1>2, <1>3, <1>4, <1>5 DEF Stored
<1>7. AllStored' = UNION {ToSet(store'[k]) : k \in Graph}
  BY DEF AllStored, Stored
<1>9. r.gone \subseteq Stored(h)
  BY DEF Good
<1>10. ASSUME NEW m
       PROVE  m \in AllStored /\ m \notin AllStored' <=> m \in Lost(h, r.gone) /\ ~r.ok
  <2>1. m \in AllStored' <=> \E k \in Graph : \/ m \in Stored(k) /\ (k = h => m \notin r.gone)
                                              \/ k = g /\ r.ok /\ m = n
    <3>1. m \in AllStored' <=> \E k \in Graph : m \in ToSet(store'[k])
      BY <1>7
    <3>2. \A k \in Graph : m \in ToSet(store'[k]) <=>
            (m \in Stored(k) /\ (k = h => m \notin r.gone)) \/ (k = g /\ r.ok /\ m = n)
      BY <1>6
    <3> QED BY <3>1, <3>2
  <2>2. m \in AllStored <=> \E k \in Graph : m \in Stored(k)
    BY DEF AllStored
  <2> QED BY <1>9, <2>1, <2>2 DEF Lost
<1> QED BY <1>10

LEMMA CommitOthers ==
  ASSUME Sound, NEW g \in Graph, NEW r, NEW n, Good(g, r), Others(g, r, n), Commit(g, r)
  PROVE  KeptBeside(AllStored \ AllStored', n)
<1>1. PICK gone : gone = AllStored \ AllStored'
  OBVIOUS
<1>2. gone = Lost(g, r.gone) /\ edges' = r.edges
  BY <1>1, CommitTakesOut DEF Commit
<1> QED BY <1>1, <1>2, OthersKeptBeside

\* What the history says of a call.
LEMMA Told ==
  ASSUME NEW op, NEW g, NEW n, NEW o, Return(op, g, n, o)
  PROVE  call'.op = op /\ call'.graph = g /\ call'.node = n /\ ok' = o
BY DEF Return

\* The calls that the properties of the edges are about.
Edits == {"remove", "bypass", "insert", "prune"}

LEMMA OtherCalls ==
  ASSUME NEW g, NEW n,
         \/ AddNode(g, n) \/ AddNodeFront(g, n)
         \/ AddInput(g, n) \/ AddOutput(g, n) \/ RemoveOutputNode(g, n)
         \/ \E m \in Node : RemoveNodes(g, m, n) \/ RemoveEdgeBetween(g, m, n)
         \/ \E h \in Graph : MoveNode(g, h, n)
  PROVE  call'.op \notin Edits
<1>1. \A op \in {"add", "list", "removeAll", "edge", "move"} : op \notin Edits
  BY DEF Edits
<1>2. CASE AddNode(g, n) \/ AddNodeFront(g, n)
  BY <1>1, <1>2 DEF AddNode, AddNodeFront, Return
<1>3. CASE AddInput(g, n) \/ AddOutput(g, n) \/ RemoveOutputNode(g, n)
  BY <1>1, <1>3 DEF AddInput, AddOutput, RemoveOutputNode, Return
<1>4. CASE \E m \in Node : RemoveNodes(g, m, n)
  BY <1>1, <1>4 DEF RemoveNodes, Return
<1>5. CASE \E m \in Node : RemoveEdgeBetween(g, m, n)
  BY <1>1, <1>5 DEF RemoveEdgeBetween, EdgeCall, Return
<1>6. CASE \E h \in Graph : MoveNode(g, h, n)
  BY <1>1, <1>6 DEF MoveNode, Return
<1> QED BY <1>2, <1>3, <1>4, <1>5, <1>6

LEMMA GraphCalls ==
  ASSUME NEW g,
         \/ \E e \in Edge : AddEdge(g, e)
         \/ \E e \in edges : RemoveEdge(g, e) \/ RemoveEdgeOfEndpoints(g, e)
         \/ \E s \in Lists : SetInputs(g, s) \/ SetOutputs(g, s)
         \/ DFSWalk(g)
  PROVE  call'.op \notin Edits
<1>1. \A op \in {"edge", "list", "walk"} : op \notin Edits
  BY DEF Edits
<1>2. CASE \/ \E e \in Edge : AddEdge(g, e)
           \/ \E e \in edges : RemoveEdge(g, e) \/ RemoveEdgeOfEndpoints(g, e)
  BY <1>1, <1>2 DEF AddEdge, RemoveEdge, RemoveEdgeOfEndpoints, EdgeCall, Return
<1>3. CASE \E s \in Lists : SetInputs(g, s) \/ SetOutputs(g, s)
  BY <1>1, <1>3 DEF SetInputs, SetOutputs, Return
<1>4. CASE DFSWalk(g)
  BY <1>1, <1>4 DEF DFSWalk, Return
<1> QED BY <1>2, <1>3, <1>4

RemoveCall(g, n) == RemoveNode(g, n) \/ RemoveNodeWithConstInputs(g, n) \/ LegacyRemoveNode(g, n)
InsertCall(g, target, idx, n) == InsertBefore(g, target, idx, n) \/ InsertAfter(g, target, idx, n)

LEMMA EditNames ==
  ASSUME NEW g, NEW n
  PROVE  /\ RemoveCall(g, n) => call'.op = "remove" /\ call'.node = n
         /\ ByPassNode(g, n) => call'.op = "bypass" /\ call'.node = n
         /\ \A h : MoveNodeFrom(g, h, n) => call'.op = "bypass" /\ call'.node = n
         /\ \A target, idx : InsertCall(g, target, idx, n) => call'.op = "insert" /\ call'.node = n
         /\ Prune(g) => call'.op = "prune" /\ call'.graph = g
<1>1. RemoveNode(g, n) => call'.op = "remove" /\ call'.node = n
  BY DEF RemoveNode, Return
<1>2. RemoveNodeWithConstInputs(g, n) => call'.op = "remove" /\ call'.node = n
  BY DEF RemoveNodeWithConstInputs, Return
<1>3. LegacyRemoveNode(g, n) => call'.op = "remove" /\ call'.node = n
  BY DEF LegacyRemoveNode, Return
<1>4. ByPassNode(g, n) => call'.op = "bypass" /\ call'.node = n
  BY DEF ByPassNode, Return
<1>5. \A h : MoveNodeFrom(g, h, n) => call'.op = "bypass" /\ call'.node = n
  BY DEF MoveNodeFrom, Return
<1>6. \A target, idx : InsertBefore(g, target, idx, n) => call'.op = "insert" /\ call'.node = n
  BY DEF InsertBefore, Return
<1>7. \A target, idx : InsertAfter(g, target, idx, n) => call'.op = "insert" /\ call'.node = n
  BY DEF InsertAfter, Return
<1>8. Prune(g) => call'.op = "prune" /\ call'.graph = g
  BY DEF Prune, Return
<1> QED BY <1>1, <1>2, <1>3, <1>4, <1>5, <1>6, <1>7, <1>8 DEF RemoveCall, InsertCall

\* The calls that edit the edges, by the name the history has for them.
LEMMA EditMade ==
  ASSUME Sound, Next, call'.op \in Edits
  PROVE  \E g \in Graph :
           \/ \E n \in Node : /\ call'.node = n
                              /\ \/ RemoveCall(g, n) /\ call'.op = "remove"
                                 \/ ByPassNode(g, n) /\ call'.op = "bypass"
                                 \/ call'.op = "bypass" /\ \E h \in Graph : MoveNodeFrom(g, h, n)
           \/ \E target, n \in Stored(g), idx \in Indices :
                call'.op = "insert" /\ call'.node = n /\ InsertCall(g, target, idx, n)
           \/ Prune(g) /\ call'.op = "prune" /\ call'.graph = g
<1>1. PICK g \in Graph :
        \/ \E n \in Node : NodeCall(g, n)
        \/ \E e \in Edge : AddEdge(g, e)
        \/ \E e \in edges : RemoveEdge(g, e) \/ RemoveEdgeOfEndpoints(g, e)
        \/ \E target, n \in Stored(g), idx \in Indices :
             InsertBefore(g, target, idx, n) \/ InsertAfter(g, target, idx, n)
        \/ \E s \in Lists : SetInputs(g, s) \/ SetOutputs(g, s)
        \/ Prune(g)
        \/ DFSWalk(g)
  BY DEF Next
<1>2. ASSUME NEW n \in Node, NodeCall(g, n)
      PROVE  RemoveCall(g, n) \/ ByPassNode(g, n) \/ \E h \in Graph : MoveNodeFrom(g, h, n)
  BY <1>2, OtherCalls DEF NodeCall, RemoveCall
<1>3. \/ \E n \in Node : NodeCall(g, n)
      \/ \E target, n \in Stored(g), idx \in Indices : InsertCall(g, target, idx, n)
      \/ Prune(g)
  BY <1>1, GraphCalls DEF InsertCall
<1>4. CASE \E n \in Node : NodeCall(g, n)
  BY <1>2, <1>4, EditNames
<1>5. CASE \E target, n \in Stored(g), idx \in Indices : InsertCall(g, target, idx, n)
  BY <1>5, EditNames
<1>6. CASE Prune(g)
  BY <1>6, EditNames
<1> QED BY <1>3, <1>4, <1>5, <1>6

\* Each call that takes a node out.
LEMMA RemoveCallOthers ==
  ASSUME Sound, NEW g \in Graph, NEW n \in Node, RemoveCall(g, n)
  PROVE  KeptBeside(AllStored \ AllStored', n)
<1>1. Good(g, Same) /\ Others(g, Same, n)
  BY SameGood, SameOthers
<1>2. CASE RemoveNode(g, n)
  <2>1. PICK r : r = (IF n \in Stored(g) THEN Removed(Same, n) ELSE Failed(Same)) /\ Commit(g, r)
    BY <1>2 DEF RemoveNode
  <2>2. Good(g, r)
    BY <1>1, <2>1, RemovedGood, FailedGood
  <2>3. Others(g, Removed(Same, n), n) /\ Others(g, Failed(Same), n)
    BY <1>1, RemovedOthers, FailedOthers
  <2>4. Others(g, r, n)
    BY <2>1, <2>3
  <2> QED BY <2>1, <2>2, <2>4, CommitOthers
<1>3. PICK q : q = WithoutConsts(g, n)
  OBVIOUS
<1>4. Good(g, q) /\ Others(g, q, n)
  BY <1>3, WithoutConstsGood, WithoutConstsOthers
<1>5. Others(g, Removed(q, n), n) /\ Others(g, Failed(q), n)
  BY <1>4, RemovedOthers, FailedOthers
<1>6. CASE RemoveNodeWithConstInputs(g, n)
  <2>1. PICK r : n \in Stored(g) /\ r = (IF q.ok THEN Removed(q, n) ELSE q) /\ Commit(g, r)
    BY <1>3, <1>6 DEF RemoveNodeWithConstInputs
  <2>2. Good(g, r)
    BY <1>4, <2>1, RemovedGood
  <2>3. Others(g, r, n)
    BY <1>4, <1>5, <2>1
  <2> QED BY <2>1, <2>2, <2>3, CommitOthers
<1>7. CASE LegacyRemoveNode(g, n)
  <2>1. PICK r : /\ \/ r = Failed(q)
                    \/ n \in Stored(g) /\ r \in ByPassed(g, q, n)
                    \/ n \in Stored(g) /\ r = Removed(q, n)
                 /\ Commit(g, r)
    BY <1>3, <1>7 DEF LegacyRemoveNode
  <2>2. Good(g, r)
    BY <1>4, <2>1, RemovedGood, FailedGood, ByPassedGood
  <2>3. Others(g, r, n)
    BY <1>4, <1>5, <2>1, ByPassedOthers
  <2> QED BY <2>1, <2>2, <2>3, CommitOthers
<1> QED BY <1>2, <1>6, <1>7 DEF RemoveCall

LEMMA ByPassNodeOthers ==
  ASSUME Sound, NEW g \in Graph, NEW n \in Node, ByPassNode(g, n)
  PROVE  KeptBeside(AllStored \ AllStored', n)
<1>1. PICK r \in ByPassed(g, Same, n) : Commit(g, r)
  BY DEF ByPassNode
<1>2. Good(g, Same) /\ Others(g, Same, n)
  BY SameGood, SameOthers
<1>3. Good(g, r) /\ Others(g, r, n)
  BY <1>2, ByPassedGood, ByPassedOthers
<1> QED BY <1>1, <1>3, CommitOthers

LEMMA MoveNodeFromOthers ==
  ASSUME Sound, NEW g \in Graph, NEW h \in Graph, NEW n \in Node, MoveNodeFrom(g, h, n)
  PROVE  KeptBeside(AllStored \ AllStored', n)
<1>1. PICK r \in ByPassed(h, Same, n) :
        /\ edges' = r.edges
        /\ store' = [store EXCEPT ![h] = Without(store[h], r.gone),
                                  ![g] = IF r.ok THEN Append(store[g], n) ELSE store[g]]
  BY DEF MoveNodeFrom
<1>2. Good(h, Same) /\ Others(h, Same, n) /\ Same.gone = {}
  BY SameGood, SameOthers DEF Same
<1>3. Good(h, r) /\ (r.ok => r.gone = {n}) /\ Others(h, r, n)
  BY <1>2, ByPassedGood, ByPassedOthers
<1>4. PICK gone : gone = AllStored \ AllStored'
  OBVIOUS
<1>5. gone = IF r.ok THEN {} ELSE Lost(h, r.gone)
  BY <1>1, <1>3, <1>4, MoveNodeFromTakesOut
<1>6. gone \cup {n} = Lost(h, r.gone) \cup {n}
  BY <1>3, <1>5 DEF Lost
<1> QED BY <1>1, <1>3, <1>4, <1>6, OthersKeptBeside

LEMMA EditOthers ==
  ASSUME Sound, Next, call'.op \in {"remove", "bypass"}
  PROVE  KeptBeside(AllStored \ AllStored', call'.node)
<1>1. call'.op \in Edits /\ call'.op # "insert" /\ call'.op # "prune"
  BY DEF Edits
<1>2. PICK g \in Graph : \E n \in Node :
        /\ call'.node = n
        /\ RemoveCall(g, n) \/ ByPassNode(g, n) \/ \E h \in Graph : MoveNodeFrom(g, h, n)
  BY <1>1, EditMade
<1> QED BY <1>2, RemoveCallOthers, ByPassNodeOthers, MoveNodeFromOthers

\* Removing or bypassing a node takes no edge of other nodes with it, and only
\* constants that nothing else reads, also when it fails half way.
THEOREM OthersAreKept == Spec => OthersKept
<1>1. ASSUME IInv, [Next]_vars
      PROVE  [ call'.op \in {"remove", "bypass"} =>
                 LET gone == AllStored \ AllStored' IN
                 /\ {e \in edges : {e.src, e.dst} \cap (gone \cup {call'.node}) = {}} \subseteq edges'
                 /\ \A m \in gone \ {call'.node} :
                      Kind[m] = "Const"
                      /\ \A e \in edges : e.src = m => e.dst \in gone \cup {call'.node} ]_vars
  <2>1. CASE UNCHANGED vars
    BY <2>1
  <2>2. CASE Next
    <3> SUFFICES ASSUME call'.op \in {"remove", "bypass"}
                 PROVE  KeptBeside(AllStored \ AllStored', call'.node)
      BY DEF KeptBeside
    <3> QED BY <1>1, <2>2, EditOthers DEF IInv
  <2> QED BY <1>1, <2>1, <2>2
<1> QED BY <1>1, Invariance, PTL DEF Spec, OthersKept

LEMMA PruneKeeps ==
  ASSUME Sound, NEW g \in Graph, Prune(g)
  PROVE  /\ OutNodes(g) \subseteq Stored(g)'
         /\ {e \in edges : e.dst \in Upstream(edges, OutNodes(g))} \subseteq edges'
<1>1. PICK live, dead, old, s :
        /\ live = Upstream(edges, OutNodes(g)) /\ dead = Stored(g) \ ActiveNodes(g)
        /\ old = store[g] /\ s = Without(old, dead)
  OBVIOUS
<1>2. store' = [store EXCEPT ![g] = s] /\ edges' = {e \in edges : {e.src, e.dst} \cap dead = {}}
  BY <1>1 DEF Prune
<1>3. OutNodes(g) \cap dead = {} /\ live \cap dead = {}
  BY <1>1, PruneLeaves
<1>4. Stored(g)' = Stored(g) \ dead
  <2>1. old \in Seq(Node)
    BY <1>1, SoundParts
  <2>2. ToSet(s) = ToSet(old) \ dead
    BY <1>1, <2>1, WithoutList
  <2> QED BY <1>1, <1>2, <2>2 DEF Stored, Sound, GraphsTyped
<1>5. \A e \in edges : e.dst \in live => e.src \in live
  <2>1. edges \in SUBSET Links /\ OutNodes(g) \in SUBSET Node
    BY OutNodesStored DEF Sound, GraphsTyped
  <2>2. Above(edges, live) \subseteq live
    BY <1>1, <2>1, UpstreamClosed
  <2> QED BY <2>2 DEF Above
<1>6. OutNodes(g) \subseteq Stored(g)'
  BY <1>3, <1>4, OutNodesStored
<1>7. {e \in edges : e.dst \in live} \subseteq edges'
  BY <1>2, <1>3, <1>5
<1> QED BY <1>1, <1>6, <1>7

\* Pruning takes none of the nodes and edges that the outputs depend on.
THEOREM OutputsOutlivePruning == Spec => PruneKeepsOutputs
<1>1. ASSUME IInv, [Next]_vars
      PROVE  [ call'.op = "prune" =>
                 \A g \in {call'.graph} :
                   LET live == Upstream(edges, OutNodes(g)) IN
                   /\ OutNodes(g) \subseteq Stored(g)'
                   /\ {e \in edges : e.dst \in live} \subseteq edges' ]_vars
  <2>1. CASE UNCHANGED vars
    BY <2>1
  <2>2. CASE Next
    <3> SUFFICES ASSUME call'.op = "prune", NEW g, g = call'.graph
                 PROVE  /\ OutNodes(g) \subseteq Stored(g)'
                        /\ {e \in edges : e.dst \in Upstream(edges, OutNodes(g))} \subseteq edges'
      OBVIOUS
    <3>1. call'.op \in Edits
      BY DEF Edits
    <3>2. Sound
      BY <1>1 DEF IInv
    <3>3. PICK k \in Graph : Prune(k) /\ call'.graph = k
      BY <2>2, <3>1, <3>2, EditMade
    <3>4. g = k
      BY <3>3
    <3> QED BY <3>2, <3>3, <3>4, PruneKeeps
  <2> QED BY <1>1, <2>1, <2>2
<1> QED BY <1>1, Invariance, PTL DEF Spec, PruneKeepsOutputs

-----------------------------------------------------------------------------
(* The readers of a node that is put in or taken out *)

\* A run of steps that only make edges ends with what any of its results has.
LEMMA RunGrows ==
  ASSUME NEW n \in Nat, NEW q \in [0 .. n -> Results],
         \A k \in 1 .. n : q[k - 1].edges \subseteq q[k].edges /\ (q[k].ok => q[k - 1].ok)
  PROVE  \A k \in 0 .. n : q[k].edges \subseteq q[n].edges /\ (q[n].ok => q[k].ok)
<1> DEFINE U == {j \in Nat : j <= n =>
                   \A k \in 0 .. j : q[k].edges \subseteq q[j].edges /\ (q[j].ok => q[k].ok)}
<1>1. 0 \in U
  OBVIOUS
<1>2. ASSUME NEW j \in Nat, j \in U
      PROVE  j + 1 \in U
  <2> SUFFICES ASSUME j + 1 <= n, NEW k \in 0 .. j + 1
               PROVE  q[k].edges \subseteq q[j + 1].edges /\ (q[j + 1].ok => q[k].ok)
    OBVIOUS
  <2>1. j + 1 \in 1 .. n /\ j + 1 - 1 = j /\ j <= n
    OBVIOUS
  <2>2. q[j].edges \subseteq q[j + 1].edges /\ (q[j + 1].ok => q[j].ok)
    BY <2>1
  <2>3. CASE k = j + 1
    BY <2>3
  <2>4. CASE k \in 0 .. j
    <3>1. q[k].edges \subseteq q[j].edges /\ (q[j].ok => q[k].ok)
      BY <1>2, <2>1, <2>4
    <3> QED BY <2>2, <3>1
  <2> QED BY <2>3, <2>4
<1>3. n \in U
  <2> HIDE DEF U
  <2> QED BY <1>1, <1>2, Everywhere
<1> QED BY <1>3

\* f leads from where s comes from to where d leads, and brings the same value.
Joint(s, d, f) ==
  f.src = s.src /\ f.dst = d.dst /\ (IsData(d) => ~IsCtrl(s) /\ f.out = s.out /\ f.in = d.in)

Joins(r, q, s, d) ==
  /\ q \in Results /\ r.edges \subseteq q.edges
  /\ q.ok => r.ok /\ \E f \in q.edges : Joint(s, d, f)

LEMMA StepJoins ==
  ASSUME NEW g, NEW r \in Results, NEW s \in Links, NEW d \in Links, NEW q, q = Step(g, r, LinkPoint(s, d))
  PROVE  Joins(r, q, s, d)
<1>1. PICK op, e : /\ op \in Makes /\ e \in Links /\ LinkPoint(s, d) = Do(op, e)
                   /\ op # "fail" => Joint(s, d, e)
  <2>1. PICK e1, e2 : e1 = Link(s.src, CTRL, d.dst, CTRL) /\ e2 = Link(s.src, s.out, d.dst, d.in)
    OBVIOUS
  <2>2. e1 \in Links /\ e2 \in Links
    BY <2>1 DEF Link, Links, CTRL
  <2>3. CASE IsData(s) /\ IsCtrl(d)
    <3>1. LinkPoint(s, d) = Do("ensure", e1)
      BY <2>1, <2>3 DEF LinkPoint
    <3>2. ~IsData(d)
      BY <2>3 DEF IsData, IsCtrl, CTRL
    <3>3. Joint(s, d, e1)
      BY <2>1, <3>2 DEF Joint, Link
    <3> QED BY <2>2, <3>1, <3>3 DEF Makes
  <2>4. CASE ~ (IsData(s) /\ IsCtrl(d)) /\ IsCtrl(s) /\ IsData(d)
    <3>1. LinkPoint(s, d) = Do("fail", d)
      BY <2>4 DEF LinkPoint
    <3> QED BY <3>1 DEF Makes
  <2>5. CASE ~ (IsData(s) /\ IsCtrl(d)) /\ ~ (IsCtrl(s) /\ IsData(d))
    <3>1. LinkPoint(s, d) = Do("add", e2)
      BY <2>1, <2>5 DEF LinkPoint
    <3>2. Joint(s, d, e2)
      BY <2>1, <2>5 DEF Joint, Link
    <3> QED BY <2>2, <3>1, <3>2 DEF Makes
  <2> QED BY <2>3, <2>4, <2>5
<1>2. /\ q \in Results /\ r.edges \subseteq q.edges /\ q.gone = r.gone
      /\ q.ok => r.ok /\ op # "fail" /\ e \in q.edges
  <2>1. q = Step(g, r, Do(op, e)) /\ r \in Results /\ op \in Makes /\ e \in Links
    BY <1>1
  <2> QED BY ONLY <2>1, StepAdds
<1> QED BY <1>1, <1>2 DEF Joins

LEMMA LinkingResults ==
  ASSUME NEW g
  PROVE  Linking(g, Results)
<1> SUFFICES ASSUME NEW r \in Results, NEW op \in Makes, NEW e \in Links
             PROVE  Step(g, r, Do(op, e)) \in Results
  BY DEF Linking
<1>1. PICK q : q = Step(g, r, Do(op, e))
  OBVIOUS
<1>2. /\ q \in Results /\ r.edges \subseteq q.edges /\ q.gone = r.gone
      /\ q.ok => r.ok /\ op # "fail" /\ e \in q.edges
  <2>1. r \in Results /\ op \in Makes /\ e \in Links
    OBVIOUS
  <2> QED BY ONLY <1>1, <2>1, StepAdds
<1> QED BY <1>1, <1>2

\* An in edge of a node is joined with all the out edges.
JoinsAll(r, q, s, D) ==
  /\ q \in Results /\ r.edges \subseteq q.edges
  /\ q.ok => r.ok /\ \A d \in D : \E f \in q.edges : Joint(s, d, f)

LEMMA LinkToJoins ==
  ASSUME NEW g, NEW r \in Results, NEW s \in Links, NEW ds \in Seq(Links), NEW z, z = LinkTo(g, r, s, ds)
  PROVE  JoinsAll(r, z, s, ToSet(ds))
<1>1. PICK n \in Nat : n = Len(ds) /\ DOMAIN ds = 1 .. n /\ \A k \in 1 .. n : ds[k] \in Links
  BY LenProperties
<1>2. Stepping(g, s, Results, Links)
  BY StepJoins DEF Joins, Stepping
<1>3. PICK q \in [0 .. Len(ds) -> Results] :
        /\ q[0] = r /\ q[Len(ds)] = LinkTo(g, r, s, ds)
        /\ \A k \in 1 .. Len(ds) : q[k] = Step(g, q[k - 1], LinkPoint(s, ds[k]))
  BY <1>2, LinkToRun
<1>4. q \in [0 .. n -> Results] /\ q[0] = r /\ q[n] = z
  BY <1>1, <1>3
<1>5. ASSUME NEW k \in 1 .. n
      PROVE  Joins(q[k - 1], q[k], s, ds[k])
  <2>1. PICK a, b, d : a = q[k - 1] /\ b = q[k] /\ d = ds[k]
    OBVIOUS
  <2>2. a \in Results /\ d \in Links /\ b = Step(g, a, LinkPoint(s, d))
    BY <1>1, <1>3, <1>4, <2>1
  <2>3. Joins(a, b, s, d)
    BY <2>2, StepJoins
  <2> QED BY <2>1, <2>3
<1>6. \A k \in 0 .. n : q[k].edges \subseteq q[n].edges /\ (q[n].ok => q[k].ok)
  <2>1. \A k \in 1 .. n : q[k - 1].edges \subseteq q[k].edges /\ (q[k].ok => q[k - 1].ok)
    BY <1>5 DEF Joins
  <2> QED BY <1>4, <2>1, RunGrows
<1>7. r.edges \subseteq z.edges /\ (z.ok => r.ok) /\ z \in Results
  BY <1>4, <1>6
<1>8. ASSUME z.ok, NEW d \in ToSet(ds)
      PROVE  \E f \in z.edges : Joint(s, d, f)
  <2>1. PICK k \in 1 .. n : d = ds[k]
    BY <1>1, <1>8 DEF ToSet
  <2>2. q[k].ok /\ q[k].edges \subseteq z.edges
    BY <1>4, <1>6, <1>8
  <2> QED BY <1>5, <2>1, <2>2 DEF Joins
<1> QED BY <1>7, <1>8 DEF JoinsAll

LEMMA LinkPointsJoin ==
  ASSUME NEW g, NEW r \in Results, NEW ss \in Seq(Links), NEW ds \in Seq(Links),
         NEW z, z = LinkPoints(g, r, ss, ds), z.ok
  PROVE  \A s \in ToSet(ss), d \in ToSet(ds) : \E f \in z.edges : Joint(s, d, f)
<1>1. PICK n \in Nat : n = Len(ss) /\ DOMAIN ss = 1 .. n /\ \A k \in 1 .. n : ss[k] \in Links
  BY LenProperties
<1>2. Joining(g, Results, Links, ds)
  BY LinkToJoins DEF Joining, JoinsAll
<1>3. PICK q \in [0 .. Len(ss) -> Results] :
        /\ q[0] = r /\ q[Len(ss)] = LinkPoints(g, r, ss, ds)
        /\ \A k \in 1 .. Len(ss) : q[k] = LinkTo(g, q[k - 1], ss[k], ds)
  BY <1>2, LinkPointsRun
<1>4. q \in [0 .. n -> Results] /\ q[n] = z
  BY <1>1, <1>3
<1>5. ASSUME NEW k \in 1 .. n
      PROVE  JoinsAll(q[k - 1], q[k], ss[k], ToSet(ds))
  <2>1. PICK a, b, s : a = q[k - 1] /\ b = q[k] /\ s = ss[k]
    OBVIOUS
  <2>2. a \in Results /\ s \in Links /\ b = LinkTo(g, a, s, ds)
    BY <1>1, <1>3, <1>4, <2>1
  <2>3. JoinsAll(a, b, s, ToSet(ds))
    BY <2>2, LinkToJoins
  <2> QED BY <2>1, <2>3
<1>6. \A k \in 0 .. n : q[k].edges \subseteq q[n].edges /\ (q[n].ok => q[k].ok)
  <2>1. \A k \in 1 .. n : q[k - 1].edges \subseteq q[k].edges /\ (q[k].ok => q[k - 1].ok)
    BY <1>5 DEF JoinsAll
  <2> QED BY <1>4, <2>1, RunGrows
<1>7. ASSUME NEW s \in ToSet(ss), NEW d \in ToSet(ds)
      PROVE  \E f \in z.edges : Joint(s, d, f)
  <2>1. PICK k \in 1 .. n : s = ss[k]
    BY <1>1 DEF ToSet
  <2>2. q[k].ok /\ q[k].edges \subseteq z.edges
    BY <1>4, <1>6
  <2> QED BY <1>5, <2>1, <2>2 DEF JoinsAll
<1> QED BY <1>7

\* Node n is out of F, and what it read from E and who read it are joined.
Bridged(E, F, n) ==
  /\ \A f \in F : n \notin {f.src, f.dst}
  /\ \A e \in E : n \notin {e.src, e.dst} => e \in F
  /\ \A s, d \in E : s.dst = n /\ d.src = n => \E f \in F : Joint(s, d, f)
  /\ \A d \in E : d.src = n /\ IsData(d) => \E s \in E : s.dst = n /\ IsData(s)

\* Node n is out, and nothing is linked to it.
Cleared(n) == {r \in Results : n \in r.gone /\ \A f \in r.edges : n \notin {f.src, f.dst}}

LEMMA LinkingClears ==
  ASSUME NEW g, NEW n
  PROVE  Linking(g, Cleared(n))
<1> SUFFICES ASSUME NEW r \in Cleared(n), NEW op \in Makes, NEW e \in Links
             PROVE  Step(g, r, Do(op, e)) \in Cleared(n)
  BY DEF Linking
<1>1. PICK s, q : s = Do(op, e) /\ q = Step(g, r, s)
  OBVIOUS
<1>2. s.op = op /\ s.edge = e /\ r \in Results
  BY <1>1 DEF Do, Cleared
<1>3. q \in Results /\ q.gone = r.gone
  BY <1>1, <1>2, StepKeeps
<1>4. \/ q = r \/ q = Failed(r)
      \/ q = Added(r, e) /\ {e.src, e.dst} \subseteq Stored(g) \ r.gone
  <2>1. op \notin {"del", "unlink"}
    BY DEF Makes
  <2>2. \/ q = r \/ q = Failed(r)
        \/ s.op \in {"del", "unlink"}
        \/ q = Added(r, s.edge) /\ {s.edge.src, s.edge.dst} \subseteq Stored(g) \ r.gone
    BY <1>1, StepCases
  <2> QED BY <1>2, <2>1, <2>2
<1>5. Failed(r).edges = r.edges /\ Added(r, e).edges = r.edges \cup {e}
  BY <1>2 DEF Failed, Added, Results
<1>6. \A f \in q.edges : n \notin {f.src, f.dst}
  BY <1>4, <1>5 DEF Cleared
<1>7. q \in Cleared(n)
  BY <1>3, <1>6 DEF Cleared
<1> QED BY <1>1, <1>7

LEMMA ByPassBridges ==
  ASSUME Sound, NEW g \in Graph, NEW n \in Node, NEW z \in ByPassed(g, Same, n), z.ok
  PROVE  Bridged(edges, z.edges, n)
<1>1. edges \in SUBSET Links /\ IsFiniteSet(edges) /\ \A e \in edges : IsData(e) \/ IsCtrl(e)
  <2>1. \A e \in edges : Anchored(e)
    BY DEF Sound, GraphsTyped
  <2>2. \A e \in edges : Outs[e.src] \in Nat /\ Ins[e.dst] \in Nat
    BY GraphAssumption DEF Sound, GraphsTyped, Links
  <2> QED BY <2>1, <2>2 DEF Anchored, IsData, Sound, GraphsTyped
<1>2. Good(g, Same) /\ Others(g, Same, n) /\ Same.edges = edges /\ Same.gone = {} /\ Same \in Results
  BY SameGood, SameOthers DEF Same, Others
<1>3. Good(g, z) /\ z.gone = {n} /\ Others(g, z, n)
  BY <1>2, ByPassedGood, ByPassedOthers
<1>4. PreCheck(g, edges, n)
  <2>1. ~Failed(Same).ok
    BY <1>2 DEF Failed, Results
  <2> QED BY <1>2, <2>1 DEF ByPassed
<1>5. PICK p : p = Removed(Same, n)
  OBVIOUS
<1>6. p \in Results
  BY <1>2, <1>5 DEF Removed, Results
<1>7. PICK ss \in InOrders(edges, n), ds \in OutOrders(edges, n) : z = LinkPoints(g, p, ss, ds)
  BY <1>2, <1>4, <1>5 DEF ByPassed
<1>8. /\ ss \in Seq(Links) /\ ToSet(ss) = InData(edges, n) \cup InCtrl(edges, n)
      /\ ds \in Seq(Links) /\ ToSet(ds) = OutData(edges, n) \cup OutCtrl(edges, n)
  BY <1>1, <1>7, OrdersListed
<1>9. \A s \in ToSet(ss), d \in ToSet(ds) : \E f \in z.edges : Joint(s, d, f)
  BY <1>6, <1>7, <1>8, LinkPointsJoin
<1>10. \A s, d \in edges : s.dst = n /\ d.src = n => \E f \in z.edges : Joint(s, d, f)
  <2>1. \A s \in edges : s.dst = n => s \in ToSet(ss)
    BY <1>1, <1>8 DEF InData, InCtrl
  <2>2. \A d \in edges : d.src = n => d \in ToSet(ds)
    BY <1>1, <1>8 DEF OutData, OutCtrl
  <2> QED BY <1>9, <2>1, <2>2
<1>11. \A f \in z.edges : n \notin {f.src, f.dst}
  <2>1. p \in Cleared(n)
    BY <1>2, <1>5, <1>6 DEF Removed, Results, Cleared
  <2>2. PICK T : T = Cleared(n)
    OBVIOUS
  <2>3. Linking(g, T) /\ Removed(Same, n) \in T
    BY <1>5, <2>1, <2>2, LinkingClears
  <2>4. Same.edges \in SUBSET Links /\ IsFiniteSet(Same.edges)
    BY <1>1, <1>2
  <2>5. z \in T \/ z = Failed(Same)
    BY <2>3, <2>4, ByPassedWithin
  <2>6. ~Failed(Same).ok
    BY <1>2 DEF Failed, Results
  <2> QED BY <2>2, <2>5, <2>6 DEF Cleared
<1>12. \A e \in edges : n \notin {e.src, e.dst} => e \in z.edges
  <2>1. Lost(g, z.gone) \cup {n} = {n}
    BY <1>3 DEF Lost
  <2> QED BY <1>3, <2>1 DEF Others
<1>13. ASSUME NEW d \in edges, d.src = n, IsData(d)
       PROVE  \E s \in edges : s.dst = n /\ IsData(s)
  <2>1. d \in OutData(edges, n)
    BY <1>13 DEF OutData
  <2>2. Cardinality(InData(edges, n)) = 1
    BY <1>4, <2>1 DEF PreCheck
  <2>3. InData(edges, n) # {}
    BY <2>2, FS_EmptySet
  <2> QED BY <2>3 DEF InData
<1> QED BY <1>10, <1>11, <1>12, <1>13 DEF Bridged

\* An edge of E that is not in F goes through n.
Routed(E, F, n) ==
  \A e \in E \ F : {Link(e.src, e.out, n, 0), Link(n, 0, e.dst, e.in)} \subseteq F

LEMMA StepDone ==
  ASSUME NEW g, NEW r \in Results, NEW op \in Makes, NEW e \in Links, NEW q, q = Step(g, r, Do(op, e)), q.ok
  PROVE  q \in Results /\ r.ok /\ r.edges \cup {e} \subseteq q.edges
<1>1. /\ q \in Results /\ r.edges \subseteq q.edges /\ q.gone = r.gone
      /\ q.ok => r.ok /\ op # "fail" /\ e \in q.edges
  <2>1. r \in Results /\ op \in Makes /\ e \in Links /\ q = Step(g, r, Do(op, e))
    OBVIOUS
  <2> QED BY ONLY <2>1, StepAdds
<1> QED BY <1>1

LEMMA NoLoopAdded ==
  ASSUME NEW g, NEW r \in Results, NEW e, NEW q, q = Step(g, r, Do("add", e)), q.ok
  PROVE  e.src # e.dst
<1>1. PICK s : s = Do("add", e)
  OBVIOUS
<1>2. s.op = "add" /\ s.edge = e
  BY <1>1 DEF Do
<1>3. ~Failed(r).ok
  BY DEF Failed, Results
<1>4. \/ q = r /\ ~r.ok
      \/ q = Failed(r)
      \/ s.op \in {"del", "unlink"}
      \/ s.op = "ensure"
      \/ s.edge.src # s.edge.dst
  <2>1. q = Step(g, r, s)
    BY <1>1
  <2> QED BY <2>1, StepCases
<1> QED BY <1>2, <1>3, <1>4

LEMMA InsertBeforeRoutes ==
  ASSUME Sound, NEW g \in Graph, NEW target \in Node, NEW n \in Node, NEW idx \in Indices,
         InsertBefore(g, target, idx, n), ok'
  PROVE  Routed(edges, edges', n)
<1>1. PICK feeds, old, del, add, a, b, p, q, r :
        /\ feeds = {e \in InData(edges, target) : e.in = idx} /\ old = (CHOOSE e \in feeds : TRUE)
        /\ a = Link(old.src, old.out, n, 0) /\ b = Link(n, 0, target, idx)
        /\ del = "unlink" /\ add = "add"
        /\ p = Step(g, Same, Do(del, old)) /\ q = Step(g, p, Do(add, a))
        /\ r = IF feeds = {} \/ ~HasSingleIdleInputAndSingleOutput(n) THEN Failed(Same) ELSE Step(g, q, Do(add, b))
        /\ Commit(g, r) /\ Return("insert", g, n, r.ok)
  BY DEF InsertBefore
<1>2. Same \in Results /\ Same.edges = edges
  BY DEF Same, Results, Sound, GraphsTyped
<1>3. r.ok /\ edges' = r.edges
  BY <1>1 DEF Return, Commit
<1>4. feeds # {} /\ r = Step(g, q, Do(add, b))
  <2>1. ~Failed(Same).ok
    BY <1>2 DEF Failed, Results
  <2> QED BY <1>1, <1>3, <2>1
<1>5. old \in edges /\ old.dst = target /\ old.in = idx
  BY <1>1, <1>4 DEF InData
<1>6. a \in Links /\ b \in Links
  BY <1>1, <1>5 DEF Link, Links, Indices, Sound, GraphsTyped
<1>7. del \in Takes /\ add \in Makes
  BY <1>1 DEF Takes, Makes
<1>8. CutOff(g, Same, old, p)
  BY <1>1, <1>2, <1>7, StepDels
<1>9. p \in Results /\ edges \ {old} \subseteq p.edges
  BY <1>2, <1>8 DEF CutOff
<1>10. q \in Results
  BY <1>1, <1>6, <1>7, <1>9, LinkingResults DEF Linking
<1>11. q.ok /\ q.edges \cup {b} \subseteq r.edges
  BY <1>3, <1>4, <1>6, <1>7, <1>10, StepDone
<1>12. p.edges \cup {a} \subseteq q.edges
  <2>1. q = Step(g, p, Do(add, a))
    BY <1>1
  <2>2. q \in Results /\ p.ok /\ p.edges \cup {a} \subseteq q.edges
    BY <1>6, <1>7, <1>9, <1>11, <2>1, StepDone
  <2> QED BY <2>2
<1>13. \A e \in edges \ edges' : e = old
  BY <1>3, <1>9, <1>11, <1>12
<1>14. a \in edges' /\ b \in edges'
  BY <1>3, <1>11, <1>12
<1> QED BY <1>1, <1>5, <1>13, <1>14 DEF Routed

\* Edges that stay, and edges that the readers in the list s have by now.
Relinked(q, E, n, s, k) ==
  /\ q \in Results /\ E \subseteq q.edges
  /\ q.ok => \A j \in 1 .. k : Link(n, 0, s[j].dst, s[j].in) \in q.edges

LEMMA RelinkStep ==
  ASSUME NEW g, NEW E, NEW n \in Node, NEW m \in Nat, NEW s \in [1 .. m -> Links],
         \A j \in 1 .. m : s[j].src # n /\ s[j] \notin E,
         NEW k \in Nat, k + 1 <= m, NEW r, Relinked(r, E, n, s, k),
         NEW z, z = Relink(g, r, n, s[k + 1])
  PROVE  Relinked(z, E, n, s, k + 1)
<1>1. PICK e, l, del, add, q :
        /\ e = s[k + 1] /\ l = Link(n, 0, e.dst, e.in) /\ del = "del" /\ add = "add"
        /\ q = Step(g, r, Do(del, e)) /\ z = Step(g, q, Do(add, l))
  BY DEF Relink
<1>2. k + 1 \in 1 .. m /\ e \in Links /\ l \in Links /\ e.src # n /\ e \notin E
  BY <1>1 DEF Link, Links
<1>3. del \in Takes /\ add \in Makes
  BY <1>1 DEF Takes, Makes
<1>4. r \in Results /\ E \subseteq r.edges
  BY DEF Relinked
<1>5. CutOff(g, r, e, q)
  BY <1>1, <1>3, <1>4, StepDels
<1>6. q \in Results /\ r.edges \ {e} \subseteq q.edges /\ (q.ok => r.ok)
  BY <1>5 DEF CutOff
<1>7. z \in Results /\ q.edges \subseteq z.edges
  <2>1. z = Step(g, q, Do(add, l))
    BY <1>1
  <2>2. /\ z \in Results /\ q.edges \subseteq z.edges /\ z.gone = q.gone
        /\ z.ok => q.ok /\ add # "fail" /\ l \in z.edges
    <3>1. q \in Results
      BY <1>6
    <3>2. add \in Makes /\ l \in Links
      BY <1>2, <1>3
    <3> QED BY ONLY <2>1, <3>1, <3>2, StepAdds
  <2> QED BY <2>2
<1>8. ASSUME z.ok
      PROVE  q.ok /\ l \in z.edges
  <2>1. z = Step(g, q, Do(add, l))
    BY <1>1
  <2>2. z \in Results /\ q.ok /\ q.edges \cup {l} \subseteq z.edges
    BY <1>2, <1>3, <1>6, <1>8, <2>1, StepDone
  <2> QED BY <2>2
<1>9. E \subseteq z.edges
  BY <1>2, <1>4, <1>6, <1>7
<1>10. ASSUME z.ok, NEW j \in 1 .. k + 1
       PROVE  Link(n, 0, s[j].dst, s[j].in) \in z.edges
  <2>1. CASE j = k + 1
    BY <1>1, <1>8, <1>10, <2>1
  <2>2. CASE j \in 1 .. k
    <3>1. Link(n, 0, s[j].dst, s[j].in) \in r.edges
      BY <1>6, <1>8, <1>10, <2>2 DEF Relinked
    <3>2. Link(n, 0, s[j].dst, s[j].in) # e
      BY <1>2 DEF Link
    <3> QED BY <1>6, <1>7, <3>1, <3>2
  <2> QED BY <2>1, <2>2
<1> QED BY <1>7, <1>9, <1>10 DEF Relinked

LEMMA RelinkAllRelinks ==
  ASSUME Sound, NEW g \in Graph, NEW n \in Node, NEW s \in Seq(Links), NEW E, E \subseteq edges,
         \A e \in ToSet(s) : e.src # n /\ e \notin E,
         NEW z, z = RelinkAll(g, Same, n, s)
  PROVE  Relinked(z, E, n, s, Len(s))
<1>1. PICK m \in Nat : m = Len(s) /\ DOMAIN s = 1 .. m /\ \A k \in 1 .. m : s[k] \in Links
  BY LenProperties
<1>2. s \in [1 .. m -> Links] /\ \A j \in 1 .. m : s[j].src # n /\ s[j] \notin E
  <2>1. s = [j \in 1 .. m |-> s[j]]
    BY <1>1
  <2>2. \A j \in 1 .. m : s[j] \in ToSet(s)
    BY <1>1 DEF ToSet
  <2> QED BY <1>1, <2>1, <2>2
<1>3. Same \in Results /\ Same.edges = edges
  BY DEF Same, Results, Sound, GraphsTyped
<1>4. ASSUME NEW r \in Results, NEW e \in Links
      PROVE  Relink(g, r, n, e) \in Results
  <2>1. PICK del, add, l, q : /\ del = "del" /\ add = "add" /\ l = Link(n, 0, e.dst, e.in)
                              /\ q = Step(g, r, Do(del, e)) /\ Relink(g, r, n, e) = Step(g, q, Do(add, l))
    BY DEF Relink
  <2>2. del \in Takes /\ add \in Makes /\ l \in Links
    BY <2>1 DEF Takes, Makes, Link, Links
  <2>3. CutOff(g, r, e, q)
    BY <2>1, <2>2, StepDels
  <2>4. q \in Results
    BY <2>3 DEF CutOff
  <2>5. Linking(g, Results)
    BY LinkingResults
  <2> QED BY <2>1, <2>2, <2>4, <2>5 DEF Linking
<1>5. PICK q \in [0 .. Len(s) -> Results] :
        /\ q[0] = Same /\ q[Len(s)] = RelinkAll(g, Same, n, s)
        /\ \A k \in 1 .. Len(s) : q[k] = Relink(g, q[k - 1], n, s[k])
  <2>1. Relinking(g, n, Results, Links)
    BY <1>4 DEF Relinking
  <2> QED BY <1>3, <2>1, RelinkRun
<1> DEFINE U == {k \in Nat : k <= m => Relinked(q[k], E, n, s, k)}
<1>6. 0 \in U
  <2>1. \A j \in 1 .. 0 : FALSE
    OBVIOUS
  <2> QED BY <1>3, <1>5, <2>1 DEF Relinked
<1>7. ASSUME NEW k \in Nat, k \in U
      PROVE  k + 1 \in U
  <2> SUFFICES ASSUME k + 1 <= m PROVE Relinked(q[k + 1], E, n, s, k + 1)
    OBVIOUS
  <2>1. PICK r, y : r = q[k] /\ y = q[k + 1]
    OBVIOUS
  <2>2. k + 1 \in 1 .. Len(s) /\ k + 1 - 1 = k /\ k <= m
    BY <1>1
  <2>3. y = Relink(g, r, n, s[k + 1])
    BY <1>5, <2>1, <2>2
  <2>4. Relinked(r, E, n, s, k)
    BY <1>7, <2>1, <2>2
  <2>5. Relinked(y, E, n, s, k + 1)
    <3> HIDE DEF U
    <3> QED BY <1>2, <2>3, <2>4, RelinkStep
  <2> QED BY <2>1, <2>5
<1>8. m \in U
  <2> HIDE DEF U
  <2> QED BY <1>6, <1>7, Everywhere
<1> QED BY <1>1, <1>5, <1>8

LEMMA InsertAfterRoutes ==
  ASSUME Sound, NEW g \in Graph, NEW target \in Node, NEW n \in Node, NEW idx \in Indices,
         InsertAfter(g, target, idx, n), ok'
  PROVE  Routed(edges, edges', n)
<1>1. PICK S, peers, add, a, q, r :
        /\ S = {e \in OutData(edges, target) : e.out = idx} /\ peers \in SetToSeqs(S)
        /\ q = RelinkAll(g, Same, n, peers) /\ a = Link(target, idx, n, 0) /\ add = "add"
        /\ r = IF ~HasSingleIdleInputAndSingleOutput(n) THEN Failed(Same) ELSE Step(g, q, Do(add, a))
        /\ Commit(g, r) /\ Return("insert", g, n, r.ok)
  BY DEF InsertAfter
<1>2. Same \in Results /\ Same.edges = edges
  BY DEF Same, Results, Sound, GraphsTyped
<1>3. r.ok /\ edges' = r.edges
  BY <1>1 DEF Return, Commit
<1>4. r = Step(g, q, Do(add, a))
  <2>1. ~Failed(Same).ok
    BY <1>2 DEF Failed, Results
  <2> QED BY <1>1, <1>3, <2>1
<1>5. S \subseteq edges /\ \A e \in S : e.src = target /\ e.out = idx
  BY <1>1 DEF OutData
<1>6. peers \in Seq(Links) /\ ToSet(peers) = S
  <2>1. edges \in SUBSET Links /\ IsFiniteSet(edges)
    BY DEF Sound, GraphsTyped
  <2>2. S \in SUBSET Links /\ IsFiniteSet(S)
    BY <1>5, <2>1, FS_Subset
  <2> QED BY <1>1, <2>2, SeqsOf
<1>7. q \in Results
  <2>1. Good(g, q)
    BY <1>1, <1>6, SameGood, RelinkAllGood
  <2> QED BY <2>1 DEF Good
<1>8. a.src # a.dst
  <2>1. r = Step(g, q, Do("add", a))
    BY <1>1, <1>4
  <2> QED BY <1>3, <1>7, <2>1, NoLoopAdded
<1>9. target # n
  BY <1>1, <1>8 DEF Link
<1>10. a \in Links /\ add \in Makes
  BY <1>1 DEF Link, Links, Indices, Makes
<1>11. r \in Results /\ q.ok /\ q.edges \cup {a} \subseteq r.edges
  BY <1>3, <1>4, <1>7, <1>10, StepDone
<1>12. PICK E : E = edges \ S
  OBVIOUS
<1>13. Relinked(q, E, n, peers, Len(peers))
  <2>1. E \subseteq edges /\ \A e \in ToSet(peers) : e.src # n /\ e \notin E
    BY <1>5, <1>6, <1>9, <1>12
  <2> QED BY <1>1, <1>6, <2>1, RelinkAllRelinks
<1>14. \A e \in edges \ edges' : e \in S
  BY <1>3, <1>11, <1>12, <1>13 DEF Relinked
<1>15. ASSUME NEW e \in S
       PROVE  Link(n, 0, e.dst, e.in) \in edges'
  <2>1. PICK j \in DOMAIN peers : peers[j] = e
    BY <1>6 DEF ToSet
  <2>2. j \in 1 .. Len(peers)
    BY <1>6, <2>1, LenProperties
  <2> QED BY <1>3, <1>11, <1>13, <2>1, <2>2 DEF Relinked
<1>16. \A e \in S : Link(e.src, e.out, n, 0) \in edges'
  BY <1>1, <1>3, <1>5, <1>11
<1> QED BY <1>14, <1>15, <1>16 DEF Routed

\* Every other node reads what it read before, past n or through it.
KeptReaders(E, F, nodes, n) ==
  /\ \A d \in {e \in E : IsData(e) /\ e.dst # n} : \E e \in F : SameValue(F, d, e, n) \/ SameValue(E, e, d, n)
  /\ \A m \in nodes \ {n} : Upstream(E, {m}) \ {n} \subseteq Upstream(F, {m})

LEMMA RoutedReaders ==
  ASSUME NEW E \in SUBSET Links, NEW F \in SUBSET Links, NEW n, Routed(E, F, n), NEW nodes \in SUBSET Node
  PROVE  KeptReaders(E, F, nodes, n)
<1>1. ASSUME NEW d \in E, IsData(d)
      PROVE  \E e \in F : SameValue(F, d, e, n)
  <2>1. CASE d \in F
    BY <2>1 DEF SameValue
  <2>2. CASE d \notin F
    <3>1. PICK f, e : f = Link(d.src, d.out, n, 0) /\ e = Link(n, 0, d.dst, d.in) /\ {f, e} \subseteq F
      BY <2>2 DEF Routed
    <3>2. f \in InData(F, n) /\ f.src = d.src /\ f.out = d.out
      BY <1>1, <3>1 DEF InData, IsData, Link
    <3>3. e.src = n /\ e.dst = d.dst /\ e.in = d.in
      BY <3>1 DEF Link
    <3> QED BY <3>1, <3>2, <3>3 DEF SameValue
  <2> QED BY <2>1, <2>2
<1>2. ASSUME NEW m \in nodes
      PROVE  Upstream(E, {m}) \subseteq Upstream(F, {m})
  <2>1. PICK S, T : S = {m} /\ T = Upstream(F, S)
    OBVIOUS
  <2>2. S \in SUBSET Node
    BY <2>1
  <2>3. S \subseteq T /\ Above(F, T) \subseteq T
    BY <2>1, <2>2, UpstreamLeast, UpstreamClosed
  <2>4. \A f \in F : f.dst \in T => f.src \in T
    BY <2>3 DEF Above
  <2>5. ASSUME NEW e \in E, e.dst \in T
        PROVE  e.src \in T
    <3>1. CASE e \in F
      BY <2>4, <2>5, <3>1
    <3>2. CASE e \notin F
      <4>1. PICK f, d : f = Link(e.src, e.out, n, 0) /\ d = Link(n, 0, e.dst, e.in) /\ {f, d} \subseteq F
        BY <3>2 DEF Routed
      <4>2. n \in T
        BY <2>4, <2>5, <4>1 DEF Link
      <4> QED BY <2>4, <4>1, <4>2 DEF Link
    <3> QED BY <3>1, <3>2
  <2>6. Above(E, T) \subseteq T
    BY <2>5 DEF Above
  <2>7. Upstream(E, S) \subseteq T
    BY <2>2, <2>3, <2>6, UpstreamLeast
  <2> QED BY <2>1, <2>7
<1> QED BY <1>1, <1>2 DEF KeptReaders

LEMMA BridgedReaders ==
  ASSUME NEW E \in SUBSET Links, NEW F \in SUBSET Links, NEW n, Bridged(E, F, n), NEW nodes \in SUBSET Node
  PROVE  KeptReaders(E, F, nodes, n)
<1>1. ASSUME NEW d \in E, IsData(d), d.dst # n
      PROVE  \E e \in F : SameValue(F, d, e, n) \/ SameValue(E, e, d, n)
  <2>1. CASE d.src # n
    BY <1>1, <2>1 DEF Bridged, SameValue
  <2>2. CASE d.src = n
    <3>1. PICK s \in E : s.dst = n /\ IsData(s)
      BY <1>1, <2>2 DEF Bridged
    <3>2. PICK e \in F : Joint(s, d, e)
      BY <2>2, <3>1 DEF Bridged
    <3>3. e.dst = d.dst /\ e.in = d.in /\ s.src = e.src /\ s.out = e.out
      BY <1>1, <3>2 DEF Joint
    <3>4. s \in InData(E, n)
      BY <3>1 DEF InData
    <3> QED BY <2>2, <3>3, <3>4 DEF SameValue
  <2> QED BY <2>1, <2>2
<1>2. ASSUME NEW m \in nodes, m # n
      PROVE  Upstream(E, {m}) \ {n} \subseteq Upstream(F, {m})
  <2>1. PICK S, T, R : S = {m} /\ T = Upstream(F, S) /\ R = Node \ {n}
    OBVIOUS
  <2>2. S \in SUBSET Node
    BY <2>1
  <2>3. S \subseteq T /\ Above(F, T) \subseteq T
    BY <2>1, <2>2, UpstreamLeast, UpstreamClosed
  <2>4. \A f \in F : f.dst \in T => f.src \in T
    BY <2>3 DEF Above
  <2>5. n \notin T
    <3>1. S \subseteq R /\ Above(F, R) \subseteq R
      BY <1>2, <2>1 DEF Above, Bridged, Links
    <3>2. Upstream(F, S) \subseteq R
      BY <2>2, <3>1, UpstreamLeast
    <3> QED BY <2>1, <3>2
  <2>6. PICK U : U = T \cup (IF \E d \in E : d.src = n /\ d.dst \in T THEN {n} ELSE {})
    OBVIOUS
  <2>7. ASSUME NEW e \in E, e.dst \in U
        PROVE  e.src \in U
    <3>1. CASE e.dst \in T /\ e.src = n
      BY <2>6, <3>1
    <3>2. CASE e.dst \in T /\ e.src # n
      <4>1. e \in F
        BY <2>5, <3>2 DEF Bridged
      <4> QED BY <2>4, <2>6, <3>2, <4>1
    <3>3. CASE e.dst \notin T
      <4>1. e.dst = n /\ \E d \in E : d.src = n /\ d.dst \in T
        BY <2>6, <2>7, <3>3
      <4>2. PICK d \in E : d.src = n /\ d.dst \in T
        BY <4>1
      <4>3. PICK f \in F : Joint(e, d, f)
        BY <4>1, <4>2 DEF Bridged
      <4>4. f.src = e.src /\ f.dst = d.dst
        BY <4>3 DEF Joint
      <4> QED BY <2>4, <2>6, <4>2, <4>4
    <3> QED BY <3>1, <3>2, <3>3
  <2>8. S \subseteq U /\ Above(E, U) \subseteq U
    BY <2>3, <2>6, <2>7 DEF Above
  <2>9. Upstream(E, S) \subseteq U
    BY <2>2, <2>8, UpstreamLeast
  <2>10. U \ {n} \subseteq T
    BY <2>6
  <2> QED BY <2>1, <2>9, <2>10
<1> QED BY <1>1, <1>2 DEF KeptReaders

LEMMA EditReaders ==
  ASSUME Sound, Sound', Next, call'.op \in {"insert", "bypass"}, ok'
  PROVE  KeptReaders(edges, edges', AllStored', call'.node)
<1>1. call'.op \in Edits /\ call'.op # "remove" /\ call'.op # "prune"
  BY DEF Edits
<1>2. edges \in SUBSET Links /\ edges' \in SUBSET Links
  BY DEF Sound, GraphsTyped
<1>3. AllStored' \in SUBSET Node
  <2>1. \A k \in Graph : store'[k] \in Seq(Node)
    BY DEF Sound, GraphsTyped
  <2>2. \A k \in Graph : ToSet(store'[k]) \subseteq Node
    BY <2>1, ElementsIn
  <2> QED BY <2>2 DEF AllStored, Stored
<1>4. PICK g \in Graph :
        \/ \E n \in Node : /\ call'.node = n
                           /\ ByPassNode(g, n) \/ \E h \in Graph : MoveNodeFrom(g, h, n)
        \/ \E target, n \in Stored(g), idx \in Indices : call'.node = n /\ InsertCall(g, target, idx, n)
  BY <1>1, EditMade
<1>5. CASE \E n \in Node : /\ call'.node = n
                           /\ ByPassNode(g, n) \/ \E h \in Graph : MoveNodeFrom(g, h, n)
  <2>1. PICK n \in Node : /\ call'.node = n
                          /\ ByPassNode(g, n) \/ \E h \in Graph : MoveNodeFrom(g, h, n)
    BY <1>5
  <2>2. PICK k \in Graph : \E z \in ByPassed(k, Same, n) : z.ok /\ edges' = z.edges
    <3>1. CASE ByPassNode(g, n)
      BY <3>1 DEF ByPassNode, Commit, Return
    <3>2. CASE \E h \in Graph : MoveNodeFrom(g, h, n)
      BY <3>2 DEF MoveNodeFrom, Return
    <3> QED BY <2>1, <3>1, <3>2
  <2>3. Bridged(edges, edges', n)
    BY <2>2, ByPassBridges
  <2> QED BY <1>2, <1>3, <2>1, <2>3, BridgedReaders
<1>6. CASE \E target, n \in Stored(g), idx \in Indices : call'.node = n /\ InsertCall(g, target, idx, n)
  <2>1. PICK target \in Stored(g), n \in Stored(g), idx \in Indices : call'.node = n /\ InsertCall(g, target, idx, n)
    BY <1>6
  <2>2. target \in Node /\ n \in Node
    BY <2>1, SoundParts
  <2>3. Routed(edges, edges', n)
    BY <2>1, <2>2, InsertBeforeRoutes, InsertAfterRoutes DEF InsertCall
  <2> QED BY <1>2, <1>3, <2>1, <2>3, RoutedReaders
<1> QED BY <1>4, <1>5, <1>6

\* A node that is put in, bypassed or moved away costs no other node an input: each
\* data input still gets the output it got, and each node still waits for all those
\* it waited for.
THEOREM ReadersAreKept == Spec => ReadersKept
<1>1. ASSUME IInv, IInv', [Next]_vars
      PROVE  [ call'.op \in {"insert", "bypass"} /\ ok' =>
                 LET n == call'.node IN
                 /\ \A d \in {e \in edges : IsData(e) /\ e.dst # n} : \E e \in edges' :
                      SameValue(edges', d, e, n) \/ SameValue(edges, e, d, n)
                 /\ \A m \in AllStored' \ {n} :
                      Upstream(edges, {m}) \ {n} \subseteq Upstream(edges', {m}) ]_vars
  <2>1. CASE UNCHANGED vars
    BY <2>1
  <2>2. CASE Next
    <3> SUFFICES ASSUME call'.op \in {"insert", "bypass"}, ok'
                 PROVE  KeptReaders(edges, edges', AllStored', call'.node)
      BY DEF KeptReaders
    <3> QED BY <1>1, <2>2, EditReaders DEF IInv
  <2> QED BY <1>1, <2>1, <2>2
<1> QED BY <1>1, Invariance, PTL DEF Spec, ReadersKept

\* An edit disturbs neither the readers of what it moves nor anything else.
THEOREM EdgesAreKept == Spec => EdgesKept
BY ReadersAreKept, OthersAreKept DEF EdgesKept

=============================================================================
