------------------------- MODULE GraphSorter_proofs -------------------------
(***************************************************************************)
(* Proofs about GraphSorter: the lists the sort works on, the counts of in *)
(* edges it keeps, and what follows for its result and for the order in    *)
(* which the graph's inputs are taken.                                     *)
(***************************************************************************)
EXTENDS GraphSorter, FiniteSetTheorems, SequenceTheorems, TLAPS

-----------------------------------------------------------------------------
(* Lists *)

LEMMA ElementsIn ==
  ASSUME NEW S, NEW s \in Seq(S)
  PROVE  /\ Elements(s) \subseteq S
         /\ s \in Seq(Elements(s))
<1>1. Len(s) \in Nat /\ s \in [1 .. Len(s) -> S]
  BY LenProperties
<1>2. Elements(s) \subseteq S
  BY <1>1 DEF Elements
<1>3. s \in [1 .. Len(s) -> Elements(s)]
  BY <1>1 DEF Elements
<1> QED BY <1>1, <1>2, <1>3, SeqDef

LEMMA SeqOf ==
  ASSUME NEW S, NEW T, NEW s \in Seq(S), Elements(s) \subseteq T
  PROVE  s \in Seq(T)
BY ElementsIn, SeqMonotonic

LEMMA Appended ==
  ASSUME NEW S, NEW s \in Seq(S), NEW n \in S
  PROVE  /\ Append(s, n) \in Seq(S)
         /\ Elements(Append(s, n)) = Elements(s) \cup {n}
         /\ Distinct(s) /\ n \notin Elements(s) => Distinct(Append(s, n))
<1> DEFINE t == Append(s, n)
<1>1. /\ Len(s) \in Nat /\ Len(t) = Len(s) + 1 /\ t \in Seq(S)
      /\ \A i \in 1 .. Len(s) : t[i] = s[i]
      /\ t[Len(s) + 1] = n
  BY AppendProperties, LenProperties
<1> HIDE DEF t
<1>2. 1 .. Len(t) = 1 .. Len(s) \cup {Len(s) + 1}
  BY <1>1
<1>3. Elements(t) = Elements(s) \cup {n}
  BY <1>1, <1>2 DEF Elements
<1>4. Distinct(s) /\ n \notin Elements(s) => Distinct(t)
  BY <1>1, <1>2 DEF Elements, Distinct
<1> QED BY <1>1, <1>3, <1>4 DEF t

LEMMA Inserted ==
  ASSUME NEW S, NEW s \in Seq(S), NEW i \in 1 .. Len(s) + 1, NEW n \in S
  PROVE  /\ Insert(s, i, n) \in Seq(S)
         /\ Len(Insert(s, i, n)) = Len(s) + 1
         /\ Elements(Insert(s, i, n)) = Elements(s) \cup {n}
         /\ Distinct(s) /\ n \notin Elements(s) => Distinct(Insert(s, i, n))
<1> DEFINE t == Insert(s, i, n)
<1>1. Len(s) \in Nat /\ s \in [1 .. Len(s) -> S]
  BY LenProperties
<1>2. t \in [1 .. Len(s) + 1 -> S]
  BY <1>1 DEF Insert
<1>3. t \in Seq(S) /\ Len(t) = Len(s) + 1
  BY <1>1, <1>2, SeqDef, LenProperties
<1>4. \A j \in 1 .. Len(s) + 1 :
        t[j] = IF j < i THEN s[j] ELSE IF j = i THEN n ELSE s[j - 1]
  BY <1>1 DEF Insert
<1> HIDE DEF t
<1>5. ASSUME NEW j \in 1 .. Len(s)
      PROVE  \E k \in 1 .. Len(s) + 1 : t[k] = s[j]
  <2>1. CASE j < i
    BY <1>1, <1>4, <2>1
  <2>2. CASE j >= i
    <3>1. j + 1 \in 1 .. Len(s) + 1 /\ t[j + 1] = s[j]
      BY <1>1, <1>4, <2>2
    <3> QED BY <3>1
  <2> QED BY <1>1, <2>1, <2>2
<1>6. ASSUME NEW j \in 1 .. Len(s) + 1
      PROVE  t[j] \in Elements(s) \cup {n}
  BY <1>1, <1>4 DEF Elements
<1>7. n = t[i]
  BY <1>1, <1>4
<1>8. Elements(t) = Elements(s) \cup {n}
  BY <1>1, <1>3, <1>5, <1>6, <1>7 DEF Elements
<1>9. ASSUME Distinct(s), n \notin Elements(s),
             NEW j \in 1 .. Len(t), NEW k \in 1 .. Len(t), t[j] = t[k]
      PROVE  j = k
  <2>1. \A l \in 1 .. Len(s) : s[l] # n
    BY <1>9 DEF Elements
  <2> QED BY <1>1, <1>3, <1>4, <1>9, <2>1 DEF Distinct
<1> QED BY <1>3, <1>8, <1>9 DEF Distinct, t

\* The list without its last element.
Popped(s) == SubSeq(s, 1, Len(s) - 1)

LEMMA PoppedList ==
  ASSUME NEW S, NEW s \in Seq(S), s # <<>>,
         NEW t, t = Popped(s), NEW n, n = s[Len(s)]
  PROVE  /\ t \in Seq(S) /\ n \in S
         /\ Elements(s) = Elements(t) \cup {n}
         /\ Distinct(s) => Distinct(t) /\ n \notin Elements(t)
<1>1. Len(s) \in Nat \ {0} /\ s \in [1 .. Len(s) -> S]
  BY LenProperties, EmptySeq
<1>2. /\ t \in Seq(S) /\ Len(t) = Len(s) - 1
      /\ \A i \in 1 .. Len(s) - 1 : t[i] = s[i]
  BY <1>1, SubSeqProperties DEF Popped
<1>3. 1 .. Len(s) = 1 .. Len(t) \cup {Len(s)} /\ Len(t) < Len(s) /\ Len(t) \in Nat
  BY <1>1, <1>2
<1>4. Elements(s) = Elements(t) \cup {n}
  BY <1>1, <1>2, <1>3 DEF Elements
<1>5. Distinct(s) => Distinct(t) /\ n \notin Elements(t)
  BY <1>1, <1>2, <1>3 DEF Elements, Distinct
<1> QED BY <1>1, <1>2, <1>4, <1>5

\* A finite list of distinct elements is one to one.
LEMMA Counted ==
  ASSUME NEW S, NEW s \in Seq(S), Distinct(s)
  PROVE  /\ IsFiniteSet(Elements(s))
         /\ Cardinality(Elements(s)) = Len(s)
<1>1. Len(s) \in Nat /\ s \in [1 .. Len(s) -> S]
  BY LenProperties
<1>2. s \in Bijection(1 .. Len(s), Elements(s))
  BY <1>1 DEF Distinct, Elements, Bijection, Injection, Surjection, IsInjective
<1>3. IsFiniteSet(1 .. Len(s)) /\ Cardinality(1 .. Len(s)) = Len(s)
  BY <1>1, FS_Interval
<1> QED BY <1>2, <1>3, FS_Bijection DEF ExistsBijection

\* A list taken in the order of a permutation.
Taken(s, p) == [i \in 1 .. Len(s) |-> s[p[i]]]

LEMMA Permuted ==
  ASSUME NEW S, NEW s \in Seq(S), NEW p \in [1 .. Len(s) -> 1 .. Len(s)], Distinct(p),
         NEW t, t = Taken(s, p)
  PROVE  /\ t \in Seq(S)
         /\ Len(t) = Len(s)
         /\ Elements(t) = Elements(s)
         /\ Distinct(s) => Distinct(t)
<1>1. Len(s) \in Nat /\ s \in [1 .. Len(s) -> S]
  BY LenProperties
<1>2. p \in Seq(1 .. Len(s)) /\ Len(p) = Len(s)
  BY <1>1, SeqDef, LenProperties
<1>3. p \in Injection(1 .. Len(s), 1 .. Len(s))
  BY <1>1, <1>2 DEF Distinct, Injection, IsInjective
<1>4. p \in Surjection(1 .. Len(s), 1 .. Len(s))
  BY <1>1, <1>3, FS_Interval, FS_Injection
<1>5. t \in [1 .. Len(s) -> S] /\ \A i \in 1 .. Len(s) : t[i] = s[p[i]]
  BY <1>1 DEF Taken
<1>6. t \in Seq(S) /\ Len(t) = Len(s)
  BY <1>1, <1>5, SeqDef, LenProperties
<1>7. Elements(t) = Elements(s)
  <2>1. \A j \in 1 .. Len(s) : \E i \in 1 .. Len(s) : p[i] = j
    BY <1>4 DEF Surjection
  <2>2. ASSUME NEW j \in 1 .. Len(s)
        PROVE  \E i \in 1 .. Len(s) : t[i] = s[j]
    <3>1. PICK i \in 1 .. Len(s) : p[i] = j
      BY <2>1
    <3>2. t[i] = s[p[i]]
      BY <1>5
    <3> QED BY <3>1, <3>2
  <2>3. ASSUME NEW i \in 1 .. Len(s)
        PROVE  p[i] \in 1 .. Len(s) /\ t[i] = s[p[i]]
    BY <1>5
  <2>4. Elements(s) \subseteq Elements(t)
    BY <1>6, <2>2 DEF Elements
  <2>5. Elements(t) \subseteq Elements(s)
    BY <1>6, <2>3 DEF Elements
  <2> QED BY <2>4, <2>5
<1>8. Distinct(s) => Distinct(t)
  BY <1>1, <1>2, <1>5, <1>6 DEF Distinct
<1> QED BY <1>6, <1>7, <1>8

LEMMA SwappedList ==
  ASSUME NEW S, NEW s \in Seq(S), NEW i \in 1 .. Len(s), NEW j \in 1 .. Len(s),
         NEW t, t = Swapped(s, i, j)
  PROVE  /\ t \in Seq(S) /\ Len(t) = Len(s)
         /\ Elements(t) = Elements(s)
         /\ Distinct(s) => Distinct(t)
         /\ t[i] = s[j]
<1>1. Len(s) \in Nat /\ s \in [1 .. Len(s) -> S]
  BY LenProperties
<1>2. t \in [1 .. Len(s) -> S]
  BY <1>1 DEF Swapped
<1>3. t \in Seq(S) /\ Len(t) = Len(s)
  BY <1>1, <1>2, SeqDef, LenProperties
<1>4. \A k \in 1 .. Len(s) : t[k] = IF k = j THEN s[i] ELSE IF k = i THEN s[j] ELSE s[k]
  BY <1>1 DEF Swapped
<1>5. Elements(t) \subseteq Elements(s)
  BY <1>1, <1>3, <1>4 DEF Elements
<1>6. Elements(s) \subseteq Elements(t)
  <2> SUFFICES ASSUME NEW k \in 1 .. Len(s)
               PROVE  \E l \in 1 .. Len(s) : t[l] = s[k]
    BY <1>3 DEF Elements
  <2>1. t[j] = s[i] /\ (i # j => t[i] = s[j])
    BY <1>4
  <2> QED BY <1>4, <2>1
<1>7. Distinct(s) => Distinct(t)
  BY <1>1, <1>3, <1>4 DEF Distinct
<1> QED BY <1>3, <1>4, <1>5, <1>6, <1>7

-----------------------------------------------------------------------------
(* The inductive invariant *)

\* The nodes whose in edges are counted.
Seen == IF pc = "prepare" THEN {nodes[k] : k \in 1 .. next - 1} ELSE Mapped

\* The edges the walk has taken off the counts.
Consumed(e) == e.src \in Elements(dfsNodes) /\ e \notin outEdges

Open(n) == {e \in InEdges(n) : ~Consumed(e)}

\* What the count of n is, from its open edges; one edge is not waited for by
\* NextIteration, and taking it off wraps the count.
Left(n) ==
  IF Kind[n] = "NextIteration" /\ InEdges(n) # {}
  THEN IF Open(n) = {} THEN SIZE_MAX ELSE Cardinality(Open(n)) - 1
  ELSE Cardinality(Open(n))

Listed == Elements(noEntryNodes) \cup Elements(dfsNodes)

Stored ==
  /\ Distinct(nodes) /\ Distinct(given)
  /\ Elements(nodes) = Elements(given) /\ Len(nodes) = Len(given)
  /\ pc \notin {"write", "sorted"} => nodes = given

Lists ==
  /\ Distinct(noEntryNodes) /\ Distinct(dfsNodes)
  /\ Elements(noEntryNodes) \cap Elements(dfsNodes) = {}
  /\ Listed \subseteq Seen
  /\ \A e \in outEdges : e.src \in Elements(dfsNodes)

Counts ==
  \A n \in Seen :
    /\ nodeEdgeMap[n] = Left(n)
    /\ n \in Listed <=> nodeEdgeMap[n] \in {0, SIZE_MAX}

\* Every node in the list stands after the nodes it reads from.
InOrder(s) ==
  \A n \in Elements(s) :
    IF Kind[n] = "NextIteration"
    THEN \A e, f \in Behind(s, n) : e = f
    ELSE Behind(s, n) = {}

Phases ==
  /\ pc = "prepare" =>
       /\ dfsNodes = <<>> /\ outEdges = {}
       /\ Len(noEntryNodes) < next /\ dataIter <= Len(noEntryNodes) + 1
  /\ pc \in {"write", "sorted", "failed"} => noEntryNodes = <<>> /\ outEdges = {}
  /\ pc = "write" =>
       /\ Elements(dfsNodes) = Mapped /\ Len(dfsNodes) = Len(nodes)
       /\ \A k \in 1 .. next - 1 : nodes[k] = dfsNodes[k]
  /\ pc = "sorted" => nodes = dfsNodes
  /\ pc = "failed" => ~IsBeginWithData \/ ~IsGraphNoCycle

IInv ==
  /\ TypeOK
  /\ Stored
  /\ Lists
  /\ Counts
  /\ InOrder(dfsNodes)
  /\ Phases

-----------------------------------------------------------------------------
(* Counts of edges *)

LEMMA FewEdges ==
  ASSUME edges \in SUBSET Edge, NEW n, NEW T \in SUBSET InEdges(n)
  PROVE  /\ IsFiniteSet(T)
         /\ Cardinality(T) \in Nat /\ Cardinality(T) < SIZE_MAX
         /\ Cardinality(T) = 0 <=> T = {}
<1>1. T \in SUBSET Edge
  BY DEF InEdges
<1>2. IsFiniteSet(Edge) /\ SIZE_MAX \in Nat /\ Cardinality(Edge) < SIZE_MAX
  BY SorterAssumption
<1>3. IsFiniteSet(T) /\ Cardinality(T) <= Cardinality(Edge)
  BY <1>1, <1>2, FS_Subset
<1>4. Cardinality(T) \in Nat /\ Cardinality(Edge) \in Nat
  BY <1>2, <1>3, FS_CardinalityType
<1>5. Cardinality(T) = 0 <=> T = {}
  BY <1>3, FS_EmptySet
<1> QED BY <1>2, <1>3, <1>4, <1>5

\* A count is that of a node that waits for nothing exactly when its open edges
\* say so.
LEMMA LeftOver ==
  ASSUME edges \in SUBSET Edge, NEW n
  PROVE  /\ Left(n) \in 0 .. SIZE_MAX
         /\ Left(n) \in {0, SIZE_MAX} <=>
              IF Kind[n] = "NextIteration" THEN \A e, f \in Open(n) : e = f ELSE Open(n) = {}
<1> DEFINE size == Cardinality(Open(n))
<1>1. Open(n) \in SUBSET InEdges(n)
  BY DEF Open
<1>2. /\ IsFiniteSet(Open(n)) /\ size \in Nat /\ size < SIZE_MAX
      /\ size = 0 <=> Open(n) = {}
  BY <1>1, FewEdges
<1>3. size = 1 <=> \E e : Open(n) = {e}
  BY <1>2, FS_Singleton
<1>4. (\A e, f \in Open(n) : e = f) <=> (Open(n) = {} \/ \E e : Open(n) = {e})
  OBVIOUS
<1>5. SIZE_MAX \in Nat
  BY SorterAssumption
<1> HIDE DEF size
<1>6. Left(n) = IF Kind[n] = "NextIteration" /\ InEdges(n) # {}
                THEN IF Open(n) = {} THEN SIZE_MAX ELSE size - 1
                ELSE size
  BY DEF Left, size
<1>7. InEdges(n) = {} => Open(n) = {}
  BY DEF Open
<1> DEFINE one == \A e, f \in Open(n) : e = f
<1>8. one <=> size \in {0, 1}
  BY <1>2, <1>3, <1>4
<1> HIDE DEF one
<1>9. /\ Left(n) \in 0 .. SIZE_MAX
      /\ Left(n) \in {0, SIZE_MAX} <=> IF Kind[n] = "NextIteration" THEN one ELSE Open(n) = {}
  BY <1>2, <1>5, <1>6, <1>7, <1>8
<1> QED BY <1>9 DEF one

\* The count of a node that is visited.
LEMMA LeftAtFirst ==
  ASSUME edges \in SUBSET Edge, NEW n, Open(n) = InEdges(n)
  PROVE  InEdgeSize(n) = Left(n) /\ InEdgeSize(n) # SIZE_MAX /\ InEdgeSize(n) \in 0 .. SIZE_MAX
<1>1. /\ Cardinality(InEdges(n)) \in Nat /\ Cardinality(InEdges(n)) < SIZE_MAX
      /\ Cardinality(InEdges(n)) = 0 <=> InEdges(n) = {}
  BY FewEdges
<1>2. SIZE_MAX \in Nat
  BY SorterAssumption
<1> QED BY <1>1, <1>2 DEF InEdgeSize, Left

\* Taking an edge off decrements the count, which may wrap.
LEMMA LeftDecremented ==
  ASSUME edges \in SUBSET Edge, UNCHANGED edges, NEW n, NEW e \in Open(n),
         Open(n)' = Open(n) \ {e}
  PROVE  /\ Left(n)' = Decremented(Left(n))
         /\ Left(n) \in Nat /\ Left(n) < SIZE_MAX /\ SIZE_MAX > 1
<1> DEFINE size == Cardinality(Open(n))
<1>1. Open(n) \in SUBSET InEdges(n)
  BY DEF Open
<1>2. /\ IsFiniteSet(Open(n)) /\ size \in Nat /\ size < SIZE_MAX
      /\ size = 0 <=> Open(n) = {}
  BY <1>1, FewEdges
<1>3. Cardinality(Open(n) \ {e}) = size - 1 /\ IsFiniteSet(Open(n) \ {e})
  BY <1>2, FS_RemoveElement
<1>4. size - 1 = 0 <=> Open(n) \ {e} = {}
  BY <1>3, FS_EmptySet
<1>5. InEdges(n)' = InEdges(n) /\ InEdges(n) # {}
  BY <1>1 DEF InEdges
<1>6. Left(n)' = IF Kind[n] = "NextIteration"
                 THEN IF size - 1 = 0 THEN SIZE_MAX ELSE (size - 1) - 1
                 ELSE size - 1
  BY <1>3, <1>4, <1>5 DEF Left
<1>7. Left(n) = IF Kind[n] = "NextIteration" THEN size - 1 ELSE size
  BY <1>5 DEF Left
<1>8. size # 0 /\ SIZE_MAX \in Nat /\ SIZE_MAX > 1
  BY <1>2, SorterAssumption
<1> HIDE DEF size
<1> QED BY <1>2, <1>6, <1>7, <1>8 DEF Decremented

LEMMA LeftUnchanged ==
  ASSUME UNCHANGED edges, NEW n, Open(n)' = Open(n)
  PROVE  Left(n)' = Left(n)
BY DEF Left, InEdges

-----------------------------------------------------------------------------
(* Every step preserves the invariant *)

LEMMA InitInv == Init => IInv
<1> SUFFICES ASSUME Init PROVE IInv
  OBVIOUS
<1>1. nodes \in Seq(Node) /\ Distinct(nodes)
  BY SorterAssumption DEF Init
<1>2. Len(nodes) \in Nat /\ SIZE_MAX \in Nat
  BY <1>1, LenProperties, SorterAssumption
<1>3. Elements(<<>>) = {} /\ Distinct(<<>>) /\ \A S : <<>> \in Seq(S)
  BY EmptySeq DEF Elements, Distinct
<1>4. TypeOK
  BY <1>1, <1>2, <1>3 DEF Init, TypeOK
<1>5. Stored
  BY <1>1 DEF Init, Stored
<1>6. Seen = {}
  BY DEF Init, Seen
<1>7. Lists /\ Counts
  BY <1>3, <1>6 DEF Init, Lists, Counts, Listed
<1>8. InOrder(dfsNodes)
  BY <1>3 DEF Init, InOrder
<1>9. Phases
  BY DEF Init, Phases
<1> QED BY <1>4, <1>5, <1>7, <1>8, <1>9 DEF IInv

\* The facts about types that the steps use.
LEMMA Typed ==
  ASSUME TypeOK, Stored
  PROVE  /\ Mapped \subseteq Node /\ nodes \in Seq(Mapped)
         /\ Len(nodes) \in Nat /\ Len(given) = Len(nodes)
         /\ Len(noEntryNodes) \in Nat /\ Len(dfsNodes) \in Nat
         /\ Elements(noEntryNodes) \subseteq Mapped /\ Elements(dfsNodes) \subseteq Mapped
         /\ next \in Nat /\ dataIter \in Nat /\ SIZE_MAX \in Nat
<1>1. nodes \in Seq(Node) /\ noEntryNodes \in Seq(Mapped) /\ dfsNodes \in Seq(Mapped)
  BY DEF TypeOK
<1>2. Mapped \subseteq Node /\ nodes \in Seq(Mapped)
  BY <1>1, ElementsIn DEF Mapped
<1>3. Elements(noEntryNodes) \subseteq Mapped /\ Elements(dfsNodes) \subseteq Mapped
  BY <1>1, ElementsIn
<1>4. Len(nodes) \in Nat /\ Len(noEntryNodes) \in Nat /\ Len(dfsNodes) \in Nat
  BY <1>1, LenProperties
<1>5. Len(given) = Len(nodes)
  BY DEF Stored
<1>6. next \in Nat /\ dataIter \in Nat
  BY <1>4, <1>5 DEF TypeOK
<1> QED BY <1>2, <1>3, <1>4, <1>5, <1>6, SorterAssumption

LEMMA VisitInv ==
  ASSUME IInv, Visit
  PROVE  IInv'
<1> DEFINE n == nodes[next]
<1> USE DEF IInv
<1>1. /\ Mapped \subseteq Node /\ nodes \in Seq(Mapped) /\ Len(nodes) \in Nat
      /\ Len(given) = Len(nodes) /\ Len(noEntryNodes) \in Nat
      /\ next \in 1 .. Len(nodes) /\ dataIter \in Nat
      /\ Elements(noEntryNodes) \subseteq Mapped
  BY Typed DEF Visit, TypeOK
<1>2. /\ pc = "prepare" /\ pc' = "prepare" /\ next' = next + 1
      /\ UNCHANGED <<nodes, edges, inputOrder, given, dfsNodes, outEdges>>
      /\ Mapped' = Mapped
      /\ nodeEdgeMap' = [nodeEdgeMap EXCEPT ![n] = InEdgeSize(n)]
  BY DEF Visit, graph, Mapped
<1>3. n \in Mapped /\ n \in Node
  BY <1>1 DEF Mapped, Elements
<1>4. Seen' = Seen \cup {n}
  <2>1. 1 .. next' - 1 = 1 .. next - 1 \cup {next}
    BY <1>1, <1>2
  <2> QED BY <1>2, <2>1 DEF Seen
<1>5. n \notin Seen
  BY <1>1, <1>2 DEF Seen, Stored, Distinct
<1>6. dfsNodes = <<>> /\ outEdges = {} /\ Elements(dfsNodes) = {}
  BY <1>2 DEF Phases, Elements
<1>7. ASSUME NEW m
      PROVE  Open(m) = InEdges(m) /\ Open(m)' = Open(m) /\ Left(m)' = Left(m)
  <2>1. Open(m) = InEdges(m) /\ Open(m)' = Open(m)
    BY <1>2, <1>6 DEF Open, Consumed, InEdges
  <2> QED BY <1>2, <2>1, LeftUnchanged
<1>8. InEdgeSize(n) = Left(n) /\ InEdgeSize(n) # SIZE_MAX /\ InEdgeSize(n) \in 0 .. SIZE_MAX
  BY <1>7, LeftAtFirst DEF TypeOK
<1>9. /\ nodeEdgeMap' \in [Node -> 0 .. SIZE_MAX]
      /\ nodeEdgeMap'[n] = Left(n)
      /\ \A m \in Seen : nodeEdgeMap'[m] = nodeEdgeMap[m]
  <2>1. Seen \subseteq Node
    BY <1>1, <1>2 DEF Seen, Mapped, Elements
  <2> QED BY <1>2, <1>3, <1>5, <1>8, <2>1 DEF TypeOK
<1>10. n \notin Listed
  BY <1>5 DEF Lists
<1>11. /\ noEntryNodes' \in Seq(Mapped)
       /\ Distinct(noEntryNodes')
       /\ Elements(noEntryNodes') = IF InEdgeSize(n) = 0 THEN Elements(noEntryNodes) \cup {n}
                                                         ELSE Elements(noEntryNodes)
       /\ Len(noEntryNodes') \in Nat /\ Len(noEntryNodes') <= Len(noEntryNodes) + 1
       /\ dataIter' \in 1 .. Len(noEntryNodes') + 1
  <2>0. noEntryNodes \in Seq(Mapped) /\ Distinct(noEntryNodes) /\ n \notin Elements(noEntryNodes)
    BY <1>10 DEF TypeOK, Lists, Listed
  <2>1. dataIter \in 1 .. Len(noEntryNodes) + 1
    BY <1>1, <1>2 DEF Phases, TypeOK
  <2>2. CASE InEdgeSize(n) # 0
    BY <1>1, <2>0, <2>1, <2>2 DEF Visit
  <2>3. CASE InEdgeSize(n) = 0
    <3>1. CASE Kind[n] \in NonInputTypes
      <4>1. noEntryNodes' = Insert(noEntryNodes, dataIter, n) /\ dataIter' = dataIter
        BY <2>3, <3>1 DEF Visit, SaveNoEntryNode
      <4>2. /\ noEntryNodes' \in Seq(Mapped) /\ Len(noEntryNodes') = Len(noEntryNodes) + 1
            /\ Elements(noEntryNodes') = Elements(noEntryNodes) \cup {n}
            /\ Distinct(noEntryNodes')
        BY <1>3, <2>0, <2>1, <4>1, Inserted
      <4> QED BY <1>1, <2>1, <2>3, <4>1, <4>2
    <3>2. CASE Kind[n] \notin NonInputTypes
      <4>1. noEntryNodes' = Insert(noEntryNodes, 1, n) /\ dataIter' = dataIter + 1
        BY <2>3, <3>2 DEF Visit, SaveNoEntryNode
      <4>2. 1 \in 1 .. Len(noEntryNodes) + 1
        BY <1>1
      <4> QED BY <1>1, <1>3, <2>0, <2>1, <2>3, <4>1, <4>2, Inserted
    <3> QED BY <3>1, <3>2
  <2> QED BY <2>2, <2>3
<1>12. Len(noEntryNodes') < next' /\ Len(noEntryNodes') <= Len(given)
  BY <1>1, <1>2, <1>11 DEF Phases
<1>13. TypeOK'
  <2>1. next' \in 1 .. Len(given) + 1 /\ dataIter' \in 1 .. Len(given) + 1
    BY <1>1, <1>2, <1>11, <1>12
  <2>2. /\ nodeEdgeMap' \in [Node -> 0 .. SIZE_MAX]
        /\ noEntryNodes' \in Seq(Mapped)
    BY <1>9, <1>11
  <2> QED BY <1>2, <2>1, <2>2 DEF TypeOK
<1>14. Stored'
  BY <1>2 DEF Stored
<1>15. Listed' = IF InEdgeSize(n) = 0 THEN Listed \cup {n} ELSE Listed
  BY <1>2, <1>11 DEF Listed
<1>16. Lists'
  BY <1>2, <1>4, <1>6, <1>11, <1>15 DEF Lists
<1>17. Counts'
  <2> SUFFICES ASSUME NEW m \in Seen \cup {n}
               PROVE  /\ nodeEdgeMap'[m] = Left(m)'
                      /\ m \in Listed' <=> nodeEdgeMap'[m] \in {0, SIZE_MAX}
    BY <1>4 DEF Counts
  <2>1. CASE m = n
    BY <1>7, <1>8, <1>9, <1>10, <1>15, <2>1
  <2>2. CASE m # n
    BY <1>7, <1>9, <1>15, <2>2 DEF Counts
  <2> QED BY <2>1, <2>2
<1>18. InOrder(dfsNodes)'
  BY <1>2, <1>6 DEF InOrder
<1>19. Phases'
  BY <1>2, <1>6, <1>11, <1>12 DEF Phases
<1> QED BY <1>13, <1>14, <1>16, <1>17, <1>18, <1>19

LEMMA PrepareInv ==
  ASSUME IInv, PrepareNoEntryNodes
  PROVE  IInv'
<1> USE DEF IInv
<1>1. /\ pc = "prepare" /\ pc' = "walk" /\ next > Len(nodes)
      /\ UNCHANGED <<nodes, edges, inputOrder, given, dataIter, nodeEdgeMap, dfsNodes, next, outEdges>>
      /\ Mapped' = Mapped
  BY DEF PrepareNoEntryNodes, graph, Mapped
<1>2. Len(nodes) \in Nat /\ next = Len(nodes) + 1
  BY <1>1, Typed DEF TypeOK
<1>3. Seen = Mapped /\ Seen' = Mapped
  BY <1>1, <1>2 DEF Seen, Mapped, Elements
<1>4. /\ noEntryNodes' \in Seq(Mapped) /\ Elements(noEntryNodes') = Elements(noEntryNodes)
      /\ Distinct(noEntryNodes')
  <2>1. PICK p \in [1 .. Len(noEntryNodes) -> 1 .. Len(noEntryNodes)] :
          Distinct(p) /\ noEntryNodes' = Taken(noEntryNodes, p)
    BY DEF PrepareNoEntryNodes, StableSort, Taken
  <2>2. noEntryNodes \in Seq(Mapped) /\ Distinct(noEntryNodes)
    BY DEF TypeOK, Lists
  <2> QED BY <2>1, <2>2, Permuted
<1>5. TypeOK'
  BY <1>1, <1>4 DEF TypeOK
<1>6. Stored'
  BY <1>1 DEF Stored
<1>7. Listed' = Listed
  BY <1>1, <1>4 DEF Listed
<1>8. Lists'
  BY <1>1, <1>3, <1>4, <1>7 DEF Lists
<1>9. \A m : Left(m)' = Left(m)
  BY <1>1 DEF Left, Open, Consumed, InEdges
<1>10. Counts'
  BY <1>1, <1>3, <1>7, <1>9 DEF Counts
<1>11. InOrder(dfsNodes)'
  BY <1>1 DEF InOrder, Behind, InEdges
<1>12. Phases'
  BY <1>1 DEF Phases
<1> QED BY <1>5, <1>6, <1>8, <1>10, <1>11, <1>12

LEMMA PrecedesAppended ==
  ASSUME NEW S, NEW s \in Seq(S), NEW n \in S, NEW t, t = Append(s, n)
  PROVE  /\ \A a, b : Precedes(s, a, b) => Precedes(t, a, b)
         /\ \A a \in Elements(s) : Precedes(t, a, n)
<1>1. /\ Len(s) \in Nat /\ Len(t) = Len(s) + 1
      /\ \A i \in 1 .. Len(s) : t[i] = s[i]
      /\ t[Len(s) + 1] = n
  BY AppendProperties, LenProperties
<1>2. \A i \in 1 .. Len(s) : i \in 1 .. Len(t) /\ i < Len(s) + 1 /\ Len(s) + 1 \in 1 .. Len(t)
  BY <1>1
<1> QED BY <1>1, <1>2 DEF Precedes, Elements

LEMMA WalkNodeInv ==
  ASSUME IInv, WalkNode
  PROVE  IInv'
<1> USE DEF IInv
<1>0. PICK n : n = noEntryNodes[Len(noEntryNodes)]
  OBVIOUS
<1>1. /\ pc = "walk" /\ outEdges = {} /\ noEntryNodes # <<>>
      /\ dfsNodes' = Append(dfsNodes, n)
      /\ outEdges' = {e \in edges : e.src = n}
      /\ noEntryNodes' = SubSeq(noEntryNodes, 1, Len(noEntryNodes) - 1)
      /\ UNCHANGED <<nodes, edges, inputOrder, given, dataIter, nodeEdgeMap, pc, next>>
      /\ Mapped' = Mapped
  BY <1>0 DEF WalkNode, graph, Mapped
<1>2. noEntryNodes \in Seq(Mapped) /\ dfsNodes \in Seq(Mapped)
  BY DEF TypeOK
<1>3. /\ noEntryNodes' \in Seq(Mapped) /\ n \in Mapped
      /\ Elements(noEntryNodes) = Elements(noEntryNodes') \cup {n}
      /\ Distinct(noEntryNodes') /\ n \notin Elements(noEntryNodes')
  <2>1. Distinct(noEntryNodes)
    BY DEF Lists
  <2>2. noEntryNodes' = Popped(noEntryNodes)
    BY <1>1 DEF Popped
  <2>3. noEntryNodes # <<>>
    BY <1>1
  <2> HIDE DEF IInv
  <2> QED BY <1>0, <1>2, <2>1, <2>2, <2>3, PoppedList
<1>4. n \notin Elements(dfsNodes)
  BY <1>3 DEF Lists
<1>5. /\ dfsNodes' \in Seq(Mapped)
      /\ Elements(dfsNodes') = Elements(dfsNodes) \cup {n}
      /\ Distinct(dfsNodes')
  BY <1>1, <1>2, <1>3, <1>4, Appended DEF Lists
<1>6. Seen = Mapped /\ Seen' = Mapped
  BY <1>1 DEF Seen
<1>7. Listed' = Listed
  BY <1>3, <1>5 DEF Listed
<1>8. \A m : InEdges(m)' = InEdges(m)
  BY <1>1 DEF InEdges
<1>9. ASSUME NEW m
      PROVE  Open(m)' = Open(m) /\ Left(m)' = Left(m)
  <2>1. \A e \in InEdges(m) : Consumed(e)' <=> Consumed(e)
    BY <1>1, <1>4, <1>5 DEF Consumed, InEdges
  <2>2. Open(m)' = Open(m)
    BY <1>8, <2>1 DEF Open
  <2> QED BY <1>1, <2>2, LeftUnchanged
<1>10. TypeOK'
  BY <1>1, <1>3, <1>5 DEF TypeOK
<1>11. Stored'
  BY <1>1 DEF Stored
<1>12. Lists'
  BY <1>1, <1>3, <1>4, <1>5, <1>6, <1>7 DEF Lists
<1>13. Counts'
  BY <1>1, <1>6, <1>7, <1>9 DEF Counts
<1>14. /\ \A a, b : Precedes(dfsNodes, a, b) => Precedes(dfsNodes', a, b)
       /\ \A a \in Elements(dfsNodes) : Precedes(dfsNodes', a, n)
  BY <1>1, <1>2, <1>3, PrecedesAppended
<1>15. InOrder(dfsNodes)'
  <2> SUFFICES ASSUME NEW m \in Elements(dfsNodes')
               PROVE  IF Kind[m] = "NextIteration"
                      THEN \A e, f \in Behind(dfsNodes, m)' : e = f
                      ELSE Behind(dfsNodes, m)' = {}
    BY DEF InOrder
  <2>1. CASE m = n
    <3>1. n \in Listed /\ Left(n) \in {0, SIZE_MAX}
      BY <1>3, <1>6 DEF Counts, Listed
    <3>2. IF Kind[n] = "NextIteration" THEN \A e, f \in Open(n) : e = f ELSE Open(n) = {}
      BY <3>1, LeftOver DEF TypeOK
    <3>3. Behind(dfsNodes, n)' \subseteq Open(n)
      BY <1>1, <1>8, <1>14 DEF Behind, Open, Consumed
    <3> QED BY <2>1, <3>2, <3>3
  <2>2. CASE m \in Elements(dfsNodes)
    <3>1. Behind(dfsNodes, m)' \subseteq Behind(dfsNodes, m)
      BY <1>8, <1>14 DEF Behind
    <3> QED BY <2>2, <3>1 DEF InOrder
  <2> QED BY <1>5, <2>1, <2>2
<1>16. Phases'
  BY <1>1 DEF Phases
<1> QED BY <1>10, <1>11, <1>12, <1>13, <1>15, <1>16

LEMMA WalkEdgeInv ==
  ASSUME IInv, WalkEdge
  PROVE  IInv'
<1> USE DEF IInv
<1>1. PICK e \in outEdges :
        /\ outEdges' = outEdges \ {e}
        /\ IF e.dst \in Mapped
           THEN LET size == Decremented(nodeEdgeMap[e.dst]) IN
                /\ nodeEdgeMap' = [nodeEdgeMap EXCEPT ![e.dst] = size]
                /\ noEntryNodes' = IF Ready(size) THEN Append(noEntryNodes, e.dst)
                                                  ELSE noEntryNodes
           ELSE UNCHANGED <<nodeEdgeMap, noEntryNodes>>
  BY DEF WalkEdge
<1>0. PICK n : n = e.dst
  OBVIOUS
<1>2. /\ pc = "walk"
      /\ UNCHANGED <<nodes, edges, inputOrder, given, dataIter, dfsNodes, pc, next>>
      /\ Mapped' = Mapped
  BY DEF WalkEdge, graph, Mapped
<1>3. e \in edges /\ e.src \in Elements(dfsNodes) /\ e \in InEdges(n)
  BY <1>0 DEF TypeOK, Lists, InEdges
<1>4. Seen = Mapped /\ Seen' = Mapped
  BY <1>2 DEF Seen
<1>5. \A m : InEdges(m)' = InEdges(m)
  BY <1>2 DEF InEdges
<1>6. \A f \in edges : Consumed(f)' <=> Consumed(f) \/ f = e
  BY <1>1, <1>2, <1>3 DEF Consumed
<1>7. ~Consumed(e)
  BY <1>1 DEF Consumed
<1>8. Open(n)' = Open(n) \ {e} /\ e \in Open(n)
  BY <1>0, <1>3, <1>5, <1>6, <1>7 DEF Open, InEdges
<1>9. /\ Left(n)' = Decremented(Left(n))
      /\ Left(n) \in Nat /\ Left(n) < SIZE_MAX /\ SIZE_MAX > 1
  BY <1>2, <1>8, LeftDecremented DEF TypeOK
<1>10. ASSUME NEW m, m # n
       PROVE  Left(m)' = Left(m)
  <2>1. Open(m)' = Open(m)
    BY <1>0, <1>5, <1>6, <1>10 DEF Open, InEdges
  <2> QED BY <1>2, <2>1, LeftUnchanged
<1>11. InOrder(dfsNodes)'
  BY <1>2, <1>5 DEF InOrder, Behind
<1>12. Stored' /\ Phases'
  BY <1>2 DEF Stored, Phases
<1>13. CASE n \notin Mapped
  <2>1. UNCHANGED <<nodeEdgeMap, noEntryNodes>> /\ Listed' = Listed
    BY <1>0, <1>1, <1>2, <1>13 DEF Listed
  <2>2. TypeOK'
    BY <1>1, <1>2, <2>1 DEF TypeOK
  <2>3. Lists'
    BY <1>1, <1>2, <1>4, <2>1 DEF Lists
  <2>4. Counts'
    BY <1>4, <1>10, <1>13, <2>1 DEF Counts
  <2> QED BY <1>11, <1>12, <2>2, <2>3, <2>4
<1>14. CASE n \in Mapped
  <2>1. /\ nodeEdgeMap[n] = Left(n)
        /\ n \in Listed <=> Left(n) \in {0, SIZE_MAX}
    BY <1>4, <1>14 DEF Counts
  <2>2. n \in Node /\ SIZE_MAX \in Nat
    BY <1>14, Typed
  <2>3. Left(n)' \in 0 .. SIZE_MAX
    BY <1>9, <2>2 DEF Decremented
  <2>4. /\ nodeEdgeMap' \in [Node -> 0 .. SIZE_MAX]
        /\ nodeEdgeMap'[n] = Left(n)'
        /\ \A m \in Mapped \ {n} : nodeEdgeMap'[m] = nodeEdgeMap[m]
    <3>1. nodeEdgeMap' = [nodeEdgeMap EXCEPT ![n] = Left(n)']
      BY <1>0, <1>1, <1>9, <1>14, <2>1
    <3>2. Mapped \subseteq Node
      BY Typed
    <3> QED BY <2>2, <2>3, <3>1, <3>2 DEF TypeOK
  <2>5. CASE Left(n)' = 0
    <3>1. n \notin Listed
      BY <1>9, <2>1, <2>5 DEF Decremented
    <3>2. noEntryNodes' = Append(noEntryNodes, n)
      BY <1>0, <1>1, <1>9, <1>14, <2>1, <2>5 DEF Ready
    <3>3. /\ noEntryNodes' \in Seq(Mapped) /\ Distinct(noEntryNodes')
          /\ Elements(noEntryNodes') = Elements(noEntryNodes) \cup {n}
      BY <1>14, <3>1, <3>2, Appended DEF TypeOK, Lists, Listed
    <3>4. Listed' = Listed \cup {n}
      BY <1>2, <3>3 DEF Listed
    <3>5. TypeOK'
      BY <1>1, <1>2, <2>4, <3>3 DEF TypeOK
    <3>6. Lists'
      BY <1>1, <1>2, <1>4, <1>14, <3>1, <3>3, <3>4 DEF Lists, Listed
    <3>7. Counts'
      <4> SUFFICES ASSUME NEW m \in Mapped
                   PROVE  /\ nodeEdgeMap'[m] = Left(m)'
                          /\ m \in Listed' <=> nodeEdgeMap'[m] \in {0, SIZE_MAX}
        BY <1>4 DEF Counts
      <4>1. CASE m = n
        BY <2>4, <2>5, <3>4, <4>1
      <4>2. CASE m # n
        BY <1>4, <1>10, <2>4, <3>4, <4>2 DEF Counts
      <4> QED BY <4>1, <4>2
    <3> QED BY <1>11, <1>12, <3>5, <3>6, <3>7
  <2>6. CASE Left(n)' # 0
    <3>1. noEntryNodes' = noEntryNodes /\ Listed' = Listed
      BY <1>0, <1>1, <1>2, <1>9, <1>14, <2>1, <2>6 DEF Ready, Listed
    <3>2. TypeOK'
      BY <1>1, <1>2, <2>4, <3>1 DEF TypeOK
    <3>3. Lists'
      BY <1>1, <1>2, <1>4, <3>1 DEF Lists
    <3>4. Left(n) \in {0, SIZE_MAX} <=> Left(n)' \in {0, SIZE_MAX}
      BY <1>9, <2>2, <2>6 DEF Decremented
    <3>5. Counts'
      <4> SUFFICES ASSUME NEW m \in Mapped
                   PROVE  /\ nodeEdgeMap'[m] = Left(m)'
                          /\ m \in Listed <=> nodeEdgeMap'[m] \in {0, SIZE_MAX}
        BY <1>4, <3>1 DEF Counts
      <4>1. CASE m = n
        BY <2>1, <2>4, <3>4, <4>1
      <4>2. CASE m # n
        BY <1>4, <1>10, <2>4, <4>2 DEF Counts
      <4> QED BY <4>1, <4>2
    <3> QED BY <1>11, <1>12, <3>2, <3>3, <3>5
  <2> QED BY <2>5, <2>6
<1> QED BY <1>13, <1>14

LEMMA CheckInv ==
  ASSUME IInv, CheckGraphValid
  PROVE  IInv'
<1> USE DEF IInv
<1>1. /\ pc = "walk" /\ outEdges = {} /\ noEntryNodes = <<>> /\ next' = 1
      /\ pc' = IF IsBeginWithData /\ IsGraphNoCycle THEN "write" ELSE "failed"
      /\ UNCHANGED <<nodes, edges, inputOrder, given, noEntryNodes, dataIter, nodeEdgeMap,
                     dfsNodes, outEdges>>
      /\ Mapped' = Mapped
  BY DEF CheckGraphValid, graph, Mapped
<1>2. Seen = Mapped /\ Seen' = Mapped
  BY <1>1 DEF Seen
<1>3. TypeOK'
  <2>1. 1 \in 1 .. Len(given) + 1
    BY Typed
  <2> QED BY <1>1, <2>1 DEF TypeOK
<1>4. Stored' /\ Lists' /\ Counts'
  BY <1>1, <1>2 DEF Stored, Lists, Listed, Counts, Left, Open, Consumed, InEdges
<1>5. InOrder(dfsNodes)'
  BY <1>1 DEF InOrder, Behind, InEdges
<1>6. (IsBeginWithData <=> IsBeginWithData') /\ (IsGraphNoCycle <=> IsGraphNoCycle')
  BY <1>1 DEF IsBeginWithData, IsGraphNoCycle
<1>7. IsGraphNoCycle => Elements(dfsNodes) = Mapped /\ Len(dfsNodes) = Len(nodes)
  <2>1. nodes \in Seq(Node) /\ Distinct(nodes) /\ dfsNodes \in Seq(Mapped) /\ Distinct(dfsNodes)
    BY DEF TypeOK, Stored, Lists
  <2>2. IsFiniteSet(Mapped) /\ Cardinality(Mapped) = Len(nodes)
    BY <2>1, Counted DEF Mapped
  <2>3. Cardinality(Elements(dfsNodes)) = Len(dfsNodes)
    BY <2>1, Counted
  <2>4. Elements(dfsNodes) \in SUBSET Mapped
    BY Typed
  <2>5. Cardinality(Mapped) = Cardinality(Elements(dfsNodes)) => Mapped = Elements(dfsNodes)
    BY <2>2, <2>4, FS_Subset
  <2> QED BY <2>2, <2>3, <2>5 DEF IsGraphNoCycle
<1>8. Phases'
  BY <1>1, <1>6, <1>7 DEF Phases
<1> QED BY <1>3, <1>4, <1>5, <1>8

LEMMA UpdateNodeInv ==
  ASSUME IInv, UpdateNode
  PROVE  IInv'
<1> USE DEF IInv
<1>1. PICK j \in next .. Len(nodes) :
        nodes[j] = dfsNodes[next] /\ nodes' = Swapped(nodes, next, j)
  BY DEF UpdateNode
<1>2. /\ pc = "write" /\ next <= Len(dfsNodes) /\ next' = next + 1
      /\ UNCHANGED <<edges, inputOrder, given, noEntryNodes, dataIter, nodeEdgeMap, dfsNodes, pc,
                     outEdges>>
  BY DEF UpdateNode, graph
<1>3. /\ Len(dfsNodes) = Len(nodes) /\ Len(nodes) \in Nat /\ Len(given) = Len(nodes)
      /\ next \in 1 .. Len(nodes)
  BY <1>2, Typed DEF Phases, TypeOK
<1>4. j \in 1 .. Len(nodes)
  BY <1>3
<1>5. /\ nodes' \in Seq(Node) /\ Len(nodes') = Len(nodes)
      /\ Elements(nodes') = Elements(nodes) /\ Distinct(nodes')
      /\ nodes'[next] = nodes[j]
      /\ \A k \in 1 .. Len(nodes) \ {next, j} : nodes'[k] = nodes[k]
  <2>1. nodes \in Seq(Node) /\ Distinct(nodes)
    BY DEF TypeOK, Stored
  <2>2. next \in 1 .. Len(nodes) /\ nodes' = Swapped(nodes, next, j)
    BY <1>1, <1>3
  <2> HIDE DEF IInv
  <2>3. \A t : t = Swapped(nodes, next, j) =>
          /\ t \in Seq(Node) /\ Len(t) = Len(nodes)
          /\ Elements(t) = Elements(nodes)
          /\ Distinct(nodes) => Distinct(t)
          /\ t[next] = nodes[j]
    BY <1>4, <2>1, <2>2, SwappedList
  <2>4. \A k \in 1 .. Len(nodes) \ {next, j} : nodes'[k] = nodes[k]
    <3>1. nodes \in [1 .. Len(nodes) -> Node]
      BY <2>1, LenProperties
    <3> QED BY <2>2, <3>1 DEF Swapped
  <2> QED BY <2>1, <2>2, <2>3, <2>4
<1>6. Mapped' = Mapped /\ Seen = Mapped /\ Seen' = Mapped
  BY <1>2, <1>5 DEF Mapped, Seen
<1>7. TypeOK'
  <2>1. next' \in 1 .. Len(given) + 1
    BY <1>2, <1>3
  <2> QED BY <1>2, <1>5, <1>6, <2>1 DEF TypeOK
<1>8. Stored' /\ Lists' /\ Counts'
  <2>1. Stored' /\ Lists'
    BY <1>2, <1>5, <1>6 DEF Stored, Lists, Listed
  <2>2. Counts'
    BY <1>2, <1>6 DEF Counts, Listed, Left, Open, Consumed, InEdges
  <2> QED BY <2>1, <2>2
<1>9. InOrder(dfsNodes)'
  BY <1>2 DEF InOrder, Behind, InEdges
<1>10. ASSUME NEW k \in 1 .. next' - 1
       PROVE  nodes'[k] = dfsNodes[k]
  <2>1. k \in 1 .. Len(nodes) /\ k <= next
    BY <1>2, <1>3
  <2>2. CASE k = next
    BY <1>1, <1>5, <2>1, <2>2
  <2>3. CASE k < next
    BY <1>2, <1>3, <1>5, <2>1, <2>3 DEF Phases
  <2> QED BY <1>3, <2>1, <2>2, <2>3
<1>11. Phases'
  BY <1>2, <1>5, <1>6, <1>10 DEF Phases
<1> QED BY <1>7, <1>8, <1>9, <1>11

LEMMA UpdateDoneInv ==
  ASSUME IInv, UpdateDone
  PROVE  IInv'
<1> USE DEF IInv
<1>1. /\ pc = "write" /\ next > Len(dfsNodes)
      /\ pc' = IF next > Len(nodes) THEN "sorted" ELSE "failed"
      /\ UNCHANGED <<nodes, edges, inputOrder, given, noEntryNodes, dataIter, nodeEdgeMap, dfsNodes,
                     next, outEdges>>
      /\ Mapped' = Mapped
  BY DEF UpdateDone, graph, Mapped
<1>2. /\ Len(dfsNodes) = Len(nodes) /\ Len(nodes) \in Nat /\ next = Len(nodes) + 1
      /\ pc' = "sorted"
  BY <1>1, Typed DEF Phases, TypeOK
<1>3. nodes = dfsNodes
  <2>1. nodes \in Seq(Mapped) /\ dfsNodes \in Seq(Mapped)
    BY Typed DEF TypeOK
  <2>2. \A k \in 1 .. Len(nodes) : nodes[k] = dfsNodes[k]
    BY <1>1, <1>2 DEF Phases
  <2> QED BY <1>2, <2>1, <2>2, SeqEqual
<1>4. Seen = Mapped /\ Seen' = Mapped
  BY <1>1, <1>2 DEF Seen
<1>5. TypeOK' /\ Stored' /\ Lists' /\ Counts'
  <2>1. TypeOK'
    BY <1>1, <1>2 DEF TypeOK
  <2>2. Stored' /\ Lists'
    BY <1>1, <1>2, <1>4 DEF Stored, Lists, Listed
  <2>3. Counts'
    BY <1>1, <1>4 DEF Counts, Listed, Left, Open, Consumed, InEdges
  <2> QED BY <2>1, <2>2, <2>3
<1>6. InOrder(dfsNodes)'
  BY <1>1 DEF InOrder, Behind, InEdges
<1>7. Phases'
  BY <1>1, <1>2, <1>3 DEF Phases
<1> QED BY <1>5, <1>6, <1>7

LEMMA StutterInv ==
  ASSUME IInv, UNCHANGED vars
  PROVE  IInv'
<1> USE DEF vars, graph
<1>1. Mapped' = Mapped /\ Seen' = Seen /\ Listed' = Listed
  BY DEF Mapped, Seen, Listed
<1>2. TypeOK'
  BY <1>1 DEF IInv, TypeOK
<1>3. Stored' /\ Lists'
  BY <1>1 DEF IInv, Stored, Lists
<1>4. Counts'
  BY <1>1 DEF IInv, Counts, Left, Open, Consumed, InEdges
<1>5. InOrder(dfsNodes)'
  BY DEF IInv, InOrder, Behind, InEdges
<1>6. Phases'
  BY <1>1 DEF IInv, Phases, IsBeginWithData, IsGraphNoCycle
<1> QED BY <1>2, <1>3, <1>4, <1>5, <1>6 DEF IInv

\* The lists and counts of the sort are kept at all times.
LEMMA Invariance == Spec => []IInv
<1>1. IInv /\ [Next]_vars => IInv'
  BY VisitInv, PrepareInv, WalkNodeInv, WalkEdgeInv, CheckInv, UpdateNodeInv, UpdateDoneInv,
     StutterInv DEF Next, Step
<1> QED BY <1>1, InitInv, PTL DEF Spec

-----------------------------------------------------------------------------
(* The order of the inputs *)

\* Nodes without in edges: no edge decides when they are taken.
Roots == {n \in Mapped : InEdges(n) = {}}

\* The walk takes node m before node n.
Ahead(m, n) ==
  \/ Precedes(dfsNodes, m, n)
  \/ m \in Elements(dfsNodes) /\ n \in Elements(noEntryNodes)
  \/ Precedes(noEntryNodes, n, m)

\* Once the stack is sorted, roots are taken in the user's order.
RootsOrdered ==
  pc # "prepare" => \A m, n \in Roots : Ahead(m, n) => ~Before(m, n)

\* The inputs whose kind does not let the sort fail.
PlainInputs ==
  /\ \E n \in Mapped : Kind[n] = "Data" /\ InEdges(n) = {}
  /\ \A n \in Mapped : Kind[n] # "Source" /\ (inputOrder[n] # None => Kind[n] = "Data")

\* Inputs stand in the upper part of the stack.
InputsAbove ==
  pc = "prepare" =>
    \A i \in 1 .. Len(noEntryNodes) : Kind[noEntryNodes[i]] \in NonInputTypes <=> i >= dataIter

\* The node taken first is a graph input.
BeginsWithInput ==
  pc # "prepare" /\ PlainInputs =>
    IF dfsNodes = <<>>
    THEN outEdges = {} /\ noEntryNodes # <<>>
           /\ Kind[noEntryNodes[Len(noEntryNodes)]] \in GraphInputTypes
    ELSE Kind[dfsNodes[1]] \in GraphInputTypes

Checked == pc \in {"write", "sorted"} => IsBeginWithData

OrderInv ==
  /\ RootsOrdered
  /\ InputsAbove
  /\ BeginsWithInput
  /\ Checked

LEMMA InitOrder == Init => OrderInv
BY EmptySeq DEF Init, OrderInv, RootsOrdered, InputsAbove, BeginsWithInput, Checked

\* What stands before what in a list with one more element.
LEMMA PrecedesBefore ==
  ASSUME NEW S, NEW s \in Seq(S), NEW n \in S, NEW t, t = Append(s, n),
         NEW a, NEW b, Precedes(t, a, b)
  PROVE  Precedes(s, a, b) \/ (a \in Elements(s) /\ b = n)
<1>1. /\ Len(s) \in Nat /\ Len(t) = Len(s) + 1
      /\ \A i \in 1 .. Len(s) : t[i] = s[i]
      /\ t[Len(s) + 1] = n
  BY AppendProperties, LenProperties
<1>2. PICK i, j \in 1 .. Len(t) : i < j /\ t[i] = a /\ t[j] = b
  BY DEF Precedes
<1>3. i \in 1 .. Len(s) /\ (j \in 1 .. Len(s) \/ j = Len(s) + 1)
  BY <1>1, <1>2
<1> QED BY <1>1, <1>2, <1>3 DEF Precedes, Elements

\* What stands before what in a list without its last element.
LEMMA PrecedesPopped ==
  ASSUME NEW S, NEW s \in Seq(S), s # <<>>, NEW t, t = Popped(s), NEW n, n = s[Len(s)]
  PROVE  /\ \A a, b : Precedes(t, a, b) => Precedes(s, a, b)
         /\ \A a \in Elements(t) : Precedes(s, a, n)
<1>1. Len(s) \in Nat \ {0} /\ s \in [1 .. Len(s) -> S]
  BY LenProperties, EmptySeq
<1>2. /\ t \in Seq(S) /\ Len(t) = Len(s) - 1
      /\ \A i \in 1 .. Len(s) - 1 : t[i] = s[i]
  BY <1>1, SubSeqProperties DEF Popped
<1>3. \A i \in 1 .. Len(t) : i \in 1 .. Len(s) /\ i < Len(s) /\ Len(s) \in 1 .. Len(s) /\ t[i] = s[i]
  BY <1>1, <1>2
<1> QED BY <1>3 DEF Precedes, Elements

\* The graph is not changed by the sort.
LEMMA SameGraph ==
  ASSUME UNCHANGED <<edges, inputOrder>>, Mapped' = Mapped
  PROVE  /\ Roots' = Roots /\ (PlainInputs' <=> PlainInputs)
         /\ \A m, n : Before(m, n)' <=> Before(m, n)
BY DEF Roots, InEdges, PlainInputs, Before

LEMMA KeptOrder ==
  ASSUME OrderInv, pc # "prepare", pc' # "prepare",
         UNCHANGED <<edges, inputOrder, noEntryNodes, dfsNodes, outEdges>>, Mapped' = Mapped
  PROVE  RootsOrdered' /\ InputsAbove' /\ BeginsWithInput'
<1>1. Roots' = Roots /\ (PlainInputs' <=> PlainInputs)
      /\ \A m, n : Before(m, n)' <=> Before(m, n)
  BY SameGraph
<1> QED BY <1>1 DEF OrderInv, RootsOrdered, Ahead, Precedes, InputsAbove, BeginsWithInput

LEMMA VisitOrder ==
  ASSUME IInv, OrderInv, Visit
  PROVE  OrderInv'
<1>1. PICK n : n = nodes[next]
  OBVIOUS
<1>2. /\ pc = "prepare" /\ pc' = "prepare" /\ next \in 1 .. Len(nodes)
      /\ dataIter \in 1 .. Len(noEntryNodes) + 1 /\ Len(noEntryNodes) \in Nat
      /\ n \in Mapped
  <2>1. nodes \in Seq(Mapped) /\ Len(nodes) \in Nat /\ next \in Nat /\ Len(noEntryNodes) \in Nat
        /\ dataIter \in Nat
    BY Typed DEF IInv
  <2>2. pc = "prepare" /\ pc' = "prepare" /\ next <= Len(nodes)
    BY DEF Visit
  <2>3. next >= 1 /\ dataIter >= 1
    BY Typed DEF IInv, TypeOK
  <2>4. dataIter <= Len(noEntryNodes) + 1
    BY <2>2 DEF IInv, Phases
  <2>5. n \in Mapped
    BY <1>1, <2>1, <2>2, <2>3 DEF Mapped, Elements
  <2> QED BY <2>1, <2>2, <2>3, <2>4, <2>5
<1>3. noEntryNodes \in Seq(Mapped)
  BY DEF IInv, TypeOK
<1>4. \A i \in 1 .. Len(noEntryNodes) : Kind[noEntryNodes[i]] \in NonInputTypes <=> i >= dataIter
  BY <1>2 DEF OrderInv, InputsAbove
<1>5. ASSUME NEW at \in 1 .. Len(noEntryNodes) + 1,
             noEntryNodes' = Insert(noEntryNodes, at, n),
             \/ Kind[n] \in NonInputTypes /\ at = dataIter /\ dataIter' = dataIter
             \/ Kind[n] \notin NonInputTypes /\ at = 1 /\ dataIter' = dataIter + 1
      PROVE  \A i \in 1 .. Len(noEntryNodes') :
               Kind[noEntryNodes'[i]] \in NonInputTypes <=> i >= dataIter'
  <2>1. Len(noEntryNodes') = Len(noEntryNodes) + 1
    BY <1>2, <1>3, <1>5, Inserted
  <2>2. \A j \in 1 .. Len(noEntryNodes) + 1 :
          noEntryNodes'[j] = IF j < at THEN noEntryNodes[j] ELSE IF j = at THEN n ELSE noEntryNodes[j - 1]
    BY <1>5 DEF Insert
  <2>3. ASSUME NEW i \in 1 .. Len(noEntryNodes) + 1
        PROVE  Kind[noEntryNodes'[i]] \in NonInputTypes <=> i >= dataIter'
    <3>1. CASE i < at
      BY <1>2, <1>4, <1>5, <2>2, <3>1
    <3>2. CASE i = at
      BY <1>2, <1>5, <2>2, <3>2
    <3>3. CASE i > at
      <4>1. noEntryNodes'[i] = noEntryNodes[i - 1] /\ i - 1 \in 1 .. Len(noEntryNodes)
        BY <1>2, <2>2, <3>3
      <4>2. Kind[noEntryNodes'[i]] \in NonInputTypes <=> i - 1 >= dataIter
        BY <1>4, <4>1
      <4> QED BY <1>2, <1>5, <3>3, <4>2
    <3> QED BY <1>2, <3>1, <3>2, <3>3
  <2> QED BY <2>1, <2>3
<1>6. \A i \in 1 .. Len(noEntryNodes') : Kind[noEntryNodes'[i]] \in NonInputTypes <=> i >= dataIter'
  <2>1. CASE InEdgeSize(n) # 0
    <3>1. UNCHANGED <<noEntryNodes, dataIter>>
      BY <1>1, <2>1 DEF Visit
    <3> QED BY <1>4, <3>1
  <2>2. CASE InEdgeSize(n) = 0 /\ Kind[n] \in NonInputTypes
    <3>1. noEntryNodes' = Insert(noEntryNodes, dataIter, n) /\ dataIter' = dataIter
      BY <1>1, <2>2 DEF Visit, SaveNoEntryNode
    <3> QED BY <1>2, <1>5, <2>2, <3>1
  <2>3. CASE InEdgeSize(n) = 0 /\ Kind[n] \notin NonInputTypes
    <3>1. noEntryNodes' = Insert(noEntryNodes, 1, n) /\ dataIter' = dataIter + 1
      BY <1>1, <2>3 DEF Visit, SaveNoEntryNode
    <3>2. 1 \in 1 .. Len(noEntryNodes) + 1
      BY <1>2
    <3> QED BY <1>5, <2>3, <3>1, <3>2
  <2> QED BY <2>1, <2>2, <2>3
<1> QED BY <1>2, <1>6 DEF OrderInv, RootsOrdered, InputsAbove, BeginsWithInput, Checked

LEMMA PrepareOrder ==
  ASSUME IInv, OrderInv, PrepareNoEntryNodes
  PROVE  OrderInv'
<1>1. /\ pc = "prepare" /\ pc' = "walk" /\ next > Len(nodes)
      /\ UNCHANGED <<nodes, edges, inputOrder, given, dataIter, nodeEdgeMap, dfsNodes, next, outEdges>>
      /\ Mapped' = Mapped
  BY DEF PrepareNoEntryNodes, graph, Mapped
<1>2. PICK s : s = noEntryNodes
  OBVIOUS
<1>3. PICK t : t = noEntryNodes'
  OBVIOUS
<1>4. PICK p \in [1 .. Len(s) -> 1 .. Len(s)] :
        StableSort(s, p) /\ t = Taken(s, p)
  BY <1>2, <1>3 DEF PrepareNoEntryNodes, Taken
<1>5. /\ s \in Seq(Mapped) /\ Len(s) \in Nat
      /\ dfsNodes = <<>> /\ outEdges = {}
  BY <1>1, <1>2, Typed DEF IInv, TypeOK, Phases
<1>6. Distinct(p)
  BY <1>4 DEF StableSort
<1>7. t \in Seq(Mapped) /\ Len(t) = Len(s) /\ Elements(t) = Elements(s)
  BY <1>4, <1>5, <1>6, Permuted
<1>8. \A i \in 1 .. Len(s) : t[i] = s[p[i]] /\ p[i] \in 1 .. Len(s)
  BY <1>4 DEF Taken
<1>9. \A i, j \in 1 .. Len(s) : i < j =>
        ~Before(t[j], t[i]) /\ (p[i] < p[j] \/ Before(t[i], t[j]))
  BY <1>4, <1>8 DEF StableSort
<1>10. Roots' = Roots /\ (PlainInputs' <=> PlainInputs)
       /\ \A m, n : Before(m, n)' <=> Before(m, n)
  BY <1>1, SameGraph
<1>11. RootsOrdered'
  <2> SUFFICES ASSUME NEW m, NEW n, Ahead(m, n)' PROVE ~Before(m, n)
    BY <1>10 DEF RootsOrdered
  <2>1. Precedes(t, n, m)
    BY <1>1, <1>3, <1>5 DEF Ahead, Precedes, Elements
  <2> QED BY <1>7, <1>9, <2>1 DEF Precedes
<1>12. ASSUME PlainInputs
       PROVE  t # <<>> /\ Kind[t[Len(t)]] \in GraphInputTypes
  <2>1. PICK d \in Mapped : Kind[d] = "Data" /\ InEdges(d) = {}
    BY <1>12 DEF PlainInputs
  <2>2. d \in Elements(s)
    <3>1. Seen = Mapped
      <4>1. Len(nodes) \in Nat /\ next = Len(nodes) + 1
        BY <1>1, Typed DEF IInv, TypeOK
      <4> QED BY <1>1, <4>1 DEF Seen, Mapped, Elements
    <3>2. Open(d) = {}
      BY <2>1 DEF Open
    <3>3. Left(d) \in {0, SIZE_MAX}
      BY <3>2, LeftOver DEF IInv, TypeOK
    <3>4. d \in Listed
      BY <3>1, <3>3 DEF IInv, Counts
    <3> QED BY <1>2, <1>5, <3>4 DEF Listed, Elements
  <2>3. PICK i \in 1 .. Len(t) : t[i] = d
    BY <1>7, <2>2 DEF Elements
  <2>4. Len(t) \in 1 .. Len(t) /\ t # <<>>
    BY <1>5, <1>7, <2>3, EmptySeq
  <2>5. PICK l : l = t[Len(t)]
    OBVIOUS
  <2>6. l \in Mapped /\ Kind[l] # "Source" /\ (inputOrder[l] # None => Kind[l] = "Data")
    BY <1>7, <1>12, <2>4, <2>5, LenProperties DEF PlainInputs
  <2>7. CASE inputOrder[l] # None
    BY <2>4, <2>5, <2>6, <2>7 DEF GraphInputTypes
  <2>8. CASE i = Len(t)
    BY <2>1, <2>3, <2>4, <2>8 DEF GraphInputTypes
  <2>9. CASE inputOrder[l] = None /\ i # Len(t)
    <3>1. i \in 1 .. Len(s) /\ Len(t) \in 1 .. Len(s) /\ i < Len(t)
      BY <1>5, <1>7, <2>4, <2>9
    <3>2. ~Before(l, d) /\ (p[i] < p[Len(t)] \/ Before(d, l))
      BY <1>9, <2>3, <2>5, <3>1
    <3>3. p[i] < p[Len(t)]
      BY <2>9, <3>2 DEF Before
    <3>4. \A k \in 1 .. Len(s) : Kind[s[k]] \in NonInputTypes <=> k >= dataIter
      BY <1>1, <1>2 DEF OrderInv, InputsAbove
    <3>5. p[i] >= dataIter
      <4>1. p[i] \in 1 .. Len(s) /\ s[p[i]] = d /\ Kind[d] \in NonInputTypes
        BY <1>8, <2>1, <2>3, <3>1 DEF NonInputTypes
      <4> QED BY <3>4, <4>1
    <3>6. p[Len(t)] >= dataIter /\ p[Len(t)] \in 1 .. Len(s)
      <4>1. p[i] \in 1 .. Len(s) /\ p[Len(t)] \in 1 .. Len(s)
        BY <1>8, <3>1
      <4>2. dataIter \in Nat
        BY Typed DEF IInv
      <4> QED BY <1>5, <3>3, <3>5, <4>1, <4>2
    <3>7. Kind[l] \in NonInputTypes
      BY <1>8, <2>5, <3>1, <3>4, <3>6
    <3> QED BY <2>4, <2>5, <2>6, <3>7 DEF NonInputTypes, GraphInputTypes
  <2> QED BY <2>7, <2>8, <2>9
<1>13. BeginsWithInput'
  BY <1>1, <1>3, <1>5, <1>10, <1>12 DEF BeginsWithInput
<1> QED BY <1>1, <1>11, <1>13 DEF OrderInv, InputsAbove, Checked

LEMMA WalkNodeOrder ==
  ASSUME IInv, OrderInv, WalkNode
  PROVE  OrderInv'
<1>0. PICK n : n = noEntryNodes[Len(noEntryNodes)]
  OBVIOUS
<1>1. /\ pc = "walk" /\ outEdges = {} /\ noEntryNodes # <<>>
      /\ dfsNodes' = Append(dfsNodes, n)
      /\ noEntryNodes' = Popped(noEntryNodes)
      /\ UNCHANGED <<nodes, edges, inputOrder, pc>>
      /\ Mapped' = Mapped
  BY <1>0 DEF WalkNode, graph, Mapped, Popped
<1>2. noEntryNodes \in Seq(Mapped) /\ dfsNodes \in Seq(Mapped)
  BY DEF IInv, TypeOK
<1>3. n \in Mapped /\ Elements(noEntryNodes) = Elements(noEntryNodes') \cup {n}
  BY <1>0, <1>1, <1>2, PoppedList
<1>4. Elements(dfsNodes') = Elements(dfsNodes) \cup {n}
  BY <1>1, <1>2, <1>3, Appended
<1>5. /\ \A a, b : Precedes(noEntryNodes', a, b) => Precedes(noEntryNodes, a, b)
      /\ \A a \in Elements(noEntryNodes') : Precedes(noEntryNodes, a, n)
  BY <1>0, <1>1, <1>2, PrecedesPopped
<1>6. \A a, b : Precedes(dfsNodes', a, b) =>
        Precedes(dfsNodes, a, b) \/ (a \in Elements(dfsNodes) /\ b = n)
  BY <1>1, <1>2, <1>3, PrecedesBefore
<1>7. \A a, b : Ahead(a, b)' => Ahead(a, b)
  BY <1>3, <1>4, <1>5, <1>6 DEF Ahead
<1>8. Roots' = Roots /\ (PlainInputs' <=> PlainInputs)
      /\ \A a, b : Before(a, b)' <=> Before(a, b)
  BY <1>1, SameGraph
<1>9. RootsOrdered'
  BY <1>1, <1>7, <1>8 DEF OrderInv, RootsOrdered
<1>10. BeginsWithInput'
  <2>1. Len(dfsNodes) \in Nat /\ dfsNodes' # <<>>
        /\ dfsNodes'[1] = IF dfsNodes = <<>> THEN n ELSE dfsNodes[1]
    <3>1. /\ Len(dfsNodes) \in Nat /\ dfsNodes' \in Seq(Mapped) /\ Len(dfsNodes') = Len(dfsNodes) + 1
          /\ \A i \in 1 .. Len(dfsNodes) : dfsNodes'[i] = dfsNodes[i]
          /\ dfsNodes'[Len(dfsNodes) + 1] = n
      BY <1>1, <1>2, <1>3, AppendProperties, LenProperties
    <3>2. dfsNodes = <<>> <=> Len(dfsNodes) = 0
      BY <1>2, EmptySeq
    <3>3. dfsNodes' # <<>>
      BY <3>1, EmptySeq
    <3> QED BY <3>1, <3>2, <3>3
  <2>2. PlainInputs => IF dfsNodes = <<>> THEN Kind[n] \in GraphInputTypes
                                          ELSE Kind[dfsNodes[1]] \in GraphInputTypes
    BY <1>0, <1>1 DEF OrderInv, BeginsWithInput
  <2> QED BY <1>8, <2>1, <2>2 DEF BeginsWithInput
<1> QED BY <1>1, <1>9, <1>10 DEF OrderInv, InputsAbove, Checked

LEMMA WalkEdgeOrder ==
  ASSUME IInv, OrderInv, WalkEdge
  PROVE  OrderInv'
<1>1. PICK e \in outEdges :
        IF e.dst \in Mapped
        THEN noEntryNodes' = IF Ready(Decremented(nodeEdgeMap[e.dst]))
                             THEN Append(noEntryNodes, e.dst) ELSE noEntryNodes
        ELSE UNCHANGED noEntryNodes
  BY DEF WalkEdge
<1>0. PICK n : n = e.dst
  OBVIOUS
<1>2. /\ pc = "walk"
      /\ UNCHANGED <<nodes, edges, inputOrder, dfsNodes, pc>>
      /\ Mapped' = Mapped
  BY DEF WalkEdge, graph, Mapped
<1>3. e \in edges /\ e.src \in Elements(dfsNodes) /\ e \in InEdges(n) /\ n \notin Roots
  BY <1>0 DEF IInv, TypeOK, Lists, InEdges, Roots
<1>4. noEntryNodes \in Seq(Mapped) /\ dfsNodes # <<>>
  <2>1. dfsNodes = <<>> => Elements(dfsNodes) = {}
    BY EmptySeq DEF Elements
  <2> QED BY <1>3, <2>1 DEF IInv, TypeOK
<1>5. noEntryNodes' = noEntryNodes \/ (n \in Mapped /\ noEntryNodes' = Append(noEntryNodes, n))
  BY <1>0, <1>1
<1>6. /\ \A a, b \in Roots : Precedes(noEntryNodes', a, b) => Precedes(noEntryNodes, a, b)
      /\ \A a \in Roots : a \in Elements(noEntryNodes') => a \in Elements(noEntryNodes)
  <2>1. CASE n \in Mapped /\ noEntryNodes' = Append(noEntryNodes, n)
    <3>1. Elements(noEntryNodes') = Elements(noEntryNodes) \cup {n}
      BY <1>4, <2>1, Appended
    <3>2. \A a, b : Precedes(noEntryNodes', a, b) =>
            Precedes(noEntryNodes, a, b) \/ (a \in Elements(noEntryNodes) /\ b = n)
      BY <1>4, <2>1, PrecedesBefore
    <3> QED BY <1>3, <3>1, <3>2
  <2> QED BY <1>5, <2>1
<1>7. \A a, b \in Roots : Ahead(a, b)' => Ahead(a, b)
  BY <1>2, <1>6 DEF Ahead, Precedes
<1>8. Roots' = Roots /\ (PlainInputs' <=> PlainInputs)
      /\ \A a, b : Before(a, b)' <=> Before(a, b)
  BY <1>2, SameGraph
<1>9. RootsOrdered'
  BY <1>2, <1>7, <1>8 DEF OrderInv, RootsOrdered
<1>10. BeginsWithInput'
  BY <1>2, <1>4, <1>8 DEF OrderInv, BeginsWithInput
<1> QED BY <1>2, <1>9, <1>10 DEF OrderInv, InputsAbove, Checked

LEMMA CheckOrder ==
  ASSUME IInv, OrderInv, CheckGraphValid
  PROVE  OrderInv'
<1>1. /\ pc = "walk" /\ pc' \in {"write", "failed"}
      /\ pc' = "write" => IsBeginWithData
      /\ UNCHANGED <<nodes, edges, inputOrder, noEntryNodes, dfsNodes, outEdges>>
      /\ Mapped' = Mapped
  BY DEF CheckGraphValid, graph, Mapped
<1>2. Checked'
  BY <1>1 DEF Checked, IsBeginWithData
<1> QED BY <1>1, <1>2, KeptOrder DEF OrderInv

\* The steps of the write back, and stuttering.
LEMMA WriteOrder ==
  ASSUME IInv, OrderInv, IInv', UpdateNode \/ UpdateDone \/ UNCHANGED vars
  PROVE  OrderInv'
<1>1. UNCHANGED <<given, edges, inputOrder, noEntryNodes, dfsNodes, outEdges>>
  BY DEF UpdateNode, UpdateDone, vars, graph
<1>2. Mapped' = Mapped
  BY <1>1 DEF IInv, Stored, Mapped
<1>3. CASE UNCHANGED vars
  <2>1. UNCHANGED <<pc, noEntryNodes, dataIter, dfsNodes>>
    BY <1>3 DEF vars
  <2>2. pc = "prepare" => OrderInv'
    BY <2>1 DEF OrderInv, RootsOrdered, InputsAbove, BeginsWithInput, Checked
  <2>3. Checked'
    BY <2>1 DEF OrderInv, Checked, IsBeginWithData
  <2> QED BY <1>1, <1>2, <2>1, <2>2, <2>3, KeptOrder DEF OrderInv
<1>4. CASE UpdateNode \/ UpdateDone
  <2>1. pc = "write" /\ pc' \in {"write", "sorted", "failed"}
    BY <1>4 DEF UpdateNode, UpdateDone
  <2>2. Checked'
    BY <1>1, <2>1 DEF OrderInv, Checked, IsBeginWithData
  <2> QED BY <1>1, <1>2, <2>1, <2>2, KeptOrder DEF OrderInv
<1> QED BY <1>3, <1>4

\* The order of the inputs is kept at all times.
LEMMA OrderInvariance == Spec => []OrderInv
<1>1. IInv /\ IInv' /\ OrderInv /\ [Next]_vars => OrderInv'
  <2>1. CASE UNCHANGED vars
    BY <2>1, WriteOrder
  <2>2. CASE Next
    BY <2>2, VisitOrder, PrepareOrder, WalkNodeOrder, WalkEdgeOrder, CheckOrder, WriteOrder
       DEF Next, Step
  <2> QED BY <2>1, <2>2
<1> QED BY <1>1, InitOrder, Invariance, PTL DEF Spec

-----------------------------------------------------------------------------
(* The theorems *)

\* The stack and the result of the sort hold nodes of its graph, the counts stay
\* numbers of std::size_t, and WriteBackNodes swaps within the list.
THEOREM TypeCorrect == Spec => []TypeOK
<1>1. IInv => TypeOK
  BY DEF IInv
<1> QED BY <1>1, Invariance, PTL

\* Whatever the graph, a sort that succeeds has put every node after the nodes
\* it reads from, and lost or doubled none.
THEOREM SortIsTopological == Spec => []SortedIsTopological
<1>1. IInv => SortedIsTopological
  <2> SUFFICES ASSUME IInv, pc = "sorted"
               PROVE  /\ Distinct(nodes) /\ Elements(nodes) = Elements(given)
                      /\ \A n \in Mapped :
                           IF Kind[n] = "NextIteration"
                           THEN \A e, f \in Behind(nodes, n) : e = f
                           ELSE Behind(nodes, n) = {}
    BY DEF SortedIsTopological
  <2>1. nodes = dfsNodes /\ InOrder(dfsNodes)
    BY DEF IInv, Phases
  <2> QED BY <2>1 DEF IInv, Stored, InOrder, Mapped
<1> QED BY <1>1, Invariance, PTL

\* Whatever the graph, no node is listed twice, also where a loop takes its count
\* below zero (WalkNodesByDfs).
THEOREM EveryNodeListedOnce == Spec => []ListedOnce
<1>1. IInv => ListedOnce
  BY DEF IInv, Lists, ListedOnce
<1> QED BY <1>1, Invariance, PTL

\* Whatever the graph, a sort that fails leaves the nodes alone and has found a
\* set of nodes that wait for each other, or no graph input to begin with.
THEOREM FailsForAReason == Spec => []FailureJustified
<1>1. IInv => FailureJustified
  <2> SUFFICES ASSUME IInv, pc = "failed"
               PROVE  /\ nodes = given
                      /\ \/ ~IsBeginWithData
                         \/ \E S \in SUBSET Mapped : S # {} /\ \A n \in S : Waits(n, S)
    BY DEF FailureJustified
  <2>1. nodes = given
    BY DEF IInv, Stored
  <2>2. ASSUME ~IsGraphNoCycle
        PROVE  \E S \in SUBSET Mapped : S # {} /\ \A n \in S : Waits(n, S)
    <3> DEFINE S == Mapped \ Elements(dfsNodes)
    <3>1. Elements(dfsNodes) \subseteq Mapped
      BY Typed DEF IInv
    <3>2. Cardinality(Elements(dfsNodes)) = Len(dfsNodes)
      <4>1. dfsNodes \in Seq(Mapped) /\ Distinct(dfsNodes)
        BY DEF IInv, TypeOK, Lists
      <4> QED BY <4>1, Counted
    <3>3. S # {}
      <4>1. S = {} => Elements(dfsNodes) = Mapped
        BY <3>1
      <4>2. Cardinality(Elements(dfsNodes)) # Cardinality(Mapped)
        BY <2>2, <3>2 DEF IsGraphNoCycle
      <4> QED BY <4>1, <4>2
    <3>4. outEdges = {} /\ Elements(noEntryNodes) = {} /\ Seen = Mapped
      BY DEF IInv, Phases, Elements, Seen
    <3>5. ASSUME NEW n \in S
          PROVE  Waits(n, S)
      <4>1. Left(n) \notin {0, SIZE_MAX}
        BY <3>4 DEF IInv, Counts, Listed
      <4>2. IF Kind[n] = "NextIteration" THEN \E e, f \in Open(n) : e # f ELSE Open(n) # {}
        BY <4>1, LeftOver DEF IInv, TypeOK
      <4>3. Open(n) \subseteq {e \in InEdges(n) : e.src \in S \/ e.src \notin Mapped}
        BY <3>4 DEF Open, Consumed
      <4> QED BY <4>2, <4>3 DEF Waits
    <3> QED BY <3>3, <3>5
  <2> QED BY <2>1, <2>2 DEF IInv, Phases
<1> QED BY <1>1, Invariance, PTL

\* Whatever the graph and the user's order, a sort that succeeds begins with a
\* graph input and keeps the inputs in that order; where all inputs are plain
\* data, only a cycle lets it fail.
THEOREM InputsKeepOrder == Spec => []InputsInOrder
<1>1. IInv /\ OrderInv => InputsInOrder
  <2> SUFFICES ASSUME IInv, OrderInv PROVE InputsInOrder
    OBVIOUS
  <2>1. ASSUME pc = "sorted", nodes # <<>>
        PROVE  Kind[nodes[1]] \in GraphInputTypes
    BY <2>1 DEF IInv, Phases, OrderInv, Checked, IsBeginWithData
  <2>2. ASSUME pc = "sorted", NEW m \in Roots, NEW n \in Roots,
               Precedes(nodes, m, n), inputOrder[n] # None
        PROVE  inputOrder[m] # None /\ inputOrder[m] <= inputOrder[n]
    <3>1. ~Before(m, n)
      BY <2>2 DEF IInv, Phases, OrderInv, RootsOrdered, Ahead
    <3>2. inputOrder[m] \in Nat \cup {None} /\ inputOrder[n] \in Nat \cup {None}
      <4>1. inputOrder \in [Node -> Nat \cup {None}]
        BY SorterAssumption DEF IInv, TypeOK
      <4>2. m \in Node /\ n \in Node
        BY Typed DEF IInv, Roots
      <4> QED BY <4>1, <4>2
    <3> QED BY <2>2, <3>1, <3>2 DEF Before
  <2>3. ASSUME pc = "failed", PlainInputs
        PROVE  ~IsGraphNoCycle
    <3>1. noEntryNodes = <<>>
      BY <2>3 DEF IInv, Phases
    <3>2. IsBeginWithData
      BY <2>3, <3>1 DEF OrderInv, BeginsWithInput, IsBeginWithData
    <3> QED BY <2>3, <3>2 DEF IInv, Phases
  <2> QED BY <2>1, <2>2, <2>3 DEF InputsInOrder, Roots, PlainInputs
<1> QED BY <1>1, Invariance, OrderInvariance, PTL
=============================================================================
