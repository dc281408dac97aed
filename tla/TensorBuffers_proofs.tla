------------------------ MODULE TensorBuffers_proofs ------------------------
(***************************************************************************)
(* Proofs about TensorBuffers: who owns which block of memory, whatever    *)
(* the ROM exports and refuses and whichever allocation fails.             *)
(***************************************************************************)
EXTENDS TensorBuffers, FiniteSetTheorems, WellFoundedInduction, TLAPS

-----------------------------------------------------------------------------
(* The heap *)

\* What is allocated are blocks at positive addresses, finitely many.
Shaped(h) ==
  /\ h = [mem |-> h.mem, lost |-> h.lost, wrong |-> h.wrong, env |-> h.env]
  /\ h.mem = [b \in DOMAIN h.mem |-> h.mem[b]]
  /\ IsFiniteSet(DOMAIN h.mem) /\ DOMAIN h.mem \subseteq Nat \ {0}

BlockShaped(r) ==
  /\ r = [kind |-> r.kind, size |-> r.size, data |-> r.data, handle |-> r.handle,
          owner |-> r.owner, legacy |-> r.legacy, desc |-> r.desc]
  /\ r.size \in Int /\ r.data \in Nat /\ r.handle \in Nat

\* A block and what hangs on it, but for the application's memory.
Parts(h, b) == {b, h.mem[b].data, h.mem[b].handle} \ {0, 1}

PartsOf(h, S) == UNION {Parts(h, s) : s \in S}

KindOf(h, b) == h.mem[b].kind

\* An object of the ROM stands in front of memory of the ROM.
ObjectWhole(h, r) ==
  /\ r.data \in DOMAIN h.mem /\ KindOf(h, r.data) = "memory" /\ r.handle = 0

\* A record of the DDK stands in front of memory of its own, of the application's or of
\* an object of its generation.
RecordWhole(h, r) ==
  /\ r.data \in DOMAIN h.mem /\ h.mem[r.data].size >= r.size
  /\ r.handle = 0 => IF r.owner THEN KindOf(h, r.data) = "local" ELSE r.data = 1
  /\ r.handle # 0 => /\ r.handle \in DOMAIN h.mem /\ h.mem[r.handle].data = r.data
                     /\ KindOf(h, r.handle) = (IF r.legacy THEN "tensor" ELSE "nd")
                     /\ ObjectWhole(h, h.mem[r.handle])

Whole(h, b) ==
  LET r == h.mem[b]
  IN  \/ r.kind = "record" /\ RecordWhole(h, r)
      \/ r.kind \in {"tensor", "nd"} /\ ObjectWhole(h, r)
      \/ r.kind \in {"local", "memory"} /\ r.data = 0 /\ r.handle = 0

\* R are the blocks somebody refers to: each is whole, no two share a part, and nothing
\* else is allocated but what the application owns.
Heap(h, R) ==
  /\ Shaped(h) /\ ~h.wrong
  /\ \A b \in DOMAIN h.mem : BlockShaped(h.mem[b])
  /\ 1 \in DOMAIN h.mem /\ KindOf(h, 1) = "application" /\ h.mem[1].size = Lent
  /\ R \subseteq DOMAIN h.mem \ {1}
  /\ \A b \in R : Whole(h, b)
  /\ \A a, b \in R : a # b => Parts(h, a) \cap Parts(h, b) = {}
  /\ \A x \in DOMAIN h.mem : x # 1 => \E b \in R : x \in Parts(h, b)

\* The blocks in H are held, those in lost are not.
Sound(h, H) == Heap(h, H \cup h.lost) /\ H \cap h.lost = {}

-----------------------------------------------------------------------------
(* Allocation *)

LEMMA Smallest ==
  ASSUME NEW T \in SUBSET Nat, T # {}
  PROVE  \E k \in T : \A l \in T : k <= l
<1>1. PICK k \in T : \A l \in T : ~ (<<l, k>> \in OpToRel(<, Nat))
  BY NatLessThanWellFounded, WFMin
<1>2. \A l \in T : ~ (l < k)
  BY <1>1 DEF OpToRel
<1> QED BY <1>2

\* There is a free address.
LEMMA FreshIs ==
  ASSUME NEW h, Shaped(h)
  PROVE  Fresh(h) \in Nat \ {0} /\ Fresh(h) \notin DOMAIN h.mem
<1> DEFINE D == DOMAIN h.mem
           c == Cardinality(D)
           T == (1 .. (c + 1)) \ D
<1>1. IsFiniteSet(D) /\ c \in Nat
  BY FS_CardinalityType DEF Shaped
<1>2. T # {}
  <2> SUFFICES ASSUME T = {} PROVE FALSE
    OBVIOUS
  <2>1. 1 .. (c + 1) \subseteq D
    OBVIOUS
  <2>2. Cardinality(1 .. (c + 1)) <= c
    BY <1>1, <2>1, FS_Subset
  <2>3. Cardinality(1 .. (c + 1)) = c + 1
    BY <1>1, FS_Interval
  <2> QED BY <1>1, <2>2, <2>3
<1> HIDE DEF c, D
<1>3. T \in SUBSET Nat
  OBVIOUS
<1>4. PICK n \in T : \A l \in T : n <= l
  BY <1>2, <1>3, Smallest
<1>5. 1 .. (n - 1) \subseteq D
  BY <1>1, <1>4
<1>6. \E k \in 1 .. (c + 1) : k \notin D /\ 1 .. (k - 1) \subseteq D
  BY <1>4, <1>5
<1>7. Fresh(h) \in 1 .. (c + 1) /\ Fresh(h) \notin D
  BY <1>6 DEF Fresh, c, D
<1> QED BY <1>1, <1>7 DEF D

LEMMA AllocIs ==
  ASSUME NEW h, NEW block, Shaped(h)
  PROVE  \E b \in Nat \ {0} :
           /\ b \notin DOMAIN h.mem
           /\ Alloc(h, block) = [heap |-> Grown(h, b, block), b |-> b]
<1>1. Fresh(h) \in Nat \ {0} /\ Fresh(h) \notin DOMAIN h.mem
  BY FreshIs
<1> QED BY <1>1 DEF Alloc, Out

LEMMA GrownParts ==
  ASSUME NEW h, Shaped(h), NEW b \in Nat \ {0}, NEW block
  PROVE  /\ Grown(h, b, block).lost = h.lost /\ Grown(h, b, block).wrong = h.wrong
         /\ Grown(h, b, block).env = h.env
         /\ DOMAIN Grown(h, b, block).mem = DOMAIN h.mem \cup {b}
         /\ Grown(h, b, block).mem[b] = block
         /\ \A x \in DOMAIN h.mem : x # b => Grown(h, b, block).mem[x] = h.mem[x]
         /\ Shaped(Grown(h, b, block))
<1>1. DOMAIN h.mem \cup {b} \subseteq Nat \ {0}
  BY DEF Shaped
<1>2. IsFiniteSet(DOMAIN h.mem \cup {b})
  BY FS_AddElement DEF Shaped
<1> QED BY <1>1, <1>2 DEF Shaped, Grown

-----------------------------------------------------------------------------
(* Owners *)

LEMMA BlockParts ==
  ASSUME NEW kind, NEW size \in Int
  PROVE  /\ BlockShaped(Block(kind, size))
         /\ Block(kind, size).kind = kind /\ Block(kind, size).size = size
         /\ Block(kind, size).data = 0 /\ Block(kind, size).handle = 0
BY DEF Block, BlockShaped

LEMMA PartsExist ==
  ASSUME NEW h, NEW R, Heap(h, R), NEW b \in R
  PROVE  /\ Parts(h, b) \subseteq DOMAIN h.mem \ {1} /\ b \in Parts(h, b)
         /\ KindOf(h, b) \in {"record", "tensor", "nd", "local", "memory"}
         /\ \A x \in Parts(h, b) : x # b => KindOf(h, x) \in {"local", "memory", "tensor", "nd"}
<1>1. Whole(h, b) /\ BlockShaped(h.mem[b]) /\ b \in DOMAIN h.mem \ {1} /\ 0 \notin DOMAIN h.mem
  BY DEF Heap, Shaped
<1>2. h.mem[1].kind = "application"
  BY DEF Heap, KindOf
<1>3. CASE h.mem[b].kind = "record"
  <2>1. RecordWhole(h, h.mem[b])
    BY <1>1, <1>3 DEF Whole
  <2> QED BY <1>1, <1>2, <1>3, <2>1 DEF RecordWhole, ObjectWhole, Parts, KindOf
<1>4. CASE h.mem[b].kind \in {"tensor", "nd"}
  <2>1. ObjectWhole(h, h.mem[b])
    BY <1>1, <1>4 DEF Whole
  <2> QED BY <1>1, <1>2, <1>4, <2>1 DEF ObjectWhole, Parts, KindOf
<1>5. CASE h.mem[b].kind \in {"local", "memory"}
  <2>1. h.mem[b].data = 0 /\ h.mem[b].handle = 0
    BY <1>1, <1>5 DEF Whole
  <2> QED BY <1>1, <1>5, <2>1 DEF Parts, KindOf
<1> QED BY <1>1, <1>3, <1>4, <1>5 DEF Whole

\* A part belongs to one root.
LEMMA OneOwner ==
  ASSUME NEW h, NEW R, Heap(h, R), NEW a \in R, NEW b \in R, NEW x, x \in Parts(h, a), x \in Parts(h, b)
  PROVE  a = b
BY DEF Heap

\* A root depends on its parts only.
LEMMA PartsKept ==
  ASSUME NEW h, NEW R, Heap(h, R), NEW b \in R, NEW g,
         \A x \in Parts(h, b) \cup {1} : x \in DOMAIN g.mem /\ g.mem[x] = h.mem[x]
  PROVE  Parts(g, b) = Parts(h, b) /\ Whole(g, b)
<1>1. Whole(h, b) /\ BlockShaped(h.mem[b]) /\ b \in DOMAIN h.mem \ {1} /\ 0 \notin DOMAIN h.mem
  BY DEF Heap, Shaped
<1>2. g.mem[b] = h.mem[b] /\ b \in DOMAIN g.mem
  BY PartsExist
<1>3. Parts(g, b) = Parts(h, b)
  BY <1>2 DEF Parts
<1>4. CASE h.mem[b].kind = "record"
  <2>1. RecordWhole(h, h.mem[b])
    BY <1>1, <1>4 DEF Whole
  <2>2. \A x \in {h.mem[b].data, h.mem[b].handle} : x # 0 => x \in DOMAIN g.mem /\ g.mem[x] = h.mem[x]
    BY DEF Parts
  <2>3. h.mem[b].data # 0
    BY <1>1, <2>1 DEF RecordWhole
  <2>4. RecordWhole(g, g.mem[b])
    BY <1>2, <2>1, <2>2, <2>3 DEF RecordWhole, ObjectWhole, KindOf
  <2> QED BY <1>2, <1>3, <1>4, <2>4 DEF Whole
<1>5. CASE h.mem[b].kind \in {"tensor", "nd"}
  <2>1. ObjectWhole(h, h.mem[b])
    BY <1>1, <1>5 DEF Whole
  <2>2. h.mem[b].data # 0 /\ (h.mem[b].data \in Parts(h, b) \/ h.mem[b].data = 1)
    BY <1>1, <2>1 DEF ObjectWhole, Parts
  <2>3. ObjectWhole(g, g.mem[b])
    BY <1>2, <2>1, <2>2 DEF ObjectWhole, KindOf
  <2> QED BY <1>2, <1>3, <1>5, <2>3 DEF Whole
<1>6. CASE h.mem[b].kind \in {"local", "memory"}
  BY <1>1, <1>2, <1>3, <1>6 DEF Whole
<1> QED BY <1>1, <1>4, <1>5, <1>6 DEF Whole

\* A heap that keeps the roots of K and has at most one other, with what hangs on them.
LEMMA Rearranged ==
  ASSUME NEW h, NEW R, Heap(h, R), NEW g, Shaped(g), ~g.wrong,
         \A x \in DOMAIN g.mem : BlockShaped(g.mem[x]),
         NEW K \in SUBSET R, NEW N \in SUBSET (DOMAIN g.mem \ {1}), \A m, n \in N : m = n,
         1 \in DOMAIN g.mem, g.mem[1] = h.mem[1],
         \A k \in K : \A x \in Parts(h, k) : x \in DOMAIN g.mem /\ g.mem[x] = h.mem[x],
         \A n \in N : Whole(g, n) /\ \A k \in K : Parts(g, n) \cap Parts(h, k) = {},
         \A x \in DOMAIN g.mem : \/ x = 1 \/ \E k \in K : x \in Parts(h, k)
                                 \/ \E n \in N : x \in Parts(g, n)
  PROVE  Heap(g, K \cup N)
<1>1. \A k \in K : Parts(g, k) = Parts(h, k) /\ Whole(g, k)
  BY PartsKept
<1>2. KindOf(g, 1) = "application" /\ g.mem[1].size = Lent
  BY DEF Heap, KindOf
<1>3. K \subseteq DOMAIN g.mem \ {1}
  BY PartsExist
<1>4. ASSUME NEW a \in K \cup N, NEW b \in K \cup N, a # b
      PROVE  Parts(g, a) \cap Parts(g, b) = {}
  <2>1. CASE a \in K /\ b \in K
    BY <1>1, <1>4, <2>1 DEF Heap
  <2>2. CASE a \in K /\ b \in N
    BY <1>1, <2>2
  <2>3. CASE a \in N /\ b \in K
    BY <1>1, <2>3
  <2>4. CASE a \in N /\ b \in N
    BY <1>4, <2>4
  <2> QED BY <2>1, <2>2, <2>3, <2>4
<1>5. \A x \in DOMAIN g.mem : x # 1 => \E b \in K \cup N : x \in Parts(g, b)
  BY <1>1
<1> QED BY <1>1, <1>2, <1>3, <1>4, <1>5 DEF Heap

\* A new block in front of the roots of S.
LEMMA Wrapped ==
  ASSUME NEW h, NEW R, Heap(h, R), NEW S \in SUBSET R, NEW block, BlockShaped(block),
         NEW b \in Nat \ {0}, b \notin DOMAIN h.mem, NEW g, g = Grown(h, b, block),
         Whole(g, b), Parts(g, b) = {b} \cup PartsOf(h, S)
  PROVE  Heap(g, (R \ S) \cup {b}) /\ b \notin R
<1>1. Shaped(h) /\ ~h.wrong /\ 1 \in DOMAIN h.mem /\ R \subseteq DOMAIN h.mem
  BY DEF Heap
<1>2. /\ g.wrong = h.wrong /\ DOMAIN g.mem = DOMAIN h.mem \cup {b} /\ g.mem[b] = block
      /\ \A x \in DOMAIN h.mem : x # b => g.mem[x] = h.mem[x]
      /\ Shaped(g)
  BY <1>1, GrownParts
<1>3. \A x \in DOMAIN g.mem : BlockShaped(g.mem[x])
  BY <1>2 DEF Heap
<1>4. \A k \in R : Parts(h, k) \subseteq DOMAIN h.mem
  BY PartsExist
<1>5. \A k \in R \ S : \A s \in S : Parts(h, k) \cap Parts(h, s) = {}
  BY OneOwner
<1>6. \A k \in R \ S : Parts(g, b) \cap Parts(h, k) = {}
  BY <1>4, <1>5 DEF PartsOf
<1>7. \A x \in DOMAIN g.mem : \/ x = 1 \/ \E k \in R \ S : x \in Parts(h, k)
                              \/ \E n \in {b} : x \in Parts(g, n)
  <2>1. \A x \in DOMAIN h.mem : x # 1 => \E k \in R : x \in Parts(h, k)
    BY DEF Heap
  <2> QED BY <1>2, <2>1 DEF PartsOf
<1>8. \A k \in R \ S : \A x \in Parts(h, k) : x \in DOMAIN g.mem /\ g.mem[x] = h.mem[x]
  BY <1>2, <1>4
<1>9. R \ S \in SUBSET R /\ {b} \in SUBSET (DOMAIN g.mem \ {1}) /\ \A m, n \in {b} : m = n
  BY <1>1, <1>2
<1>10. 1 \in DOMAIN g.mem /\ g.mem[1] = h.mem[1] /\ ~g.wrong
  BY <1>1, <1>2
<1>11. \A n \in {b} : Whole(g, n) /\ \A k \in R \ S : Parts(g, n) \cap Parts(h, k) = {}
  BY <1>6
<1>12. Heap(g, (R \ S) \cup {b})
  <2>1. PICK K, N : K = R \ S /\ N = {b}
    OBVIOUS
  <2>2. K \in SUBSET R /\ N \in SUBSET (DOMAIN g.mem \ {1}) /\ \A m, n \in N : m = n
    BY <1>9, <2>1
  <2>3. \A k \in K : \A x \in Parts(h, k) : x \in DOMAIN g.mem /\ g.mem[x] = h.mem[x]
    BY <1>8, <2>1
  <2>4. \A n \in N : Whole(g, n) /\ \A k \in K : Parts(g, n) \cap Parts(h, k) = {}
    BY <1>11, <2>1
  <2>5. \A x \in DOMAIN g.mem : \/ x = 1 \/ \E k \in K : x \in Parts(h, k)
                                \/ \E n \in N : x \in Parts(g, n)
    BY <1>7, <2>1
  <2>6. Heap(g, K \cup N)
    BY ONLY Heap(h, R), <1>2, <1>3, <1>10, <2>2, <2>3, <2>4, <2>5, Rearranged
  <2> QED BY <2>1, <2>6
<1> QED BY <1>1, <1>12

\* The heap without the blocks of D.
Without(h, D) == [x \in DOMAIN h.mem \ D |-> h.mem[x]]
Rest(h, D) == [mem |-> Without(h, D), lost |-> h.lost, wrong |-> h.wrong, env |-> h.env]

LEMMA RestParts ==
  ASSUME NEW h, NEW D, Shaped(h), NEW g, g.mem = Without(h, D),
         g = [mem |-> g.mem, lost |-> g.lost, wrong |-> g.wrong, env |-> g.env]
  PROVE  /\ Shaped(g) /\ DOMAIN g.mem = DOMAIN h.mem \ D
         /\ \A x \in DOMAIN h.mem \ D : g.mem[x] = h.mem[x]
<1>1. IsFiniteSet(DOMAIN h.mem \ D)
  BY FS_Subset DEF Shaped
<1> QED BY <1>1 DEF Shaped, Without

\* A root goes with what hangs on it.
LEMMA Freed ==
  ASSUME NEW h, NEW R, Heap(h, R), NEW r \in R, NEW g, g = Rest(h, Parts(h, r))
  PROVE  Heap(g, R \ {r})
<1>1. Shaped(h) /\ ~h.wrong /\ 1 \in DOMAIN h.mem
  BY DEF Heap
<1>2. /\ Shaped(g) /\ DOMAIN g.mem = DOMAIN h.mem \ Parts(h, r) /\ ~g.wrong
      /\ \A x \in DOMAIN h.mem \ Parts(h, r) : g.mem[x] = h.mem[x]
  <2>1. g.mem = Without(h, Parts(h, r)) /\ ~g.wrong
    BY <1>1 DEF Rest
  <2>2. g = [mem |-> g.mem, lost |-> g.lost, wrong |-> g.wrong, env |-> g.env]
    BY DEF Rest
  <2> QED BY <1>1, <2>1, <2>2, RestParts
<1>3. \A x \in DOMAIN g.mem : BlockShaped(g.mem[x])
  BY <1>2 DEF Heap
<1>4. 1 \notin Parts(h, r)
  BY DEF Parts
<1>5. \A k \in R \ {r} : \A x \in Parts(h, k) : x \in DOMAIN g.mem /\ g.mem[x] = h.mem[x]
  BY <1>2, OneOwner, PartsExist
<1>6. \A x \in DOMAIN g.mem : \/ x = 1 \/ \E k \in R \ {r} : x \in Parts(h, k)
                              \/ \E n \in {} : x \in Parts(g, n)
  <2>1. \A x \in DOMAIN h.mem : x # 1 => \E k \in R : x \in Parts(h, k)
    BY DEF Heap
  <2> QED BY <1>2, <2>1
<1>7. 1 \in DOMAIN g.mem /\ g.mem[1] = h.mem[1]
  BY <1>1, <1>2, <1>4
<1>8. Heap(g, (R \ {r}) \cup {})
  BY <1>2, <1>3, <1>5, <1>6, <1>7, Rearranged
<1> QED BY <1>8

\* A record goes and leaves its object.
LEMMA RecordFreed ==
  ASSUME NEW h, NEW R, Heap(h, R), NEW r \in R, KindOf(h, r) = "record", h.mem[r].handle # 0,
         NEW g, g.mem = Without(h, {r}), ~g.wrong,
         g = [mem |-> g.mem, lost |-> g.lost, wrong |-> g.wrong, env |-> g.env]
  PROVE  Heap(g, (R \ {r}) \cup {h.mem[r].handle})
<1>1. Shaped(h) /\ ~h.wrong /\ 1 \in DOMAIN h.mem /\ BlockShaped(h.mem[r]) /\ Whole(h, r) /\ r \in DOMAIN h.mem \ {1}
  BY DEF Heap
<1>2. Shaped(g) /\ DOMAIN g.mem = DOMAIN h.mem \ {r} /\ \A x \in DOMAIN h.mem \ {r} : g.mem[x] = h.mem[x]
  BY <1>1, RestParts
<1> DEFINE o == h.mem[r].handle
           d == h.mem[r].data
<1>3. RecordWhole(h, h.mem[r])
  BY <1>1 DEF Whole, KindOf
<1>4. /\ o \in DOMAIN h.mem \ {0, 1, r} /\ d \in DOMAIN h.mem \ {0, 1, r} /\ h.mem[o].data = d
      /\ h.mem[o].kind \in {"tensor", "nd"} /\ h.mem[o].handle = 0 /\ h.mem[d].kind = "memory"
  <2>1. h.mem[1].kind = "application" /\ 0 \notin DOMAIN h.mem
    BY DEF Heap, KindOf, Shaped
  <2> QED BY <1>3, <2>1 DEF RecordWhole, ObjectWhole, KindOf
<1>5. Parts(h, r) = {r, o, d}
  BY <1>1, <1>4 DEF Parts, Shaped
<1>6. Parts(g, o) = {o, d} /\ Whole(g, o)
  BY <1>2, <1>4 DEF Parts, Whole, ObjectWhole, KindOf
<1>7. \A x \in DOMAIN g.mem : BlockShaped(g.mem[x])
  BY <1>2 DEF Heap
<1>8. 1 \in DOMAIN g.mem /\ g.mem[1] = h.mem[1]
  BY <1>1, <1>2
<1>9. PICK K, N : K = R \ {r} /\ N = {o}
  OBVIOUS
<1>10. K \in SUBSET R /\ N \in SUBSET (DOMAIN g.mem \ {1}) /\ \A m, n \in N : m = n
  BY <1>2, <1>4, <1>9
<1>11. \A k \in K : Parts(h, k) \cap Parts(h, r) = {}
  BY <1>9, OneOwner
<1>12. \A k \in K : \A x \in Parts(h, k) : x \in DOMAIN g.mem /\ g.mem[x] = h.mem[x]
  <2>1. \A k \in K : Parts(h, k) \subseteq DOMAIN h.mem
    BY <1>10, PartsExist
  <2> QED BY <1>2, <1>5, <1>11, <2>1
<1>13. \A n \in N : Whole(g, n) /\ \A k \in K : Parts(g, n) \cap Parts(h, k) = {}
  BY <1>5, <1>6, <1>9, <1>11
<1>14. \A x \in DOMAIN g.mem : \/ x = 1 \/ \E k \in K : x \in Parts(h, k)
                               \/ \E n \in N : x \in Parts(g, n)
  <2>1. \A x \in DOMAIN h.mem : x # 1 => \E k \in R : x \in Parts(h, k)
    BY DEF Heap
  <2> QED BY <1>2, <1>5, <1>6, <1>9, <2>1
<1>15. Heap(g, K \cup N)
  BY <1>2, <1>7, <1>8, <1>10, <1>12, <1>13, <1>14, Rearranged
<1> QED BY <1>9, <1>15

-----------------------------------------------------------------------------
(* Blocks that are allocated and released *)

\* Two heaps with the same blocks.
Like(g, h) ==
  /\ g = [mem |-> g.mem, lost |-> g.lost, wrong |-> g.wrong, env |-> g.env]
  /\ g.mem = h.mem /\ g.wrong = h.wrong

LEMMA LikeHeap ==
  ASSUME NEW h, NEW R, Heap(h, R), NEW g, Like(g, h)
  PROVE  Heap(g, R)
<1>1. Shaped(g)
  BY DEF Like, Heap, Shaped
<1>2. \A b : Parts(g, b) = Parts(h, b) /\ (Whole(g, b) <=> Whole(h, b)) /\ KindOf(g, b) = KindOf(h, b)
  BY DEF Like, Parts, Whole, RecordWhole, ObjectWhole, KindOf
<1> QED BY <1>1, <1>2 DEF Like, Heap

LEMMA SpentSound ==
  ASSUME NEW h, NEW H, Sound(h, H)
  PROVE  Sound(Spent(h), H) /\ Spent(h).mem = h.mem /\ Spent(h).lost = h.lost
<1>1. h = [mem |-> h.mem, lost |-> h.lost, wrong |-> h.wrong, env |-> h.env]
  BY DEF Sound, Heap, Shaped
<1>2. Spent(h) = [mem |-> h.mem, lost |-> h.lost, wrong |-> h.wrong, env |-> Spent(h).env]
  BY <1>1 DEF Spent
<1>3. Spent(h).mem = h.mem /\ Spent(h).lost = h.lost /\ Spent(h).wrong = h.wrong
  BY <1>2
<1>4. Like(Spent(h), h)
  BY <1>2, <1>3 DEF Like
<1> QED BY <1>3, <1>4, LikeHeap DEF Sound

LEMMA RestTwice ==
  ASSUME NEW h, NEW A, NEW B
  PROVE  Rest(Rest(h, A), B) = Rest(h, A \cup B)
BY DEF Rest, Without

LEMMA FreeIs ==
  ASSUME NEW h, Shaped(h), NEW b \in DOMAIN h.mem, NEW kind, KindOf(h, b) = kind
  PROVE  Free(h, b, kind) = Rest(h, {b})
<1>1. h = [mem |-> h.mem, lost |-> h.lost, wrong |-> h.wrong, env |-> h.env]
  BY DEF Shaped
<1> QED BY <1>1 DEF Free, Rest, Without, KindOf

LEMMA RestShaped ==
  ASSUME NEW h, NEW D, Shaped(h)
  PROVE  /\ Shaped(Rest(h, D)) /\ DOMAIN Rest(h, D).mem = DOMAIN h.mem \ D
         /\ \A x \in DOMAIN h.mem \ D : Rest(h, D).mem[x] = h.mem[x] /\ KindOf(Rest(h, D), x) = KindOf(h, x)
         /\ Rest(h, D).lost = h.lost /\ Rest(h, D).wrong = h.wrong /\ Rest(h, D).env = h.env
<1>1. PICK g : g = Rest(h, D)
  OBVIOUS
<1>2. g.mem = Without(h, D) /\ g.lost = h.lost /\ g.wrong = h.wrong /\ g.env = h.env
      /\ g = [mem |-> g.mem, lost |-> g.lost, wrong |-> g.wrong, env |-> g.env]
  BY <1>1 DEF Rest
<1>3. /\ Shaped(g) /\ DOMAIN g.mem = DOMAIN h.mem \ D
      /\ \A x \in DOMAIN h.mem \ D : g.mem[x] = h.mem[x]
  BY <1>2, RestParts
<1> QED BY <1>1, <1>2, <1>3 DEF KindOf

Keeps(h, g, H) == \A b \in H : g.mem[b] = h.mem[b]

\* What is behind one held block is not behind another and is not held itself.
LEMMA Apart ==
  ASSUME NEW h, NEW H, NEW b, b \notin H, Sound(h, H \cup {b})
  PROVE  /\ b \in DOMAIN h.mem /\ b \notin h.lost
         /\ \A x \in Parts(h, b) : x \notin H \cup h.lost \/ x = b
         /\ \A x \in H : x \notin Parts(h, b) /\ x \in DOMAIN h.mem
         /\ Heap(h, H \cup h.lost \cup {b}) /\ Shaped(h) /\ (H \cup h.lost \cup {b}) \ {b} = H \cup h.lost
         /\ H \cap h.lost = {} /\ Parts(h, b) \subseteq DOMAIN h.mem
<1>1. (H \cup {b}) \cup h.lost = H \cup h.lost \cup {b} /\ b \notin h.lost
  BY DEF Sound
<1>2. Heap(h, H \cup h.lost \cup {b})
  BY <1>1 DEF Sound
<1>3. \A x \in H \cup h.lost : x \in Parts(h, x) /\ x \in DOMAIN h.mem
  BY <1>2, PartsExist
<1>4. \A x \in H \cup h.lost : x # b => Parts(h, x) \cap Parts(h, b) = {}
  BY <1>2, OneOwner
<1>5. b \in DOMAIN h.mem /\ Shaped(h) /\ Parts(h, b) \subseteq DOMAIN h.mem
  <2>1. PICK R : R = H \cup h.lost \cup {b}
    OBVIOUS
  <2>2. Heap(h, R) /\ b \in R
    BY <1>2, <2>1
  <2> QED BY ONLY <2>2, PartsExist DEF Heap
<1> QED BY <1>1, <1>2, <1>3, <1>4, <1>5 DEF Sound

LEMMA RootFreed ==
  ASSUME NEW h, NEW H, NEW b, b \notin H, Sound(h, H \cup {b}), NEW g, g = Rest(h, Parts(h, b))
  PROVE  Sound(g, H) /\ Keeps(h, g, H) /\ g.lost = h.lost
<1>1. Heap(h, H \cup h.lost \cup {b}) /\ (H \cup h.lost \cup {b}) \ {b} = H \cup h.lost /\ Shaped(h)
  BY Apart
<1>2. Heap(g, H \cup h.lost)
  <2>1. PICK R : R = H \cup h.lost \cup {b}
    OBVIOUS
  <2>2. Heap(g, R \ {b})
    BY ONLY <1>1, <2>1, g = Rest(h, Parts(h, b)), Freed
  <2> QED BY <1>1, <2>1, <2>2
<1>3. g.lost = h.lost /\ \A x \in DOMAIN h.mem \ Parts(h, b) : g.mem[x] = h.mem[x]
  BY <1>1, RestShaped
<1>4. Keeps(h, g, H)
  BY <1>3, Apart DEF Keeps
<1> QED BY <1>2, <1>3, <1>4, Apart DEF Sound

\* An object is released with its memory, or stays behind in a library without the function.
LEMMA Released ==
  ASSUME NEW h, NEW H, NEW o, o \notin H, Sound(h, H \cup {o}),
         KindOf(h, o) \in {"tensor", "nd"}, NEW g, g = HIAI_NDTensorBuffer_Release(h, KindOf(h, o), o)
  PROVE  Sound(g, H) /\ Keeps(h, g, H)
<1>1. Heap(h, H \cup h.lost \cup {o}) /\ Shaped(h) /\ o \in DOMAIN h.mem /\ H \cap h.lost = {}
  BY Apart
<1>2. CASE ~Has(KindOf(h, o), "Destroy")
  <2>1. h = [mem |-> h.mem, lost |-> h.lost, wrong |-> h.wrong, env |-> h.env]
    BY <1>1 DEF Shaped
  <2>2. g = [h EXCEPT !.lost = h.lost \cup {o}]
    BY <1>2 DEF HIAI_NDTensorBuffer_Release
  <2>3. g = [mem |-> h.mem, lost |-> h.lost \cup {o}, wrong |-> h.wrong, env |-> h.env]
    BY <2>1, <2>2
  <2>4. Like(g, h) /\ g.lost = h.lost \cup {o} /\ g.mem = h.mem
    BY <2>3 DEF Like
  <2>5. Heap(g, H \cup h.lost \cup {o})
    BY <1>1, <2>4, LikeHeap
  <2>6. H \cup g.lost = H \cup h.lost \cup {o}
    BY <2>4
  <2> QED BY <1>1, <2>4, <2>5, <2>6 DEF Sound, Keeps
<1>3. CASE Has(KindOf(h, o), "Destroy")
  <2> DEFINE d == h.mem[o].data
  <2>1. Whole(h, o) /\ o \in DOMAIN h.mem \ {1} /\ BlockShaped(h.mem[o]) /\ KindOf(h, 1) = "application" /\ 0 \notin DOMAIN h.mem
    BY <1>1 DEF Heap, Shaped
  <2>2. d \in DOMAIN h.mem /\ KindOf(h, d) = "memory" /\ h.mem[o].handle = 0 /\ d # o /\ d # 1
    BY <2>1 DEF Whole, ObjectWhole, KindOf
  <2>3. Parts(h, o) = {d} \cup {o}
    BY <2>1, <2>2 DEF Parts
  <2>4. g = Free(Free(h, d, "memory"), o, KindOf(h, o))
    BY <1>3 DEF HIAI_NDTensorBuffer_Release, KindOf
  <2>5. Free(h, d, "memory") = Rest(h, {d})
    BY <1>1, <2>2, FreeIs
  <2>6. Shaped(Rest(h, {d})) /\ o \in DOMAIN Rest(h, {d}).mem /\ KindOf(Rest(h, {d}), o) = KindOf(h, o)
    BY <1>1, <2>2, RestShaped
  <2>7. g = Rest(Rest(h, {d}), {o})
    BY <2>4, <2>5, <2>6, FreeIs
  <2>8. g = Rest(h, Parts(h, o))
    BY <2>3, <2>7, RestTwice
  <2> QED BY <2>8, RootFreed
<1> QED BY <1>2, <1>3

\* A record is destroyed with all that is behind it.
LEMMA Destroyed ==
  ASSUME NEW h, NEW H, NEW b, b \notin H, Sound(h, H \cup {b}), KindOf(h, b) = "record",
         NEW g, g = Destroy(h, b)
  PROVE  Sound(g, H) /\ Keeps(h, g, H)
<1>1. /\ Heap(h, H \cup h.lost \cup {b}) /\ Shaped(h) /\ b \in DOMAIN h.mem /\ b \notin h.lost
      /\ H \cap h.lost = {} /\ (H \cup h.lost \cup {b}) \ {b} = H \cup h.lost
  BY Apart
<1> DEFINE d == h.mem[b].data
           o == h.mem[b].handle
<1>2. /\ Whole(h, b) /\ BlockShaped(h.mem[b]) /\ b # 1 /\ KindOf(h, 1) = "application"
      /\ 0 \notin DOMAIN h.mem /\ h.mem[b].kind = "record"
  <2>1. PICK R : R = H \cup h.lost \cup {b}
    OBVIOUS
  <2>2. Heap(h, R) /\ b \in R
    BY <1>1, <2>1
  <2> QED BY ONLY <2>2, KindOf(h, b) = "record" DEF Heap, Shaped, KindOf
<1>3. RecordWhole(h, h.mem[b])
  BY <1>2 DEF Whole
<1>4. CASE o = 0 /\ ~h.mem[b].owner
  <2>1. d = 1 /\ Parts(h, b) = {b}
    <3>1. d = 1 /\ b # 0
      BY <1>1, <1>2, <1>3, <1>4 DEF RecordWhole
    <3> QED BY <1>2, <1>4, <3>1 DEF Parts
  <2>2. g = Free(h, b, "record")
    BY <1>4 DEF Destroy, ReleaseLocal
  <2>3. g = Rest(h, Parts(h, b))
    BY <1>1, <2>1, <2>2, FreeIs
  <2> QED BY <2>3, RootFreed
<1>5. CASE o = 0 /\ h.mem[b].owner
  <2>1. d \in DOMAIN h.mem /\ KindOf(h, d) = "local"
    BY <1>3, <1>5 DEF RecordWhole
  <2>2. d # 0 /\ d # 1 /\ d # b
    BY <1>2, <2>1 DEF KindOf
  <2>3. Parts(h, b) = {d} \cup {b}
    BY <1>1, <1>2, <1>5, <2>2 DEF Parts
  <2>4. g = Free(Free(h, d, "local"), b, "record")
    BY <1>5 DEF Destroy, ReleaseLocal
  <2>5. Free(h, d, "local") = Rest(h, {d})
    BY <1>1, <2>1, FreeIs
  <2>6. Shaped(Rest(h, {d})) /\ b \in DOMAIN Rest(h, {d}).mem /\ KindOf(Rest(h, {d}), b) = "record"
    BY <1>1, <2>2, RestShaped
  <2>7. g = Rest(Rest(h, {d}), {b})
    BY <2>4, <2>5, <2>6, FreeIs
  <2>8. g = Rest(h, Parts(h, b))
    BY <2>3, <2>7, RestTwice
  <2> QED BY <2>8, RootFreed
<1>6. CASE o # 0
  <2> DEFINE kind == IF h.mem[b].legacy THEN "tensor" ELSE "nd"
             m == DestroyLegacy(h, b)
  <2>1. /\ o \in DOMAIN h.mem /\ h.mem[o].data = d /\ KindOf(h, o) = kind /\ ObjectWhole(h, h.mem[o])
    BY <1>3, <1>6 DEF RecordWhole
  <2>2. d \in DOMAIN h.mem /\ KindOf(h, d) = "memory"
    BY <2>1 DEF ObjectWhole
  <2>3. o # b /\ d # b /\ o # d /\ o # 1 /\ d # 1 /\ d # 0
    BY <1>2, <2>1, <2>2 DEF KindOf
  <2>4. Parts(h, b) = {d} \cup {o} \cup {b}
    BY <1>1, <1>2, <1>6, <2>3 DEF Parts
  <2>5. m = HIAI_NDTensorBuffer_Release(h, kind, o) /\ g = Free(m, b, "record")
    BY <1>6 DEF Destroy, DestroyLegacy
  <2>6. CASE ~Has(kind, "Destroy")
    <3>1. h = [mem |-> h.mem, lost |-> h.lost, wrong |-> h.wrong, env |-> h.env]
      BY <1>1 DEF Shaped
    <3>2. m = [h EXCEPT !.lost = h.lost \cup {o}]
      BY <2>5, <2>6 DEF HIAI_NDTensorBuffer_Release
    <3>3. m = [mem |-> h.mem, lost |-> h.lost \cup {o}, wrong |-> h.wrong, env |-> h.env]
      BY <3>1, <3>2
    <3> HIDE DEF m
    <3>4. Shaped(m) /\ b \in DOMAIN m.mem /\ KindOf(m, b) = "record" /\ m.mem = h.mem /\ m.wrong = h.wrong
          /\ m.lost = h.lost \cup {o}
      BY <1>1, <1>2, <3>3 DEF Shaped, KindOf
    <3>5. g = Rest(m, {b})
      BY <2>5, <3>4, FreeIs DEF m
    <3>6. g.mem = Without(h, {b}) /\ g.lost = h.lost \cup {o} /\ g.wrong = h.wrong
          /\ g = [mem |-> g.mem, lost |-> g.lost, wrong |-> g.wrong, env |-> g.env]
      BY <3>4, <3>5 DEF Rest, Without
    <3>7. Heap(g, (H \cup h.lost) \cup {o})
      <4>1. PICK R : R = H \cup h.lost \cup {b}
        OBVIOUS
      <4>2. Heap(h, R) /\ b \in R /\ h.mem[b].handle # 0 /\ ~g.wrong
        BY <1>1, <1>6, <3>6, <4>1 DEF Heap
      <4>3. Heap(g, (R \ {b}) \cup {h.mem[b].handle})
        BY ONLY <3>6, <4>2, KindOf(h, b) = "record", RecordFreed
      <4>4. R \ {b} = H \cup h.lost
        BY <1>1, <4>1
      <4> QED BY <4>3, <4>4
    <3>8. H \cap g.lost = {} /\ H \cup g.lost = (H \cup h.lost) \cup {o}
      <4>1. o \notin H
        <5>1. o \in Parts(h, b) /\ \A x \in H : x \notin Parts(h, b)
          BY <2>4, Apart
        <5> QED BY <5>1
      <4> QED BY <1>1, <3>6, <4>1
    <3>9. Keeps(h, g, H)
      <4>1. \A x \in H : x \in DOMAIN h.mem \ {b}
        BY Apart
      <4> QED BY <3>6, <4>1 DEF Keeps, Without
    <3> QED BY <3>7, <3>8, <3>9 DEF Sound
  <2>7. CASE Has(kind, "Destroy")
    <3>1. m = Free(Free(h, d, "memory"), o, kind)
      BY <2>1, <2>5, <2>7 DEF HIAI_NDTensorBuffer_Release, KindOf
    <3> HIDE DEF m
    <3>2. Free(h, d, "memory") = Rest(h, {d})
      BY <1>1, <2>2, FreeIs
    <3>3. Shaped(Rest(h, {d})) /\ o \in DOMAIN Rest(h, {d}).mem /\ KindOf(Rest(h, {d}), o) = kind
      BY <1>1, <2>1, <2>3, RestShaped
    <3>4. m = Rest(Rest(h, {d}), {o})
      BY <3>1, <3>2, <3>3, FreeIs
    <3>5. m = Rest(h, {d} \cup {o})
      BY <3>4, RestTwice
    <3>6. Shaped(m) /\ b \in DOMAIN m.mem /\ KindOf(m, b) = "record"
      BY <1>1, <2>3, <3>5, RestShaped
    <3>7. g = Rest(Rest(h, {d} \cup {o}), {b})
      BY <2>5, <3>5, <3>6, FreeIs DEF m
    <3>8. g = Rest(h, Parts(h, b))
      BY <2>4, <3>7, RestTwice
    <3> QED BY <3>8, RootFreed
  <2> QED BY <2>6, <2>7
<1> QED BY <1>4, <1>5, <1>6

-----------------------------------------------------------------------------
(* Creations *)

\* A creation gives a record of its own for desc, or none, and leaves those held alone.
Gives(h, H, desc, out) ==
  /\ Sound(out.heap, H \cup ({out.b} \ {0}))
  /\ out.b # 0 => /\ out.b \in Nat /\ out.b \notin H
                  /\ KindOf(out.heap, out.b) = "record" /\ out.heap.mem[out.b].desc = desc
  /\ Keeps(h, out.heap, H)

LEMMA GivesNothing ==
  ASSUME NEW h, NEW H, NEW g, Sound(g, H), Keeps(h, g, H), NEW desc
  PROVE  Gives(h, H, desc, Failed(g))
<1>1. Failed(g).heap = g /\ Failed(g).b = 0 /\ H \cup ({0} \ {0}) = H
  BY DEF Failed, Out
<1> QED BY <1>1 DEF Gives

LEMMA KeepsSelf ==
  ASSUME NEW h, NEW g, g.mem = h.mem, NEW H
  PROVE  Keeps(h, g, H)
BY DEF Keeps

LEMMA KeepsOn ==
  ASSUME NEW f, NEW g, NEW h, NEW H, Keeps(f, g, H), Keeps(g, h, H)
  PROVE  Keeps(f, h, H)
BY DEF Keeps

LEMMA GivesOn ==
  ASSUME NEW f, NEW h, NEW H, Keeps(f, h, H), NEW desc, NEW out, Gives(h, H, desc, out)
  PROVE  Gives(f, H, desc, out)
BY KeepsOn DEF Gives

LEMMA GrownSound ==
  ASSUME NEW h, NEW H, NEW S, H \cap S = {}, Sound(h, H \cup S), NEW block, BlockShaped(block),
         NEW b \in Nat \ {0}, b \notin DOMAIN h.mem, NEW g, g = Grown(h, b, block),
         Whole(g, b), Parts(g, b) = {b} \cup PartsOf(h, S)
  PROVE  Sound(g, H \cup {b}) /\ b \notin H /\ Keeps(h, g, H)
<1>1. PICK R : R = H \cup S \cup h.lost
  OBVIOUS
<1>2. Heap(h, R) /\ S \in SUBSET R /\ (H \cup S) \cap h.lost = {} /\ R \ S = H \cup h.lost
  BY <1>1 DEF Sound
<1>3. Heap(g, (R \ S) \cup {b}) /\ b \notin R
  BY <1>2, Wrapped
<1>4. Shaped(h) /\ \A x \in H : x \in DOMAIN h.mem
  BY <1>1, <1>2 DEF Heap
<1>5. g.lost = h.lost /\ \A x \in DOMAIN h.mem : x # b => g.mem[x] = h.mem[x]
  BY <1>4, GrownParts
<1>6. (R \ S) \cup {b} = (H \cup {b}) \cup g.lost
  BY <1>2, <1>5
<1>7. (H \cup {b}) \cap g.lost = {} /\ b \notin H
  BY <1>1, <1>2, <1>3, <1>5
<1>8. Keeps(h, g, H)
  BY <1>3, <1>1, <1>4, <1>5 DEF Keeps
<1> QED BY <1>3, <1>6, <1>7, <1>8 DEF Sound

LeafKind == {"local", "memory"}

\* A new block that hangs on nothing.
Placed(h, H, kind, n, o) ==
  /\ o.b \in Nat \ {0} /\ o.b \notin H /\ Sound(o.heap, H \cup {o.b})
  /\ o.heap.mem[o.b] = Block(kind, n) /\ Keeps(h, o.heap, H)

LEMMA LeafMade ==
  ASSUME NEW h, NEW H, Sound(h, H), NEW kind \in LeafKind, NEW n \in Int,
         NEW o, o = Alloc(h, Block(kind, n))
  PROVE  Placed(h, H, kind, n, o)
<1>1. Shaped(h)
  BY DEF Sound, Heap
<1>2. PICK b \in Nat \ {0} : b \notin DOMAIN h.mem /\ o = [heap |-> Grown(h, b, Block(kind, n)), b |-> b]
  BY <1>1, AllocIs
<1>3. PICK g : g = Grown(h, b, Block(kind, n))
  OBVIOUS
<1>4. PICK block : block = Block(kind, n)
  OBVIOUS
<1>5. o.heap = g /\ o.b = b /\ g.mem[b] = block /\ g = Grown(h, b, block)
  BY <1>1, <1>2, <1>3, <1>4, GrownParts
<1>6. block.kind = kind /\ block.data = 0 /\ block.handle = 0 /\ BlockShaped(block)
  BY <1>4, BlockParts
<1>7. PICK S : S = {}
  OBVIOUS
<1>8. Whole(g, b) /\ Parts(g, b) = {b} \cup PartsOf(h, S)
  <2>1. b # 1
    BY <1>2 DEF Sound, Heap
  <2>2. Whole(g, b)
    BY <1>5, <1>6 DEF Whole, LeafKind
  <2>3. Parts(g, b) = {b}
    BY <1>5, <1>6, <2>1 DEF Parts
  <2> QED BY <1>7, <2>2, <2>3 DEF PartsOf
<1>9. Sound(g, H \cup {b}) /\ b \notin H /\ Keeps(h, g, H)
  <2>1. Sound(h, H \cup S) /\ H \cap S = {} /\ b \notin DOMAIN h.mem
    BY <1>2, <1>7
  <2>2. b \in Nat \ {0} /\ BlockShaped(block) /\ g = Grown(h, b, block)
    BY <1>5, <1>6
  <2> QED BY ONLY <1>8, <2>1, <2>2, GrownSound
<1> QED BY <1>4, <1>5, <1>9 DEF Placed

Backing(data, handle) == {data, handle} \ {0, 1}

\* A record is made in front of the roots of S, or they stay as they are.
Fronted(h, H, S, desc, out) ==
  /\ out.b = 0 => Sound(out.heap, H \cup S) /\ out.heap.mem = h.mem
  /\ out.b # 0 => Gives(h, H, desc, out)

LEMMA RecordMade ==
  ASSUME NEW h, NEW H, NEW S, H \cap S = {}, Sound(h, H \cup S),
         NEW desc, NEW data \in Nat, NEW size \in Int, NEW handle \in Nat, NEW isOwner, NEW isLegacy,
         RecordWhole(h, RecordBlock(desc, data, size, handle, isOwner, isLegacy)),
         PartsOf(h, S) = Backing(data, handle),
         NEW out, out = HIAI_MR_NDTensorBuffer_Create(h, desc, data, size, handle, isOwner, isLegacy)
  PROVE  Fronted(h, H, S, desc, out)
<1>1. CASE h.env.fault = "record"
  <2>1. out.b = 0 /\ out.heap = Spent(h)
    BY <1>1 DEF HIAI_MR_NDTensorBuffer_Create, Failed, Out
  <2> QED BY <2>1, SpentSound DEF Fronted
<1>2. CASE h.env.fault # "record"
  <2>1. Shaped(h) /\ \A x \in DOMAIN h.mem : BlockShaped(h.mem[x])
    BY DEF Sound, Heap
  <2>2. PICK block : block = RecordBlock(desc, data, size, handle, isOwner, isLegacy)
    OBVIOUS
  <2>3. out = Alloc(h, block)
    BY <1>2, <2>2 DEF HIAI_MR_NDTensorBuffer_Create
  <2>4. PICK b \in Nat \ {0} : b \notin DOMAIN h.mem /\ out = [heap |-> Grown(h, b, block), b |-> b]
    BY <2>1, <2>3, AllocIs
  <2>5. PICK g : g = Grown(h, b, block)
    OBVIOUS
  <2>6. /\ out.heap = g /\ out.b = b /\ g.mem[b] = block /\ DOMAIN g.mem = DOMAIN h.mem \cup {b}
        /\ \A x \in DOMAIN h.mem : g.mem[x] = h.mem[x]
    BY <2>1, <2>4, <2>5, GrownParts
  <2>7. BlockShaped(block) /\ block.kind = "record" /\ block.data = data /\ block.handle = handle /\ block.desc = desc
    BY <2>2 DEF RecordBlock, BlockShaped
  <2>8. RecordWhole(g, block)
    <3>1. RecordWhole(h, block)
      BY <2>2
    <3> QED BY <2>6, <3>1 DEF RecordWhole, ObjectWhole, KindOf
  <2>9. Whole(g, b)
    BY <2>6, <2>7, <2>8 DEF Whole
  <2>10. Parts(g, b) = {b} \cup PartsOf(h, S)
    <3>1. b # 1
      BY <2>4 DEF Sound, Heap
    <3> QED BY <2>6, <2>7, <3>1 DEF Parts, Backing
  <2>11. Sound(g, H \cup {b}) /\ b \notin H /\ Keeps(h, g, H)
    BY <2>4, <2>5, <2>7, <2>9, <2>10, GrownSound
  <2>12. H \cup ({b} \ {0}) = H \cup {b}
    OBVIOUS
  <2> QED BY <2>4, <2>6, <2>7, <2>11, <2>12 DEF Gives, KindOf, Fronted
<1> QED BY <1>1, <1>2

ObjectKind == {"tensor", "nd"}

LEMMA ObjectMade ==
  ASSUME NEW h, NEW H, Sound(h, H), NEW kind \in ObjectKind, NEW n \in Int,
         NEW o, o = Made(h, kind, n)
  PROVE  /\ o.b \in Nat \ {0} /\ o.b \notin H /\ Sound(o.heap, H \cup {o.b}) /\ Keeps(h, o.heap, H)
         /\ KindOf(o.heap, o.b) = kind /\ o.heap.mem[o.heap.mem[o.b].data].size = n
<1>1. PICK memory : memory = Alloc(h, Block("memory", n))
  OBVIOUS
<1>2. /\ memory.b \in Nat \ {0} /\ memory.b \notin H /\ Sound(memory.heap, H \cup {memory.b})
      /\ memory.heap.mem[memory.b] = Block("memory", n) /\ Keeps(h, memory.heap, H)
  <2>1. PICK leaf : leaf = "memory"
    OBVIOUS
  <2>2. leaf \in LeafKind /\ memory = Alloc(h, Block(leaf, n))
    BY <1>1, <2>1 DEF LeafKind
  <2>3. Placed(h, H, leaf, n, memory)
    BY ONLY <2>2, Sound(h, H), n \in Int, LeafMade
  <2> QED BY <2>1, <2>3 DEF Placed
<1>3. PICK f, m : f = memory.heap /\ m = memory.b
  OBVIOUS
<1>4. /\ m \in Nat \ {0} /\ m \notin H /\ Sound(f, H \cup {m}) /\ Keeps(h, f, H)
      /\ KindOf(f, m) = "memory" /\ f.mem[m].size = n /\ f.mem[m].data = 0 /\ f.mem[m].handle = 0
  BY <1>2, <1>3, BlockParts DEF KindOf
<1>5. PICK block : block = [Block(kind, n) EXCEPT !.data = m]
  OBVIOUS
<1>6. BlockShaped(block) /\ block.kind = kind /\ block.data = m /\ block.handle = 0
  BY <1>4, <1>5 DEF Block, BlockShaped
<1>7. o = Alloc(f, block)
  BY <1>1, <1>3, <1>5 DEF Made
<1>8. Shaped(f) /\ m \in DOMAIN f.mem /\ m # 1 /\ 1 \in DOMAIN f.mem
  BY <1>4, <1>2 DEF Sound, Heap
<1>9. PICK b \in Nat \ {0} : b \notin DOMAIN f.mem /\ o = [heap |-> Grown(f, b, block), b |-> b]
  BY <1>7, <1>8, AllocIs
<1>10. PICK g : g = Grown(f, b, block)
  OBVIOUS
<1>11. /\ o.heap = g /\ o.b = b /\ g.mem[b] = block /\ DOMAIN g.mem = DOMAIN f.mem \cup {b}
       /\ \A x \in DOMAIN f.mem : g.mem[x] = f.mem[x]
  BY <1>8, <1>9, <1>10, GrownParts
<1>12. Whole(g, b)
  BY <1>4, <1>6, <1>8, <1>11 DEF Whole, ObjectWhole, KindOf, ObjectKind
<1>13. PICK S : S = {m}
  OBVIOUS
<1>14. Parts(g, b) = {b} \cup PartsOf(f, S)
  <2>1. PartsOf(f, S) = {m}
    BY <1>4, <1>8, <1>13 DEF PartsOf, Parts
  <2> QED BY <1>4, <1>6, <1>8, <1>9, <1>11, <2>1 DEF Parts
<1>15. Sound(g, H \cup {b}) /\ b \notin H /\ Keeps(f, g, H)
  <2>1. Sound(f, H \cup S) /\ H \cap S = {} /\ b \notin DOMAIN f.mem /\ b \in Nat \ {0}
    BY <1>4, <1>9, <1>13
  <2> QED BY ONLY <1>6, <1>10, <1>12, <1>14, <2>1, GrownSound
<1>16. Keeps(h, g, H)
  BY <1>4, <1>15, KeepsOn
<1>17. g.mem[g.mem[b].data].size = n
  BY <1>4, <1>6, <1>8, <1>11
<1> QED BY <1>6, <1>11, <1>15, <1>16, <1>17 DEF KindOf

LEMMA FromTensorBuffer ==
  ASSUME NEW h, NEW H, Sound(h, H), NEW kind \in ObjectKind, NEW desc, NEW n \in Int
  PROVE  Gives(h, H, desc, CreateFromTensorBuffer(h, kind, desc, n))
<1>1. Keeps(h, h, H)
  BY DEF Keeps
<1>2. CASE n = 0
  BY <1>1, <1>2, GivesNothing DEF CreateFromTensorBuffer
<1>3. CASE n # 0
  <2>1. PICK made, f, o : made = Made(h, kind, n) /\ f = made.heap /\ o = made.b
    OBVIOUS
  <2>2. /\ o \in Nat \ {0} /\ o \notin H /\ Sound(f, H \cup {o}) /\ Keeps(h, f, H)
        /\ KindOf(f, o) = kind /\ f.mem[f.mem[o].data].size = n
    <3>1. /\ made.b \in Nat \ {0} /\ made.b \notin H /\ Sound(made.heap, H \cup {made.b})
          /\ Keeps(h, made.heap, H) /\ KindOf(made.heap, made.b) = kind
          /\ made.heap.mem[made.heap.mem[made.b].data].size = n
      <4>1. made = Made(h, kind, n)
        BY <2>1
      <4> QED BY ONLY <4>1, Sound(h, H), kind \in ObjectKind, n \in Int, ObjectMade
    <3> QED BY <2>1, <3>1
  <2>3. PICK out : out = IF ~Has(kind, "GetSize") THEN Failed(f)
                         ELSE HIAI_MR_NDTensorBuffer_Create(f, desc, f.mem[o].data, n, o, TRUE, kind = "tensor")
    OBVIOUS
  <2>4. CreateFromTensorBuffer(h, kind, desc, n)
          = IF out.b = 0 THEN Failed(HIAI_NDTensorBuffer_Release(out.heap, kind, o)) ELSE out
    BY <1>3, <2>1, <2>3 DEF CreateFromTensorBuffer
  <2>5. /\ out.b = 0 => Sound(out.heap, H \cup {o}) /\ out.heap.mem = f.mem
        /\ out.b # 0 => Gives(f, H, desc, out)
    <3>1. CASE ~Has(kind, "GetSize")
      BY <2>2, <2>3, <3>1 DEF Failed, Out
    <3>2. CASE Has(kind, "GetSize")
      <4>1. PICK S, d, owner, legacy : S = {o} /\ d = f.mem[o].data /\ owner = TRUE /\ legacy = (kind = "tensor")
        OBVIOUS
      <4>2. out = HIAI_MR_NDTensorBuffer_Create(f, desc, d, n, o, owner, legacy)
        BY <2>3, <3>2, <4>1
      <4>3. Whole(f, o) /\ BlockShaped(f.mem[o]) /\ o \in DOMAIN f.mem \ {1} /\ 0 \notin DOMAIN f.mem
            /\ KindOf(f, 1) = "application"
        BY <2>2 DEF Sound, Heap, Shaped
      <4>4. ObjectWhole(f, f.mem[o])
        BY <2>2, <4>3 DEF Whole, KindOf, ObjectKind
      <4>5. d \in DOMAIN f.mem /\ KindOf(f, d) = "memory" /\ d \in Nat /\ d # 1 /\ d # 0 /\ f.mem[o].handle = 0
        BY <4>1, <4>3, <4>4 DEF ObjectWhole, BlockShaped, KindOf
      <4>6. RecordWhole(f, RecordBlock(desc, d, n, o, owner, legacy))
        <5>1. PICK r : r = RecordBlock(desc, d, n, o, owner, legacy)
          OBVIOUS
        <5>2. r.data = d /\ r.size = n /\ r.handle = o /\ (r.legacy <=> kind = "tensor")
          BY <4>1, <5>1 DEF RecordBlock
        <5>3. KindOf(f, o) = IF r.legacy THEN "tensor" ELSE "nd"
          BY <2>2, <5>2 DEF ObjectKind
        <5>4. f.mem[d].size >= n
          BY <2>2, <4>1
        <5> QED BY <2>2, <4>1, <4>3, <4>4, <4>5, <5>1, <5>2, <5>3, <5>4 DEF RecordWhole
      <4>7. PartsOf(f, S) = Backing(d, o)
        BY <2>2, <4>1, <4>3, <4>5 DEF PartsOf, Parts, Backing
      <4>8. H \cap S = {} /\ Sound(f, H \cup S)
        BY <2>2, <4>1
      <4>9. Fronted(f, H, S, desc, out)
        <5>1. d \in Nat /\ o \in Nat
          BY <2>2, <4>5
        <5> QED BY ONLY <4>2, <4>6, <4>7, <4>8, <5>1, n \in Int, RecordMade
      <4> QED BY <4>1, <4>9 DEF Fronted
    <3> QED BY <3>1, <3>2
  <2>6. CASE out.b = 0
    <3>1. PICK g : g = HIAI_NDTensorBuffer_Release(out.heap, kind, o)
      OBVIOUS
    <3>2. KindOf(out.heap, o) = kind /\ Keeps(f, out.heap, H)
      BY <2>2, <2>5, <2>6 DEF KindOf, Keeps
    <3>3. Sound(g, H) /\ Keeps(out.heap, g, H)
      BY <2>2, <2>5, <2>6, <3>1, <3>2, Released DEF ObjectKind
    <3>4. Keeps(h, g, H)
      BY <2>2, <3>2, <3>3, KeepsOn
    <3> QED BY <2>4, <2>6, <3>1, <3>3, <3>4, GivesNothing
  <2>7. CASE out.b # 0
    BY <2>2, <2>4, <2>5, <2>7, GivesOn
  <2> QED BY <2>6, <2>7
<1> QED BY <1>2, <1>3

LEMMA TriedGives ==
  ASSUME NEW h, NEW H, NEW desc, NEW out, Gives(h, H, desc, out),
         NEW t, t.kind \in ObjectKind, t.n \in Int
  PROVE  Gives(h, H, desc, Tried(out, desc, t))
<1>1. CASE out.b # 0 \/ ~Exports(t.symbol) \/ t.symbol \in out.heap.env.refuses
  BY <1>1 DEF Tried
<1>2. CASE ~(out.b # 0 \/ ~Exports(t.symbol) \/ t.symbol \in out.heap.env.refuses)
  <2>1. PICK f, kind, n : f = out.heap /\ kind = t.kind /\ n = t.n
    OBVIOUS
  <2>2. Sound(f, H) /\ Keeps(h, f, H)
    <3>1. H \cup ({out.b} \ {0}) = H
      BY <1>2
    <3> QED BY <2>1, <3>1 DEF Gives
  <2>3. Tried(out, desc, t) = CreateFromTensorBuffer(f, kind, desc, n)
    BY <1>2, <2>1 DEF Tried
  <2>4. Gives(f, H, desc, CreateFromTensorBuffer(f, kind, desc, n))
    BY <2>1, <2>2, FromTensorBuffer
  <2> QED BY <2>2, <2>3, <2>4, GivesOn
<1> QED BY <1>1, <1>2

LEMMA FailedGives ==
  ASSUME NEW h, NEW H, Sound(h, H), NEW desc
  PROVE  Gives(h, H, desc, Failed(h))
BY GivesNothing DEF Keeps

\* The list of one creator and of three.
LEMMA FirstOfOne ==
  ASSUME NEW h, NEW H, Sound(h, H), NEW desc, NEW t, t.kind \in ObjectKind, t.n \in Int
  PROVE  Gives(h, H, desc, FirstMade(h, desc, <<t>>))
<1>1. PICK tries, none, first : tries = <<t>> /\ none = Failed(h) /\ first = Tried(none, desc, t)
  OBVIOUS
<1>2. Len(tries) = 1 /\ tries[1] = t
  BY <1>1
<1> DEFINE Loop(f) == f = [i \in 0 .. 1 |-> IF i = 0 THEN none ELSE Tried(f[i - 1], desc, tries[i])]
<1>3. PICK w : w = [i \in 0 .. 1 |-> IF i = 0 THEN none ELSE first]
  OBVIOUS
<1>4. Loop(w)
  <2>1. w[0] = none /\ w[1] = first
    BY <1>3
  <2>2. ASSUME NEW i \in 0 .. 1
        PROVE  w[i] = IF i = 0 THEN none ELSE Tried(w[i - 1], desc, tries[i])
    <3>1. CASE i = 0
      BY <2>1, <3>1
    <3>2. CASE i = 1
      <4>1. i - 1 = 0
        BY <3>2
      <4> QED BY <1>1, <1>2, <2>1, <3>2, <4>1
    <3> QED BY <3>1, <3>2
  <2>3. w = [i \in 0 .. 1 |-> w[i]]
    BY <1>3
  <2> QED BY <2>2, <2>3
<1>5. PICK made : made = CHOOSE f : Loop(f)
  OBVIOUS
<1>6. Loop(made)
  BY <1>4, <1>5
<1>7. made[0] = none /\ made[1] = Tried(made[0], desc, tries[1])
  <2>1. made[0] = IF 0 = 0 THEN none ELSE Tried(made[0 - 1], desc, tries[0])
    BY <1>6
  <2>2. made[1] = IF 1 = 0 THEN none ELSE Tried(made[1 - 1], desc, tries[1])
    BY <1>6
  <2> QED BY <2>1, <2>2
<1>8. FirstMade(h, desc, tries) = made[1]
  BY <1>1, <1>2, <1>5 DEF FirstMade
<1>9. Gives(h, H, desc, none)
  BY <1>1, FailedGives
<1> HIDE DEF Loop
<1>10. Gives(h, H, desc, made[1])
  BY <1>2, <1>7, <1>9, TriedGives
<1> QED BY <1>1, <1>8, <1>10

LEMMA FirstOfThree ==
  ASSUME NEW h, NEW H, Sound(h, H), NEW desc,
         NEW a, a.kind \in ObjectKind, a.n \in Int, NEW b, b.kind \in ObjectKind, b.n \in Int,
         NEW c, c.kind \in ObjectKind, c.n \in Int
  PROVE  Gives(h, H, desc, FirstMade(h, desc, <<a, b, c>>))
<1>1. PICK tries, none, first, second, third :
        /\ tries = <<a, b, c>> /\ none = Failed(h)
        /\ first = Tried(none, desc, a) /\ second = Tried(first, desc, b) /\ third = Tried(second, desc, c)
  OBVIOUS
<1>2. Len(tries) = 3 /\ tries[1] = a /\ tries[2] = b /\ tries[3] = c
  BY <1>1
<1> DEFINE Loop(f) == f = [i \in 0 .. 3 |-> IF i = 0 THEN none ELSE Tried(f[i - 1], desc, tries[i])]
<1>3. PICK w : w = [i \in 0 .. 3 |-> IF i = 0 THEN none ELSE IF i = 1 THEN first ELSE IF i = 2 THEN second ELSE third]
  OBVIOUS
<1>4. Loop(w)
  <2>1. w[0] = none /\ w[1] = first /\ w[2] = second /\ w[3] = third
    BY <1>3
  <2>2. ASSUME NEW i \in 0 .. 3
        PROVE  w[i] = IF i = 0 THEN none ELSE Tried(w[i - 1], desc, tries[i])
    <3>1. CASE i = 0
      BY <2>1, <3>1
    <3>2. CASE i = 1
      <4>1. i - 1 = 0
        BY <3>2
      <4> QED BY <1>1, <1>2, <2>1, <3>2, <4>1
    <3>3. CASE i = 2
      <4>1. i - 1 = 1
        BY <3>3
      <4> QED BY <1>1, <1>2, <2>1, <3>3, <4>1
    <3>4. CASE i = 3
      <4>1. i - 1 = 2
        BY <3>4
      <4> QED BY <1>1, <1>2, <2>1, <3>4, <4>1
    <3> QED BY <3>1, <3>2, <3>3, <3>4
  <2>3. w = [i \in 0 .. 3 |-> w[i]]
    BY <1>3
  <2> QED BY <2>2, <2>3
<1>5. PICK made : made = CHOOSE f : Loop(f)
  OBVIOUS
<1>6. Loop(made)
  BY <1>4, <1>5
<1>7. /\ made[0] = none /\ made[1] = Tried(made[0], desc, tries[1])
      /\ made[2] = Tried(made[1], desc, tries[2]) /\ made[3] = Tried(made[2], desc, tries[3])
  <2>1. made[0] = IF 0 = 0 THEN none ELSE Tried(made[0 - 1], desc, tries[0])
    BY <1>6
  <2>2. made[1] = IF 1 = 0 THEN none ELSE Tried(made[1 - 1], desc, tries[1])
    BY <1>6
  <2>3. made[2] = IF 2 = 0 THEN none ELSE Tried(made[2 - 1], desc, tries[2])
    BY <1>6
  <2>4. made[3] = IF 3 = 0 THEN none ELSE Tried(made[3 - 1], desc, tries[3])
    BY <1>6
  <2> QED BY <2>1, <2>2, <2>3, <2>4
<1>8. FirstMade(h, desc, tries) = made[3]
  BY <1>1, <1>2, <1>5 DEF FirstMade
<1> HIDE DEF Loop
<1>9. Gives(h, H, desc, made[0])
  BY <1>1, <1>7, FailedGives
<1>10. Gives(h, H, desc, made[1])
  BY <1>2, <1>7, <1>9, TriedGives
<1>11. Gives(h, H, desc, made[2])
  BY <1>2, <1>7, <1>10, TriedGives
<1>12. Gives(h, H, desc, made[3])
  BY <1>2, <1>7, <1>11, TriedGives
<1> QED BY <1>1, <1>8, <1>12

LEMMA TryIs ==
  ASSUME NEW kind \in ObjectKind, NEW symbol, NEW n \in Int
  PROVE  Try(kind, symbol, n).kind \in ObjectKind /\ Try(kind, symbol, n).n \in Int
BY DEF Try

LEMMA Kinds == "tensor" \in ObjectKind /\ "nd" \in ObjectKind
BY DEF ObjectKind

LEMMA FromLocal ==
  ASSUME NEW h, NEW H, Sound(h, H), NEW desc, NEW size \in Int
  PROVE  Gives(h, H, desc, CreateLocalBufferFromSize(h, desc, size))
<1>1. CASE size = 0
  BY <1>1, FailedGives DEF CreateLocalBufferFromSize
<1>2. CASE size # 0 /\ h.env.fault = "data"
  <2>1. Sound(Spent(h), H) /\ Keeps(h, Spent(h), H)
    BY SpentSound, KeepsSelf
  <2> QED BY <1>2, <2>1, GivesNothing DEF CreateLocalBufferFromSize
<1>3. CASE size # 0 /\ h.env.fault # "data"
  <2>1. PICK kind, o : kind = "local" /\ o = Alloc(h, Block(kind, size))
    OBVIOUS
  <2>2. Placed(h, H, kind, size, o)
    <3>1. kind \in LeafKind /\ o = Alloc(h, Block(kind, size))
      BY <2>1 DEF LeafKind
    <3> QED BY ONLY <3>1, Sound(h, H), size \in Int, LeafMade
  <2>3. PICK f, d, S, isOwner, isLegacy : f = o.heap /\ d = o.b /\ S = {o.b} /\ isOwner = TRUE /\ isLegacy = FALSE
    OBVIOUS
  <2>4. /\ d \in Nat \ {0} /\ d \notin H /\ Sound(f, H \cup {d}) /\ Keeps(h, f, H)
        /\ KindOf(f, d) = "local" /\ f.mem[d].size = size /\ f.mem[d].data = 0 /\ f.mem[d].handle = 0
        /\ S = {d}
    BY <2>1, <2>2, <2>3, BlockParts DEF KindOf, Placed
  <2>5. PICK out : out = HIAI_MR_NDTensorBuffer_Create(f, desc, d, size, 0, isOwner, isLegacy)
    OBVIOUS
  <2>6. CreateLocalBufferFromSize(h, desc, size)
          = IF out.b = 0 THEN Failed(Free(out.heap, d, "local")) ELSE out
    BY <1>3, <2>1, <2>3, <2>5 DEF CreateLocalBufferFromSize
  <2>7. d \in DOMAIN f.mem /\ d # 1
    BY <2>4 DEF Sound, Heap
  <2>8. Fronted(f, H, S, desc, out)
    <3>1. PICK r : r = RecordBlock(desc, d, size, 0, isOwner, isLegacy)
      OBVIOUS
    <3>2. r.data = d /\ r.size = size /\ r.handle = 0 /\ r.owner
      BY <2>3, <3>1 DEF RecordBlock
    <3>3. RecordWhole(f, RecordBlock(desc, d, size, 0, isOwner, isLegacy))
      BY <2>4, <2>7, <3>1, <3>2 DEF RecordWhole
    <3>4. PartsOf(f, S) = Backing(d, 0)
      BY <2>4, <2>7 DEF PartsOf, Parts, Backing
    <3>5. H \cap S = {} /\ Sound(f, H \cup S) /\ d \in Nat /\ 0 \in Nat
      BY <2>4
    <3> QED BY ONLY <2>5, <3>3, <3>4, <3>5, size \in Int, RecordMade
  <2>9. CASE out.b = 0
    <3>1. Sound(out.heap, H \cup {d}) /\ out.heap.mem = f.mem
      BY <2>4, <2>8, <2>9 DEF Fronted
    <3>2. PICK e, g : e = out.heap /\ g = Free(e, d, "local")
      OBVIOUS
    <3>3. Shaped(e) /\ d \in DOMAIN e.mem /\ KindOf(e, d) = "local" /\ Parts(e, d) = {d}
      <4>1. Shaped(e) /\ e.mem = f.mem
        BY <3>1, <3>2 DEF Sound, Heap
      <4> QED BY <2>4, <2>7, <4>1 DEF KindOf, Parts
    <3>4. g = Rest(e, Parts(e, d))
      BY <3>2, <3>3, FreeIs
    <3>5. Sound(g, H) /\ Keeps(e, g, H)
      BY <2>4, <3>1, <3>2, <3>4, RootFreed
    <3>6. Keeps(h, g, H)
      BY <2>4, <3>1, <3>2, <3>5 DEF Keeps
    <3> QED BY <2>6, <2>9, <3>2, <3>5, <3>6, GivesNothing
  <2>10. CASE out.b # 0
    BY <2>4, <2>6, <2>8, <2>10, GivesOn DEF Fronted
  <2> QED BY <2>9, <2>10
<1> QED BY <1>1, <1>2, <1>3

LEMMA OrLocalGives ==
  ASSUME NEW h, NEW H, NEW desc, NEW out, Gives(h, H, desc, out), NEW size \in Int
  PROVE  Gives(h, H, desc, OrLocal(out, desc, size))
<1>1. CASE out.b # 0
  BY <1>1 DEF OrLocal
<1>2. CASE out.b = 0
  <2>1. PICK f : f = out.heap
    OBVIOUS
  <2>2. Sound(f, H) /\ Keeps(h, f, H)
    <3>1. H \cup ({out.b} \ {0}) = H
      BY <1>2
    <3> QED BY <2>1, <3>1 DEF Gives
  <2>3. OrLocal(out, desc, size) = CreateLocalBufferFromSize(f, desc, size)
    BY <1>2, <2>1 DEF OrLocal
  <2>4. Gives(f, H, desc, CreateLocalBufferFromSize(f, desc, size))
    BY <2>2, FromLocal
  <2> QED BY <2>2, <2>3, <2>4, GivesOn
<1> QED BY <1>1, <1>2

LEMMA FromNDTensorDesc ==
  ASSUME NEW h, NEW H, Sound(h, H), NEW desc, HIAI_NDTensorDesc_GetByteSize(desc) \in Int
  PROVE  Gives(h, H, desc, CreateFromNDTensorDesc(h, desc))
<1>1. PICK n, m, k : /\ n = HIAI_NDTensorDesc_GetByteSize(desc) /\ m = Only4D(desc, n)
                     /\ k = IF desc.float THEN Only4D(desc, n) ELSE 0
  OBVIOUS
<1>2. n \in Int /\ m \in Int /\ k \in Int
  BY <1>1 DEF Only4D
<1>3. PICK v2, typed, last, only :
        /\ v2 = Try("tensor", "create_v2", n) /\ typed = Try("tensor", "CreateWithDataType", m)
        /\ last = Try("tensor", "create", k) /\ only = Try("nd", "nd_create", n)
  OBVIOUS
<1>4. /\ v2.kind \in ObjectKind /\ v2.n \in Int /\ typed.kind \in ObjectKind /\ typed.n \in Int
      /\ last.kind \in ObjectKind /\ last.n \in Int /\ only.kind \in ObjectKind /\ only.n \in Int
  BY <1>2, <1>3, TryIs, Kinds
<1>5. Gives(h, H, desc, FirstMade(h, desc, <<only>>))
  BY <1>4, FirstOfOne
<1>6. Gives(h, H, desc, FirstMade(h, desc, <<v2, typed, last>>))
  BY <1>4, FirstOfThree
<1>7. Gives(h, H, desc, Failed(h))
  BY FailedGives
<1>8. CreateFromNDTensorDescLegacy(h, desc)
        = IF Exports("nd_create") THEN FirstMade(h, desc, <<only>>) ELSE FirstMade(h, desc, <<v2, typed, last>>)
  BY <1>1, <1>3 DEF CreateFromNDTensorDescLegacy
<1>9. PICK legacy : legacy = IF rom.npu THEN CreateFromNDTensorDescLegacy(h, desc) ELSE Failed(h)
  OBVIOUS
<1>10. Gives(h, H, desc, legacy)
  BY <1>5, <1>6, <1>7, <1>8, <1>9
<1>11. CreateFromNDTensorDesc(h, desc) = OrLocal(legacy, desc, n)
  BY <1>1, <1>9 DEF CreateFromNDTensorDesc
<1> QED BY <1>2, <1>10, <1>11, OrLocalGives

LEMMA FromSize ==
  ASSUME NEW h, NEW H, Sound(h, H), NEW desc, NEW size \in Int
  PROVE  Gives(h, H, desc, CreateFromSize(h, desc, size))
<1>1. PICK nd, v2, legacy :
        /\ nd = Try("nd", "nd_size", size) /\ v2 = Try("tensor", "create_v2", size)
        /\ legacy = IF rom.npu THEN CreateFromSizeLegacy(h, desc, size) ELSE Failed(h)
  OBVIOUS
<1>2. nd.kind \in ObjectKind /\ nd.n \in Int /\ v2.kind \in ObjectKind /\ v2.n \in Int
  BY <1>1, TryIs, Kinds
<1>3. Gives(h, H, desc, Failed(h))
  BY FailedGives
<1>4. Gives(h, H, desc, FirstMade(h, desc, <<nd>>))
  BY <1>2, FirstOfOne
<1>5. Gives(h, H, desc, FirstMade(h, desc, <<v2>>))
  BY <1>2, FirstOfOne
<1>6. Gives(h, H, desc, legacy)
  BY <1>1, <1>3, <1>4, <1>5 DEF CreateFromSizeLegacy
<1>7. CreateFromSize(h, desc, size) = OrLocal(legacy, desc, size)
  BY <1>1 DEF CreateFromSize
<1> QED BY <1>6, <1>7, OrLocalGives

LEMMA FromNativeHandle ==
  ASSUME NEW h, NEW H, Sound(h, H), NEW desc, NEW size \in Int
  PROVE  Gives(h, H, desc, CreateFromNativeHandle(h, desc, size))
<1>1. PICK nd, old : nd = Try("nd", "nd_handle", size) /\ old = Try("tensor", "handle", size)
  OBVIOUS
<1>2. nd.kind \in ObjectKind /\ nd.n \in Int /\ old.kind \in ObjectKind /\ old.n \in Int
  BY <1>1, TryIs, Kinds
<1>3. Gives(h, H, desc, FirstMade(h, desc, <<nd>>))
  BY <1>2, FirstOfOne
<1>4. Gives(h, H, desc, FirstMade(h, desc, <<old>>))
  BY <1>2, FirstOfOne
<1> QED BY <1>1, <1>3, <1>4 DEF CreateFromNativeHandle

LEMMA FromFormat ==
  ASSUME NEW h, NEW H, Sound(h, H), NEW desc, NEW size \in Int, h.env.extra \in Int
  PROVE  Gives(h, H, desc, CreateFromFormat(h, desc, size))
<1>1. PICK n, m : n = size + h.env.extra /\ m = Only4D(desc, n)
  OBVIOUS
<1>2. n \in Int /\ m \in Int
  BY <1>1 DEF Only4D
<1>3. PICK first, image, last, legacy :
        /\ first = Try("nd", "nd_image", n) /\ image = Try("tensor", "image", m)
        /\ last = Try("tensor", "create_v2", size)
        /\ legacy = IF rom.npu THEN CreateFromFormatLegacy(h, desc, size) ELSE Failed(h)
  OBVIOUS
<1>4. /\ first.kind \in ObjectKind /\ first.n \in Int /\ image.kind \in ObjectKind /\ image.n \in Int
      /\ last.kind \in ObjectKind /\ last.n \in Int
  BY <1>2, <1>3, TryIs, Kinds
<1>5. Gives(h, H, desc, Failed(h))
  BY FailedGives
<1>6. Gives(h, H, desc, FirstMade(h, desc, <<first, image, last>>))
  BY <1>4, FirstOfThree
<1>7. CreateFromFormatLegacy(h, desc, size) = FirstMade(h, desc, <<first, image, last>>)
  BY <1>1, <1>3 DEF CreateFromFormatLegacy
<1>8. Gives(h, H, desc, legacy)
  BY <1>3, <1>5, <1>6, <1>7
<1>9. CreateFromFormat(h, desc, size) = OrLocal(legacy, desc, size)
  BY <1>3 DEF CreateFromFormat
<1> QED BY <1>8, <1>9, OrLocalGives

\* The application's memory is behind any number of records.
LEMMA FromNoCopy ==
  ASSUME NEW h, NEW H, Sound(h, H), NEW desc, NEW size \in Nat, size <= Lent
  PROVE  Gives(h, H, desc, CreateNoCopy(h, desc, 1, size))
<1>1. CASE size = 0 \/ size # HIAI_NDTensorDesc_GetByteSize(desc)
  BY <1>1, FailedGives DEF CreateNoCopy
<1>2. CASE ~(size = 0 \/ size # HIAI_NDTensorDesc_GetByteSize(desc))
  <2>1. PICK S, isOwner, isLegacy, data, handle :
          S = {} /\ isOwner = FALSE /\ isLegacy = FALSE /\ data = 1 /\ handle = 0
    OBVIOUS
  <2>2. PICK out : out = HIAI_MR_NDTensorBuffer_Create(h, desc, data, size, handle, isOwner, isLegacy)
    OBVIOUS
  <2>3. CreateNoCopy(h, desc, 1, size) = out
    BY <1>2, <2>1, <2>2 DEF CreateNoCopy
  <2>4. PICK r : r = RecordBlock(desc, data, size, handle, isOwner, isLegacy)
    OBVIOUS
  <2>5. r.data = 1 /\ r.size = size /\ r.handle = 0 /\ ~r.owner
    BY <2>1, <2>4 DEF RecordBlock
  <2>6. 1 \in DOMAIN h.mem /\ h.mem[1].size = Lent
    BY DEF Sound, Heap
  <2>7. RecordWhole(h, RecordBlock(desc, data, size, handle, isOwner, isLegacy))
    BY <2>4, <2>5, <2>6 DEF RecordWhole
  <2>8. PartsOf(h, S) = Backing(data, handle)
    BY <2>1 DEF PartsOf, Backing
  <2>9. H \cap S = {} /\ Sound(h, H \cup S) /\ data \in Nat /\ handle \in Nat /\ size \in Int
    <3>1. H \cup S = H
      BY <2>1
    <3> QED BY <2>1, <3>1
  <2>10. Fronted(h, H, S, desc, out)
    BY ONLY <2>2, <2>7, <2>8, <2>9, RecordMade
  <2>11. CASE out.b # 0
    BY <2>3, <2>10, <2>11 DEF Fronted
  <2>12. CASE out.b = 0
    <3>1. H \cup ({out.b} \ {0}) = H \cup S
      BY <2>1, <2>12
    <3> QED BY <2>3, <2>10, <2>12, <3>1, KeepsSelf DEF Fronted, Gives
  <2> QED BY <2>11, <2>12
<1> QED BY <1>1, <1>2

\* A buffer that is not wanted after all is destroyed.
LEMMA Unwanted ==
  ASSUME NEW h, NEW H, NEW desc, NEW out, Gives(h, H, desc, out), out.b # 0
  PROVE  Gives(h, H, desc, Failed(Destroy(out.heap, out.b)))
<1>1. PICK f, b, g : f = out.heap /\ b = out.b /\ g = Destroy(f, b)
  OBVIOUS
<1>2. b \notin H /\ Sound(f, H \cup {b}) /\ KindOf(f, b) = "record" /\ Keeps(h, f, H)
  <2>1. H \cup ({b} \ {0}) = H \cup {b}
    BY <1>1
  <2> QED BY <1>1, <2>1 DEF Gives
<1>3. Sound(g, H) /\ Keeps(f, g, H)
  BY <1>1, <1>2, Destroyed
<1>4. Keeps(h, g, H)
  BY <1>2, <1>3, KeepsOn
<1> QED BY <1>1, <1>3, <1>4, GivesNothing

LEMMA FromBuffer ==
  ASSUME NEW h, NEW H, Sound(h, H), NEW desc, HIAI_NDTensorDesc_GetByteSize(desc) \in Int, NEW size
  PROVE  Gives(h, H, desc, CreateFromBuffer(h, desc, size))
<1>1. PICK out : out = CreateFromNDTensorDesc(h, desc)
  OBVIOUS
<1>2. Gives(h, H, desc, out)
  BY <1>1, FromNDTensorDesc
<1> QED BY <1>1, <1>2, Unwanted DEF CreateFromBuffer

LEMMA FromImageFormat ==
  ASSUME NEW h, NEW H, Sound(h, H), NEW desc, NEW size \in Int, h.env.extra \in Int
  PROVE  Gives(h, H, desc, CreateHIAINDTensorBuffer(h, desc, size))
<1>1. PICK out : out = CreateFromFormat(h, desc, size)
  OBVIOUS
<1>2. Gives(h, H, desc, out)
  BY <1>1, FromFormat
<1> QED BY <1>1, <1>2, Unwanted DEF CreateHIAINDTensorBuffer

\* A wrapper that cannot be allocated leaves the buffer behind.
LEMMA WrapperGives ==
  ASSUME NEW h, NEW H, NEW desc, NEW out, Gives(h, H, desc, out)
  PROVE  Gives(h, H, desc, NDTensorBufferImpl(out))
<1>1. CASE ~(out.b # 0 /\ out.heap.env.fault = "wrapper")
  BY <1>1 DEF NDTensorBufferImpl
<1>2. CASE out.b # 0 /\ out.heap.env.fault = "wrapper"
  <2>1. PICK f, b, e, g : f = out.heap /\ b = out.b /\ e = Spent(f) /\ g = [e EXCEPT !.lost = e.lost \cup {b}]
    OBVIOUS
  <2>2. b \notin H /\ Sound(f, H \cup {b}) /\ Keeps(h, f, H)
    <3>1. H \cup ({b} \ {0}) = H \cup {b}
      BY <1>2, <2>1
    <3> QED BY <1>2, <2>1, <3>1 DEF Gives
  <2>3. Sound(e, H \cup {b}) /\ e.mem = f.mem
    BY <2>1, <2>2, SpentSound
  <2>4. e = [mem |-> e.mem, lost |-> e.lost, wrong |-> e.wrong, env |-> e.env]
    BY <2>3 DEF Sound, Heap, Shaped
  <2>5. g = [mem |-> e.mem, lost |-> e.lost \cup {b}, wrong |-> e.wrong, env |-> e.env]
    BY <2>1, <2>4
  <2>6. Like(g, e) /\ g.lost = e.lost \cup {b} /\ g.mem = e.mem
    BY <2>5 DEF Like
  <2>7. (H \cup {b}) \cup e.lost = H \cup g.lost /\ H \cap g.lost = {}
    BY <2>2, <2>3, <2>6 DEF Sound
  <2>8. Sound(g, H)
    BY <2>3, <2>6, <2>7, LikeHeap DEF Sound
  <2>9. Keeps(h, g, H)
    BY <2>2, <2>3, <2>6 DEF Keeps
  <2>10. NDTensorBufferImpl(out) = Failed(g)
    BY <1>2, <2>1 DEF NDTensorBufferImpl
  <2> QED BY <2>8, <2>9, <2>10, GivesNothing
<1> QED BY <1>1, <1>2

CallKind == {"desc", "size", "buffer", "noCopy", "handle", "format"}

\* The arguments of a creation.
CallFits(call) ==
  /\ call.by \in CallKind
  /\ call.bytes \in Nat /\ HIAI_NDTensorDesc_GetByteSize(call.desc) \in Nat
  /\ call.by = "noCopy" => call.bytes <= Lent

LEMMA CallGives ==
  ASSUME NEW h, NEW H, Sound(h, H), h.env.extra \in Int, NEW call, CallFits(call)
  PROVE  Gives(h, H, call.desc, CreateNDTensorBuffer(h, call))
<1>1. PICK desc, n : desc = call.desc /\ n = call.bytes
  OBVIOUS
<1>2. n \in Nat /\ HIAI_NDTensorDesc_GetByteSize(desc) \in Int /\ n \in Int
  BY <1>1 DEF CallFits
<1>3. CASE desc.dims = <<>>
  <2>1. CreateNDTensorBuffer(h, call) = NDTensorBufferImpl(Failed(h))
    BY <1>1, <1>3 DEF CreateNDTensorBuffer
  <2> QED BY <1>1, <2>1, FailedGives, WrapperGives
<1>4. CASE desc.dims # <<>> /\ call.by = "desc"
  <2>1. CreateNDTensorBuffer(h, call) = NDTensorBufferImpl(CreateFromNDTensorDesc(h, desc))
    BY <1>1, <1>4 DEF CreateNDTensorBuffer
  <2>2. Gives(h, H, desc, CreateFromNDTensorDesc(h, desc))
    BY <1>2, FromNDTensorDesc
  <2> QED BY <1>1, <2>1, <2>2, WrapperGives
<1>5. CASE desc.dims # <<>> /\ call.by = "size"
  <2>1. CreateNDTensorBuffer(h, call) = NDTensorBufferImpl(CreateFromSize(h, desc, n))
    BY <1>1, <1>5 DEF CreateNDTensorBuffer
  <2>2. Gives(h, H, desc, CreateFromSize(h, desc, n))
    BY <1>2, FromSize
  <2> QED BY <1>1, <2>1, <2>2, WrapperGives
<1>6. CASE desc.dims # <<>> /\ call.by = "buffer"
  <2>1. CreateNDTensorBuffer(h, call) = NDTensorBufferImpl(CreateFromBuffer(h, desc, n))
    BY <1>1, <1>6 DEF CreateNDTensorBuffer
  <2>2. Gives(h, H, desc, CreateFromBuffer(h, desc, n))
    BY <1>2, FromBuffer
  <2> QED BY <1>1, <2>1, <2>2, WrapperGives
<1>7. CASE desc.dims # <<>> /\ call.by = "noCopy"
  <2>1. CreateNDTensorBuffer(h, call) = NDTensorBufferImpl(CreateNoCopy(h, desc, 1, n))
    BY <1>1, <1>7 DEF CreateNDTensorBuffer
  <2>2. n <= Lent
    BY <1>1, <1>7 DEF CallFits
  <2>3. Gives(h, H, desc, CreateNoCopy(h, desc, 1, n))
    BY <1>2, <2>2, FromNoCopy
  <2> QED BY <1>1, <2>1, <2>3, WrapperGives
<1>8. CASE desc.dims # <<>> /\ call.by = "handle"
  <2>1. CreateNDTensorBuffer(h, call) = NDTensorBufferImpl(CreateFromNativeHandle(h, desc, n))
    BY <1>1, <1>8 DEF CreateNDTensorBuffer
  <2>2. Gives(h, H, desc, CreateFromNativeHandle(h, desc, n))
    BY <1>2, FromNativeHandle
  <2> QED BY <1>1, <2>1, <2>2, WrapperGives
<1>9. CASE desc.dims # <<>> /\ call.by = "format"
  <2>1. CreateNDTensorBuffer(h, call) = NDTensorBufferImpl(CreateHIAINDTensorBuffer(h, desc, n))
    BY <1>1, <1>9 DEF CreateNDTensorBuffer
  <2>2. Gives(h, H, desc, CreateHIAINDTensorBuffer(h, desc, n))
    BY <1>2, FromImageFormat
  <2> QED BY <1>1, <2>1, <2>2, WrapperGives
<1> QED BY <1>1, <1>3, <1>4, <1>5, <1>6, <1>7, <1>8, <1>9 DEF CallFits, CallKind

LEMMA ScaleIs ==
  ASSUME NEW format \in DOMAIN sizeScaleMap
  PROVE  sizeScaleMap[format] \in Int
BY DEF sizeScaleMap

LEMMA BytesAre ==
  ASSUME NEW image, image.b \in Int, image.h \in Int, image.w \in Int
  PROVE  InitTensorInfo(image) \in Int
<1>1. CASE image.format \notin DOMAIN sizeScaleMap
  BY <1>1 DEF InitTensorInfo
<1>2. CASE image.format \in DOMAIN sizeScaleMap
  <2>1. PICK scale, b, y, x : scale = sizeScaleMap[image.format] /\ b = image.b /\ y = image.h /\ x = image.w
    OBVIOUS
  <2>2. scale \in Int /\ b \in Int /\ y \in Int /\ x \in Int
    BY <1>2, <2>1, ScaleIs
  <2>3. PICK area : area = b * y
    OBVIOUS
  <2>4. area \in Int
    BY <2>2, <2>3
  <2>5. PICK pixels : pixels = area * x
    OBVIOUS
  <2>6. pixels \in Int
    BY <2>2, <2>4, <2>5
  <2>7. PICK size : size = pixels * scale
    OBVIOUS
  <2>8. size \in Int /\ size \div 2 \in Int
    BY <2>2, <2>6, <2>7
  <2>9. PICK refused : refused = (image.format \notin DOMAIN sizeScaleMap \/ ~Fits(image, scale))
    OBVIOUS
  <2>10. InitTensorInfo(image) = IF refused THEN 0 ELSE IF image.format = "YUV420SP" THEN size \div 2 ELSE size
    BY <2>1, <2>3, <2>5, <2>7, <2>9 DEF InitTensorInfo
  <2> QED BY <2>8, <2>10
<1> QED BY <1>1, <1>2

LEMMA ImageGives ==
  ASSUME NEW h, NEW H, Sound(h, H), h.env.extra \in Int,
         NEW image, image.b \in Int, image.h \in Int, image.w \in Int, image.handle \in Nat
  PROVE  Gives(h, H, ImageDesc(image), CreateImageTensorBuffer(h, image))
<1>1. PICK desc, n : desc = ImageDesc(image) /\ n = InitTensorInfo(image)
  OBVIOUS
<1>2. n \in Int
  BY <1>1, BytesAre
<1>3. PICK init, from : init = ImageBufferInit(h, image) /\ from = ImageBufferInitFromHandle(h, image)
  OBVIOUS
<1>4. Gives(h, H, desc, init)
  <2>1. CASE n = 0
    BY <1>1, <1>3, <2>1, FailedGives DEF ImageBufferInit
  <2>2. CASE n # 0
    BY <1>1, <1>2, <1>3, <2>2, FromImageFormat DEF ImageBufferInit
  <2> QED BY <2>1, <2>2
<1>5. Gives(h, H, desc, from)
  <2>1. CASE n = 0
    BY <1>1, <1>3, <2>1, FailedGives DEF ImageBufferInitFromHandle
  <2>2. CASE n # 0
    <3>1. PICK m : m = image.handle /\ m \in Int
      OBVIOUS
    <3>2. from = CreateFromNativeHandle(h, desc, m)
      BY <1>1, <1>3, <2>2, <3>1 DEF ImageBufferInitFromHandle
    <3> QED BY <3>1, <3>2, FromNativeHandle
  <2> QED BY <2>1, <2>2
<1>6. CASE image.handle = 0
  BY <1>1, <1>3, <1>4, <1>6, WrapperGives DEF CreateImageTensorBuffer
<1>7. CASE image.handle # 0
  BY <1>1, <1>3, <1>5, <1>7, WrapperGives DEF CreateImageTensorBuffer
<1> QED BY <1>6, <1>7

-----------------------------------------------------------------------------
(* The conversion for an old HCL runtime *)

\* Records keep their descriptors and never go back to the second generation.
Turned(h, g, H) ==
  \A x \in H : /\ KindOf(g, x) = KindOf(h, x) /\ g.mem[x].desc = h.mem[x].desc
               /\ h.mem[x].legacy => g.mem[x].legacy

\* What the loop leaves after a buffer.
Changes(h, H, b, res) ==
  /\ Sound(res.heap, H) /\ Turned(h, res.heap, H)
  /\ res = [heap |-> res.heap, state |-> res.state] /\ res.state \in {"go", "legacy", "failed"}
  /\ res.state = "go" => res.heap.mem[b].legacy
  /\ res.state = "legacy" => h.mem[b].legacy

LEMMA TurnedSelf ==
  ASSUME NEW h, NEW g, g.mem = h.mem, NEW H
  PROVE  Turned(h, g, H)
BY DEF Turned, KindOf

LEMMA TurnedOn ==
  ASSUME NEW f, NEW g, NEW h, NEW H, Turned(f, g, H), Turned(g, h, H)
  PROVE  Turned(f, h, H)
BY DEF Turned

LEMMA OneChanges ==
  ASSUME NEW h, NEW H, Sound(h, H), NEW b \in H, KindOf(h, b) = "record",
         NEW out, out = [heap |-> h, state |-> "go"], NEW res, res = ChangeOne(out, b)
  PROVE  Changes(h, H, b, res)
<1>1. PICK R : R = H \cup h.lost
  OBVIOUS
<1>2. /\ Heap(h, R) /\ Shaped(h) /\ b \in R /\ b \in DOMAIN h.mem \ {1} /\ Whole(h, b)
      /\ BlockShaped(h.mem[b]) /\ h.mem[b].kind = "record" /\ h.mem[1].kind = "application"
      /\ 0 \notin DOMAIN h.mem /\ 1 \in DOMAIN h.mem /\ ~h.wrong /\ R \subseteq DOMAIN h.mem
  BY <1>1 DEF Sound, Heap, Shaped, KindOf
<1>3. RecordWhole(h, h.mem[b])
  BY <1>2 DEF Whole
<1>4. PICK new : new = ConvertNDTensorBufferToTensorBuffer(h, b)
  OBVIOUS
<1>5. CASE h.mem[b].legacy
  <2>1. res.heap = h /\ res.state = "legacy" /\ res = [heap |-> res.heap, state |-> res.state]
    BY <1>5 DEF ChangeOne
  <2> QED BY <1>5, <2>1, TurnedSelf DEF Changes
<1>6. CASE ~h.mem[b].legacy /\ new.b = 0
  <2>1. res.heap = new.heap /\ res.state = "failed" /\ res = [heap |-> res.heap, state |-> res.state]
    BY <1>4, <1>6 DEF ChangeOne
  <2>2. new.heap = h \/ new.heap = Spent(h)
    <3>1. CASE h.mem[b].handle = 0 \/ ~Is4D(h.mem[b].desc)
      BY <1>4, <3>1 DEF ConvertNDTensorBufferToTensorBuffer, Failed, Out
    <3>2. CASE h.mem[b].handle # 0 /\ Is4D(h.mem[b].desc) /\ h.env.fault = "record"
      BY <1>4, <3>2 DEF ConvertNDTensorBufferToTensorBuffer, Failed, Out
    <3>3. CASE h.mem[b].handle # 0 /\ Is4D(h.mem[b].desc) /\ h.env.fault # "record"
      <4>1. PICK block : block = [h.mem[h.mem[b].handle] EXCEPT !.kind = "tensor"]
        OBVIOUS
      <4>2. new = Alloc(h, block)
        BY <1>4, <3>3, <4>1 DEF ConvertNDTensorBufferToTensorBuffer
      <4>3. new.b # 0
        BY <1>2, <4>2, AllocIs
      <4> QED BY <1>6, <4>3
    <3> QED BY <3>1, <3>2, <3>3
  <2> QED BY <2>1, <2>2, SpentSound, TurnedSelf DEF Changes
<1>7. CASE ~h.mem[b].legacy /\ new.b # 0
  <2>1. PICK o, d, block : /\ o = h.mem[b].handle /\ d = h.mem[b].data
                           /\ block = [h.mem[o] EXCEPT !.kind = "tensor"]
    OBVIOUS
  <2>2. o # 0 /\ new = Alloc(h, block)
    BY <1>4, <1>7, <2>1 DEF ConvertNDTensorBufferToTensorBuffer, Failed, Out
  <2>3. /\ o \in DOMAIN h.mem \ {0, 1, b} /\ d \in DOMAIN h.mem \ {0, 1, b, o} /\ h.mem[o].data = d
        /\ h.mem[o].kind = "nd" /\ h.mem[o].handle = 0 /\ h.mem[d].kind = "memory"
        /\ h.mem[d].size >= h.mem[b].size
    BY <1>2, <1>3, <1>7, <2>1, <2>2 DEF RecordWhole, ObjectWhole, KindOf
  <2>4. BlockShaped(h.mem[o])
    BY <1>2, <2>3 DEF Heap
  <2>5. BlockShaped(block) /\ block.kind = "tensor" /\ block.data = d /\ block.handle = 0
    BY <2>1, <2>3, <2>4 DEF BlockShaped
  <2>6. PICK n \in Nat \ {0} : n \notin DOMAIN h.mem /\ new = [heap |-> Grown(h, n, block), b |-> n]
    BY <1>2, <2>2, AllocIs
  <2>7. PICK e, f : e = Grown(h, n, block) /\ f = Rest(e, {o})
    OBVIOUS
  <2>8. /\ Shaped(e) /\ e.lost = h.lost /\ e.wrong = h.wrong /\ DOMAIN e.mem = DOMAIN h.mem \cup {n}
        /\ e.mem[n] = block /\ \A x \in DOMAIN h.mem : e.mem[x] = h.mem[x]
    BY <1>2, <2>6, <2>7, GrownParts
  <2>9. Free(e, o, "nd") = f
    <3>1. o \in DOMAIN e.mem /\ KindOf(e, o) = "nd"
      BY <2>3, <2>8 DEF KindOf
    <3> QED BY <2>7, <2>8, <3>1, FreeIs
  <2>10. /\ Shaped(f) /\ f.lost = h.lost /\ f.wrong = h.wrong
         /\ DOMAIN f.mem = (DOMAIN h.mem \cup {n}) \ {o}
         /\ f.mem[n] = block /\ \A x \in DOMAIN h.mem \ {o} : f.mem[x] = h.mem[x]
    <3>1. n # o
      BY <2>3, <2>6
    <3> QED BY <2>7, <2>8, <3>1, RestShaped
  <2>11. PICK record : record = [h.mem[b] EXCEPT !.handle = n, !.legacy = TRUE]
    OBVIOUS
  <2>12. /\ BlockShaped(record) /\ record.kind = "record" /\ record.data = d /\ record.handle = n
         /\ record.legacy /\ record.size = h.mem[b].size /\ record.desc = h.mem[b].desc
    BY <1>2, <2>1, <2>6, <2>11 DEF BlockShaped
  <2>13. PICK g : g = [f EXCEPT !.mem[b].handle = n, !.mem[b].legacy = TRUE]
    OBVIOUS
  <2>14. res.heap = g /\ res.state = "go" /\ res = [heap |-> res.heap, state |-> res.state]
    <3>1. new.heap = e /\ new.b = n
      BY <2>6, <2>7
    <3>2. res = [out EXCEPT !.heap = g]
      BY <1>4, <1>7, <2>1, <2>9, <2>13, <3>1 DEF ChangeOne
    <3> QED BY <3>2
  <2>15. /\ g = [mem |-> g.mem, lost |-> h.lost, wrong |-> h.wrong, env |-> f.env]
         /\ g.mem = [x \in DOMAIN f.mem |-> IF x = b THEN record ELSE f.mem[x]]
    <3>1. b \in DOMAIN f.mem /\ f.mem[b] = h.mem[b]
      BY <1>2, <2>3, <2>10
    <3>2. f = [mem |-> f.mem, lost |-> f.lost, wrong |-> f.wrong, env |-> f.env]
      BY <2>10 DEF Shaped
    <3>3. f.mem = [x \in DOMAIN f.mem |-> f.mem[x]]
      BY <2>10 DEF Shaped
    <3>4. g.mem = [f.mem EXCEPT ![b].handle = n, ![b].legacy = TRUE] /\ g.lost = f.lost /\ g.wrong = f.wrong
          /\ g = [mem |-> g.mem, lost |-> f.lost, wrong |-> f.wrong, env |-> f.env]
      BY <2>13, <3>2
    <3>5. g.mem = [f.mem EXCEPT ![b] = record]
      BY <2>11, <3>1, <3>3, <3>4
    <3> QED BY <2>10, <3>1, <3>3, <3>4, <3>5
  <2>16. /\ DOMAIN g.mem = (DOMAIN h.mem \cup {n}) \ {o} /\ g.mem[b] = record /\ g.mem[n] = block
         /\ \A x \in DOMAIN h.mem \ {o, b} : g.mem[x] = h.mem[x]
         /\ Shaped(g) /\ g.lost = h.lost /\ ~g.wrong
    <3>1. b \in DOMAIN f.mem /\ n # b
      BY <1>2, <2>3, <2>6, <2>10
    <3>2. DOMAIN g.mem = DOMAIN f.mem /\ g.lost = h.lost /\ g.wrong = h.wrong
      BY <2>15
    <3>3. \A x \in DOMAIN f.mem : g.mem[x] = IF x = b THEN record ELSE f.mem[x]
      BY <2>15
    <3>4. Shaped(g)
      <4>1. g = [mem |-> g.mem, lost |-> g.lost, wrong |-> g.wrong, env |-> g.env]
        BY <2>15
      <4>2. g.mem = [x \in DOMAIN g.mem |-> g.mem[x]]
        BY <2>15
      <4>3. IsFiniteSet(DOMAIN g.mem) /\ DOMAIN g.mem \subseteq Nat \ {0}
        BY <2>10, <3>2 DEF Shaped
      <4> QED BY <4>1, <4>2, <4>3 DEF Shaped
    <3>5. n \in DOMAIN f.mem
      BY <2>3, <2>6, <2>10
    <3> QED BY <1>2, <2>10, <3>1, <3>2, <3>3, <3>4, <3>5
  <2>17. Parts(h, b) = {b, d, o} /\ Parts(g, b) = {b, d, n}
    <3>1. n # 1 /\ b # 0
      BY <1>2, <2>6
    <3> QED BY <1>2, <2>1, <2>2, <2>3, <2>6, <2>12, <2>16, <3>1 DEF Parts
  <2>18. Whole(g, b)
    <3>1. d \in DOMAIN g.mem /\ g.mem[d] = h.mem[d] /\ n \in DOMAIN g.mem
      BY <2>3, <2>6, <2>16
    <3>2. ObjectWhole(g, g.mem[n])
      BY <2>3, <2>5, <2>16, <3>1 DEF ObjectWhole, KindOf
    <3>3. RecordWhole(g, g.mem[b])
      BY <2>3, <2>5, <2>6, <2>12, <2>16, <3>1, <3>2 DEF RecordWhole, KindOf
    <3> QED BY <2>12, <2>16, <3>3 DEF Whole
  <2>19. PICK K, N : K = R \ {b} /\ N = {b}
    OBVIOUS
  <2>20. K \in SUBSET R /\ N \in SUBSET (DOMAIN g.mem \ {1}) /\ (\A x, y \in N : x = y) /\ K \cup N = R
    BY <1>2, <2>3, <2>16, <2>19
  <2>21. \A k \in K : Parts(h, k) \cap Parts(h, b) = {} /\ Parts(h, k) \subseteq DOMAIN h.mem
    BY <1>2, <2>19, OneOwner, PartsExist
  <2>22. \A k \in K : \A x \in Parts(h, k) : x \in DOMAIN g.mem /\ g.mem[x] = h.mem[x]
    BY <2>16, <2>17, <2>21
  <2>23. \A x \in N : Whole(g, x) /\ \A k \in K : Parts(g, x) \cap Parts(h, k) = {}
    BY <2>6, <2>17, <2>18, <2>19, <2>21
  <2>24. \A x \in DOMAIN g.mem : \/ x = 1 \/ \E k \in K : x \in Parts(h, k)
                                 \/ \E y \in N : x \in Parts(g, y)
    <3>1. \A x \in DOMAIN h.mem : x # 1 => \E k \in R : x \in Parts(h, k)
      BY <1>2 DEF Heap
    <3> QED BY <2>16, <2>17, <2>19, <3>1
  <2>25. \A x \in DOMAIN g.mem : BlockShaped(g.mem[x])
    BY <1>2, <2>5, <2>12, <2>16 DEF Heap
  <2>26. 1 \in DOMAIN g.mem /\ g.mem[1] = h.mem[1]
    BY <1>2, <2>3, <2>16
  <2>27. Heap(g, K \cup N)
    BY ONLY <1>2, <2>16, <2>20, <2>22, <2>23, <2>24, <2>25, <2>26, Rearranged
  <2>28. Sound(g, H)
    BY <1>1, <2>16, <2>20, <2>27 DEF Sound
  <2>29. Turned(h, g, H)
    <3>1. ASSUME NEW x \in H
          PROVE  /\ KindOf(g, x) = KindOf(h, x) /\ g.mem[x].desc = h.mem[x].desc
                 /\ h.mem[x].legacy => g.mem[x].legacy
      <4>1. CASE x = b
        BY <1>2, <2>12, <2>16, <4>1 DEF KindOf
      <4>2. CASE x # b
        <5>1. x \in K
          BY <1>1, <2>19, <4>2
        <5>2. x \in Parts(h, x)
          BY <1>2, <2>20, <5>1, PartsExist
        <5>3. g.mem[x] = h.mem[x]
          BY <2>22, <5>1, <5>2
        <5> QED BY <5>3 DEF KindOf
      <4> QED BY <4>1, <4>2
    <3> QED BY <3>1 DEF Turned
  <2> QED BY <2>12, <2>14, <2>16, <2>28, <2>29 DEF Changes
<1> QED BY <1>5, <1>6, <1>7

Begun(h) == [heap |-> h, state |-> "go"]

\* The loop over one buffer and over two.
LEMMA LoopOfOne ==
  ASSUME NEW h, NEW a
  PROVE  HIAI_ChangeNDTensorBuffersHandleToTensorBuffers(h, <<a>>) = ChangeOne(Begun(h), a)
<1>1. PICK list : list = <<a>>
  OBVIOUS
<1>2. Len(list) = 1 /\ list[1] = a
  BY <1>1
<1> DEFINE Loop(f) == f = [i \in 0 .. 1 |-> IF i = 0 THEN Begun(h) ELSE ChangeOne(f[i - 1], list[i])]
<1>3. PICK w : w = [i \in 0 .. 1 |-> IF i = 0 THEN Begun(h) ELSE ChangeOne(Begun(h), list[i])]
  OBVIOUS
<1>4. Loop(w)
  <2>1. w[0] = Begun(h)
    BY <1>3
  <2>2. \A i \in 0 .. 1 : i # 0 => w[i - 1] = Begun(h)
    BY <2>1
  <2>3. \A i \in 0 .. 1 : (IF i = 0 THEN Begun(h) ELSE ChangeOne(w[i - 1], list[i]))
                            = (IF i = 0 THEN Begun(h) ELSE ChangeOne(Begun(h), list[i]))
    BY <2>2
  <2> QED BY <1>3, <2>3
<1>5. PICK after : after = CHOOSE f : Loop(f)
  OBVIOUS
<1>6. Loop(after)
  BY <1>4, <1>5
<1>7. after[0] = Begun(h) /\ after[1] = ChangeOne(after[0], list[1])
  <2>1. after[0] = IF 0 = 0 THEN Begun(h) ELSE ChangeOne(after[0 - 1], list[0])
    BY <1>6
  <2>2. after[1] = IF 1 = 0 THEN Begun(h) ELSE ChangeOne(after[1 - 1], list[1])
    BY <1>6
  <2> QED BY <2>1, <2>2
<1>8. HIAI_ChangeNDTensorBuffersHandleToTensorBuffers(h, list) = after[1]
  BY <1>2, <1>5 DEF HIAI_ChangeNDTensorBuffersHandleToTensorBuffers, Begun
<1> QED BY <1>1, <1>2, <1>7, <1>8

LEMMA LoopOfTwo ==
  ASSUME NEW h, NEW a, NEW b
  PROVE  HIAI_ChangeNDTensorBuffersHandleToTensorBuffers(h, <<a, b>>) = ChangeOne(ChangeOne(Begun(h), a), b)
<1>1. PICK list, first, second :
        /\ list = <<a, b>> /\ first = ChangeOne(Begun(h), a) /\ second = ChangeOne(first, b)
  OBVIOUS
<1>2. Len(list) = 2 /\ list[1] = a /\ list[2] = b
  BY <1>1
<1> DEFINE Loop(f) == f = [i \in 0 .. 2 |-> IF i = 0 THEN Begun(h) ELSE ChangeOne(f[i - 1], list[i])]
<1>3. PICK w : w = [i \in 0 .. 2 |-> IF i = 0 THEN Begun(h) ELSE IF i = 1 THEN first ELSE second]
  OBVIOUS
<1>4. Loop(w)
  <2>1. w[0] = Begun(h) /\ w[1] = first /\ w[2] = second
    BY <1>3
  <2>2. ASSUME NEW i \in 0 .. 2
        PROVE  w[i] = IF i = 0 THEN Begun(h) ELSE ChangeOne(w[i - 1], list[i])
    <3>1. CASE i = 0
      BY <2>1, <3>1
    <3>2. CASE i = 1
      <4>1. i - 1 = 0
        BY <3>2
      <4> QED BY <1>1, <1>2, <2>1, <3>2, <4>1
    <3>3. CASE i = 2
      <4>1. i - 1 = 1
        BY <3>3
      <4> QED BY <1>1, <1>2, <2>1, <3>3, <4>1
    <3> QED BY <3>1, <3>2, <3>3
  <2>3. w = [i \in 0 .. 2 |-> w[i]]
    BY <1>3
  <2> QED BY <2>2, <2>3
<1>5. PICK after : after = CHOOSE f : Loop(f)
  OBVIOUS
<1>6. Loop(after)
  BY <1>4, <1>5
<1>7. after[0] = Begun(h) /\ after[1] = ChangeOne(after[0], list[1]) /\ after[2] = ChangeOne(after[1], list[2])
  <2>1. after[0] = IF 0 = 0 THEN Begun(h) ELSE ChangeOne(after[0 - 1], list[0])
    BY <1>6
  <2>2. after[1] = IF 1 = 0 THEN Begun(h) ELSE ChangeOne(after[1 - 1], list[1])
    BY <1>6
  <2>3. after[2] = IF 2 = 0 THEN Begun(h) ELSE ChangeOne(after[2 - 1], list[2])
    BY <1>6
  <2> QED BY <2>1, <2>2, <2>3
<1>8. HIAI_ChangeNDTensorBuffersHandleToTensorBuffers(h, list) = after[2]
  BY <1>2, <1>5 DEF HIAI_ChangeNDTensorBuffersHandleToTensorBuffers, Begun
<1> QED BY <1>1, <1>2, <1>7, <1>8

\* Unless the loop fails, what it leaves is of the first generation, but behind a buffer
\* that was so before.
Changed(h, H, list, res) ==
  /\ Sound(res.heap, H) /\ Turned(h, res.heap, H)
  /\ res.state # "failed" =>
       \A i \in DOMAIN list : res.heap.mem[list[i]].legacy \/ \E j \in 1..(i - 1) : h.mem[list[j]].legacy

LEMMA OneChanged ==
  ASSUME NEW h, NEW H, Sound(h, H), NEW a \in H, KindOf(h, a) = "record",
         NEW res, res = HIAI_ChangeNDTensorBuffersHandleToTensorBuffers(h, <<a>>)
  PROVE  Changed(h, H, <<a>>, res)
<1>1. PICK list, out : list = <<a>> /\ out = Begun(h)
  OBVIOUS
<1>2. res = ChangeOne(out, a)
  BY <1>1, LoopOfOne
<1>3. Changes(h, H, a, res)
  BY <1>1, <1>2, OneChanges DEF Begun
<1>4. DOMAIN list = {1} /\ list[1] = a
  BY <1>1
<1>5. res.state # "failed" => res.heap.mem[a].legacy
  BY <1>3 DEF Changes, Turned
<1>6. Changed(h, H, list, res)
  BY <1>3, <1>4, <1>5 DEF Changes, Changed
<1> QED BY <1>1, <1>6

LEMMA TwoChanged ==
  ASSUME NEW h, NEW H, Sound(h, H), NEW a \in H, NEW b \in H, KindOf(h, a) = "record", KindOf(h, b) = "record",
         NEW res, res = HIAI_ChangeNDTensorBuffersHandleToTensorBuffers(h, <<a, b>>)
  PROVE  Changed(h, H, <<a, b>>, res)
<1>1. PICK list, out, first : list = <<a, b>> /\ out = Begun(h) /\ first = ChangeOne(out, a)
  OBVIOUS
<1>2. res = ChangeOne(first, b)
  BY <1>1, LoopOfTwo
<1>3. Changes(h, H, a, first)
  BY <1>1, OneChanges DEF Begun
<1>4. DOMAIN list = {1, 2} /\ list[1] = a /\ list[2] = b
  BY <1>1
<1>5. CASE first.state # "go"
  <2>1. res = first
    BY <1>2, <1>5 DEF ChangeOne
  <2>2. first.state # "failed" => h.mem[a].legacy /\ first.heap.mem[a].legacy
    BY <1>3, <1>5 DEF Changes, Turned
  <2>3. 1 \in 1 .. (2 - 1)
    OBVIOUS
  <2>4. ASSUME res.state # "failed", NEW i \in DOMAIN list
        PROVE  res.heap.mem[list[i]].legacy \/ \E j \in 1 .. (i - 1) : h.mem[list[j]].legacy
    BY <1>4, <2>1, <2>2, <2>3, <2>4
  <2>5. Changed(h, H, list, res)
    BY <1>3, <2>1, <2>4 DEF Changes, Changed
  <2> QED BY <1>1, <2>5
<1>6. CASE first.state = "go"
  <2>1. PICK f : f = first.heap
    OBVIOUS
  <2>2. first = [heap |-> f, state |-> "go"] /\ Sound(f, H) /\ Turned(h, f, H) /\ f.mem[a].legacy
    BY <1>3, <1>6, <2>1 DEF Changes
  <2>3. KindOf(f, b) = "record"
    BY <2>2 DEF Turned
  <2>4. Changes(f, H, b, res)
    BY <1>2, <2>2, <2>3, OneChanges
  <2>5. Sound(res.heap, H) /\ Turned(h, res.heap, H) /\ Turned(f, res.heap, H)
    BY <2>2, <2>4, TurnedOn DEF Changes
  <2>6. res.heap.mem[a].legacy
    BY <2>2, <2>5 DEF Turned
  <2>7. res.state # "failed" => res.heap.mem[b].legacy
    BY <2>4, <2>5 DEF Changes, Turned
  <2>8. Changed(h, H, list, res)
    BY <1>4, <2>5, <2>6, <2>7 DEF Changed
  <2> QED BY <1>1, <2>8
<1> QED BY <1>5, <1>6

-----------------------------------------------------------------------------
(* The invariant *)

Owned == Sound(heap, Held) /\ \A b \in Held : KindOf(heap, b) = "record"

\* Nobody holds a buffer twice.
Named ==
  /\ mine \subseteq Nat \ {0}
  /\ tensors = [t \in Tensors |-> [desc |-> tensors[t].desc, b |-> tensors[t].b, kept |-> tensors[t].kept]]
  /\ \A t \in Tensors : tensors[t].b \in Nat /\ tensors[t].b \notin mine
  /\ \A s, t \in Tensors : s # t /\ tensors[s].b # 0 => tensors[s].b # tensors[t].b

BuffersInv == Owned /\ Named /\ RunsConverted /\ DimensionsAgree

HeldOf(m, ts) == m \cup {ts[t].b : t \in {x \in Tensors : ts[x].b # 0}}

LEMMA HeldIs == Held = HeldOf(mine, tensors)
BY DEF Held, HeldOf

LEMMA HeldNext == Held' = HeldOf(mine', tensors')
BY DEF Held, HeldOf

LEMMA CalledSound ==
  ASSUME NEW H, Sound(heap, H), NEW env
  PROVE  Sound(Called(env), H) /\ Called(env).mem = heap.mem /\ Called(env).env = env
<1>1. heap = [mem |-> heap.mem, lost |-> heap.lost, wrong |-> heap.wrong, env |-> heap.env]
  BY DEF Sound, Heap, Shaped
<1>2. PICK g : g = Called(env)
  OBVIOUS
<1>3. g = [mem |-> heap.mem, lost |-> heap.lost, wrong |-> heap.wrong, env |-> env]
  BY <1>1, <1>2 DEF Called
<1>4. Like(g, heap) /\ g.lost = heap.lost /\ g.mem = heap.mem /\ g.env = env
  BY <1>3 DEF Like
<1> QED BY <1>2, <1>4, LikeHeap DEF Sound

LEMMA DoneSound ==
  ASSUME NEW h, NEW H, Sound(h, H), Done(h)
  PROVE  Sound(heap', H) /\ heap'.mem = h.mem
<1>1. h = [mem |-> h.mem, lost |-> h.lost, wrong |-> h.wrong, env |-> h.env]
  BY DEF Sound, Heap, Shaped
<1>2. PICK g : g = heap'
  OBVIOUS
<1>3. g = [mem |-> h.mem, lost |-> h.lost, wrong |-> h.wrong, env |-> Quiet]
  BY <1>1, <1>2 DEF Done
<1>4. Like(g, h) /\ g.lost = h.lost /\ g.mem = h.mem
  BY <1>3 DEF Like
<1> QED BY <1>2, <1>4, LikeHeap DEF Sound

\* A buffer goes to the application.
LEMMA Handed ==
  ASSUME BuffersInv, NEW env, NEW desc, NEW out, Gives(Called(env), Held, desc, out),
         Done(out.heap), mine' = (mine \cup {out.b}) \ {0}, ran' = NotRun, tensors' = tensors
  PROVE  BuffersInv'
<1>1. PICK b : b = out.b
  OBVIOUS
<1>2. /\ Done(out.heap) /\ mine' = (mine \cup {b}) \ {0} /\ ran' = NotRun /\ tensors' = tensors
  BY <1>1
<1>3. /\ Sound(out.heap, Held \cup ({b} \ {0})) /\ Keeps(Called(env), out.heap, Held)
      /\ b # 0 => b \in Nat /\ b \notin Held /\ KindOf(out.heap, b) = "record"
  BY <1>1 DEF Gives
<1>4. PICK H : H = Held \cup ({b} \ {0})
  OBVIOUS
<1>5. Sound(heap', H) /\ heap'.mem = out.heap.mem
  BY <1>2, <1>3, <1>4, DoneSound
<1>6. Called(env).mem = heap.mem
  BY CalledSound DEF BuffersInv, Owned
<1>7. Held' = H
  BY <1>2, <1>4, HeldIs, HeldNext DEF HeldOf, BuffersInv, Named
<1>8. \A x \in Held : heap'.mem[x] = heap.mem[x]
  BY <1>3, <1>5, <1>6 DEF Keeps
<1>9. Owned'
  <2>1. \A x \in H : KindOf(heap', x) = "record"
    BY <1>3, <1>4, <1>5, <1>8 DEF BuffersInv, Owned, KindOf
  <2> QED BY <1>5, <1>7, <2>1 DEF Owned
<1>10. Named'
  <2>1. \A t \in Tensors : tensors[t].b # 0 => tensors[t].b \in Held
    BY HeldIs DEF HeldOf
  <2>2. \A t \in Tensors : tensors[t].b \notin mine'
    BY <1>2, <1>3, <2>1 DEF BuffersInv, Named
  <2>3. mine' \subseteq Nat \ {0}
    BY <1>2, <1>3 DEF BuffersInv, Named
  <2> QED BY <1>2, <2>2, <2>3 DEF BuffersInv, Named
<1>11. RunsConverted'
  BY <1>2 DEF RunsConverted, NotRun
<1>12. DimensionsAgree'
  <2>1. \A t \in Tensors : tensors[t].b # 0 => tensors[t].b \in Held
    BY HeldIs DEF HeldOf
  <2> QED BY <1>2, <1>8, <2>1 DEF BuffersInv, DimensionsAgree
<1> QED BY <1>9, <1>10, <1>11, <1>12 DEF BuffersInv

\* The old buffer of an AiTensor goes when the new one comes.
LEMMA Assigned ==
  ASSUME BuffersInv, NEW env, NEW t \in Tensors, NEW desc, NEW out,
         Gives(Called(env), Held, desc, out), Assign(t, desc, out), mine' = mine
  PROVE  BuffersInv'
<1>1. PICK b, old, f : b = out.b /\ old = tensors[t].b /\ f = out.heap
  OBVIOUS
<1>2. PICK new : new = [desc |-> desc, b |-> b, kept |-> FALSE]
  OBVIOUS
<1>3. ran' = NotRun /\ tensors' = [tensors EXCEPT ![t] = new]
  BY <1>1, <1>2 DEF Assign
<1>4. PICK H : H = Held \cup ({b} \ {0})
  OBVIOUS
<1>5. /\ Sound(f, H) /\ Keeps(Called(env), f, Held)
      /\ b # 0 => b \in Nat /\ b \notin Held /\ KindOf(f, b) = "record" /\ f.mem[b].desc = desc
  BY <1>1, <1>4 DEF Gives
<1>6. Called(env).mem = heap.mem
  BY CalledSound DEF BuffersInv, Owned
<1>7. PICK g : g = IF old = 0 THEN f ELSE Destroy(f, old)
  OBVIOUS
<1>8. Done(g)
  BY <1>1, <1>7 DEF Assign
<1>9. Named /\ 0 \notin mine /\ 0 \notin Held
  BY HeldIs DEF BuffersInv, Named, HeldOf
<1>10. old # 0 => old \in Held /\ old \notin mine /\ old # b
  BY <1>1, <1>5, <1>9, HeldIs DEF Named, HeldOf
<1>11. Sound(g, H \ {old}) /\ Keeps(f, g, H \ {old})
  <2>1. CASE old = 0
    <3>1. H \ {old} = H
      BY <1>4, <1>9, <2>1
    <3> QED BY <1>5, <1>7, <2>1, <3>1 DEF Keeps
  <2>2. CASE old # 0
    <3>1. PICK rest : rest = H \ {old}
      OBVIOUS
    <3>2. rest \cup {old} = H /\ old \notin rest /\ old \in Held
      BY <1>4, <1>10, <2>2, <3>1
    <3>3. KindOf(f, old) = "record"
      BY <1>5, <1>6, <3>2 DEF BuffersInv, Owned, Keeps, KindOf
    <3>4. g = Destroy(f, old) /\ Sound(f, rest \cup {old})
      BY <1>5, <1>7, <2>2, <3>2
    <3>5. Sound(g, rest) /\ Keeps(f, g, rest)
      BY <3>2, <3>3, <3>4, Destroyed
    <3> QED BY <3>1, <3>5
  <2> QED BY <2>1, <2>2
<1>12. Sound(heap', H \ {old}) /\ heap'.mem = g.mem
  BY <1>8, <1>11, DoneSound
<1>13. /\ tensors'[t] = new /\ new.b = b /\ new.desc = desc /\ new.kept = FALSE
       /\ \A x \in Tensors : x # t => tensors'[x] = tensors[x]
       /\ tensors' = [x \in Tensors |-> tensors'[x]]
  BY <1>2, <1>3, <1>9 DEF Named
<1>14. Held' = H \ {old}
  <2>1. \A x \in Tensors : x # t /\ tensors[x].b # 0 => tensors[x].b # old
    BY <1>1, <1>9 DEF Named
  <2>2. ASSUME NEW y \in Held'
        PROVE  y \in H \ {old}
    <3>1. CASE y \in mine
      BY <1>1, <1>4, <1>9, <3>1, HeldIs DEF Named, HeldOf
    <3>2. CASE y \notin mine
      <4>1. PICK x \in Tensors : tensors'[x].b # 0 /\ y = tensors'[x].b
        BY <3>2, HeldNext DEF HeldOf
      <4>2. CASE x = t
        BY <1>4, <1>5, <1>10, <1>13, <4>1, <4>2
      <4>3. CASE x # t
        BY <1>4, <1>13, <2>1, <4>1, <4>3, HeldIs DEF HeldOf
      <4> QED BY <4>2, <4>3
    <3> QED BY <3>1, <3>2
  <2>3. ASSUME NEW y \in H \ {old}
        PROVE  y \in Held'
    <3>1. CASE y = b /\ b # 0
      BY <1>13, <3>1, HeldNext DEF HeldOf
    <3>2. CASE y \in mine
      BY <3>2, HeldNext DEF HeldOf
    <3>3. CASE y \in Held /\ y \notin mine
      <4>1. PICK x \in Tensors : tensors[x].b # 0 /\ y = tensors[x].b
        BY <3>3, HeldIs DEF HeldOf
      <4>2. x # t
        BY <1>1, <4>1
      <4>3. tensors'[x].b = y /\ y # 0
        BY <1>13, <4>1, <4>2
      <4> QED BY <4>3, HeldNext DEF HeldOf
    <3> QED BY <1>4, <3>1, <3>2, <3>3
  <2> QED BY <2>2, <2>3
<1>15. \A x \in Held : x # old => heap'.mem[x] = heap.mem[x]
  BY <1>4, <1>5, <1>6, <1>11, <1>12 DEF Keeps
<1>16. b # 0 => heap'.mem[b] = f.mem[b]
  BY <1>4, <1>10, <1>11, <1>12 DEF Keeps
<1>17. Owned'
  <2>1. \A x \in H \ {old} : KindOf(heap', x) = "record"
    BY <1>4, <1>5, <1>15, <1>16 DEF BuffersInv, Owned, KindOf
  <2> QED BY <1>12, <1>14, <2>1 DEF Owned
<1>18. \A x \in Tensors : tensors[x].b # 0 => tensors[x].b \in Held
  BY HeldIs DEF HeldOf
<1>19. Named'
  <2>1. tensors' = [x \in Tensors |-> [desc |-> tensors'[x].desc, b |-> tensors'[x].b, kept |-> tensors'[x].kept]]
    <3>1. \A x \in Tensors :
            tensors'[x] = [desc |-> tensors'[x].desc, b |-> tensors'[x].b, kept |-> tensors'[x].kept]
      BY <1>2, <1>9, <1>13 DEF Named
    <3> QED BY <1>13, <3>1
  <2>2. \A x \in Tensors : tensors'[x].b \in Nat /\ tensors'[x].b \notin mine
    <3>1. b \in Nat /\ b \notin mine
      BY <1>5, <1>9, HeldIs DEF HeldOf
    <3> QED BY <1>9, <1>13, <3>1 DEF Named
  <2>3. \A x, y \in Tensors : x # y /\ tensors'[x].b # 0 => tensors'[x].b # tensors'[y].b
    <3>1. \A x \in Tensors : x # t /\ b # 0 => tensors[x].b # b
      BY <1>5, <1>18
    <3>2. \A x \in Tensors : x # t /\ tensors[x].b # 0 => tensors[x].b # b
      BY <1>5, <1>18
    <3> QED BY <1>9, <1>13, <3>1, <3>2 DEF Named
  <2> QED BY <1>9, <2>1, <2>2, <2>3 DEF Named
<1>20. RunsConverted'
  BY <1>3 DEF RunsConverted, NotRun
<1>21. DimensionsAgree'
  <2>1. ASSUME NEW x \in Tensors, tensors'[x].b # 0, ~tensors'[x].kept
        PROVE  heap'.mem[tensors'[x].b].desc.dims = tensors'[x].desc.dims
    <3>1. CASE x = t
      BY <1>5, <1>13, <1>16, <2>1, <3>1
    <3>2. CASE x # t
      <4>1. tensors[x].b \in Held /\ tensors[x].b # old
        BY <1>1, <1>9, <1>13, <1>18, <2>1, <3>2 DEF Named
      <4> QED BY <1>13, <1>15, <2>1, <3>2, <4>1 DEF BuffersInv, DimensionsAgree
    <3> QED BY <3>1, <3>2
  <2> QED BY <2>1 DEF DimensionsAgree
<1> QED BY <1>17, <1>19, <1>20, <1>21 DEF BuffersInv

LEMMA TensorsAre ==
  ASSUME BuffersInv
  PROVE  /\ tensors = [t \in Tensors |-> tensors[t]]
         /\ \A t \in Tensors :
              tensors[t] = [desc |-> tensors[t].desc, b |-> tensors[t].b, kept |-> tensors[t].kept]
<1>1. tensors = [t \in Tensors |-> [desc |-> tensors[t].desc, b |-> tensors[t].b, kept |-> tensors[t].kept]]
  BY DEF BuffersInv, Named
<1> QED BY <1>1

\* An AiTensor is described anew and keeps its buffer.
LEMMA Redescribed ==
  ASSUME BuffersInv, NEW t \in Tensors, NEW desc, ran' = NotRun, heap' = heap, mine' = mine,
         tensors' = [x \in Tensors |-> IF x = t THEN [desc |-> desc, b |-> tensors[t].b, kept |-> TRUE] ELSE tensors[x]]
  PROVE  BuffersInv'
<1>1. /\ tensors'[t].b = tensors[t].b /\ tensors'[t].kept = TRUE
      /\ \A x \in Tensors : x # t => tensors'[x] = tensors[x]
      /\ tensors' = [x \in Tensors |-> tensors'[x]]
  OBVIOUS
<1>2. \A x \in Tensors : tensors'[x].b = tensors[x].b
  BY <1>1
<1>3. Held' = Held
  BY <1>2 DEF Held
<1>4. Owned'
  BY <1>3 DEF BuffersInv, Owned
<1>5. Named'
  <2>1. \A x \in Tensors :
          tensors'[x] = [desc |-> tensors'[x].desc, b |-> tensors'[x].b, kept |-> tensors'[x].kept]
    BY <1>1 DEF BuffersInv, Named
  <2>2. tensors' = [x \in Tensors |-> [desc |-> tensors'[x].desc, b |-> tensors'[x].b, kept |-> tensors'[x].kept]]
    BY <1>1, <2>1
  <2> QED BY <1>2, <2>2 DEF BuffersInv, Named
<1>6. RunsConverted'
  BY DEF RunsConverted, NotRun
<1>7. DimensionsAgree'
  BY <1>1 DEF BuffersInv, DimensionsAgree
<1> QED BY <1>4, <1>5, <1>6, <1>7 DEF BuffersInv

LEMMA CallsFit ==
  ASSUME InputsFit
  PROVE  /\ \A call \in Calls : CallFits(call)
         /\ \A env \in Envs : env.extra \in Int
         /\ \A d \in Descs : /\ HIAI_NDTensorDesc_GetByteSize(d) \in Nat /\ HIAI_NDTensorDesc_GetByteSize(d) <= Lent
         /\ \A i \in Images : i.b \in Int /\ i.h \in Int /\ i.w \in Int /\ i.handle \in Nat
BY DEF InputsFit, CallFits, CallKind, Lent

LEMMA MakeKeeps ==
  ASSUME InputsFit, BuffersInv, NEW env \in Envs, NEW call \in Calls, Make(env, call)
  PROVE  BuffersInv'
<1>1. PICK h, out : h = Called(env) /\ out = CreateNDTensorBuffer(h, call)
  OBVIOUS
<1>2. Sound(h, Held) /\ h.env.extra \in Int /\ CallFits(call)
  BY <1>1, CalledSound, CallsFit DEF BuffersInv, Owned
<1>3. Gives(Called(env), Held, call.desc, out)
  BY <1>1, <1>2, CallGives
<1> QED BY <1>1, <1>3, Handed DEF Make, Hand

LEMMA MakeImageKeeps ==
  ASSUME InputsFit, BuffersInv, NEW env \in Envs, NEW image \in Images, MakeImage(env, image)
  PROVE  BuffersInv'
<1>1. PICK h, out : h = Called(env) /\ out = CreateImageTensorBuffer(h, image)
  OBVIOUS
<1>2. /\ Sound(h, Held) /\ h.env.extra \in Int
      /\ image.b \in Int /\ image.h \in Int /\ image.w \in Int /\ image.handle \in Nat
  BY <1>1, CalledSound, CallsFit DEF BuffersInv, Owned
<1>3. Gives(Called(env), Held, ImageDesc(image), out)
  BY <1>1, <1>2, ImageGives
<1> QED BY <1>1, <1>3, Handed DEF MakeImage, Hand

LEMMA InitImageKeeps ==
  ASSUME InputsFit, BuffersInv, NEW env \in Envs, NEW t \in Tensors, NEW image \in Images, InitImage(env, t, image)
  PROVE  BuffersInv'
<1>1. PICK h, out : h = Called(env) /\ out = CreateImageTensorBuffer(h, image)
  OBVIOUS
<1>2. /\ Sound(h, Held) /\ h.env.extra \in Int
      /\ image.b \in Int /\ image.h \in Int /\ image.w \in Int /\ image.handle \in Nat
  BY <1>1, CalledSound, CallsFit DEF BuffersInv, Owned
<1>3. Gives(Called(env), Held, ImageDesc(image), out)
  BY <1>1, <1>2, ImageGives
<1>4. mine' = mine
  BY DEF InitImage
<1>5. CASE out.b = 0
  <2>1. mine' = (mine \cup {out.b}) \ {0}
    BY <1>4, <1>5 DEF BuffersInv, Named
  <2> QED BY <1>1, <1>3, <1>5, <2>1, Handed DEF InitImage
<1>6. CASE out.b # 0
  <2>1. Assign(t, ImageDesc(image), out)
    BY <1>1, <1>6 DEF InitImage
  <2> QED BY <1>3, <1>4, <2>1, Assigned
<1> QED BY <1>5, <1>6

LEMMA Init4DKeeps ==
  ASSUME InputsFit, BuffersInv, NEW env \in Envs, NEW t \in Tensors, NEW desc \in Descs, Init4D(env, t, desc)
  PROVE  BuffersInv'
<1>1. PICK kind \in {"desc", "handle"} :
        Assign(t, desc, CreateNDTensorBuffer(Called(env), [by |-> kind, desc |-> desc, bytes |-> 2]))
  BY DEF Init4D
<1>2. PICK h, call, out : /\ h = Called(env) /\ call = [by |-> kind, desc |-> desc, bytes |-> 2]
                          /\ out = CreateNDTensorBuffer(h, call)
  OBVIOUS
<1>3. Sound(h, Held) /\ h.env.extra \in Int
  BY <1>2, CalledSound, CallsFit DEF BuffersInv, Owned
<1>4. CallFits(call) /\ call.desc = desc
  BY <1>2, CallsFit DEF CallFits, CallKind, Lent
<1>5. Gives(Called(env), Held, desc, out)
  BY <1>2, <1>3, <1>4, CallGives
<1>6. mine' = mine
  BY DEF Init4D
<1> QED BY <1>1, <1>2, <1>5, <1>6, Assigned

LEMMA InitDataKeeps ==
  ASSUME InputsFit, BuffersInv, NEW env \in Envs, NEW t \in Tensors, NEW desc \in Descs, InitData(env, t, desc)
  PROVE  BuffersInv'
<1>1. PICK total : total = HIAI_NDTensorDesc_GetByteSize(desc)
  OBVIOUS
<1>2. total \in Nat /\ total <= Lent /\ mine' = mine
  BY <1>1, CallsFit DEF InitData
<1>3. CASE total = 0
  <2>1. tensors' = [tensors EXCEPT ![t].desc = desc, ![t].kept = TRUE] /\ ran' = NotRun /\ heap' = heap
    BY <1>1, <1>3 DEF InitData
  <2>2. tensors' = [x \in Tensors |-> IF x = t THEN [desc |-> desc, b |-> tensors[t].b, kept |-> TRUE] ELSE tensors[x]]
    <3>1. PICK old, new : old = tensors[t] /\ new = [desc |-> desc, b |-> old.b, kept |-> TRUE]
      OBVIOUS
    <3>2. tensors = [x \in Tensors |-> tensors[x]] /\ old = [desc |-> old.desc, b |-> old.b, kept |-> old.kept]
      BY <3>1, TensorsAre
    <3>3. tensors' = [tensors EXCEPT ![t] = [old EXCEPT !.desc = desc, !.kept = TRUE]]
      BY <2>1, <3>1, <3>2
    <3>4. [old EXCEPT !.desc = desc, !.kept = TRUE] = [desc |-> desc, b |-> old.b, kept |-> TRUE]
      <4>1. PICK yes : yes = TRUE
        OBVIOUS
      <4>2. PICK r : r = [old EXCEPT !.desc = desc, !.kept = yes]
        OBVIOUS
      <4>3. r.desc = desc /\ r.b = old.b /\ r.kept = yes /\ r = [desc |-> r.desc, b |-> r.b, kept |-> r.kept]
        BY <3>2, <4>2
      <4> QED BY <4>1, <4>2, <4>3
    <3>5. tensors' = [tensors EXCEPT ![t] = new]
      BY <3>1, <3>3, <3>4
    <3> QED BY <3>1, <3>2, <3>5
  <2> QED BY <1>2, <2>1, <2>2, Redescribed
<1>4. CASE total # 0
  <2>1. PICK h, call, out : /\ h = Called(env) /\ call = [by |-> "noCopy", desc |-> desc, bytes |-> total]
                            /\ out = CreateNDTensorBuffer(h, call)
    OBVIOUS
  <2>2. Assign(t, desc, out)
    BY <1>1, <1>4, <2>1 DEF InitData
  <2>3. Sound(h, Held) /\ h.env.extra \in Int
    BY <2>1, CalledSound, CallsFit DEF BuffersInv, Owned
  <2>4. CallFits(call) /\ call.desc = desc
    BY <1>1, <1>2, <2>1 DEF CallFits, CallKind
  <2>5. Gives(Called(env), Held, desc, out)
    BY <2>1, <2>3, <2>4, CallGives
  <2> QED BY <1>2, <2>2, <2>5, Assigned
<1> QED BY <1>3, <1>4

LEMMA SetTensorDimensionKeeps ==
  ASSUME BuffersInv, NEW t \in Tensors, NEW desc, SetTensorDimension(t, desc)
  PROVE  BuffersInv'
<1>1. PICK d : d = [tensors[t].desc EXCEPT !.dims = desc.dims]
  OBVIOUS
<1>2. /\ tensors' = [tensors EXCEPT ![t].desc.dims = desc.dims, ![t].kept = TRUE]
      /\ ran' = NotRun /\ heap' = heap /\ mine' = mine
  BY DEF SetTensorDimension
<1>3. tensors' = [x \in Tensors |-> IF x = t THEN [desc |-> d, b |-> tensors[t].b, kept |-> TRUE] ELSE tensors[x]]
  <2>1. PICK old, new : old = tensors[t] /\ new = [desc |-> d, b |-> old.b, kept |-> TRUE]
    OBVIOUS
  <2>2. tensors = [x \in Tensors |-> tensors[x]] /\ old = [desc |-> old.desc, b |-> old.b, kept |-> old.kept]
    BY <2>1, TensorsAre
  <2>3. tensors' = [tensors EXCEPT ![t] = [old EXCEPT !.desc = d, !.kept = TRUE]]
    BY <1>1, <1>2, <2>1, <2>2
  <2>4. [old EXCEPT !.desc = d, !.kept = TRUE] = [desc |-> d, b |-> old.b, kept |-> TRUE]
    <3>1. PICK yes : yes = TRUE
      OBVIOUS
    <3>2. PICK r : r = [old EXCEPT !.desc = d, !.kept = yes]
      OBVIOUS
    <3>3. r.desc = d /\ r.b = old.b /\ r.kept = yes /\ r = [desc |-> r.desc, b |-> r.b, kept |-> r.kept]
      BY <2>2, <3>2
    <3> QED BY <3>1, <3>2, <3>3
  <2>5. tensors' = [tensors EXCEPT ![t] = new]
    BY <2>1, <2>3, <2>4
  <2> QED BY <2>1, <2>2, <2>5
<1> QED BY <1>2, <1>3, Redescribed

LEMMA DropKeeps ==
  ASSUME BuffersInv, NEW b \in mine, Drop(b)
  PROVE  BuffersInv'
<1>1. PICK g, H : g = Destroy(heap, b) /\ H = Held \ {b}
  OBVIOUS
<1>2. Done(g) /\ mine' = mine \ {b} /\ ran' = NotRun /\ tensors' = tensors
  BY <1>1 DEF Drop
<1>3. H \cup {b} = Held /\ b \notin H
  BY <1>1, HeldIs DEF HeldOf
<1>4. Sound(heap, H \cup {b}) /\ KindOf(heap, b) = "record"
  BY <1>3 DEF BuffersInv, Owned
<1>5. Sound(g, H) /\ Keeps(heap, g, H)
  BY <1>1, <1>3, <1>4, Destroyed
<1>6. Sound(heap', H) /\ heap'.mem = g.mem
  BY <1>2, <1>5, DoneSound
<1>7. \A t \in Tensors : tensors[t].b # 0 => tensors[t].b \in H
  BY <1>1, HeldIs DEF HeldOf, BuffersInv, Named
<1>8. Held' = H
  BY <1>1, <1>2, <1>7, HeldIs, HeldNext DEF HeldOf
<1>9. \A x \in H : heap'.mem[x] = heap.mem[x]
  BY <1>5, <1>6 DEF Keeps
<1>10. Owned'
  BY <1>3, <1>6, <1>8, <1>9 DEF BuffersInv, Owned, KindOf
<1>11. Named'
  BY <1>2 DEF BuffersInv, Named
<1>12. RunsConverted'
  BY <1>2 DEF RunsConverted, NotRun
<1>13. DimensionsAgree'
  BY <1>2, <1>7, <1>9 DEF BuffersInv, DimensionsAgree
<1> QED BY <1>10, <1>11, <1>12, <1>13 DEF BuffersInv

\* A run converts what it is given, or refuses.
LEMMA PreRunKeeps ==
  ASSUME BuffersInv, NEW env, NEW inputs, NEW outputs, PreRun(env, inputs, outputs),
         NEW c \in Held, outputs = <<c>>, \A i \in DOMAIN inputs : inputs[i] \in Held,
         \A h, res : /\ Sound(h, Held) /\ \A x \in Held : KindOf(h, x) = "record"
                     /\ res = HIAI_ChangeNDTensorBuffersHandleToTensorBuffers(h, inputs)
                     => Changed(h, Held, inputs, res),
         DOMAIN inputs \in SUBSET Nat, \A i \in DOMAIN inputs : 1 .. (i - 1) \subseteq DOMAIN inputs
  PROVE  BuffersInv'
<1>1. PICK h, in, out : /\ h = Called(env)
                        /\ in = HIAI_ChangeNDTensorBuffersHandleToTensorBuffers(h, inputs)
                        /\ out = HIAI_ChangeNDTensorBuffersHandleToTensorBuffers(in.heap, outputs)
  OBVIOUS
<1>2. PICK before : before = {b \in Held : heap.mem[b].legacy}
  OBVIOUS
<1>3. /\ Done(out.heap) /\ mine' = mine /\ tensors' = tensors
      /\ ran' = [ok |-> in.state # "failed" /\ out.state # "failed", lists |-> {inputs, outputs}, before |-> before]
  BY <1>1, <1>2 DEF PreRun
<1>4. Sound(h, Held) /\ h.mem = heap.mem
  BY <1>1, CalledSound DEF BuffersInv, Owned
<1>5. \A x \in Held : KindOf(h, x) = "record"
  BY <1>4 DEF BuffersInv, Owned, KindOf
<1>6. Changed(h, Held, inputs, in)
  BY <1>1, <1>4, <1>5
<1>7. Sound(in.heap, Held) /\ KindOf(in.heap, c) = "record"
  BY <1>5, <1>6 DEF Changed, Turned
<1>8. Changed(in.heap, Held, <<c>>, out)
  BY <1>1, <1>7, OneChanged
<1>9. Sound(out.heap, Held) /\ Turned(h, out.heap, Held) /\ Turned(in.heap, out.heap, Held)
  BY <1>6, <1>8, TurnedOn DEF Changed
<1>10. Sound(heap', Held) /\ heap'.mem = out.heap.mem
  BY <1>3, <1>9, DoneSound
<1>11. Held' = Held
  BY <1>3 DEF Held
<1>12. Owned'
  BY <1>5, <1>9, <1>10, <1>11 DEF Owned, Turned, KindOf
<1>13. Named'
  BY <1>3 DEF BuffersInv, Named
<1>14. DimensionsAgree'
  <2>1. \A t \in Tensors : tensors[t].b # 0 => tensors[t].b \in Held
    BY HeldIs DEF HeldOf
  <2>2. \A x \in Held : heap'.mem[x].desc = heap.mem[x].desc
    BY <1>4, <1>9, <1>10 DEF Turned
  <2> QED BY <1>3, <2>1, <2>2 DEF BuffersInv, DimensionsAgree
<1>15. RunsConverted'
  <2>1. SUFFICES ASSUME ran'.ok, NEW list \in {inputs, outputs}, NEW i \in DOMAIN list
                 PROVE  heap'.mem[list[i]].legacy \/ \E j \in 1 .. (i - 1) : list[j] \in ran'.before
    BY <1>3 DEF RunsConverted
  <2>2. in.state # "failed" /\ out.state # "failed" /\ ran'.before = before
    BY <1>3, <2>1
  <2>3. CASE list = inputs
    <3>1. CASE in.heap.mem[inputs[i]].legacy
      BY <1>9, <1>10, <2>3, <3>1 DEF Turned
    <3>2. CASE \E j \in 1 .. (i - 1) : h.mem[inputs[j]].legacy
      BY <1>2, <1>4, <2>2, <2>3, <3>2
    <3> QED BY <1>6, <2>2, <2>3, <3>1, <3>2 DEF Changed
  <2>4. CASE list = outputs
    <3>1. i = 1 /\ list[i] = c
      BY <2>4
    <3>2. out.heap.mem[c].legacy
      <4>1. PICK one : one = <<c>>
        OBVIOUS
      <4>2. 1 \in DOMAIN one /\ one[1] = c
        BY <4>1
      <4>3. out.heap.mem[one[1]].legacy \/ \E j \in 1 .. (1 - 1) : in.heap.mem[one[j]].legacy
        BY <1>8, <2>2, <4>1, <4>2 DEF Changed
      <4> QED BY <4>2, <4>3
    <3> QED BY <1>10, <3>1, <3>2
  <2> QED BY <2>3, <2>4
<1> QED BY <1>12, <1>13, <1>14, <1>15 DEF BuffersInv

LEMMA ConvertOneKeeps ==
  ASSUME BuffersInv, NEW env, NEW a \in Held, NEW c \in Held, PreRun(env, <<a>>, <<c>>)
  PROVE  BuffersInv'
<1>1. PICK inputs, outputs : inputs = <<a>> /\ outputs = <<c>>
  OBVIOUS
<1>2. DOMAIN inputs = {1} /\ inputs[1] = a
  BY <1>1
<1>3. \A h, res : /\ Sound(h, Held) /\ \A x \in Held : KindOf(h, x) = "record"
                  /\ res = HIAI_ChangeNDTensorBuffersHandleToTensorBuffers(h, inputs)
                  => Changed(h, Held, inputs, res)
  BY <1>1, OneChanged
<1>4. /\ \A i \in DOMAIN inputs : inputs[i] \in Held
      /\ DOMAIN inputs \in SUBSET Nat /\ \A i \in DOMAIN inputs : 1 .. (i - 1) \subseteq DOMAIN inputs
  BY <1>2
<1>5. PreRun(env, inputs, outputs)
  BY <1>1
<1> QED BY <1>1, <1>3, <1>4, <1>5, PreRunKeeps

LEMMA ConvertTwoKeeps ==
  ASSUME BuffersInv, NEW env, NEW a \in Held, NEW b \in Held, NEW c \in Held, PreRun(env, <<a, b>>, <<c>>)
  PROVE  BuffersInv'
<1>1. PICK inputs, outputs : inputs = <<a, b>> /\ outputs = <<c>>
  OBVIOUS
<1>2. DOMAIN inputs = {1, 2} /\ inputs[1] = a /\ inputs[2] = b
  BY <1>1
<1>3. \A h, res : /\ Sound(h, Held) /\ \A x \in Held : KindOf(h, x) = "record"
                  /\ res = HIAI_ChangeNDTensorBuffersHandleToTensorBuffers(h, inputs)
                  => Changed(h, Held, inputs, res)
  BY <1>1, TwoChanged
<1>4. /\ \A i \in DOMAIN inputs : inputs[i] \in Held
      /\ DOMAIN inputs \in SUBSET Nat /\ \A i \in DOMAIN inputs : 1 .. (i - 1) \subseteq DOMAIN inputs
  BY <1>2
<1>5. PreRun(env, inputs, outputs)
  BY <1>1
<1> QED BY <1>1, <1>3, <1>4, <1>5, PreRunKeeps

-----------------------------------------------------------------------------
(* The theorem *)

LEMMA InitHolds == Init => BuffersInv
<1> SUFFICES ASSUME Init PROVE BuffersInv
  OBVIOUS
<1>1. /\ heap = [mem |-> [b \in {1} |-> Block("application", Lent)], lost |-> {}, wrong |-> FALSE, env |-> Quiet]
      /\ mine = {} /\ ran = NotRun
      /\ tensors = [t \in Tensors |-> [desc |-> [dims |-> <<>>], b |-> 0, kept |-> FALSE]]
  BY DEF Init
<1>2. Held = {}
  BY <1>1 DEF Held
<1>3. DOMAIN heap.mem = {1} /\ heap.mem[1] = Block("application", Lent) /\ heap.lost = {} /\ ~heap.wrong
  BY <1>1
<1>4. BlockShaped(heap.mem[1]) /\ heap.mem[1].kind = "application" /\ heap.mem[1].size = Lent
  BY <1>3, BlockParts DEF Lent
<1>5. Shaped(heap)
  <2>1. IsFiniteSet({1})
    BY FS_Singleton
  <2>2. heap.mem = [b \in DOMAIN heap.mem |-> heap.mem[b]]
    BY <1>1
  <2>3. heap = [mem |-> heap.mem, lost |-> heap.lost, wrong |-> heap.wrong, env |-> heap.env]
    BY <1>1
  <2> QED BY <1>3, <2>1, <2>2, <2>3 DEF Shaped
<1>6. Heap(heap, {})
  BY <1>3, <1>4, <1>5 DEF Heap, KindOf
<1>7. Owned
  <2>1. Held \cup heap.lost = {} /\ Held \cap heap.lost = {}
    BY <1>2, <1>3
  <2> QED BY <1>2, <1>6, <2>1 DEF Owned, Sound
<1>8. Named
  BY <1>1 DEF Named
<1>9. RunsConverted
  BY <1>1 DEF RunsConverted, NotRun
<1>10. DimensionsAgree
  BY <1>1 DEF DimensionsAgree
<1> QED BY <1>7, <1>8, <1>9, <1>10 DEF BuffersInv

LEMMA NextHolds == InputsFit /\ BuffersInv /\ [Next]_vars => BuffersInv'
<1> SUFFICES ASSUME InputsFit, BuffersInv, [Next]_vars PROVE BuffersInv'
  OBVIOUS
<1>1. ASSUME NEW env \in Envs, NEW call \in Calls, Make(env, call) PROVE BuffersInv'
  BY <1>1, MakeKeeps
<1>2. ASSUME NEW env \in Envs, NEW t \in Tensors, NEW d \in Descs, InitData(env, t, d) PROVE BuffersInv'
  BY <1>2, InitDataKeeps
<1>3. ASSUME NEW env \in Envs, NEW t \in Tensors, NEW d \in Descs, Init4D(env, t, d) PROVE BuffersInv'
  BY <1>3, Init4DKeeps
<1>4. ASSUME NEW env \in Envs, NEW i \in Images, MakeImage(env, i) PROVE BuffersInv'
  BY <1>4, MakeImageKeeps
<1>5. ASSUME NEW env \in Envs, NEW i \in Images, NEW t \in Tensors, InitImage(env, t, i) PROVE BuffersInv'
  BY <1>5, InitImageKeeps
<1>6. ASSUME NEW env \in Envs, NEW a \in Held, NEW c \in Held, PreRun(env, <<a>>, <<c>>) PROVE BuffersInv'
  BY <1>6, ConvertOneKeeps
<1>7. ASSUME NEW env \in Envs, NEW a \in Held, NEW b \in Held, NEW c \in Held, PreRun(env, <<a, b>>, <<c>>)
      PROVE BuffersInv'
  BY <1>7, ConvertTwoKeeps
<1>8. ASSUME NEW b \in mine, Drop(b) PROVE BuffersInv'
  BY <1>8, DropKeeps
<1>9. ASSUME NEW t \in Tensors, NEW d \in Descs, SetTensorDimension(t, d) PROVE BuffersInv'
  BY <1>9, SetTensorDimensionKeeps
<1>10. CASE UNCHANGED vars
  BY <1>10 DEF vars, BuffersInv, Owned, Named, RunsConverted, DimensionsAgree, Held
<1> QED BY <1>1, <1>2, <1>3, <1>4, <1>5, <1>6, <1>7, <1>8, <1>9, <1>10 DEF Next

LEMMA InvSuffices == BuffersInv => BuffersSound
<1> SUFFICES ASSUME BuffersInv PROVE BuffersSound
  OBVIOUS
<1>1. PICK R : R = Held \cup heap.lost
  OBVIOUS
<1>2. /\ Heap(heap, R) /\ Shaped(heap) /\ ~heap.wrong /\ 1 \in DOMAIN heap.mem /\ R \subseteq DOMAIN heap.mem
      /\ 0 \notin DOMAIN heap.mem /\ heap.mem[1].kind = "application"
      /\ \A b \in R : Whole(heap, b)
      /\ \A x \in DOMAIN heap.mem : x # 1 => \E b \in R : x \in Parts(heap, b)
  BY <1>1 DEF BuffersInv, Owned, Sound, Heap, Shaped, KindOf
<1>3. ReleasedRightly
  BY <1>2 DEF ReleasedRightly
<1>4. NothingLost
  <2>1. SUFFICES ASSUME NEW x \in DOMAIN heap.mem, x # 1 PROVE x \in Reached(R)
    BY <1>1 DEF NothingLost
  <2>2. PICK b \in R : x \in Parts(heap, b)
    BY <1>2, <2>1
  <2>3. x \in R \cup UNION {Behind(a) : a \in R}
    <3>1. x # b => x \in Behind(b)
      BY <1>2, <2>2 DEF Parts, Behind
    <3> QED BY <3>1
  <2> QED BY <2>3 DEF Reached
<1>5. \A b \in Records : b \in R /\ RecordWhole(heap, heap.mem[b])
  <2>1. SUFFICES ASSUME NEW b \in Records PROVE b \in R /\ RecordWhole(heap, heap.mem[b])
    OBVIOUS
  <2>2. b \in DOMAIN heap.mem /\ b # 1 /\ heap.mem[b].kind = "record"
    BY <1>2 DEF Records
  <2>3. PICK a \in R : b \in Parts(heap, a)
    BY <1>2, <2>2
  <2>4. b = a
    BY <1>2, <2>2, <2>3, PartsExist DEF KindOf
  <2> QED BY <1>2, <2>2, <2>4 DEF Whole
<1>6. HeldOnce
  <2>1. ASSUME NEW a \in Records \ heap.lost, NEW b \in Records \ heap.lost, a # b
        PROVE  (Behind(a) \cap Behind(b)) \ {1} = {}
    <3>1. Parts(heap, a) \cap Parts(heap, b) = {}
      BY <1>2, <1>5, <2>1 DEF Heap
    <3> QED BY <3>1 DEF Parts, Behind
  <2>2. \A t \in Tensors : tensors[t].b \notin mine
    BY DEF BuffersInv, Named
  <2> QED BY <2>1, <2>2 DEF HeldOnce
<1>7. Backed
  <2>1. SUFFICES ASSUME NEW b \in Records
        PROVE LET r == heap.mem[b]
              IN /\ {r.data} \subseteq DOMAIN heap.mem /\ Size(heap, r.data) >= r.size
                 /\ r.handle # 0 => heap.mem[r.handle].kind = (IF r.legacy THEN "tensor" ELSE "nd")
                                    /\ heap.mem[r.handle].data = r.data
                 /\ GetFd(heap, b) # -1 => ~r.legacy \/ Has("tensor", "Fd")
    BY DEF Backed
  <2>2. RecordWhole(heap, heap.mem[b])
    BY <1>5
  <2>3. GetFd(heap, b) # -1 => ~heap.mem[b].legacy \/ Has("tensor", "Fd")
    BY DEF GetFd
  <2> QED BY <2>2, <2>3 DEF RecordWhole, Size, KindOf
<1> QED BY <1>3, <1>4, <1>6, <1>7 DEF BuffersInv, BuffersSound

\* Whatever the ROM exports and refuses, whichever allocation fails and however often
\* buffers are converted: no block is released twice or by the functions of the other
\* generation, none is left that nobody refers to, no two buffers share one, each has the
\* memory it says, a run on an old runtime gets objects of the first generation, and an
\* AiTensor has the dimensions of its buffer.
THEOREM BuffersAreSound == Spec => []BuffersSound
<1>1. Init => BuffersInv
  BY InitHolds
<1>2. BuffersInv /\ [Next]_vars => BuffersInv'
  BY NextHolds, BufferInputs
<1>3. BuffersInv => BuffersSound
  BY InvSuffices
<1> QED BY <1>1, <1>2, <1>3, PTL DEF Spec

=============================================================================
