------------------- MODULE RecursiveAggregator_proofs -------------------
(***************************************************************************)
(* What holds of the recursive aggregator for any throughputs of its       *)
(* sub-aggregators, any number and size of batches and any removals.       *)
(*                                                                         *)
(* Every id that is in use stands for a block of leaves of one batch (the  *)
(* function K): what waits, is away or was received under the id is the    *)
(* layer of the tree over that block, the children of an id stand for the  *)
(* halves of its block, and the ids above all others for whole batches.    *)
(* The blocks of the ids under which there are proofs tile the batches     *)
(* without an answer, so that every leaf is there, and once.               *)
(***************************************************************************)
EXTENDS RecursiveAggregator, SequenceLemmas, FiniteSetTheorems

-----------------------------------------------------------------------------
(* Blocks of leaves, and batches that stand for them. *)

Blocks == [batch : Nat, from : Nat, size : Nat]

Halves(whole, left, right) ==
  /\ left.batch = whole.batch /\ right.batch = whole.batch
  /\ left.from = whole.from /\ right.from = whole.from + left.size
  /\ left.size = right.size /\ whole.size = left.size + right.size

LeavesOf(block) == [i \in 1..block.size |-> Leaf(block.batch, block.from + i)]

\* The proofs stand for equal parts of the block, in order.
Stands(block, proofs) ==
  \E w, s \in Nat \ {0} :
    IsPowerOfTwo(w) /\ w * s = block.size /\ proofs = Nodes(LeavesOf(block), w, s)

LEMMA StandsLength ==
  ASSUME NEW k, NEW proofs, Stands(k, proofs)
  PROVE  IsSeq(proofs) /\ Len(proofs) \in Nat \ {0} /\ IsPowerOfTwo(Len(proofs))
BY NodesLength DEF Stands

LEMMA HalvesAre ==
  ASSUME NEW k \in Blocks, NEW l \in Blocks, NEW r \in Blocks, Halves(k, l, r)
  PROVE  AreHalves(LeavesOf(k), LeavesOf(l), LeavesOf(r), l.size)
<1> DEFINE n == l.size
<1>1. /\ n \in Nat /\ k.from \in Nat /\ r.size = n /\ k.size = n + n /\ r.from = k.from + n
      /\ l.from = k.from /\ l.batch = k.batch /\ r.batch = k.batch
  BY DEF Halves, Blocks
<1> HIDE DEF n
<1>2. ASSUME NEW i \in 1..n
      PROVE  LeavesOf(l)[i] = LeavesOf(k)[i] /\ LeavesOf(r)[i] = LeavesOf(k)[n + i]
  <2>1. i \in 1..k.size /\ n + i \in 1..k.size /\ i \in 1..l.size /\ i \in 1..r.size
    BY <1>1 DEF n
  <2>2. /\ LeavesOf(l)[i] = Leaf(k.batch, k.from + i)
        /\ LeavesOf(r)[i] = Leaf(k.batch, r.from + i)
        /\ LeavesOf(k)[i] = Leaf(k.batch, k.from + i)
        /\ LeavesOf(k)[n + i] = Leaf(k.batch, k.from + (n + i))
    BY <1>1, <2>1 DEF LeavesOf
  <2>3. r.from + i = k.from + (n + i)
    BY <1>1
  <2>4. QED
    BY <2>2, <2>3
<1>3. QED
  BY <1>2 DEF AreHalves, n

\* A batch splits into two that stand for the halves of its block.
LEMMA StandsSplit ==
  ASSUME NEW k \in Blocks, NEW proofs, Stands(k, proofs), Len(proofs) > 1
  PROVE  LET half == Len(proofs) \div 2
         IN  \E l, r \in Blocks :
               /\ Halves(k, l, r)
               /\ Stands(l, SubSeq(proofs, 1, half))
               /\ Stands(r, SubSeq(proofs, half + 1, 2 * half))
               /\ Len(SubSeq(proofs, 1, half)) = half
               /\ Len(SubSeq(proofs, half + 1, 2 * half)) = half
               /\ Len(proofs) = 2 * half /\ half \in Nat \ {0}
<1>1. PICK w \in Nat \ {0}, s \in Nat \ {0} :
        IsPowerOfTwo(w) /\ w * s = k.size /\ proofs = Nodes(LeavesOf(k), w, s)
  BY DEF Stands
<1>2. Len(proofs) = w
  BY <1>1, NodesLength
<1>3. IsBatchSize(w)
  BY <1>1, <1>2 DEF IsBatchSize
<1>4. PICK v \in Nat \ {0} : v = w \div 2 /\ w = 2 * v /\ IsPowerOfTwo(v)
  BY <1>3, HalfOfPower
<1> DEFINE n == v * s
           l == [batch |-> k.batch, from |-> k.from, size |-> n]
           r == [batch |-> k.batch, from |-> k.from + n, size |-> n]
           a == Nodes(LeavesOf(l), v, s)
           b == Nodes(LeavesOf(r), v, s)
<1>5. n \in Nat /\ k.size = n + n
  BY <1>1, <1>4
<1>6. l \in Blocks /\ r \in Blocks /\ Halves(k, l, r) /\ l.size = n /\ r.size = n
  <2> HIDE DEF n
  <2>1. QED
    BY <1>5 DEF Halves, Blocks
<1>7. Stands(l, a) /\ Stands(r, b)
  BY <1>4, <1>6 DEF Stands
<1>8. /\ IsSeq(a) /\ IsSeq(b) /\ Len(a) = v /\ Len(b) = v
  BY NodesLength
<1> HIDE DEF a, b, l, r, n
<1>9. proofs = a \o b
  <2>2. v \in Nat /\ s \in Nat
    OBVIOUS
  <2>3. AreHalves(LeavesOf(k), LeavesOf(l), LeavesOf(r), v * s)
    BY <1>6, HalvesAre DEF n
  <2>4. IsConcat(Nodes(LeavesOf(k), 2 * v, s), a, b)
    BY <2>2, <2>3, NodesJoin DEF a, b
  <2>5. IsConcat(Nodes(LeavesOf(k), w, s), a, b)
    BY <1>4, <2>4
  <2>6. QED
    BY <1>1, <2>5 DEF IsConcat
<1>10. SubSeq(proofs, 1, v) = a /\ SubSeq(proofs, v + 1, 2 * v) = b
  <2>1. SubSeq(a \o b, 1, Len(a)) = a /\ SubSeq(a \o b, Len(a) + 1, Len(a) + Len(b)) = b
    BY <1>8, SubSeqOf
  <2>2. v + v = 2 * v
    OBVIOUS
  <2>3. QED
    BY <1>8, <1>9, <2>1, <2>2
<1>11. Len(proofs) \div 2 = v /\ Len(proofs) = 2 * v
  BY <1>2, <1>4
<1>12. QED
  BY <1>6, <1>7, <1>8, <1>10, <1>11

LEMMA StandsJoin ==
  ASSUME NEW k \in Blocks, NEW l \in Blocks, NEW r \in Blocks, Halves(k, l, r),
         NEW a, NEW b, Stands(l, a), Stands(r, b), Len(a) = Len(b)
  PROVE  Stands(k, a \o b) /\ Len(a \o b) = Len(a) + Len(b)
<1>1. PICK v \in Nat \ {0}, s \in Nat \ {0} :
        IsPowerOfTwo(v) /\ v * s = l.size /\ a = Nodes(LeavesOf(l), v, s)
  BY DEF Stands
<1>2. PICK u \in Nat \ {0}, t \in Nat \ {0} :
        IsPowerOfTwo(u) /\ u * t = r.size /\ b = Nodes(LeavesOf(r), u, t)
  BY DEF Stands
<1>3. u = v /\ Len(a) = v /\ Len(b) = v
  BY <1>1, <1>2, NodesLength
<1>4. t = s
  <2>1. v * t = v * s
    BY <1>1, <1>2, <1>3 DEF Halves
  <2>2. QED
    BY <2>1
<1>5. IsPowerOfTwo(2 * v)
  BY <1>1, DoublePower
<1>6. (2 * v) * s = k.size
  <2>1. k.size = l.size + l.size /\ (2 * v) * s = v * s + v * s
    BY DEF Halves
  <2>2. QED
    BY <1>1, <2>1
<1>7. Nodes(LeavesOf(k), 2 * v, s) = a \o b
  <2>1. AreHalves(LeavesOf(k), LeavesOf(l), LeavesOf(r), v * s)
    BY <1>1, HalvesAre
  <2>2. v \in Nat /\ s \in Nat
    OBVIOUS
  <2>3. IsConcat(Nodes(LeavesOf(k), 2 * v, s), Nodes(LeavesOf(l), v, s), Nodes(LeavesOf(r), v, s))
    BY <2>1, <2>2, NodesJoin
  <2>4. QED
    BY <1>1, <1>2, <1>3, <1>4, <2>3 DEF IsConcat
<1>8. 2 * v \in Nat \ {0}
  OBVIOUS
<1>9. Stands(k, a \o b)
  BY <1>5, <1>6, <1>7, <1>8 DEF Stands
<1>10. IsSeq(a) /\ IsSeq(b)
  BY StandsLength
<1>11. QED
  BY <1>9, <1>10, ConcatIsSeq

\* A layer of one proof.
LEMMA StandsOne ==
  ASSUME NEW k \in Blocks, NEW proofs, Stands(k, proofs)
  PROVE  /\ Nodes(LeavesOf(k), 1, k.size) = <<LeavesOf(k)>>
         /\ Len(proofs) = 1 => proofs = <<LeavesOf(k)>>
<1> DEFINE F == LeavesOf(k)
           n == k.size
<1>1. F = [i \in 1..n |-> F[i]]
  BY DEF LeavesOf
<1>2. n \in Nat
  BY DEF Blocks
<1> HIDE DEF F, n
<1>3. Nodes(F, 1, n) = [j \in 1..1 |-> [i \in 1..n |-> F[(j - 1) * n + i]]]
  BY DEF Nodes
<1>4. \A j \in 1..1 : [i \in 1..n |-> F[(j - 1) * n + i]] = F
  <2>1. \A j \in 1..1 : \A i \in 1..n : (j - 1) * n + i = i
    BY <1>2
  <2>2. QED
    BY <1>1, <2>1
<1>5. Nodes(F, 1, n) = [j \in 1..1 |-> F]
  BY <1>3, <1>4
<1>6. Nodes(F, 1, n) = <<F>>
  BY <1>5
<1>7. ASSUME Len(proofs) = 1 PROVE proofs = <<F>>
  <2>1. PICK w \in Nat \ {0}, s \in Nat \ {0} : w * s = n /\ proofs = Nodes(F, w, s)
    BY DEF Stands, F, n
  <2>2. w = 1
    BY <1>7, <2>1, NodesLength
  <2>3. s = n
    BY <2>1, <2>2
  <2>4. QED
    BY <1>6, <2>1, <2>2, <2>3
<1>8. QED
  BY <1>6, <1>7 DEF F, n

\* The root of a batch stands for its block.
LEMMA StandsRoot ==
  ASSUME NEW k \in Blocks, NEW proofs, Stands(k, proofs)
  PROVE  Aggregate(proofs) = LeavesOf(k) /\ Stands(k, <<LeavesOf(k)>>)
<1>1. PICK w \in Nat \ {0}, s \in Nat \ {0} :
        IsPowerOfTwo(w) /\ w * s = k.size /\ proofs = Nodes(LeavesOf(k), w, s)
  BY DEF Stands
<1>2. Aggregate(proofs) = NodeOver(LeavesOf(k), w * s)
  <2>1. s \in Nat
    OBVIOUS
  <2>2. Aggregate(Nodes(LeavesOf(k), w, s)) = NodeOver(LeavesOf(k), w * s)
    BY <1>1, <2>1, RootOfNodes
  <2>3. QED
    BY <1>1, <2>2
<1>3. NodeOver(LeavesOf(k), k.size) = LeavesOf(k)
  BY DEF NodeOver, LeavesOf
<1>4. k.size \in Nat \ {0}
  <2>1. w * s # 0
    OBVIOUS
  <2>2. QED
    BY <1>1, <2>1 DEF Blocks
<1>5. 1 * k.size = k.size /\ 1 \in Nat \ {0}
  BY <1>4
<1>6. Stands(k, Nodes(LeavesOf(k), 1, k.size))
  BY <1>4, <1>5, OneIsPower DEF Stands
<1>7. QED
  BY <1>1, <1>2, <1>3, <1>6, StandsOne

LEMMA StandsBatch ==
  ASSUME NEW k, NEW proofs, Stands(k, proofs), NEW p \in ToSet(proofs)
  PROVE  BatchesIn(p) \subseteq {k.batch}
<1>1. PICK w \in Nat \ {0}, s \in Nat \ {0} :
        IsPowerOfTwo(w) /\ w * s = k.size /\ proofs = Nodes(LeavesOf(k), w, s)
  BY DEF Stands
<1>2. /\ IsSeq(proofs) /\ Len(proofs) = w
      /\ \A j \in 1..w : proofs[j] = NodeAt(LeavesOf(k), j, s)
  BY <1>1, NodesLength
<1>3. PICK j \in 1..w : p = NodeAt(LeavesOf(k), j, s)
  BY <1>2, IsSeqRange
<1>4. ASSUME NEW i \in 1..s PROVE p[i] = Leaf(k.batch, k.from + ((j - 1) * s + i))
  <2>1. (j - 1) * s + i \in 1..(w * s)
    <3>1. (w - j) * s \in Nat /\ (j - 1) * s \in Nat
      OBVIOUS
    <3>2. w * s = (w - j) * s + ((j - 1) * s + s)
      OBVIOUS
    <3>3. QED
      BY <3>1, <3>2
  <2>2. p[i] = LeavesOf(k)[(j - 1) * s + i]
    BY <1>3 DEF NodeAt
  <2>3. QED
    BY <1>1, <2>1, <2>2 DEF LeavesOf
<1>5. DOMAIN p = 1..s
  BY <1>3 DEF NodeAt
<1>6. ToSet(p) = {p[i] : i \in 1..s}
  BY <1>5 DEF ToSet
<1>7. QED
  BY <1>4, <1>6 DEF BatchesIn, Leaf

\* The proofs that stand for a block hold each of its leaves in one place.
LEMMA StandsPlaces ==
  ASSUME NEW k \in Blocks, NEW proofs, Stands(k, proofs)
  PROVE  /\ \A j \in DOMAIN proofs : \A n \in DOMAIN proofs[j] :
              \E i \in 1..k.size : proofs[j][n] = Leaf(k.batch, k.from + i)
         /\ \A i \in 1..k.size : \E j \in DOMAIN proofs : \E n \in DOMAIN proofs[j] :
              proofs[j][n] = Leaf(k.batch, k.from + i)
         /\ \A j, l \in DOMAIN proofs : \A n \in DOMAIN proofs[j], m \in DOMAIN proofs[l] :
              proofs[j][n] = proofs[l][m] => j = l /\ n = m
<1>1. PICK w \in Nat \ {0}, s \in Nat \ {0} :
        IsPowerOfTwo(w) /\ w * s = k.size /\ proofs = Nodes(LeavesOf(k), w, s)
  BY DEF Stands
<1>2. /\ IsSeq(proofs) /\ Len(proofs) = w
      /\ \A j \in 1..w : proofs[j] = NodeAt(LeavesOf(k), j, s)
  BY <1>1, NodesLength
<1>3. DOMAIN proofs = 1..w /\ \A j \in 1..w : DOMAIN proofs[j] = 1..s
  <2>1. DOMAIN proofs = 1..w
    BY <1>2, IsSeqLength
  <2>2. QED
    BY <1>2, <2>1 DEF NodeAt
<1>4. k.from \in Nat /\ k.size \in Nat
  BY DEF Blocks
<1>5. ASSUME NEW j \in 1..w, NEW n \in 1..s
      PROVE  /\ (j - 1) * s + n \in 1..k.size
             /\ proofs[j][n] = Leaf(k.batch, k.from + ((j - 1) * s + n))
  <2>1. (j - 1) * s + n \in 1..(w * s)
    <3>1. (w - j) * s \in Nat /\ (j - 1) * s \in Nat
      OBVIOUS
    <3>2. w * s = (w - j) * s + ((j - 1) * s + s)
      OBVIOUS
    <3>3. QED
      BY <3>1, <3>2
  <2>2. proofs[j][n] = LeavesOf(k)[(j - 1) * s + n]
    BY <1>2 DEF NodeAt
  <2>3. QED
    BY <1>1, <2>1, <2>2 DEF LeavesOf
<1>6. \A j \in DOMAIN proofs : \A n \in DOMAIN proofs[j] :
        \E i \in 1..k.size : proofs[j][n] = Leaf(k.batch, k.from + i)
  BY <1>3, <1>5
<1>7. ASSUME NEW i \in 1..k.size
      PROVE  \E j \in DOMAIN proofs : \E n \in DOMAIN proofs[j] :
               proofs[j][n] = Leaf(k.batch, k.from + i)
  <2>1. PICK j \in 1..w, n \in 1..s : i = (j - 1) * s + n
    <3>1. s \in Nat /\ w \in Nat /\ i \in 1..(w * s)
      BY <1>1
    <3>2. QED
      BY <3>1, GridPlace
  <2>2. proofs[j][n] = Leaf(k.batch, k.from + i)
    BY <1>5, <2>1
  <2>3. QED
    BY <1>3, <2>2
<1>8. ASSUME NEW j \in DOMAIN proofs, NEW l \in DOMAIN proofs,
             NEW n \in DOMAIN proofs[j], NEW m \in DOMAIN proofs[l], proofs[j][n] = proofs[l][m]
      PROVE  j = l /\ n = m
  <2>1. j \in 1..w /\ l \in 1..w /\ n \in 1..s /\ m \in 1..s
    BY <1>3
  <2>2. PICK x, y : x = (j - 1) * s + n /\ y = (l - 1) * s + m
    OBVIOUS
  <2>3. x \in 1..k.size /\ y \in 1..k.size
    BY <1>5, <2>1, <2>2
  <2>4. Leaf(k.batch, k.from + x) = Leaf(k.batch, k.from + y)
    BY <1>5, <1>8, <2>1, <2>2
  <2>5. k.from + x = k.from + y
    BY <2>4 DEF Leaf
  <2>6. x = y
    BY <1>4, <2>3, <2>5
  <2>7. j \in Nat \ {0} /\ l \in Nat \ {0} /\ s \in Nat
    BY <2>1
  <2>8. QED
    BY <2>1, <2>2, <2>6, <2>7, GridOnce
<1>9. QED
  BY <1>6, <1>7, <1>8

\* They have leaves of their batch.
LEMMA StandsTouches ==
  ASSUME NEW k \in Blocks, NEW proofs, Stands(k, proofs)
  PROVE  \E p \in ToSet(proofs) : k.batch \in BatchesIn(p)
<1>1. 1 \in 1..k.size
  <2>1. PICK w \in Nat \ {0}, s \in Nat \ {0} : w * s = k.size
    BY DEF Stands
  <2>2. w * s \in Nat /\ w * s # 0
    OBVIOUS
  <2>3. QED
    BY <2>1, <2>2
<1>2. PICK j \in DOMAIN proofs : \E n \in DOMAIN proofs[j] : proofs[j][n] = Leaf(k.batch, k.from + 1)
  BY <1>1, StandsPlaces
<1>3. PICK n \in DOMAIN proofs[j] : proofs[j][n] = Leaf(k.batch, k.from + 1)
  BY <1>2
<1>4. Leaf(k.batch, k.from + 1) \in ToSet(proofs[j]) /\ Leaf(k.batch, k.from + 1)[1] = k.batch
  BY <1>3 DEF ToSet, Leaf
<1>5. k.batch \in BatchesIn(proofs[j]) /\ proofs[j] \in ToSet(proofs)
  BY <1>4 DEF BatchesIn, ToSet
<1>6. QED
  BY <1>5

\* The batch that the caller pushes.
LEMMA StandsPush ==
  ASSUME NEW b \in Nat, NEW n \in Nat, IsBatchSize(n)
  PROVE  LET k == [batch |-> b, from |-> 0, size |-> n]
         IN  k \in Blocks /\ LeavesOf(k) = Leaves(b, n) /\ Stands(k, BatchOf(Leaves(b, n)))
<1> DEFINE k == [batch |-> b, from |-> 0, size |-> n]
<1>1. k \in Blocks /\ k.batch = b /\ k.from = 0 /\ k.size = n
  BY DEF Blocks
<1> HIDE DEF k
<1>2. LeavesOf(k) = Leaves(b, n)
  <2>1. \A i \in 1..n : k.from + i = i
    BY <1>1
  <2>2. QED
    BY <1>1, <2>1 DEF LeavesOf, Leaves
<1>3. n \in Nat \ {0} /\ IsPowerOfTwo(n) /\ n * 1 = k.size
  BY <1>1 DEF IsBatchSize
<1>4. Stands(k, BatchOf(Leaves(b, n)))
  <2>1. BatchOf(Leaves(b, n)) = Nodes(LeavesOf(k), n, 1)
    BY <1>2, NodesOfLeaves
  <2>2. QED
    BY <1>3, <2>1 DEF Stands
<1>5. QED
  BY <1>1, <1>2, <1>4 DEF k

Whole(b, leaves) == [batch |-> b, from |-> 0, size |-> Len(leaves)]

-----------------------------------------------------------------------------
(* Blocks that tile batches. *)

Apart(k, l) == k.batch = l.batch => k.from + k.size <= l.from \/ l.from + l.size <= k.from
Covers(k, b, i) == k.batch = b /\ k.from < i /\ i <= k.from + k.size

\* The blocks of what is held lie in batches that are open, no two share a leaf, and
\* every leaf of an open batch of which nothing is lost is in one.
Tiles(K, held, leaves, open, lost) ==
  /\ \A q \in held : /\ K[q] \in Blocks /\ K[q].size # 0 /\ K[q].batch \in open
                     /\ K[q].from + K[q].size <= Len(leaves[K[q].batch])
  /\ \A q, r \in held : q # r => Apart(K[q], K[r])
  /\ \A b \in open \ lost : \A i \in 1..Len(leaves[b]) : \E q \in held : Covers(K[q], b, i)

\* A new batch is held as a whole.
LEMMA TilesNew ==
  ASSUME NEW K, NEW held, NEW leaves, NEW open, NEW lost, Tiles(K, held, leaves, open, lost),
         NEW L, \A q \in held : L[q] = K[q],
         NEW p, p \notin held, NEW b, b \notin open, L[p] \in Blocks,
         NEW now, \A a \in open : now[a] = leaves[a],
         L[p] = Whole(b, now[b]), Len(now[b]) \in Nat \ {0}
  PROVE  Tiles(L, held \cup {p}, now, open \cup {b}, lost)
<1>1. L[p].batch = b /\ L[p].from = 0 /\ L[p].size = Len(now[b]) /\ L[p].size \in Nat \ {0}
  BY DEF Whole
<1>2. \A q \in held : /\ L[q] = K[q] /\ K[q] \in Blocks /\ K[q].size # 0 /\ K[q].batch \in open
                      /\ K[q].batch # b /\ now[K[q].batch] = leaves[K[q].batch]
                      /\ K[q].from + K[q].size <= Len(leaves[K[q].batch])
  BY DEF Tiles
<1>3. ASSUME NEW q \in held \cup {p}
      PROVE  /\ L[q] \in Blocks /\ L[q].size # 0 /\ L[q].batch \in open \cup {b}
             /\ L[q].from + L[q].size <= Len(now[L[q].batch])
  <2>1. CASE q = p
    BY <1>1, <2>1
  <2>2. CASE q # p
    BY <1>2, <2>2
  <2>3. QED
    BY <2>1, <2>2
<1>4. ASSUME NEW q \in held \cup {p}, NEW r \in held \cup {p}, q # r PROVE Apart(L[q], L[r])
  <2>1. CASE q = p \/ r = p
    BY <1>1, <1>2, <1>4, <2>1 DEF Apart
  <2>2. CASE q # p /\ r # p
    BY <1>2, <1>4, <2>2 DEF Tiles
  <2>3. QED
    BY <2>1, <2>2
<1>5. ASSUME NEW a \in (open \cup {b}) \ lost, NEW i \in 1..Len(now[a])
      PROVE  \E q \in held \cup {p} : Covers(L[q], a, i)
  <2>1. CASE a = b
    <3>1. Covers(L[p], a, i)
      BY <1>1, <1>5, <2>1 DEF Covers
    <3>2. QED
      BY <3>1
  <2>2. CASE a # b
    <3>1. a \in open \ lost /\ i \in 1..Len(leaves[a])
      BY <1>5, <2>2
    <3>2. PICK q \in held : Covers(K[q], a, i)
      BY <3>1 DEF Tiles
    <3>3. QED
      BY <1>2, <3>2
  <2>3. QED
    BY <2>1, <2>2
<1>6. QED
  BY <1>3, <1>4, <1>5 DEF Tiles

\* A block is split.
LEMMA TilesSplit ==
  ASSUME NEW K, NEW held, NEW leaves, NEW open, NEW lost, Tiles(K, held, leaves, open, lost),
         NEW L, \A q \in held : L[q] = K[q],
         NEW p \in held, NEW l, l \notin held, NEW r, r \notin held, l # r,
         L[l] \in Blocks, L[r] \in Blocks, Halves(K[p], L[l], L[r])
  PROVE  Tiles(L, (held \ {p}) \cup {l, r}, leaves, open, lost)
<1>1. /\ K[p] \in Blocks /\ K[p].size # 0 /\ K[p].batch \in open
      /\ K[p].from + K[p].size <= Len(leaves[K[p].batch])
  BY DEF Tiles
<1>2. PICK b, f, n : b = K[p].batch /\ f = K[p].from /\ n = L[l].size
  OBVIOUS
<1>3. /\ f \in Nat /\ n \in Nat \ {0} /\ K[p].size = n + n
      /\ L[l].batch = b /\ L[l].from = f /\ L[l].size = n
      /\ L[r].batch = b /\ L[r].from = f + n /\ L[r].size = n
  BY <1>1, <1>2 DEF Halves, Blocks
<1>4. \A q \in held : /\ L[q] = K[q] /\ K[q] \in Blocks /\ K[q].size # 0 /\ K[q].batch \in open
                      /\ K[q].from + K[q].size <= Len(leaves[K[q].batch])
                      /\ K[q].from \in Nat /\ K[q].size \in Nat
  BY DEF Tiles, Blocks
<1>5. b \in open /\ f + (n + n) <= Len(leaves[b])
  BY <1>1, <1>2, <1>3
<1>6. ASSUME NEW q \in (held \ {p}) \cup {l, r}
      PROVE  /\ L[q] \in Blocks /\ L[q].size # 0 /\ L[q].batch \in open
             /\ L[q].from + L[q].size <= Len(leaves[L[q].batch])
  <2>1. CASE q = l
    <3>1. f + n <= Len(leaves[b])
      BY <1>3, <1>5
    <3>2. QED
      BY <1>3, <1>5, <2>1, <3>1
  <2>2. CASE q = r
    <3>1. (f + n) + n <= Len(leaves[b])
      BY <1>3, <1>5
    <3>2. QED
      BY <1>3, <1>5, <2>2, <3>1
  <2>3. CASE q \in held
    BY <1>4, <2>3
  <2>4. QED
    BY <2>1, <2>2, <2>3
<1>7. ASSUME NEW q \in held \ {p} PROVE Apart(L[q], L[l]) /\ Apart(L[q], L[r])
                                         /\ Apart(L[l], L[q]) /\ Apart(L[r], L[q])
  <2>1. Apart(K[q], K[p])
    BY DEF Tiles
  <2>2. PICK g, m : g = K[q].from /\ m = K[q].size
    OBVIOUS
  <2>3. g \in Nat /\ m \in Nat /\ L[q].from = g /\ L[q].size = m /\ L[q].batch = K[q].batch
    BY <1>4, <2>2
  <2>4. K[q].batch = b => g + m <= f \/ f + (n + n) <= g
    BY <1>2, <1>3, <2>1, <2>2 DEF Apart
  <2>5. K[q].batch = b => /\ g + m <= f \/ f + n <= g
                          /\ g + m <= f + n \/ (f + n) + n <= g
    BY <1>3, <2>3, <2>4
  <2>6. QED
    BY <1>3, <2>3, <2>5 DEF Apart
<1>8. Apart(L[l], L[r]) /\ Apart(L[r], L[l])
  BY <1>3 DEF Apart
<1>9. ASSUME NEW q \in (held \ {p}) \cup {l, r}, NEW t \in (held \ {p}) \cup {l, r}, q # t
      PROVE  Apart(L[q], L[t])
  <2>1. CASE q \in {l, r} \/ t \in {l, r}
    BY <1>7, <1>8, <1>9, <2>1
  <2>2. CASE q \in held /\ t \in held
    BY <1>4, <1>9, <2>2 DEF Tiles
  <2>3. QED
    BY <2>1, <2>2
<1>10. ASSUME NEW a \in open \ lost, NEW i \in 1..Len(leaves[a])
       PROVE  \E q \in (held \ {p}) \cup {l, r} : Covers(L[q], a, i)
  <2>1. PICK q \in held : Covers(K[q], a, i)
    BY DEF Tiles
  <2>2. CASE q = p
    <3>1. a = b /\ f < i /\ i <= f + (n + n) /\ i \in Int
      BY <1>2, <1>3, <2>1, <2>2 DEF Covers
    <3>2. i <= f + n \/ (f + n < i /\ i <= (f + n) + n)
      BY <1>3, <3>1
    <3>3. Covers(L[l], a, i) \/ Covers(L[r], a, i)
      BY <1>3, <3>1, <3>2 DEF Covers
    <3>4. QED
      BY <3>3
  <2>3. CASE q # p
    BY <1>4, <2>1, <2>3
  <2>4. QED
    BY <2>2, <2>3
<1>11. QED
  BY <1>6, <1>9, <1>10 DEF Tiles

\* Two halves are joined.
LEMMA TilesJoin ==
  ASSUME NEW K, NEW held, NEW leaves, NEW open, NEW lost, Tiles(K, held, leaves, open, lost),
         NEW l \in held, NEW r \in held, l # r, NEW p, p \notin held, K[p] \in Blocks,
         Halves(K[p], K[l], K[r])
  PROVE  Tiles(K, (held \ {l, r}) \cup {p}, leaves, open, lost)
<1>1. PICK b, f, n : b = K[p].batch /\ f = K[p].from /\ n = K[l].size
  OBVIOUS
<1>2. \A q \in held : /\ K[q] \in Blocks /\ K[q].size # 0 /\ K[q].batch \in open
                      /\ K[q].from + K[q].size <= Len(leaves[K[q].batch])
                      /\ K[q].from \in Nat /\ K[q].size \in Nat
  BY DEF Tiles, Blocks
<1>3. /\ f \in Nat /\ n \in Nat \ {0} /\ K[p].size = n + n
      /\ K[l].batch = b /\ K[l].from = f /\ K[l].size = n
      /\ K[r].batch = b /\ K[r].from = f + n /\ K[r].size = n
  BY <1>1, <1>2 DEF Halves, Blocks
<1>4. b \in open /\ f + (n + n) <= Len(leaves[b])
  <2>1. (f + n) + n <= Len(leaves[b])
    BY <1>2, <1>3
  <2>2. (f + n) + n = f + (n + n)
    BY <1>3
  <2>3. QED
    BY <1>2, <1>3, <2>1, <2>2
<1>5. ASSUME NEW q \in (held \ {l, r}) \cup {p}
      PROVE  /\ K[q] \in Blocks /\ K[q].size # 0 /\ K[q].batch \in open
             /\ K[q].from + K[q].size <= Len(leaves[K[q].batch])
  <2>1. CASE q = p
    <3>1. K[p].from + K[p].size <= Len(leaves[K[p].batch]) /\ n + n # 0
      BY <1>1, <1>3, <1>4
    <3>2. QED
      BY <1>1, <1>3, <1>4, <2>1, <3>1
  <2>2. CASE q \in held
    BY <1>2, <2>2
  <2>3. QED
    BY <2>1, <2>2
<1>6. ASSUME NEW q \in held \ {l, r} PROVE Apart(K[q], K[p]) /\ Apart(K[p], K[q])
  <2>1. Apart(K[q], K[l]) /\ Apart(K[q], K[r])
    BY DEF Tiles
  <2>2. PICK g, m : g = K[q].from /\ m = K[q].size
    OBVIOUS
  <2>3. g \in Nat /\ m \in Nat /\ m # 0
    BY <1>2, <2>2
  <2>4. K[q].batch = b => /\ g + m <= f \/ f + n <= g
                          /\ g + m <= f + n \/ (f + n) + n <= g
    BY <1>3, <2>1, <2>2 DEF Apart
  <2>5. K[q].batch = b => g + m <= f \/ f + (n + n) <= g
    BY <1>3, <2>3, <2>4
  <2>6. QED
    BY <1>1, <1>3, <2>2, <2>5 DEF Apart
<1>7. ASSUME NEW q \in (held \ {l, r}) \cup {p}, NEW t \in (held \ {l, r}) \cup {p}, q # t
      PROVE  Apart(K[q], K[t])
  <2>1. CASE q = p \/ t = p
    BY <1>6, <1>7, <2>1
  <2>2. CASE q \in held /\ t \in held
    BY <1>7, <2>2 DEF Tiles
  <2>3. QED
    BY <2>1, <2>2
<1>8. ASSUME NEW a \in open \ lost, NEW i \in 1..Len(leaves[a])
      PROVE  \E q \in (held \ {l, r}) \cup {p} : Covers(K[q], a, i)
  <2>1. PICK q \in held : Covers(K[q], a, i)
    BY DEF Tiles
  <2>2. CASE q \in {l, r}
    <3>1. /\ a = b /\ i \in Int
          /\ (f < i /\ i <= f + n) \/ (f + n < i /\ i <= (f + n) + n)
      BY <1>3, <2>1, <2>2 DEF Covers
    <3>2. f < i /\ i <= f + (n + n)
      BY <1>3, <3>1
    <3>3. Covers(K[p], a, i)
      BY <1>1, <1>3, <3>1, <3>2 DEF Covers
    <3>4. QED
      BY <3>3
  <2>3. CASE q \notin {l, r}
    BY <2>1, <2>3
  <2>4. QED
    BY <2>2, <2>3
<1>9. QED
  BY <1>5, <1>7, <1>8 DEF Tiles

\* A block goes on under another id.
LEMMA TilesRename ==
  ASSUME NEW K, NEW held, NEW leaves, NEW open, NEW lost, Tiles(K, held, leaves, open, lost),
         NEW L, \A q \in held : L[q] = K[q],
         NEW old \in held, NEW new, new \notin held, L[new] = K[old]
  PROVE  Tiles(L, (held \ {old}) \cup {new}, leaves, open, lost)
<1> DEFINE now == (held \ {old}) \cup {new}
           was(q) == IF q = new THEN old ELSE q
<1>1. \A q \in now : was(q) \in held /\ L[q] = K[was(q)]
  OBVIOUS
<1>2. \A q, r \in now : q # r => was(q) # was(r)
  OBVIOUS
<1>3. \A r \in held : \E q \in now : was(q) = r
  OBVIOUS
<1> HIDE DEF now, was
<1>4. \A q \in now : /\ L[q] \in Blocks /\ L[q].size # 0 /\ L[q].batch \in open
                     /\ L[q].from + L[q].size <= Len(leaves[L[q].batch])
  BY <1>1 DEF Tiles
<1>5. \A q, r \in now : q # r => Apart(L[q], L[r])
  BY <1>1, <1>2 DEF Tiles
<1>6. ASSUME NEW b \in open \ lost, NEW i \in 1..Len(leaves[b])
      PROVE  \E q \in now : Covers(L[q], b, i)
  <2>1. PICK r \in held : Covers(K[r], b, i)
    BY DEF Tiles
  <2>2. PICK q \in now : was(q) = r
    BY <1>3
  <2>3. QED
    BY <1>1, <2>1, <2>2
<1>7. Tiles(L, now, leaves, open, lost)
  BY <1>4, <1>5, <1>6 DEF Tiles
<1>8. QED
  BY <1>7 DEF now

\* What goes is lost.
LEMMA TilesLost ==
  ASSUME NEW K, NEW held, NEW leaves, NEW open, NEW lost, Tiles(K, held, leaves, open, lost),
         NEW left, left \subseteq held, NEW more, lost \subseteq more,
         \A q \in held \ left : K[q].batch \in more
  PROVE  Tiles(K, left, leaves, open, more)
<1>1. ASSUME NEW b \in open \ more, NEW i \in 1..Len(leaves[b])
      PROVE  \E q \in left : Covers(K[q], b, i)
  <2>1. PICK q \in held : Covers(K[q], b, i)
    BY DEF Tiles
  <2>2. q \in left
    BY <2>1 DEF Covers
  <2>3. QED
    BY <2>1, <2>2
<1>2. QED
  BY <1>1 DEF Tiles

\* Whole batches are answered.
LEMMA TilesDone ==
  ASSUME NEW K, NEW held, NEW leaves, NEW open, NEW lost, Tiles(K, held, leaves, open, lost),
         NEW R, R \subseteq held,
         \A q \in R : K[q] = Whole(K[q].batch, leaves[K[q].batch])
  PROVE  Tiles(K, held \ R, leaves, open \ {K[q].batch : q \in R}, lost)
<1>1. ASSUME NEW q \in held \ R, NEW r \in R PROVE K[q].batch # K[r].batch
  <2>1. SUFFICES ASSUME K[q].batch = K[r].batch PROVE FALSE
    OBVIOUS
  <2>2. PICK b, f, n : b = K[r].batch /\ f = K[q].from /\ n = K[q].size
    OBVIOUS
  <2>3. /\ f \in Nat /\ n \in Nat \ {0} /\ f + n <= Len(leaves[b])
        /\ K[r].from = 0 /\ K[r].size = Len(leaves[b]) /\ K[r].size \in Nat
    <3>1. K[q] \in Blocks /\ K[q].size # 0 /\ K[q].from + K[q].size <= Len(leaves[b])
      BY <2>1, <2>2 DEF Tiles
    <3>2. K[r] \in Blocks /\ K[r] = Whole(b, leaves[b])
      BY <2>2 DEF Tiles
    <3>3. K[r].from = 0 /\ K[r].size = Len(leaves[b])
      BY <3>2 DEF Whole
    <3>4. QED
      BY <2>2, <3>1, <3>2, <3>3 DEF Blocks
  <2>4. Apart(K[q], K[r])
    BY DEF Tiles
  <2>5. f + n <= 0 \/ 0 + Len(leaves[b]) <= f
    BY <2>1, <2>2, <2>3, <2>4 DEF Apart
  <2>6. QED
    BY <2>3, <2>5
<1>2. ASSUME NEW b \in (open \ {K[q].batch : q \in R}) \ lost, NEW i \in 1..Len(leaves[b])
      PROVE  \E q \in held \ R : Covers(K[q], b, i)
  <2>1. PICK q \in held : Covers(K[q], b, i)
    BY DEF Tiles
  <2>2. q \notin R
    BY <2>1 DEF Covers
  <2>3. QED
    BY <2>1, <2>2
<1>3. \A q \in held \ R : K[q].batch \in open \ {K[r].batch : r \in R}
  BY <1>1 DEF Tiles
<1>4. QED
  BY <1>2, <1>3 DEF Tiles

\* Only the blocks of what is held matter.
LEMMA TilesSame ==
  ASSUME NEW K, NEW held, NEW leaves, NEW open, NEW lost, Tiles(K, held, leaves, open, lost),
         NEW L, \A q \in held : L[q] = K[q]
  PROVE  Tiles(L, held, leaves, open, lost)
<1>1. ASSUME NEW b \in open \ lost, NEW i \in 1..Len(leaves[b])
      PROVE  \E q \in held : Covers(L[q], b, i)
  <2>1. PICK q \in held : Covers(K[q], b, i)
    BY DEF Tiles
  <2>2. QED
    BY <2>1
<1>2. \A q \in held : L[q] = K[q]
  OBVIOUS
<1>3. QED
  BY <1>1, <1>2 DEF Tiles

-----------------------------------------------------------------------------
(* Where ids are. *)

Pairs == Nat \X Nat
NextId(s) == IF s = Self THEN free_batch_id ELSE free_sub_batch_id[s]
Known == {q \in Pairs : q[1] \in {Self} \cup Subs /\ q[2] \in 1..(NextId(q[1]) - 1)}

PieceSet == IF pc = "split" THEN {piece} ELSE {}
Pieces == IF pc = "split" THEN {piece.id} ELSE {}
Waiting == {q \in Pairs : q[1] = Self /\ q[2] \in Ids(internal_proofs) \cup Pieces}
AwayAt(s) == Ids(queue[s]) \cup Ids(finished[s]) \cup Ids(results[s])
Away == {q \in Pairs : q[1] \in Subs /\ q[2] \in AwayAt(q[1])}
Received == DOMAIN proof_descendants
Above == DOMAIN proof_children
Live == Waiting \cup Away \cup Received \cup Above
Tops == Live \ DOMAIN proof_parents
Top(q) == IF q[1] = Self THEN q[2] ELSE proof_aliases[q]

\* The ids under which there are proofs, and the batches without an answer.
Held == Waiting \cup Away \cup Received
Open == DOMAIN asked \ (DOMAIN given \cup Ids(recursive_proofs))

-----------------------------------------------------------------------------
(* The invariant, given the blocks of all ids. *)

AskedOK ==
  /\ free_batch_id \in Nat \ {0}
  /\ DOMAIN asked \subseteq 1..(free_batch_id - 1)
  /\ \A b \in DOMAIN asked : \E n \in Sizes : asked[b] = Leaves(b, n)
  /\ DOMAIN given \subseteq DOMAIN asked
  /\ free_sub_batch_id \in [Subs -> Nat \ {0}]

KnownOK(K) ==
  /\ K \in [Pairs -> Blocks]
  /\ \A q \in Known : K[q].batch \in DOMAIN asked
  /\ Live \cup DOMAIN proof_parents \cup DOMAIN proof_aliases
       \cup DOMAIN sub_recursive_proofs \subseteq Known
  /\ \A q \in DOMAIN sub_recursive_proofs \cup DOMAIN proof_aliases : q[1] # Self
  /\ \A q \in Above : q[1] = Self

BatchAt(K, s, b) ==
  /\ Bears(b) /\ b.id \in Nat \ {0} /\ Len(b.proofs) > 1
  /\ Stands(K[Qualified(s, b.id)], b.proofs)

AnswerAt(K, s, r) ==
  Bears(r) /\ r.id \in Nat \ {0} /\ Stands(K[Qualified(s, r.id)], <<r.node>>)

WaitingOK(K) ==
  /\ Listed(internal_proofs)
  /\ \A b \in ToSet(internal_proofs) \cup PieceSet : BatchAt(K, Self, b)
  /\ Ids(internal_proofs) \cap Pieces = {}

AwayAtOK(K, s) ==
  /\ Listed(queue[s]) /\ Listed(finished[s]) /\ Listed(results[s])
  /\ \A b \in ToSet(queue[s]) : BatchAt(K, s, b)
  /\ \A r \in ToSet(finished[s]) \cup ToSet(results[s]) : AnswerAt(K, s, r)
  /\ Ids(queue[s]) \cap (Ids(finished[s]) \cup Ids(results[s])) = {}
  /\ Ids(finished[s]) \cap Ids(results[s]) = {}

AwayOK(K) ==
  /\ queue = [s \in Subs |-> queue[s]] /\ finished = [s \in Subs |-> finished[s]]
  /\ results = [s \in Subs |-> results[s]]
  /\ \A s \in Subs : AwayAtOK(K, s)

ReceivedAtOK(K, q) ==
  /\ IsSeq(proof_descendants[q])
  /\ ToSet(proof_descendants[q]) \subseteq DOMAIN sub_recursive_proofs
  /\ Stands(K[q], ProofsOf(q))
  /\ Len(proof_descendants[q]) > 1 => q[1] = Self

ReceivedOK(K) ==
  /\ IsFiniteSet(Received)
  /\ \A q \in Received : ReceivedAtOK(K, q)
  /\ \A q, r \in Received :
       q # r => ToSet(proof_descendants[q]) \cap ToSet(proof_descendants[r]) = {}
  /\ Away \cap DOMAIN sub_recursive_proofs = {}
  /\ \A p \in DOMAIN sub_recursive_proofs :
       \E q \in Received : p \in ToSet(proof_descendants[q])

TreeOK(K) ==
  /\ \A p \in Above : \E l, r \in DOMAIN proof_parents :
       /\ proof_children[p] = <<l, r>> /\ l # r
       /\ proof_parents[l] = p /\ proof_parents[r] = p
       /\ Halves(K[p], K[l], K[r])
  /\ \A q \in DOMAIN proof_parents :
       /\ proof_parents[q] \in Above
       /\ q \in ToSet(proof_children[proof_parents[q]])
  /\ DOMAIN proof_aliases \cap DOMAIN proof_parents = {}

ApartOK == /\ Waiting \cap Received = {} /\ Above \cap Waiting = {} /\ Above \cap Received = {}
           /\ Away \cap Received = {}

TopsOK(K) ==
  /\ \A q \in Tops :
       /\ q[1] # Self => q \in DOMAIN proof_aliases
       /\ Top(q) \in DOMAIN asked \ (DOMAIN given \cup Ids(recursive_proofs))
       /\ K[q] = Whole(Top(q), asked[Top(q)])
  /\ \A q, r \in Tops : Top(q) = Top(r) => q = r

AnswersOK ==
  /\ Listed(recursive_proofs)
  /\ \A e \in ToSet(recursive_proofs) :
       Bears(e) /\ e.id \in DOMAIN asked \ DOMAIN given /\ e.node = asked[e.id]

\* Everything that is said of the blocks.
Placed(K) ==
  /\ AskedOK /\ KnownOK(K) /\ WaitingOK(K) /\ AwayOK(K) /\ ReceivedOK(K) /\ TreeOK(K)
  /\ ApartOK /\ TopsOK(K) /\ AnswersOK

\* Nothing is lost, and nothing is there twice.
Kept(K) == Tiles(K, Held, asked, Open, dropped)

LEMMA KeptSame ==
  ASSUME NEW K, Held' = Held, Open' = Open, UNCHANGED <<asked, dropped>>
  PROVE  Kept(K) => Kept(K)'
BY DEF Kept

-----------------------------------------------------------------------------

LEMMA QualifiedIs ==
  /\ \A s, i \in Nat : /\ Qualified(s, i) \in Pairs
                       /\ Qualified(s, i)[1] = s /\ Qualified(s, i)[2] = i
  /\ \A q \in Pairs : q[1] \in Nat /\ q[2] \in Nat /\ q = Qualified(q[1], q[2])
BY DEF Qualified, Pairs

LEMMA SubsAre == Self \notin Subs /\ Subs \subseteq Nat /\ Self \in Nat
<1>1. DOMAIN Throughputs = 1..Len(Throughputs) /\ Len(Throughputs) \in Nat
  BY RecursiveAssumption, LenProperties
<1>2. QED
  BY <1>1 DEF Subs, Self

\* The blocks of ids that are not in use do not matter.
LEMMA SameOnKnown ==
  ASSUME NEW K, Placed(K), NEW L \in [Pairs -> Blocks], \A q \in Known : L[q] = K[q]
  PROVE  Placed(L) /\ (Kept(K) => Kept(L))
<1> USE DEF Placed
<1>1. Live \subseteq Known /\ DOMAIN proof_parents \subseteq Known
  BY DEF KnownOK
<1>2. KnownOK(L)
  BY DEF KnownOK
<1>3. WaitingOK(L)
  <2>1. ASSUME NEW b \in ToSet(internal_proofs) \cup PieceSet PROVE BatchAt(L, Self, b)
    <3>1. BatchAt(K, Self, b)
      BY DEF WaitingOK
    <3>2. b.id \in Ids(internal_proofs) \cup Pieces
      BY <3>1, IdsOf DEF PieceSet, Pieces, BatchAt
    <3>3. Qualified(Self, b.id) \in Waiting
      BY <3>1, <3>2, QualifiedIs, SubsAre DEF Waiting, BatchAt
    <3>4. Qualified(Self, b.id) \in Known
      BY <1>1, <3>3 DEF Live
    <3>5. QED
      BY <3>1, <3>4 DEF BatchAt
  <2>2. QED
    BY <2>1 DEF WaitingOK
<1>4. AwayOK(L)
  <2>1. ASSUME NEW s \in Subs, NEW i \in Nat, i \in AwayAt(s)
        PROVE  L[Qualified(s, i)] = K[Qualified(s, i)]
    <3>1. Qualified(s, i) \in Away
      BY <2>1, QualifiedIs, SubsAre DEF Away
    <3>2. QED
      BY <1>1, <3>1 DEF Live
  <2>2. ASSUME NEW s \in Subs, NEW b \in ToSet(queue[s]) PROVE BatchAt(L, s, b)
    <3>1. BatchAt(K, s, b)
      BY DEF AwayOK, AwayAtOK
    <3>2. b.id \in AwayAt(s)
      BY <3>1, IdsOf DEF AwayAt, BatchAt
    <3>3. QED
      BY <2>1, <3>1, <3>2 DEF BatchAt
  <2>3. ASSUME NEW s \in Subs, NEW r \in ToSet(finished[s]) \cup ToSet(results[s])
        PROVE  AnswerAt(L, s, r)
    <3>1. AnswerAt(K, s, r)
      BY DEF AwayOK, AwayAtOK
    <3>2. r.id \in AwayAt(s)
      BY <3>1, IdsOf DEF AwayAt, AnswerAt
    <3>3. QED
      BY <2>1, <3>1, <3>2 DEF AnswerAt
  <2>4. QED
    BY <2>2, <2>3 DEF AwayOK, AwayAtOK
<1>5. ReceivedOK(L)
  BY <1>1 DEF ReceivedOK, ReceivedAtOK, Live
<1>6. TreeOK(L)
  <2>1. Above \subseteq Known
    BY <1>1 DEF Live
  <2>2. QED
    BY <1>1, <2>1 DEF TreeOK
<1>7. TopsOK(L)
  BY <1>1 DEF TopsOK, Tops
<1>8. Kept(K) => Kept(L)
  <2>1. \A q \in Held : L[q] = K[q]
    BY <1>1 DEF Held, Live
  <2>2. QED
    BY <2>1, TilesSame DEF Kept
<1>9. QED
  BY <1>2, <1>3, <1>4, <1>5, <1>6, <1>7, <1>8

\* So the block of a new id can be chosen.
LEMMA Extend ==
  ASSUME NEW K, Placed(K), NEW q \in Pairs, q \notin Known, NEW block \in Blocks
  PROVE  \E L : /\ Placed(L) /\ (Kept(K) => Kept(L)) /\ L[q] = block
               /\ \A r \in Pairs : r # q => L[r] = K[r]
<1>1. K \in [Pairs -> Blocks]
  BY DEF Placed, KnownOK
<1>2. PICK L : L = [K EXCEPT ![q] = block]
  OBVIOUS
<1>3. L \in [Pairs -> Blocks] /\ L[q] = block /\ \A r \in Pairs : r # q => L[r] = K[r]
  BY <1>1, <1>2
<1>4. \A r \in Known : L[r] = K[r]
  BY <1>3 DEF Known
<1>5. QED
  BY <1>3, <1>4, SameOnKnown

\* Batches and answers that only sub-aggregators have move between their lists,
\* or are dropped.
Ours == <<caller, internal_proofs, done, tree, proof_aliases, free_batch_id,
          free_sub_batch_id>>

LEMMA AwayMoves ==
  ASSUME NEW K, Placed(K), UNCHANGED Ours, AwayOK(K)',
         PieceSet' = PieceSet, Pieces' = Pieces, \A s \in Subs : AwayAt(s)' \subseteq AwayAt(s)
  PROVE  Placed(K)'
<1> USE DEF Placed
<1>1. UNCHANGED <<asked, given, internal_proofs, sub_recursive_proofs, proof_descendants,
                  recursive_proofs, proof_parents, proof_children, proof_aliases,
                  free_batch_id, free_sub_batch_id>>
  BY DEF Ours, caller, done, tree
<1>2. Known' = Known
  BY <1>1 DEF Known, NextId
<1>3. Waiting' = Waiting /\ Away' \subseteq Away /\ Received' = Received /\ Above' = Above
  BY <1>1 DEF Waiting, Away, Received, Above
<1>4. Live' \subseteq Live /\ Tops' \subseteq Tops
  BY <1>1, <1>3 DEF Live, Tops
<1>5. AskedOK'
  BY <1>1 DEF AskedOK
<1>6. KnownOK(K)'
  BY <1>1, <1>2, <1>3, <1>4 DEF KnownOK
<1>7. WaitingOK(K)'
  BY <1>1 DEF WaitingOK, BatchAt
<1>8. ReceivedOK(K)'
  BY <1>1, <1>3 DEF ReceivedOK, ReceivedAtOK, ProofsOf
<1>9. TreeOK(K)'
  BY <1>1, <1>3 DEF TreeOK
<1>10. ApartOK'
  BY <1>3 DEF ApartOK
<1>11. TopsOK(K)'
  BY <1>1, <1>4 DEF TopsOK, Top, Whole
<1>12. AnswersOK'
  BY <1>1 DEF AnswersOK
<1>13. QED
  BY <1>5, <1>6, <1>7, <1>8, <1>9, <1>10, <1>11, <1>12

LEMMA AwayMovesKept ==
  ASSUME NEW K, UNCHANGED Ours, UNCHANGED dropped, Pieces' = Pieces,
         \A s \in Subs : AwayAt(s)' = AwayAt(s)
  PROVE  Kept(K) => Kept(K)'
<1>1. UNCHANGED <<asked, given, internal_proofs, proof_descendants, recursive_proofs>>
  BY DEF Ours, caller, done
<1>2. Waiting' = Waiting /\ Away' = Away /\ Received' = Received
  BY <1>1 DEF Waiting, Away, Received
<1>3. Held' = Held /\ Open' = Open
  BY <1>1, <1>2 DEF Held, Open
<1>4. QED
  BY <1>1, <1>3, KeptSame

-----------------------------------------------------------------------------
(* Batches and answers of sub-aggregators move. *)

\* A sync moves answers, and makes and loses none.
LEMMA SyncOK ==
  ASSUME NEW K, AwayOK(K), NEW some, Sync(some), UNCHANGED queue
  PROVE  AwayOK(K)' /\ \A s \in Subs : AwayAt(s)' = AwayAt(s)
<1>1. /\ results' = [s \in Subs |-> results'[s]] /\ finished' = [s \in Subs |-> finished'[s]]
      /\ queue' = [s \in Subs |-> queue'[s]]
  BY DEF Sync, AwayOK
<1>2. ASSUME NEW s \in Subs PROVE AwayAtOK(K, s)' /\ AwayAt(s)' = AwayAt(s)
  <2>1. AwayAtOK(K, s)
    BY DEF AwayOK
  <2>2. CASE s \notin some
    <3>1. results'[s] = results[s] /\ finished'[s] = finished[s] /\ queue'[s] = queue[s]
      BY <2>2 DEF Sync
    <3>2. QED
      BY <2>1, <3>1 DEF AwayAtOK, AwayAt, BatchAt, AnswerAt
  <2>3. CASE s \in some
    <3>1. /\ results'[s] = results[s] \o finished[s] /\ finished'[s] = <<>>
          /\ queue'[s] = queue[s]
      BY <2>3 DEF Sync
    <3>2. /\ Listed(results[s] \o finished[s])
          /\ Ids(results[s] \o finished[s]) = Ids(results[s]) \cup Ids(finished[s])
          /\ ToSet(results[s] \o finished[s]) = ToSet(results[s]) \cup ToSet(finished[s])
      BY <2>1, IdsConcat DEF AwayAtOK
    <3>3. Listed(finished'[s]) /\ Ids(finished'[s]) = {} /\ ToSet(finished'[s]) = {}
      BY <3>1, EmptyIds DEF Listed
    <3>4. AwayAt(s)' = AwayAt(s)
      BY <3>1, <3>2, <3>3 DEF AwayAt
    <3>5. AwayAtOK(K, s)'
      BY <2>1, <3>1, <3>2, <3>3 DEF AwayAtOK, BatchAt, AnswerAt
    <3>6. QED
      BY <3>4, <3>5
  <2>4. QED
    BY <2>2, <2>3
<1>3. QED
  BY <1>1, <1>2 DEF AwayOK

\* An answer that is made is the root of what was queued under its id.
LEMMA WorkOK ==
  ASSUME NEW K \in [Pairs -> Blocks], AwayOK(K), NEW s \in Subs, Work(s)
  PROVE  AwayOK(K)' /\ \A t \in Subs : AwayAt(t)' = AwayAt(t)
<1>1. PICK k \in DOMAIN queue[s] :
        /\ queue' = [queue EXCEPT ![s] = RemoveAt(@, k)]
        /\ finished' = [finished EXCEPT ![s] =
             Append(@, [id |-> queue[s][k].id, node |-> Aggregate(queue[s][k].proofs)])]
        /\ UNCHANGED results
  BY DEF Work
<1> DEFINE b == queue[s][k]
           r == [id |-> b.id, node |-> Aggregate(b.proofs)]
           rest == RemoveAt(queue[s], k)
           made == Append(finished[s], r)
<1>2. AwayAtOK(K, s) /\ s \in Nat
  BY SubsAre DEF AwayOK
<1>3. b \in ToSet(queue[s])
  BY DEF ToSet
<1>4. BatchAt(K, s, b)
  BY <1>2, <1>3 DEF AwayAtOK
<1>5. /\ Listed(rest) /\ Ids(rest) = Ids(queue[s]) \ {b.id}
      /\ ToSet(rest) \subseteq ToSet(queue[s]) /\ b.id \in Ids(queue[s])
  <2>1. Listed(queue[s]) /\ Bears(queue[s][k])
    BY <1>2, <1>4 DEF AwayAtOK, BatchAt
  <2>2. QED
    BY <2>1, IdsRemoveAt
<1>6. Bears(r) /\ r.id = b.id
  BY DEF Bears
<1>7. AnswerAt(K, s, r)
  <2>1. Qualified(s, b.id) \in Pairs
    BY <1>2, <1>4, QualifiedIs DEF BatchAt
  <2>2. K[Qualified(s, b.id)] \in Blocks /\ Stands(K[Qualified(s, b.id)], b.proofs)
    BY <1>4, <2>1 DEF BatchAt
  <2>3. r.node = LeavesOf(K[Qualified(s, b.id)])
    BY <2>2, StandsRoot
  <2>4. Stands(K[Qualified(s, b.id)], <<LeavesOf(K[Qualified(s, b.id)])>>)
    BY <2>2, StandsRoot
  <2>5. b.id \in Nat \ {0}
    BY <1>4 DEF BatchAt
  <2> HIDE DEF r, b
  <2>6. QED
    BY <1>6, <2>3, <2>4, <2>5 DEF AnswerAt
<1> HIDE DEF b, r, rest, made
<1>8. Listed(made) /\ ToSet(made) = ToSet(finished[s]) \cup {r} /\ Ids(made) = Ids(finished[s]) \cup {b.id}
  <2>1. IsSeq(finished[s]) /\ OnceEach(finished[s]) /\ r.id \notin Ids(finished[s])
    BY <1>2, <1>5, <1>6 DEF AwayAtOK, Listed
  <2>2. QED
    BY <1>6, <2>1, AppendIds DEF made, Listed
<1>9. /\ queue' = [t \in Subs |-> IF t = s THEN rest ELSE queue[t]]
      /\ finished' = [t \in Subs |-> IF t = s THEN made ELSE finished[t]]
      /\ results' = results
  BY <1>1 DEF AwayOK, rest, made, r, b
<1>10. ASSUME NEW t \in Subs PROVE AwayAtOK(K, t)' /\ AwayAt(t)' = AwayAt(t)
  <2>1. CASE t # s
    <3>1. queue'[t] = queue[t] /\ finished'[t] = finished[t] /\ results'[t] = results[t]
      BY <1>9, <2>1
    <3>2. AwayAtOK(K, t)
      BY DEF AwayOK
    <3>3. QED
      BY <3>1, <3>2 DEF AwayAtOK, AwayAt, BatchAt, AnswerAt
  <2>2. CASE t = s
    <3>1. queue'[t] = rest /\ finished'[t] = made /\ results'[t] = results[t]
      BY <1>9, <2>2
    <3>2. AwayAt(t)' = AwayAt(t)
      BY <1>5, <1>8, <2>2, <3>1 DEF AwayAt
    <3>3. AwayAtOK(K, t)'
      BY <1>2, <1>5, <1>7, <1>8, <2>2, <3>1 DEF AwayAtOK, BatchAt, AnswerAt
    <3>4. QED
      BY <3>2, <3>3
  <2>3. QED
    BY <2>1, <2>2
<1>11. QED
  BY <1>9, <1>10 DEF AwayOK

\* What a removed sub-aggregator had is gone.
LEMMA RemoveOK ==
  ASSUME NEW K, AwayOK(K), NEW s \in Subs, RemoveSubAggregator(s)
  PROVE  AwayOK(K)' /\ \A t \in Subs : AwayAt(t)' \subseteq AwayAt(t)
<1> DEFINE none == <<>>
<1>1. /\ queue' = [t \in Subs |-> IF t = s THEN none ELSE queue[t]]
      /\ finished' = [t \in Subs |-> IF t = s THEN none ELSE finished[t]]
      /\ results' = [t \in Subs |-> IF t = s THEN none ELSE results[t]]
  BY DEF RemoveSubAggregator, AwayOK
<1>2. Listed(none) /\ Ids(none) = {} /\ ToSet(none) = {}
  BY EmptyIds DEF Listed
<1> HIDE DEF none
<1>3. ASSUME NEW t \in Subs PROVE AwayAtOK(K, t)' /\ AwayAt(t)' \subseteq AwayAt(t)
  <2>1. AwayAtOK(K, t)
    BY DEF AwayOK
  <2>2. CASE t = s
    BY <1>1, <1>2, <2>2 DEF AwayAtOK, AwayAt
  <2>3. CASE t # s
    <3>1. queue'[t] = queue[t] /\ finished'[t] = finished[t] /\ results'[t] = results[t]
      BY <1>1, <2>3
    <3>2. QED
      BY <2>1, <3>1 DEF AwayAtOK, AwayAt, BatchAt, AnswerAt
  <2>4. QED
    BY <2>2, <2>3
<1>4. QED
  BY <1>1, <1>3 DEF AwayOK

-----------------------------------------------------------------------------
(* The caller's calls, and batches that are taken. *)

PushedBlock(n) == [batch |-> free_batch_id, from |-> 0, size |-> n]

\* A new batch stands for all of its leaves, and is above all others of its batch.
LEMMA PushPlaced ==
  ASSUME NEW K, Placed(K), NEW n \in Sizes, Push(n),
         K[Qualified(Self, free_batch_id)] = PushedBlock(n)
  PROVE  Placed(K)' /\ (Kept(K) => Kept(K)') /\ Contract!Push(n)
<1>a. PICK id : id = free_batch_id
  OBVIOUS
<1>b. PICK q : q = Qualified(Self, id)
  OBVIOUS
<1>c. PICK leaves : leaves = Leaves(id, n)
  OBVIOUS
<1>d. PICK b : b = Batch(id, BatchOf(leaves))
  OBVIOUS
<1>1. /\ asked' = With(asked, id, leaves) /\ free_batch_id' = id + 1
      /\ internal_proofs' = Append(internal_proofs, b)
      /\ UNCHANGED <<given, sub_recursive_proofs, proof_descendants, recursive_proofs,
                     proof_parents, proof_children, proof_aliases,
                     queue, finished, results, free_sub_batch_id, piece>>
      /\ pc = "idle" /\ pc' = "idle"
  BY <1>a, <1>b, <1>c, <1>d DEF Push, done, tree, subVars, distribution
<1>2. AskedOK /\ KnownOK(K) /\ WaitingOK(K) /\ AwayOK(K) /\ ReceivedOK(K) /\ TreeOK(K)
      /\ ApartOK /\ TopsOK(K) /\ AnswersOK
  BY DEF Placed
<1>3. id \in Nat \ {0} /\ id \notin DOMAIN asked /\ DOMAIN asked' = DOMAIN asked \cup {id}
      /\ (\A a \in DOMAIN asked : asked'[a] = asked[a]) /\ asked'[id] = leaves
  BY <1>1, <1>2, <1>a DEF AskedOK, With
<1>4. n \in Nat /\ IsBatchSize(n) /\ n > 1
  BY BatchesAssumption DEF IsBatchSize
<1>5. q \in Pairs /\ q[1] = Self /\ q[2] = id /\ \A r \in Pairs : r[1] = Self /\ r[2] = id => r = q
  BY <1>3, <1>b, QualifiedIs, SubsAre
<1>6. Stands(K[q], BatchOf(leaves)) /\ K[q] \in Blocks /\ Len(BatchOf(leaves)) = n /\ K[q].batch = id
      /\ Len(leaves) = n
  <2>1. [batch |-> id, from |-> 0, size |-> n] = PushedBlock(n) /\ K[q] = PushedBlock(n)
    BY <1>a, <1>b DEF PushedBlock
  <2>2. Len(leaves) = n
    <3>1. leaves = [i \in 1..n |-> leaves[i]]
      BY <1>c DEF Leaves
    <3>2. QED
      BY <1>4, <3>1, FunctionSeq
  <2>3. id \in Nat
    BY <1>3
  <2>4. Stands(PushedBlock(n), BatchOf(leaves)) /\ PushedBlock(n) \in Blocks
    BY <1>4, <1>c, <2>1, <2>3, StandsPush
  <2>5. Len(BatchOf(leaves)) = n
    BY <1>4, <1>c, LeavesLength
  <2>6. QED
    BY <2>1, <2>2, <2>4, <2>5 DEF PushedBlock
<1>7. Bears(b) /\ b.id = id /\ b.proofs = BatchOf(leaves)
  BY <1>d DEF Bears, Batch
<1>8. NextId(Self)' = id + 1 /\ NextId(Self) = id /\ \A s \in Subs : NextId(s)' = NextId(s)
  BY <1>1, <1>a, SubsAre DEF NextId
<1>9. q \notin Known /\ Known' = Known \cup {q}
  <2>1. q \notin Known
    BY <1>3, <1>5, <1>8 DEF Known
  <2>2. \A r \in Pairs : r[1] = Self => (r[2] \in 1..((id + 1) - 1) <=> r[2] \in 1..(id - 1) \/ r[2] = id)
    BY <1>3 DEF Pairs
  <2>3. ASSUME NEW r PROVE r \in Known' <=> r \in Known \cup {q}
    <3>1. CASE r \in Pairs /\ r[1] = Self
      BY <1>3, <1>5, <1>8, <2>2, <3>1 DEF Known
    <3>2. CASE ~(r \in Pairs /\ r[1] = Self)
      BY <1>5, <1>8, <3>2 DEF Known
    <3>3. QED
      BY <3>1, <3>2
  <2>4. QED
    BY <2>1, <2>3
<1>10. Live \subseteq Known /\ DOMAIN proof_parents \subseteq Known /\ DOMAIN proof_aliases \subseteq Known
  BY <1>2 DEF KnownOK
<1>11. Pieces' = {} /\ PieceSet' = {} /\ Pieces = {} /\ PieceSet = {}
  BY <1>1 DEF Pieces, PieceSet
<1>12. id \notin Ids(internal_proofs)
  <2>1. ASSUME id \in Ids(internal_proofs) PROVE FALSE
    <3>1. q \in Waiting
      BY <1>5, <2>1 DEF Waiting
    <3>2. QED
      BY <1>9, <1>10, <3>1 DEF Live
  <2>2. QED
    BY <2>1
<1>13. /\ Listed(internal_proofs') /\ ToSet(internal_proofs') = ToSet(internal_proofs) \cup {b}
       /\ Ids(internal_proofs') = Ids(internal_proofs) \cup {id}
  <2>1. IsSeq(internal_proofs) /\ OnceEach(internal_proofs)
    BY <1>2 DEF WaitingOK, Listed
  <2>2. QED
    BY <1>1, <1>7, <1>12, <2>1, AppendIds DEF Listed
<1>14. Waiting' = Waiting \cup {q} /\ Away' = Away /\ Received' = Received /\ Above' = Above
  <2>1. Away' = Away /\ Received' = Received /\ Above' = Above
    BY <1>1 DEF Away, AwayAt, Received, Above
  <2>2. \A r \in Pairs : r \in Waiting' <=> r \in Waiting \/ r = q
    BY <1>5, <1>11, <1>13 DEF Waiting
  <2>3. Waiting' \subseteq Pairs /\ Waiting \subseteq Pairs
    BY DEF Waiting
  <2>4. QED
    BY <1>5, <2>1, <2>2, <2>3
<1>15. Live' = Live \cup {q} /\ q \notin Live
  BY <1>9, <1>10, <1>14 DEF Live
<1>16. Tops' = Tops \cup {q} /\ \A r \in Tops : Top(r)' = Top(r) /\ r # q
  BY <1>1, <1>9, <1>10, <1>15 DEF Tops, Top
<1>17. AskedOK'
  <2>1. id + 1 \in Nat \ {0} /\ 1..(id - 1) \subseteq 1..((id + 1) - 1) /\ id \in 1..((id + 1) - 1)
    BY <1>3
  <2>2. DOMAIN asked \subseteq 1..(id - 1)
    BY <1>2, <1>a DEF AskedOK
  <2>3. asked'[id] = Leaves(id, n)
    BY <1>3, <1>c
  <2>4. \A a \in DOMAIN asked' : \E m \in Sizes : asked'[a] = Leaves(a, m)
    BY <1>2, <1>3, <2>3 DEF AskedOK
  <2>5. QED
    BY <1>1, <1>2, <1>3, <2>1, <2>2, <2>4 DEF AskedOK
<1>18. KnownOK(K)'
  BY <1>1, <1>2, <1>3, <1>6, <1>9, <1>14, <1>15 DEF KnownOK
<1>19. WaitingOK(K)'
  <2>1. BatchAt(K, Self, b)
    BY <1>3, <1>4, <1>6, <1>7, <1>b DEF BatchAt
  <2>2. QED
    BY <1>2, <1>11, <1>13, <2>1 DEF WaitingOK, BatchAt
<1>20. AwayOK(K)'
  BY <1>1, <1>2 DEF AwayOK, AwayAtOK, BatchAt, AnswerAt
<1>21. ReceivedOK(K)'
  BY <1>1, <1>2, <1>14, SMTT(30) DEF ReceivedOK, ReceivedAtOK, ProofsOf
<1>22. TreeOK(K)'
  BY <1>1, <1>2, <1>14 DEF TreeOK
<1>23. ApartOK'
  BY <1>2, <1>14, <1>15 DEF ApartOK, Live
<1>24. TopsOK(K)'
  <2>1. Top(q)' = id
    BY <1>5 DEF Top
  <2>2. id \notin DOMAIN given \cup Ids(recursive_proofs)
    <3>1. \A e \in ToSet(recursive_proofs) : e.id \in DOMAIN asked
      BY <1>2 DEF AnswersOK
    <3>2. QED
      BY <1>2, <1>3, <3>1, IdsOf DEF AskedOK
  <2>3. K[q] = Whole(id, asked'[id])
    BY <1>3, <1>6, <1>a, <1>b DEF Whole, PushedBlock
  <2>4. \A a \in DOMAIN asked : asked'[a] = asked[a]
    BY <1>3
  <2>5. ASSUME NEW r \in Tops'
        PROVE  /\ r[1] # Self => r \in DOMAIN proof_aliases'
               /\ Top(r)' \in DOMAIN asked' \ (DOMAIN given' \cup Ids(recursive_proofs'))
               /\ K[r] = Whole(Top(r)', asked'[Top(r)'])
    <3>1. CASE r = q
      BY <1>1, <1>3, <1>5, <2>1, <2>2, <2>3, <3>1
    <3>2. CASE r # q
      <4>1. r \in Tops /\ Top(r)' = Top(r)
        BY <1>16, <3>2
      <4>2. /\ r[1] # Self => r \in DOMAIN proof_aliases
            /\ Top(r) \in DOMAIN asked \ (DOMAIN given \cup Ids(recursive_proofs))
            /\ K[r] = Whole(Top(r), asked[Top(r)])
        BY <1>2, <4>1 DEF TopsOK
      <4>3. QED
        BY <1>1, <1>3, <2>4, <4>1, <4>2
    <3>3. QED
      BY <3>1, <3>2
  <2>6. ASSUME NEW r \in Tops', NEW t \in Tops', Top(r)' = Top(t)' PROVE r = t
    <3>1. \A u \in Tops : Top(u)' = Top(u) /\ Top(u) \in DOMAIN asked
      BY <1>2, <1>16 DEF TopsOK
    <3>2. \A u \in Tops : Top(u)' # id
      BY <1>3, <3>1
    <3>3. CASE r = q \/ t = q
      BY <1>16, <2>1, <2>6, <3>2, <3>3
    <3>4. CASE r # q /\ t # q
      BY <1>2, <1>16, <2>6, <3>1, <3>4 DEF TopsOK
    <3>5. QED
      BY <3>3, <3>4
  <2>7. QED
    BY <2>5, <2>6 DEF TopsOK
<1>25. AnswersOK'
  BY <1>1, <1>2, <1>3 DEF AnswersOK
<1>26. Contract!Push(n)
  <2>1. asked' = Contract!With(asked, id, Contract!Leaves(id, n))
    BY <1>1, <1>c DEF Contract!With, With, Contract!Leaves, Leaves, Contract!Leaf, Leaf
  <2>2. QED
    BY <1>1, <1>3, <2>1 DEF Contract!Push
<1>27. ASSUME Kept(K) PROVE Kept(K)'
  <2>1. dropped' = dropped
    BY DEF Push, calls
  <2>2. Held' = Held \cup {q} /\ q \notin Held
    BY <1>14, <1>15 DEF Held, Live
  <2>3. Open' = Open \cup {id} /\ id \notin Open /\ Open \subseteq DOMAIN asked
    <3>1. id \notin DOMAIN given \cup Ids(recursive_proofs)
      <4>1. \A e \in ToSet(recursive_proofs) : e.id \in DOMAIN asked
        BY <1>2 DEF AnswersOK
      <4>2. QED
        BY <1>2, <1>3, <4>1, IdsOf DEF AskedOK
    <3>2. QED
      BY <1>1, <1>3, <3>1 DEF Open
  <2>4. K[q] = Whole(id, asked'[id]) /\ Len(asked'[id]) \in Nat \ {0} /\ K[q] \in Blocks
    <3>1. K[q] = Whole(id, asked'[id])
      BY <1>3, <1>6, <1>a, <1>b DEF Whole, PushedBlock
    <3>2. QED
      BY <1>3, <1>4, <1>6, <3>1
  <2>5. Tiles(K, Held, asked, Open, dropped)
    BY <1>27 DEF Kept
  <2>6. \A a \in Open : asked'[a] = asked[a]
    BY <1>3, <2>3
  <2>7. Tiles(K, Held \cup {q}, asked', Open \cup {id}, dropped)
    BY <2>2, <2>3, <2>4, <2>5, <2>6, TilesNew
  <2>8. QED
    BY <2>1, <2>2, <2>3, <2>7 DEF Kept
<1>28. QED
  BY <1>17, <1>18, <1>19, <1>20, <1>21, <1>22, <1>23, <1>24, <1>25, <1>26, <1>27 DEF Placed

\* An answer is the root of its batch, which nothing stands for any more.
LEMMA PopPlaced ==
  ASSUME NEW K, Placed(K), Pop
  PROVE  Placed(K)' /\ (Kept(K) => Kept(K)') /\ \E id \in DOMAIN asked : Contract!Pop(id)
<1> DEFINE e == Head(recursive_proofs)
<1>1. /\ recursive_proofs # <<>> /\ given' = With(given, e.id, e.node)
      /\ recursive_proofs' = Tail(recursive_proofs)
      /\ UNCHANGED <<asked, internal_proofs, sub_recursive_proofs, proof_descendants,
                     proof_parents, proof_children, proof_aliases, free_batch_id,
                     queue, finished, results, free_sub_batch_id, piece, pc>>
  BY DEF Pop, tree, subVars, distribution
<1>2. AskedOK /\ KnownOK(K) /\ WaitingOK(K) /\ AwayOK(K) /\ ReceivedOK(K) /\ TreeOK(K)
      /\ ApartOK /\ TopsOK(K) /\ AnswersOK
  BY DEF Placed
<1>3. IsSeq(recursive_proofs) /\ OnceEach(recursive_proofs)
  BY <1>2 DEF AnswersOK, Listed
<1>4. e \in ToSet(recursive_proofs)
  BY <1>1, <1>3, HeadIds
<1>5. Bears(e) /\ e.id \in DOMAIN asked \ DOMAIN given /\ e.node = asked[e.id]
  BY <1>2, <1>4 DEF AnswersOK
<1>6. /\ Listed(recursive_proofs') /\ ToSet(recursive_proofs') \subseteq ToSet(recursive_proofs)
      /\ e.id \in Ids(recursive_proofs)
      /\ Ids(recursive_proofs') = Ids(recursive_proofs) \ {e.id}
  BY <1>1, <1>3, <1>5, HeadIds DEF Listed
<1> HIDE DEF e
<1>7. DOMAIN given' = DOMAIN given \cup {e.id}
  BY <1>1 DEF With
<1>8. Known' = Known /\ Live' = Live /\ Waiting' = Waiting /\ Away' = Away
      /\ Received' = Received /\ Above' = Above /\ PieceSet' = PieceSet /\ Pieces' = Pieces
  <2>1. Known' = Known
    BY <1>1 DEF Known, NextId
  <2>2. PieceSet' = PieceSet /\ Pieces' = Pieces
    BY <1>1 DEF PieceSet, Pieces
  <2>3. Waiting' = Waiting /\ Away' = Away /\ Received' = Received /\ Above' = Above
    BY <1>1, <2>2 DEF Waiting, Away, AwayAt, Received, Above
  <2>4. QED
    BY <2>1, <2>2, <2>3 DEF Live
<1>9. AskedOK' /\ KnownOK(K)'
  BY <1>1, <1>2, <1>5, <1>7, <1>8 DEF AskedOK, KnownOK
<1>10. WaitingOK(K)' /\ AwayOK(K)'
  BY <1>1, <1>2, <1>8 DEF WaitingOK, AwayOK, AwayAtOK, BatchAt, AnswerAt
<1>11. ReceivedOK(K)' /\ TreeOK(K)' /\ ApartOK'
  <2>1. ReceivedOK(K)'
    BY <1>1, <1>2, <1>8 DEF ReceivedOK, ReceivedAtOK, ProofsOf
  <2>2. TreeOK(K)' /\ ApartOK'
    BY <1>1, <1>2, <1>8 DEF TreeOK, ApartOK
  <2>3. QED
    BY <2>1, <2>2
<1>12. TopsOK(K)'
  <2>1. Tops' = Tops /\ DOMAIN given' \cup Ids(recursive_proofs') = DOMAIN given \cup Ids(recursive_proofs)
    BY <1>1, <1>6, <1>7, <1>8 DEF Tops
  <2>2. \A q : Top(q)' = Top(q)
    BY <1>1 DEF Top
  <2>3. QED
    BY <1>1, <1>2, <2>1, <2>2 DEF TopsOK
<1>13. AnswersOK'
  <2>1. ASSUME NEW x \in ToSet(recursive_proofs')
        PROVE  Bears(x) /\ x.id \in DOMAIN asked' \ DOMAIN given' /\ x.node = asked'[x.id]
    <3>1. Bears(x) /\ x.id \in DOMAIN asked \ DOMAIN given /\ x.node = asked[x.id]
      BY <1>2, <1>6, <2>1 DEF AnswersOK
    <3>2. x.id \in Ids(recursive_proofs')
      BY <3>1, IdsOf
    <3>3. QED
      BY <1>1, <1>6, <1>7, <3>1, <3>2
  <2>2. QED
    BY <1>6, <2>1 DEF AnswersOK
<1>14. Contract!Pop(e.id)
  BY <1>1, <1>5 DEF Contract!Pop, Contract!With, With
<1>15. Kept(K) => Kept(K)'
  <2>1. Held' = Held
    BY <1>8 DEF Held
  <2>2. Open' = Open
    BY <1>1, <1>6, <1>7 DEF Open
  <2>3. UNCHANGED <<asked, dropped>>
    BY DEF Pop, calls
  <2>4. QED
    BY <2>1, <2>2, <2>3, KeptSame
<1>16. QED
  BY <1>5, <1>9, <1>10, <1>11, <1>12, <1>13, <1>14, <1>15 DEF Placed

\* The first batch of the queue becomes the piece.
LEMMA TakeBatchPlaced ==
  ASSUME NEW K, Placed(K), TakeBatch, internal_proofs # <<>>
  PROVE  Placed(K)' /\ (Kept(K) => Kept(K)')
<1> DEFINE b == Head(internal_proofs)
<1>1. /\ pc = "send" /\ pc' = "split" /\ piece' = b /\ internal_proofs' = Tail(internal_proofs)
      /\ UNCHANGED <<asked, given, sub_recursive_proofs, proof_descendants, recursive_proofs,
                     proof_parents, proof_children, proof_aliases, free_batch_id,
                     queue, finished, results, free_sub_batch_id>>
  BY DEF TakeBatch, caller, done, tree, subVars
<1>2. AskedOK /\ KnownOK(K) /\ WaitingOK(K) /\ AwayOK(K) /\ ReceivedOK(K) /\ TreeOK(K)
      /\ ApartOK /\ TopsOK(K) /\ AnswersOK
  BY DEF Placed
<1>3. IsSeq(internal_proofs) /\ OnceEach(internal_proofs)
  BY <1>2 DEF WaitingOK, Listed
<1>4. b \in ToSet(internal_proofs)
  BY <1>3, HeadIds
<1>5. BatchAt(K, Self, b) /\ Bears(b)
  BY <1>2, <1>4 DEF WaitingOK, BatchAt
<1>6. /\ Listed(internal_proofs') /\ ToSet(internal_proofs') \subseteq ToSet(internal_proofs)
      /\ b.id \in Ids(internal_proofs)
      /\ Ids(internal_proofs') = Ids(internal_proofs) \ {b.id}
  BY <1>1, <1>3, <1>5, HeadIds DEF Listed
<1> HIDE DEF b
<1>7. Pieces = {} /\ Pieces' = {b.id} /\ PieceSet' = {b}
  BY <1>1 DEF Pieces, PieceSet
<1>8. Waiting' = Waiting
  BY <1>6, <1>7 DEF Waiting
<1>9. Known' = Known /\ Away' = Away /\ Received' = Received /\ Above' = Above
  BY <1>1 DEF Known, NextId, Away, AwayAt, Received, Above
<1>10. Live' = Live /\ Tops' = Tops
  BY <1>1, <1>8, <1>9 DEF Live, Tops
<1>11. AskedOK' /\ KnownOK(K)'
  BY <1>1, <1>2, <1>9, <1>10 DEF AskedOK, KnownOK
<1>12. WaitingOK(K)'
  BY <1>2, <1>5, <1>6, <1>7 DEF WaitingOK, BatchAt
<1>13. AwayOK(K)'
  BY <1>1, <1>2 DEF AwayOK, AwayAtOK, BatchAt, AnswerAt
<1>14. ReceivedOK(K)' /\ TreeOK(K)' /\ ApartOK'
  <2>1. ReceivedOK(K)'
    BY <1>1, <1>2, <1>9, SMTT(30) DEF ReceivedOK, ReceivedAtOK, ProofsOf
  <2>2. TreeOK(K)' /\ ApartOK'
    BY <1>1, <1>2, <1>8, <1>9 DEF TreeOK, ApartOK
  <2>3. QED
    BY <2>1, <2>2
<1>15. TopsOK(K)' /\ AnswersOK'
  BY <1>1, <1>2, <1>10 DEF TopsOK, Top, Whole, AnswersOK
<1>16. Kept(K) => Kept(K)'
  <2>1. Held' = Held /\ Open' = Open
    BY <1>1, <1>8, <1>9 DEF Held, Open
  <2>2. UNCHANGED <<asked, dropped>>
    BY DEF TakeBatch, caller, calls
  <2>3. QED
    BY <2>1, <2>2, KeptSame
<1>17. QED
  BY <1>11, <1>12, <1>13, <1>14, <1>15, <1>16 DEF Placed

-----------------------------------------------------------------------------
(* Batches are split. *)

\* The two halves of the piece.
Half == Len(piece.proofs) \div 2
FirstHalf == SubSeq(piece.proofs, 1, Half)
SecondHalf == SubSeq(piece.proofs, Half + 1, 2 * Half)
PieceId == Qualified(Self, piece.id)

LEMMA FitsMeans ==
  ASSUME NEW n \in Nat, Saturation(Chosen) \in Nat \ {0, 1}, Fits(n)
  PROVE  n > 2
BY DEF Fits

\* The piece is split: its halves take its place, and it stands above them.
LEMMA SplitPlaced ==
  ASSUME NEW K, Placed(K), Split, Half > 1,
         Len(FirstHalf) = Half, Len(SecondHalf) = Half,
         Halves(K[PieceId], K[Qualified(Self, free_batch_id + 1)],
                            K[Qualified(Self, free_batch_id)]),
         Stands(K[Qualified(Self, free_batch_id + 1)], FirstHalf),
         Stands(K[Qualified(Self, free_batch_id)], SecondHalf),
         K[Qualified(Self, free_batch_id + 1)].batch = K[PieceId].batch,
         K[Qualified(Self, free_batch_id)].batch = K[PieceId].batch
  PROVE  Placed(K)' /\ (Kept(K) => Kept(K)')
<1>1. PICK id : id = free_batch_id
  OBVIOUS
<1>2. PICK c0 : c0 = Qualified(Self, id + 1)
  OBVIOUS
<1>3. PICK c1 : c1 = Qualified(Self, id)
  OBVIOUS
<1>4. PICK p : p = PieceId
  OBVIOUS
<1>5. PICK b0 : b0 = Batch(id + 1, FirstHalf)
  OBVIOUS
<1>6. PICK b1 : b1 = Batch(id, SecondHalf)
  OBVIOUS
<1>7. /\ pc = "split" /\ pc' = "split"
      /\ internal_proofs' = <<b1>> \o internal_proofs /\ piece' = b0
      /\ proof_parents' = With(With(proof_parents, c0, p), c1, p)
      /\ proof_children' = With(proof_children, p, <<c0, c1>>)
      /\ free_batch_id' = id + 2
      /\ UNCHANGED <<asked, given, sub_recursive_proofs, proof_descendants, recursive_proofs,
                     proof_aliases, queue, finished, results, free_sub_batch_id>>
  BY <1>1, <1>2, <1>3, <1>4, <1>5, <1>6
     DEF Split, caller, done, subVars, FirstHalf, SecondHalf, Half, PieceId
<1>8. AskedOK /\ KnownOK(K) /\ WaitingOK(K) /\ AwayOK(K) /\ ReceivedOK(K) /\ TreeOK(K)
      /\ ApartOK /\ TopsOK(K) /\ AnswersOK
  BY DEF Placed
<1>9. id \in Nat \ {0} /\ id + 1 \in Nat \ {0} /\ id + 1 # id
  BY <1>1, <1>8 DEF AskedOK
<1>10. BatchAt(K, Self, piece)
  BY <1>7, <1>8 DEF WaitingOK, PieceSet
<1>11. /\ c0 \in Pairs /\ c0[1] = Self /\ c0[2] = id + 1
       /\ \A r \in Pairs : r[1] = Self /\ r[2] = id + 1 => r = c0
  BY <1>2, <1>9, QualifiedIs, SubsAre
<1>12. /\ c1 \in Pairs /\ c1[1] = Self /\ c1[2] = id
       /\ \A r \in Pairs : r[1] = Self /\ r[2] = id => r = c1
  BY <1>3, <1>9, QualifiedIs, SubsAre
<1>13. /\ p \in Pairs /\ p[1] = Self /\ p[2] = piece.id
       /\ \A r \in Pairs : r[1] = Self /\ r[2] = piece.id => r = p
  <2>1. piece.id \in Nat
    BY <1>10 DEF BatchAt
  <2>2. QED
    BY <1>4, <2>1, QualifiedIs, SubsAre DEF PieceId
<1>14. c0 # c1
  BY <1>9, <1>11, <1>12
<1>15. NextId(Self)' = id + 2 /\ NextId(Self) = id /\ \A s \in Subs : NextId(s)' = NextId(s)
  BY <1>1, <1>7, SubsAre DEF NextId
<1>16. c0 \notin Known /\ c1 \notin Known /\ Known' = Known \cup {c0, c1}
  <2>1. c0 \notin Known /\ c1 \notin Known
    BY <1>9, <1>11, <1>12, <1>15 DEF Known
  <2>2. \A r \in Pairs : r[1] = Self =>
          (r[2] \in 1..((id + 2) - 1) <=> r[2] \in 1..(id - 1) \/ r[2] = id \/ r[2] = id + 1)
    BY <1>9 DEF Pairs
  <2>3. ASSUME NEW r PROVE r \in Known' <=> r \in Known \cup {c0, c1}
    <3>1. CASE r \in Pairs /\ r[1] = Self
      BY <1>9, <1>11, <1>12, <1>15, <2>2, <3>1 DEF Known
    <3>2. CASE ~(r \in Pairs /\ r[1] = Self)
      BY <1>11, <1>12, <1>15, <3>2 DEF Known
    <3>3. QED
      BY <3>1, <3>2
  <2>4. QED
    BY <2>1, <2>3
<1>17. /\ Live \subseteq Known /\ DOMAIN proof_parents \subseteq Known
       /\ DOMAIN proof_aliases \subseteq Known /\ DOMAIN sub_recursive_proofs \subseteq Known
  BY <1>8 DEF KnownOK
<1>18. Pieces = {piece.id} /\ Pieces' = {id + 1} /\ PieceSet' = {b0}
  BY <1>5, <1>7 DEF Pieces, PieceSet, Batch
<1>19. p \in Waiting /\ piece.id \notin Ids(internal_proofs)
  BY <1>8, <1>13, <1>18 DEF Waiting, WaitingOK
<1>20. id \notin Ids(internal_proofs) /\ id + 1 \notin Ids(internal_proofs)
  <2>1. \A i \in {id, id + 1} : i \in Ids(internal_proofs) => Qualified(Self, i) \in Waiting
    BY <1>9, QualifiedIs, SubsAre DEF Waiting
  <2>2. QED
    BY <1>2, <1>3, <1>16, <1>17, <2>1 DEF Live
<1>21. Bears(b0) /\ Bears(b1) /\ b0.id = id + 1 /\ b1.id = id
       /\ b0.proofs = FirstHalf /\ b1.proofs = SecondHalf
  BY <1>5, <1>6 DEF Bears, Batch
<1>22. /\ Listed(internal_proofs') /\ ToSet(internal_proofs') = ToSet(internal_proofs) \cup {b1}
       /\ Ids(internal_proofs') = Ids(internal_proofs) \cup {id}
  <2>1. Listed(<<b1>>) /\ Ids(<<b1>>) = {id} /\ ToSet(<<b1>>) = {b1}
    BY <1>21, OneListed
  <2>2. Listed(internal_proofs) /\ Ids(<<b1>>) \cap Ids(internal_proofs) = {}
    BY <1>8, <1>20, <2>1 DEF WaitingOK
  <2>3. /\ Listed(<<b1>> \o internal_proofs)
        /\ Ids(<<b1>> \o internal_proofs) = Ids(<<b1>>) \cup Ids(internal_proofs)
        /\ ToSet(<<b1>> \o internal_proofs) = ToSet(<<b1>>) \cup ToSet(internal_proofs)
    BY <2>1, <2>2, IdsConcat
  <2>4. QED
    BY <1>7, <2>1, <2>3
<1>23. Waiting' = (Waiting \ {p}) \cup {c0, c1}
  <2>1. \A r \in Pairs : r \in Waiting' <=> (r \in Waiting /\ r # p) \/ r = c0 \/ r = c1
    BY <1>11, <1>12, <1>13, <1>18, <1>19, <1>20, <1>22 DEF Waiting
  <2>2. Waiting' \subseteq Pairs /\ Waiting \subseteq Pairs
    BY DEF Waiting
  <2>3. QED
    BY <1>11, <1>12, <2>1, <2>2
<1>24. Above' = Above \cup {p} /\ Away' = Away /\ Received' = Received
       /\ DOMAIN proof_parents' = DOMAIN proof_parents \cup {c0, c1}
  BY <1>7 DEF Above, Away, AwayAt, Received, With
<1>25. c0 \notin Live /\ c1 \notin Live /\ p \in Live /\ c0 # p /\ c1 # p
       /\ c0 \notin DOMAIN proof_parents /\ c1 \notin DOMAIN proof_parents
       /\ p \notin Received /\ p \notin Above
  BY <1>8, <1>16, <1>17, <1>19 DEF Live, ApartOK
<1>26. Live' = Live \cup {c0, c1}
  BY <1>19, <1>23, <1>24 DEF Live
<1>27. Tops' = Tops
  BY <1>24, <1>25, <1>26 DEF Tops
<1>28. /\ proof_parents'[c0] = p /\ proof_parents'[c1] = p
       /\ \A q \in DOMAIN proof_parents : proof_parents'[q] = proof_parents[q]
       /\ proof_children'[p] = <<c0, c1>>
       /\ \A q \in Above : proof_children'[q] = proof_children[q]
  BY <1>7, <1>14, <1>25 DEF With, Above
<1>29. AskedOK'
  <2>1. id + 2 \in Nat \ {0} /\ 1..(id - 1) \subseteq 1..((id + 2) - 1)
    BY <1>9
  <2>2. DOMAIN asked \subseteq 1..(id - 1)
    BY <1>1, <1>8 DEF AskedOK
  <2>3. QED
    BY <1>7, <1>8, <2>1, <2>2 DEF AskedOK
<1>30. KnownOK(K)'
  <2>1. K[c0].batch \in DOMAIN asked /\ K[c1].batch \in DOMAIN asked
    <3>1. K[p].batch \in DOMAIN asked
      BY <1>8, <1>17, <1>25 DEF KnownOK
    <3>2. QED
      BY <1>1, <1>2, <1>3, <1>4, <3>1
  <2>2. QED
    BY <1>7, <1>8, <1>13, <1>16, <1>24, <1>26, <2>1 DEF KnownOK
<1>31. WaitingOK(K)'
  <2>1. BatchAt(K, Self, b0) /\ BatchAt(K, Self, b1)
    BY <1>1, <1>2, <1>3, <1>9, <1>21 DEF BatchAt
  <2>2. Ids(internal_proofs') \cap Pieces' = {}
    BY <1>9, <1>18, <1>20, <1>22
  <2>3. QED
    BY <1>8, <1>18, <1>22, <2>1, <2>2 DEF WaitingOK, BatchAt
<1>32. AwayOK(K)'
  BY <1>7, <1>8 DEF AwayOK, AwayAtOK, BatchAt, AnswerAt
<1>33. ReceivedOK(K)'
  BY <1>7, <1>8, <1>24 DEF ReceivedOK, ReceivedAtOK, ProofsOf
<1>34. TreeOK(K)'
  <2>1. ASSUME NEW q \in Above'
        PROVE  \E l, r \in DOMAIN proof_parents' :
                 /\ proof_children'[q] = <<l, r>> /\ l # r
                 /\ proof_parents'[l] = q /\ proof_parents'[r] = q
                 /\ Halves(K[q], K[l], K[r])
    <3>1. CASE q = p
      BY <1>1, <1>2, <1>3, <1>4, <1>14, <1>24, <1>28, <3>1
    <3>2. CASE q # p
      <4>1. q \in Above
        BY <1>24, <3>2
      <4>2. PICK l \in DOMAIN proof_parents, r \in DOMAIN proof_parents :
                 /\ proof_children[q] = <<l, r>> /\ l # r
                 /\ proof_parents[l] = q /\ proof_parents[r] = q
                 /\ Halves(K[q], K[l], K[r])
        BY <1>8, <4>1 DEF TreeOK
      <4>3. QED
        BY <1>24, <1>28, <4>1, <4>2
    <3>3. QED
      BY <3>1, <3>2
  <2>2. ToSet(<<c0, c1>>) = {c0, c1}
    BY DEF ToSet
  <2>3. ASSUME NEW q \in DOMAIN proof_parents'
        PROVE  /\ proof_parents'[q] \in Above'
               /\ q \in ToSet(proof_children'[proof_parents'[q]])
    <3>1. CASE q \in DOMAIN proof_parents
      BY <1>8, <1>24, <1>28, <3>1 DEF TreeOK
    <3>2. CASE q \in {c0, c1}
      BY <1>24, <1>28, <2>2, <3>2
    <3>3. QED
      BY <1>24, <3>1, <3>2
  <2>4. DOMAIN proof_aliases' \cap DOMAIN proof_parents' = {}
    BY <1>7, <1>8, <1>16, <1>17, <1>24 DEF TreeOK
  <2>5. QED
    BY <2>1, <2>3, <2>4 DEF TreeOK
<1>35. ApartOK'
  BY <1>8, <1>23, <1>24, <1>25 DEF ApartOK, Live
<1>36. TopsOK(K)' /\ AnswersOK'
  BY <1>7, <1>8, <1>27 DEF TopsOK, Top, Whole, AnswersOK
<1>37. ASSUME Kept(K) PROVE Kept(K)'
  <2>1. dropped' = dropped /\ Open' = Open
    BY <1>7 DEF Split, calls, Open
  <2>2. p \notin Away
    BY <1>13, SubsAre DEF Away
  <2>3. Held' = (Held \ {p}) \cup {c0, c1} /\ p \in Held /\ c0 \notin Held /\ c1 \notin Held
    BY <1>19, <1>23, <1>24, <1>25, <2>2 DEF Held, Live
  <2>4. Tiles(K, Held, asked, Open, dropped)
    BY <1>37 DEF Kept
  <2>5. Halves(K[p], K[c0], K[c1]) /\ K[c0] \in Blocks /\ K[c1] \in Blocks
    BY <1>1, <1>2, <1>3, <1>4, <1>8, <1>11, <1>12 DEF KnownOK
  <2>6. Tiles(K, (Held \ {p}) \cup {c0, c1}, asked, Open, dropped)
    BY <1>14, <2>3, <2>4, <2>5, TilesSplit
  <2>7. QED
    BY <1>7, <2>1, <2>3, <2>6 DEF Kept
<1>38. QED
  BY <1>29, <1>30, <1>31, <1>32, <1>33, <1>34, <1>35, <1>36, <1>37 DEF Placed

\* The id and the blocks exist.
LEMMA SplitOK ==
  ASSUME NEW K, Placed(K), Split, Saturation(Chosen) \in Nat \ {0, 1}
  PROVE  \E L : Placed(L)' /\ (Kept(K) => Kept(L)')
<1>1. pc = "split" /\ Fits(Len(piece.proofs))
  BY DEF Split
<1>2. AskedOK /\ KnownOK(K) /\ WaitingOK(K)
  BY DEF Placed
<1>3. BatchAt(K, Self, piece)
  BY <1>1, <1>2 DEF WaitingOK, PieceSet
<1>4. piece.id \in Nat /\ PieceId \in Pairs
  BY <1>3, QualifiedIs, SubsAre DEF BatchAt, PieceId
<1>5. PieceId \in Known
  <2>1. PieceId \in Waiting
    BY <1>1, <1>4, QualifiedIs, SubsAre DEF Waiting, PieceId, Pieces
  <2>2. QED
    BY <1>2, <2>1 DEF KnownOK, Live
<1>6. Stands(K[PieceId], piece.proofs) /\ K[PieceId] \in Blocks
  BY <1>2, <1>3, <1>4 DEF BatchAt, PieceId, KnownOK
<1>7. Len(piece.proofs) \in Nat /\ Len(piece.proofs) > 2
  <2>1. Len(piece.proofs) \in Nat
    BY <1>6, StandsLength
  <2>2. QED
    BY <1>1, <2>1, FitsMeans
<1>8. PICK l \in Blocks, r \in Blocks :
        /\ Halves(K[PieceId], l, r) /\ Stands(l, FirstHalf) /\ Stands(r, SecondHalf)
        /\ Len(FirstHalf) = Half /\ Len(SecondHalf) = Half
        /\ Len(piece.proofs) = 2 * Half /\ Half \in Nat \ {0}
  <2>1. Len(piece.proofs) > 1
    BY <1>7
  <2>2. QED
    BY <1>6, <2>1, StandsSplit DEF FirstHalf, SecondHalf, Half
<1>9. Half > 1
  BY <1>7, <1>8
<1> DEFINE c0 == Qualified(Self, free_batch_id + 1)
           c1 == Qualified(Self, free_batch_id)
<1>10. c0 \in Pairs /\ c1 \in Pairs /\ c0 # c1 /\ c0 \notin Known /\ c1 \notin Known
  <2>1. free_batch_id \in Nat /\ free_batch_id + 1 \in Nat
    BY <1>2 DEF AskedOK
  <2>2. c0 \in Pairs /\ c1 \in Pairs /\ c0[1] = Self /\ c0[2] = free_batch_id + 1
        /\ c1[1] = Self /\ c1[2] = free_batch_id
    BY <2>1, QualifiedIs, SubsAre
  <2> HIDE DEF c0, c1
  <2>3. QED
    BY <2>1, <2>2 DEF Known, NextId
<1> HIDE DEF c0, c1
<1>11. PICK K1 : /\ Placed(K1) /\ (Kept(K) => Kept(K1)) /\ K1[c0] = l
                /\ \A q \in Pairs : q # c0 => K1[q] = K[q]
  BY <1>10, Extend
<1>12. PICK K2 : /\ Placed(K2) /\ (Kept(K1) => Kept(K2)) /\ K2[c1] = r
                /\ \A q \in Pairs : q # c1 => K2[q] = K1[q]
  BY <1>10, <1>11, Extend
<1>13. K2[c0] = l /\ K2[c1] = r /\ K2[PieceId] = K[PieceId]
  BY <1>4, <1>5, <1>10, <1>11, <1>12
<1>14. Placed(K2)' /\ (Kept(K2) => Kept(K2)')
  BY <1>8, <1>9, <1>12, <1>13, SplitPlaced DEF c0, c1, Halves
<1>15. QED
  BY <1>11, <1>12, <1>14

-----------------------------------------------------------------------------
(* Batches are handed on. *)

LEMMA ReplaceOne ==
  ASSUME NEW l, NEW r, l # r, NEW new
  PROVE  ReplaceAll(<<l, r>>, l, new) = <<new, r>> /\ ReplaceAll(<<l, r>>, r, new) = <<l, new>>
BY DEF ReplaceAll

SentTo == Qualified(Chosen.id, free_sub_batch_id[Chosen.id])

\* The piece goes on under the id that the sub-aggregator gives it.
LEMMA SendPlaced ==
  ASSUME NEW K, Placed(K), Send, Chosen.id \in Subs, K[SentTo] = K[PieceId]
  PROVE  Placed(K)' /\ (Kept(K) => Kept(K)')
<1>1. PICK s \in Subs : s = Chosen.id
  OBVIOUS
<1>2. PICK i : i = free_sub_batch_id[s]
  OBVIOUS
<1>3. PICK new : new = Qualified(s, i)
  OBVIOUS
<1>4. PICK old : old = PieceId
  OBVIOUS
<1>5. PICK b : b = Batch(i, piece.proofs)
  OBVIOUS
<1>6. /\ pc = "split" /\ pc' = "send"
      /\ queue' = [queue EXCEPT ![s] = Append(@, b)]
      /\ free_sub_batch_id' = [free_sub_batch_id EXCEPT ![s] = @ + 1]
      /\ UNCHANGED <<asked, given, internal_proofs, sub_recursive_proofs, proof_descendants,
                     recursive_proofs, free_batch_id, finished, results>>
  BY <1>1, <1>2, <1>5 DEF Send, PushTo, caller, done
<1>7. \/ /\ old \in DOMAIN proof_parents
         /\ proof_parents' = With(Without(proof_parents, {old}), new, proof_parents[old])
         /\ proof_children' = [proof_children EXCEPT ![proof_parents[old]] = ReplaceAll(@, old, new)]
         /\ proof_aliases' = proof_aliases
      \/ /\ old \notin DOMAIN proof_parents
         /\ proof_aliases' = With(proof_aliases, new, piece.id)
         /\ proof_parents' = proof_parents /\ proof_children' = proof_children
  BY <1>1, <1>2, <1>3, <1>4 DEF Send, RenameChild, tree, PieceId
<1>8. AskedOK /\ KnownOK(K) /\ WaitingOK(K) /\ AwayOK(K) /\ ReceivedOK(K) /\ TreeOK(K)
      /\ ApartOK /\ TopsOK(K) /\ AnswersOK
  BY DEF Placed
<1>9. i \in Nat \ {0} /\ s \in Nat /\ s # Self /\ free_sub_batch_id \in [Subs -> Nat \ {0}]
  BY <1>2, <1>8, SubsAre DEF AskedOK
<1>10. BatchAt(K, Self, piece)
  BY <1>6, <1>8 DEF WaitingOK, PieceSet
<1>11. /\ new \in Pairs /\ new[1] = s /\ new[2] = i
       /\ \A q \in Pairs : q[1] = s /\ q[2] = i => q = new
  BY <1>3, <1>9, QualifiedIs
<1>12. /\ old \in Pairs /\ old[1] = Self /\ old[2] = piece.id
       /\ \A q \in Pairs : q[1] = Self /\ q[2] = piece.id => q = old
  <2>1. piece.id \in Nat
    BY <1>10 DEF BatchAt
  <2>2. QED
    BY <1>4, <2>1, QualifiedIs, SubsAre DEF PieceId
<1>13. /\ free_sub_batch_id'[s] = i + 1 /\ free_sub_batch_id'\in [Subs -> Nat \ {0}]
       /\ \A t \in Subs : t # s => free_sub_batch_id'[t] = free_sub_batch_id[t]
  BY <1>2, <1>6, <1>9
<1>14. NextId(s)' = i + 1 /\ NextId(s) = i /\ NextId(Self)' = NextId(Self)
       /\ \A t \in Subs : t # s => NextId(t)' = NextId(t)
  BY <1>2, <1>6, <1>9, <1>13 DEF NextId
<1>15. new \notin Known /\ Known' = Known \cup {new}
  <2>1. new \notin Known
    BY <1>9, <1>11, <1>14 DEF Known
  <2>2. \A q \in Pairs : q[1] = s => (q[2] \in 1..((i + 1) - 1) <=> q[2] \in 1..(i - 1) \/ q[2] = i)
    BY <1>9 DEF Pairs
  <2>3. ASSUME NEW q PROVE q \in Known' <=> q \in Known \cup {new}
    <3>1. CASE q \in Pairs /\ q[1] = s
      BY <1>9, <1>11, <1>14, <2>2, <3>1 DEF Known
    <3>2. CASE ~(q \in Pairs /\ q[1] = s)
      BY <1>11, <1>14, <3>2 DEF Known
    <3>3. QED
      BY <3>1, <3>2
  <2>4. QED
    BY <2>1, <2>3
<1>16. /\ Live \subseteq Known /\ DOMAIN proof_parents \subseteq Known
       /\ DOMAIN proof_aliases \subseteq Known /\ DOMAIN sub_recursive_proofs \subseteq Known
  BY <1>8 DEF KnownOK
<1>17. Pieces = {piece.id} /\ Pieces' = {} /\ PieceSet' = {}
  BY <1>6 DEF Pieces, PieceSet
<1>18. old \in Waiting /\ piece.id \notin Ids(internal_proofs)
  BY <1>8, <1>12, <1>17 DEF Waiting, WaitingOK
<1>19. i \notin AwayAt(s)
  <2>1. i \in AwayAt(s) => new \in Away
    BY <1>11 DEF Away
  <2>2. QED
    BY <1>15, <1>16, <2>1 DEF Live
<1>20. Bears(b) /\ b.id = i /\ b.proofs = piece.proofs
  BY <1>5 DEF Bears, Batch
<1>21. /\ Listed(queue'[s]) /\ ToSet(queue'[s]) = ToSet(queue[s]) \cup {b}
       /\ Ids(queue'[s]) = Ids(queue[s]) \cup {i}
       /\ \A t \in Subs : t # s => queue'[t] = queue[t]
       /\ queue' = [t \in Subs |-> queue'[t]]
  <2>1. queue = [t \in Subs |-> queue[t]]
    BY <1>8 DEF AwayOK
  <2>2. queue'[s] = Append(queue[s], b) /\ \A t \in Subs : t # s => queue'[t] = queue[t]
    BY <1>6, <2>1
  <2>3. IsSeq(queue[s]) /\ OnceEach(queue[s]) /\ b.id \notin Ids(queue[s])
    BY <1>8, <1>19, <1>20 DEF AwayOK, AwayAtOK, Listed, AwayAt
  <2>4. QED
    BY <1>6, <1>20, <2>1, <2>2, <2>3, AppendIds DEF Listed
<1>22. AwayAt(s)' = AwayAt(s) \cup {i} /\ \A t \in Subs : t # s => AwayAt(t)' = AwayAt(t)
  BY <1>6, <1>21 DEF AwayAt
<1>23. Away' = Away \cup {new}
  <2>1. \A q \in Pairs : q \in Away' <=> q \in Away \/ q = new
    BY <1>11, <1>22 DEF Away
  <2>2. Away' \subseteq Pairs /\ Away \subseteq Pairs
    BY DEF Away
  <2>3. QED
    BY <1>11, <2>1, <2>2
<1>24. Waiting' = Waiting \ {old}
  <2>1. \A q \in Pairs : q \in Waiting' <=> q \in Waiting /\ q # old
    BY <1>6, <1>12, <1>17, <1>18 DEF Waiting
  <2>2. Waiting' \subseteq Pairs /\ Waiting \subseteq Pairs
    BY DEF Waiting
  <2>3. QED
    BY <2>1, <2>2
<1>25. Above' = Above /\ Received' = Received
  BY <1>6, <1>7 DEF Above, Received
<1>26. new \notin Live /\ old \in Live /\ old # new /\ new \notin DOMAIN proof_parents
       /\ new \notin DOMAIN proof_aliases /\ new \notin DOMAIN sub_recursive_proofs
       /\ old \notin Received /\ old \notin Above /\ old \notin Away
       /\ old \notin DOMAIN proof_aliases
  <2>1. old \notin Away
    BY <1>12, SubsAre DEF Away
  <2>2. old \notin DOMAIN proof_aliases
    BY <1>8, <1>12 DEF KnownOK
  <2>3. QED
    BY <1>8, <1>9, <1>11, <1>12, <1>15, <1>16, <1>18, <2>1, <2>2 DEF Live, ApartOK
<1>27. Live' = (Live \ {old}) \cup {new}
  BY <1>23, <1>24, <1>25, <1>26 DEF Live
<1>28. AskedOK'
  BY <1>6, <1>8, <1>13 DEF AskedOK
<1>29. KnownOK(K)'
  <2>1. K[new].batch \in DOMAIN asked
    <3>1. K[old].batch \in DOMAIN asked
      BY <1>8, <1>16, <1>26 DEF KnownOK
    <3>2. QED
      BY <1>1, <1>2, <1>3, <1>4, <3>1 DEF SentTo
  <2>2. DOMAIN proof_parents' \subseteq DOMAIN proof_parents \cup {new}
        /\ DOMAIN proof_aliases' \subseteq DOMAIN proof_aliases \cup {new}
    BY <1>7 DEF With, Without
  <2>3. \A q \in Known' : K[q].batch \in DOMAIN asked'
    BY <1>6, <1>8, <1>15, <2>1 DEF KnownOK
  <2>4. Live' \cup DOMAIN proof_parents' \cup DOMAIN proof_aliases' \cup DOMAIN sub_recursive_proofs'
          \subseteq Known'
    BY <1>6, <1>15, <1>16, <1>27, <2>2
  <2>5. \A q \in DOMAIN sub_recursive_proofs' \cup DOMAIN proof_aliases' : q[1] # Self
    BY <1>6, <1>8, <1>9, <1>11, <2>2 DEF KnownOK
  <2>6. \A q \in Above' : q[1] = Self
    BY <1>8, <1>25 DEF KnownOK
  <2>7. QED
    BY <1>8, <2>3, <2>4, <2>5, <2>6 DEF KnownOK
<1>30. WaitingOK(K)'
  BY <1>6, <1>8, <1>17 DEF WaitingOK, BatchAt
<1>31. AwayOK(K)'
  <2>1. BatchAt(K, s, b)
    BY <1>1, <1>2, <1>9, <1>10, <1>20 DEF BatchAt, SentTo, PieceId
  <2>2. ASSUME NEW t \in Subs PROVE AwayAtOK(K, t)'
    <3>1. AwayAtOK(K, t)
      BY <1>8 DEF AwayOK
    <3>2. CASE t # s
      BY <1>6, <1>21, <3>1, <3>2 DEF AwayAtOK, BatchAt, AnswerAt
    <3>3. CASE t = s
      BY <1>6, <1>19, <1>21, <2>1, <3>1, <3>3 DEF AwayAtOK, BatchAt, AnswerAt, AwayAt
    <3>4. QED
      BY <3>2, <3>3
  <2>3. QED
    BY <1>6, <1>8, <1>21, <2>2 DEF AwayOK
<1>32. ReceivedOK(K)'
  <2>1. Away' \cap DOMAIN sub_recursive_proofs' = {}
    BY <1>6, <1>8, <1>23, <1>26 DEF ReceivedOK
  <2>2. ASSUME NEW q \in Received' PROVE ReceivedAtOK(K, q)'
    <3>1. ReceivedAtOK(K, q)
      BY <1>8, <1>25 DEF ReceivedOK
    <3>2. QED
      BY <1>6, <3>1 DEF ReceivedAtOK, ProofsOf
  <2>3. QED
    BY <1>6, <1>8, <1>25, <2>1, <2>2 DEF ReceivedOK
<1>33. ApartOK'
  BY <1>8, <1>23, <1>24, <1>25, <1>26 DEF ApartOK, Live
<1>34. AnswersOK'
  BY <1>6, <1>8 DEF AnswersOK
<1>35. ASSUME old \in DOMAIN proof_parents PROVE Placed(K)'
  <2>1. PICK p : p = proof_parents[old]
    OBVIOUS
  <2>2. /\ proof_parents' = With(Without(proof_parents, {old}), new, p)
        /\ proof_children' = [proof_children EXCEPT ![p] = ReplaceAll(@, old, new)]
        /\ proof_aliases' = proof_aliases
    BY <1>7, <1>35, <2>1
  <2>3. /\ DOMAIN proof_parents' = (DOMAIN proof_parents \ {old}) \cup {new}
        /\ proof_parents'[new] = p
        /\ \A q \in DOMAIN proof_parents : q # old => proof_parents'[q] = proof_parents[q]
    BY <1>26, <2>2 DEF With, Without
  <2>4. p \in Above /\ old \in ToSet(proof_children[p])
    BY <1>8, <1>35, <2>1 DEF TreeOK
  <2>5. /\ \A q \in Above : q # p => proof_children'[q] = proof_children[q]
        /\ proof_children'[p] = ReplaceAll(proof_children[p], old, new)
    BY <2>2, <2>4 DEF Above
  <2>6. PICK l \in DOMAIN proof_parents, r \in DOMAIN proof_parents :
          /\ proof_children[p] = <<l, r>> /\ l # r
          /\ proof_parents[l] = p /\ proof_parents[r] = p
          /\ Halves(K[p], K[l], K[r])
    BY <1>8, <2>4 DEF TreeOK
  <2>7. \A x, y : ToSet(<<x, y>>) = {x, y}
    BY DEF ToSet
  <2>8. old = l \/ old = r
    BY <2>4, <2>6, <2>7
  <2>9. K[new] = K[old]
    BY <1>1, <1>2, <1>3, <1>4 DEF SentTo
  <2>10. \E x, y \in DOMAIN proof_parents' :
           /\ proof_children'[p] = <<x, y>> /\ x # y
           /\ proof_parents'[x] = p /\ proof_parents'[y] = p
           /\ Halves(K[p], K[x], K[y])
           /\ {x, y} = ({l, r} \ {old}) \cup {new}
    <3>1. CASE old = l
      <4>1. proof_children'[p] = <<new, r>>
        BY <2>5, <2>6, <3>1, ReplaceOne
      <4>2. r \in DOMAIN proof_parents' /\ new \in DOMAIN proof_parents' /\ new # r
            /\ proof_parents'[r] = p /\ Halves(K[p], K[new], K[r])
        BY <1>26, <2>3, <2>6, <2>9, <3>1
      <4>3. {new, r} = ({l, r} \ {old}) \cup {new}
        BY <2>6, <3>1
      <4>4. QED
        BY <2>3, <4>1, <4>2, <4>3
    <3>2. CASE old = r
      <4>1. proof_children'[p] = <<l, new>>
        BY <2>5, <2>6, <3>2, ReplaceOne
      <4>2. l \in DOMAIN proof_parents' /\ new \in DOMAIN proof_parents' /\ new # l
            /\ proof_parents'[l] = p /\ Halves(K[p], K[l], K[new])
        BY <1>26, <2>3, <2>6, <2>9, <3>2
      <4>3. {l, new} = ({l, r} \ {old}) \cup {new}
        BY <2>6, <3>2
      <4>4. QED
        BY <2>3, <4>1, <4>2, <4>3
    <3>3. QED
      BY <2>8, <3>1, <3>2
  <2>11. TreeOK(K)'
    <3>1. ASSUME NEW q \in Above'
          PROVE  \E x, y \in DOMAIN proof_parents' :
                   /\ proof_children'[q] = <<x, y>> /\ x # y
                   /\ proof_parents'[x] = q /\ proof_parents'[y] = q
                   /\ Halves(K[q], K[x], K[y])
      <4>1. CASE q = p
        BY <2>10, <4>1
      <4>2. CASE q # p
        <5>1. q \in Above
          BY <1>25
        <5>2. PICK x \in DOMAIN proof_parents, y \in DOMAIN proof_parents :
                /\ proof_children[q] = <<x, y>> /\ x # y
                /\ proof_parents[x] = q /\ proof_parents[y] = q
                /\ Halves(K[q], K[x], K[y])
          BY <1>8, <5>1 DEF TreeOK
        <5>3. x # old /\ y # old
          BY <2>1, <4>2, <5>2
        <5>4. QED
          BY <2>3, <2>5, <4>2, <5>1, <5>2, <5>3
      <4>3. QED
        BY <4>1, <4>2
    <3>2. ASSUME NEW q \in DOMAIN proof_parents'
          PROVE  /\ proof_parents'[q] \in Above'
                 /\ q \in ToSet(proof_children'[proof_parents'[q]])
      <4>1. PICK x, y : proof_children'[p] = <<x, y>> /\ {x, y} = ({l, r} \ {old}) \cup {new}
        BY <2>10
      <4>2. CASE q = new
        BY <1>25, <2>3, <2>4, <2>7, <4>1, <4>2, SMTT(30)
      <4>3. CASE q # new
        <5>1. q \in DOMAIN proof_parents /\ q # old /\ proof_parents'[q] = proof_parents[q]
          BY <2>3, <4>3
        <5>2. proof_parents[q] \in Above /\ q \in ToSet(proof_children[proof_parents[q]])
          BY <1>8, <5>1 DEF TreeOK
        <5>3. CASE proof_parents[q] = p
          BY <1>25, <2>6, <2>7, <4>1, <5>1, <5>2, <5>3
        <5>4. CASE proof_parents[q] # p
          BY <1>25, <2>5, <5>1, <5>2, <5>4
        <5>5. QED
          BY <5>3, <5>4
      <4>4. QED
        BY <4>2, <4>3
    <3>3. DOMAIN proof_aliases' \cap DOMAIN proof_parents' = {}
      BY <1>8, <1>26, <2>2, <2>3 DEF TreeOK
    <3>4. QED
      BY <3>1, <3>2, <3>3 DEF TreeOK
  <2>12. Tops' = Tops
    BY <1>26, <1>27, <1>35, <2>3 DEF Tops
  <2>13. TopsOK(K)'
    BY <1>6, <1>8, <2>2, <2>12 DEF TopsOK, Top, Whole
  <2>14. QED
    BY <1>28, <1>29, <1>30, <1>31, <1>32, <1>33, <1>34, <2>11, <2>13 DEF Placed
<1>36. ASSUME old \notin DOMAIN proof_parents PROVE Placed(K)'
  <2>1. /\ proof_aliases' = With(proof_aliases, new, piece.id)
        /\ proof_parents' = proof_parents /\ proof_children' = proof_children
    BY <1>7, <1>36
  <2>2. TreeOK(K)'
    <3>1. DOMAIN proof_aliases' \cap DOMAIN proof_parents' = {}
      BY <1>8, <1>26, <2>1 DEF TreeOK, With
    <3>2. QED
      BY <1>8, <1>25, <2>1, <3>1 DEF TreeOK
  <2>3. Tops' = (Tops \ {old}) \cup {new} /\ old \in Tops /\ new \notin Tops
    BY <1>26, <1>27, <1>36, <2>1 DEF Tops
  <2>4. Top(new)' = piece.id /\ Top(old) = piece.id
    BY <1>9, <1>11, <1>12, <2>1 DEF Top, With
  <2>5. K[new] = K[old]
    BY <1>1, <1>2, <1>3, <1>4 DEF SentTo
  <2>6. ASSUME NEW q \in Tops, q # old PROVE Top(q)' = Top(q) /\ q # new
    <3>1. q # new
      BY <2>3
    <3>2. q[1] # Self => q \in DOMAIN proof_aliases
      BY <1>8 DEF TopsOK
    <3>3. QED
      BY <2>1, <3>1, <3>2 DEF Top, With
  <2>7. TopsOK(K)'
    <3>1. ASSUME NEW q \in Tops'
          PROVE  /\ q[1] # Self => q \in DOMAIN proof_aliases'
                 /\ Top(q)' \in DOMAIN asked' \ (DOMAIN given' \cup Ids(recursive_proofs'))
                 /\ K[q] = Whole(Top(q)', asked'[Top(q)'])
      <4>1. CASE q = new
        <5>1. /\ Top(old) \in DOMAIN asked \ (DOMAIN given \cup Ids(recursive_proofs))
              /\ K[old] = Whole(Top(old), asked[Top(old)])
          BY <1>8, <2>3 DEF TopsOK
        <5>2. new \in DOMAIN proof_aliases'
          BY <2>1 DEF With
        <5>3. Top(q)' = piece.id
          BY <2>4, <4>1
        <5>4. QED
          BY <1>6, <2>4, <2>5, <4>1, <5>1, <5>2, <5>3
      <4>2. CASE q # new
        <5>1. q \in Tops /\ Top(q)' = Top(q)
          BY <2>3, <2>6, <4>2
        <5>2. DOMAIN proof_aliases \subseteq DOMAIN proof_aliases'
          BY <2>1 DEF With
        <5>3. QED
          BY <1>6, <1>8, <5>1, <5>2 DEF TopsOK
      <4>3. QED
        BY <4>1, <4>2
    <3>2. ASSUME NEW q \in Tops', NEW t \in Tops', Top(q)' = Top(t)' PROVE q = t
      <4>1. \A u \in Tops : u # old => Top(u)' # piece.id
        BY <1>8, <2>3, <2>4, <2>6 DEF TopsOK
      <4>2. CASE q = new /\ t # new
        BY <2>3, <2>4, <3>2, <4>1, <4>2
      <4>3. CASE q # new /\ t = new
        BY <2>3, <2>4, <3>2, <4>1, <4>3
      <4>4. CASE q # new /\ t # new
        BY <1>8, <2>3, <2>6, <3>2, <4>4 DEF TopsOK
      <4>5. QED
        BY <4>2, <4>3, <4>4
    <3>3. QED
      BY <3>1, <3>2 DEF TopsOK
  <2>8. QED
    BY <1>28, <1>29, <1>30, <1>31, <1>32, <1>33, <1>34, <2>2, <2>7 DEF Placed
<1>37. ASSUME Kept(K) PROVE Kept(K)'
  <2>1. dropped' = dropped /\ Open' = Open
    BY <1>6 DEF Send, calls, Open
  <2>2. Held' = (Held \ {old}) \cup {new} /\ old \in Held /\ new \notin Held
    BY <1>18, <1>23, <1>24, <1>25, <1>26 DEF Held, Live
  <2>3. Tiles(K, Held, asked, Open, dropped)
    BY <1>37 DEF Kept
  <2>4. K[new] = K[old]
    BY <1>1, <1>2, <1>3, <1>4 DEF SentTo
  <2>5. Tiles(K, (Held \ {old}) \cup {new}, asked, Open, dropped)
    BY <2>2, <2>3, <2>4, TilesRename
  <2>6. QED
    BY <1>6, <2>1, <2>2, <2>5 DEF Kept
<1>38. QED
  BY <1>35, <1>36, <1>37

\* That id is new, so it can stand for the block of the piece.
LEMMA SendOK ==
  ASSUME NEW K, Placed(K), Send, Chosen.id \in Subs
  PROVE  \E L : Placed(L)' /\ (Kept(K) => Kept(L)')
<1> DEFINE i == free_sub_batch_id[Chosen.id]
<1>1. AskedOK /\ KnownOK(K) /\ WaitingOK(K) /\ pc = "split"
  BY DEF Placed, Send
<1>2. BatchAt(K, Self, piece)
  BY <1>1 DEF WaitingOK, PieceSet
<1>3. piece.id \in Nat /\ PieceId \in Pairs /\ PieceId[1] = Self
  BY <1>2, QualifiedIs, SubsAre DEF BatchAt, PieceId
<1>4. i \in Nat \ {0} /\ Chosen.id \in Nat /\ Chosen.id # Self
  BY <1>1, SubsAre DEF AskedOK
<1>5. SentTo \in Pairs /\ SentTo[1] = Chosen.id /\ SentTo[2] = i
  BY <1>4, QualifiedIs DEF SentTo
<1>6. SentTo \notin Known /\ SentTo # PieceId
  BY <1>3, <1>4, <1>5 DEF Known, NextId
<1>7. K[PieceId] \in Blocks
  BY <1>1, <1>3 DEF KnownOK
<1>8. PICK L : /\ Placed(L) /\ (Kept(K) => Kept(L)) /\ L[SentTo] = K[PieceId]
              /\ \A q \in Pairs : q # SentTo => L[q] = K[q]
  BY <1>5, <1>6, <1>7, Extend
<1>9. L[SentTo] = L[PieceId]
  BY <1>3, <1>6, <1>8
<1>10. Placed(L)' /\ (Kept(L) => Kept(L)')
  BY <1>8, <1>9, SendPlaced
<1>11. QED
  BY <1>8, <1>10

-----------------------------------------------------------------------------
(* Answers are received and combined. *)

\* The proofs that ids stand for, given in a map.
ProofsIn(ids, proofs) == [i \in DOMAIN ids |-> proofs[ids[i]]]

LEMMA ProofsInOne ==
  ASSUME NEW q, NEW f
  PROVE  IsSeq(<<q>>) /\ Len(<<q>>) = 1 /\ ToSet(<<q>>) = {q} /\ ProofsIn(<<q>>, f) = <<f[q]>>
<1>1. IsSeq(<<q>>)
  <2>1. <<q>> = [i \in 1..1 |-> <<q>>[i]] /\ 1 \in Nat
    OBVIOUS
  <2>2. QED
    BY <2>1, FunctionSeq
<1>2. QED
  BY <1>1 DEF ToSet, ProofsIn

LEMMA ProofsInConcat ==
  ASSUME NEW a, IsSeq(a), NEW b, IsSeq(b), NEW f
  PROVE  ProofsIn(a \o b, f) = ProofsIn(a, f) \o ProofsIn(b, f)
<1>1. PICK c : c = a \o b
  OBVIOUS
<1>2. PICK n : n = Len(a)
  OBVIOUS
<1>3. PICK m : m = Len(b)
  OBVIOUS
<1>4. /\ IsSeq(c) /\ Len(c) = n + m /\ n \in Nat /\ m \in Nat
      /\ \A i \in 1..(n + m) : c[i] = IF i <= n THEN a[i] ELSE b[i - n]
      /\ DOMAIN a = 1..n /\ DOMAIN b = 1..m /\ DOMAIN c = 1..(n + m)
  <2>1. IsSeq(c)
    BY <1>1, ConcatIsSeq
  <2>2. QED
    BY <1>1, <1>2, <1>3, <2>1, ConcatIsSeq, IsSeqLength
<1>5. PICK p : p = ProofsIn(a, f)
  OBVIOUS
<1>6. PICK q : q = ProofsIn(b, f)
  OBVIOUS
<1>7. PICK r : r = ProofsIn(c, f)
  OBVIOUS
<1>8. /\ p = [i \in 1..n |-> p[i]] /\ \A i \in 1..n : p[i] = f[a[i]]
  BY <1>4, <1>5 DEF ProofsIn
<1>9. /\ q = [i \in 1..m |-> q[i]] /\ \A i \in 1..m : q[i] = f[b[i]]
  BY <1>4, <1>6 DEF ProofsIn
<1>10. /\ r = [i \in 1..(n + m) |-> r[i]] /\ \A i \in 1..(n + m) : r[i] = f[c[i]]
  BY <1>4, <1>7 DEF ProofsIn
<1>11. IsSeq(p) /\ Len(p) = n /\ IsSeq(q) /\ Len(q) = m /\ IsSeq(r) /\ Len(r) = n + m
  <2>1. n + m \in Nat
    BY <1>4
  <2>2. QED
    BY <1>4, <1>8, <1>9, <1>10, <2>1, FunctionSeq
<1>12. \A i \in 1..n : i \in 1..(n + m) /\ c[i] = a[i]
  BY <1>4
<1>13. \A i \in 1..m : n + i \in 1..(n + m) /\ c[n + i] = b[i]
  BY <1>4
<1>14. Joins(r, p, q)
  <2>a. /\ \A i \in 1..n : p[i] = f[a[i]]
        /\ \A i \in 1..m : q[i] = f[b[i]]
        /\ \A i \in 1..(n + m) : r[i] = f[c[i]]
    BY <1>8, <1>9, <1>10
  <2>b. \A i \in 1..n : r[i] = p[i]
    BY <1>12, <2>a, ZenonT(30)
  <2>c. \A i \in 1..m : r[n + i] = q[i]
    BY <1>13, <2>a, ZenonT(30)
  <2>1. \A i \in 1..Len(p) : r[i] = p[i]
    BY <1>11, <2>b, Zenon
  <2>2. \A i \in 1..Len(q) : r[Len(p) + i] = q[i]
    BY <1>11, <2>c, Zenon
  <2>3. Len(r) = Len(p) + Len(q)
    BY <1>11
  <2>4. QED
    BY <2>1, <2>2, <2>3, Zenon DEF Joins
<1>15. r = p \o q
  BY <1>11, <1>14, JoinsIs
<1>16. QED
  BY <1>1, <1>5, <1>6, <1>7, <1>15

\* An answer that is received stands for its block as its one descendant.
LEMMA PopSubProofPlaced ==
  ASSUME NEW K, Placed(K), PopSubProof, aggregator_id \in Subs
  PROVE  Placed(K)' /\ (Kept(K) => Kept(K)') /\ qualified_id' \in Received'
<1>1. PICK s \in Subs : s = aggregator_id
  OBVIOUS
<1>2. PICK e : e = Head(results[s])
  OBVIOUS
<1>3. PICK q : q = Qualified(s, e.id)
  OBVIOUS
<1>4. /\ results[s] # <<>> /\ qualified_id' = q
      /\ sub_recursive_proofs' = With(sub_recursive_proofs, q, e.node)
      /\ proof_descendants' = With(proof_descendants, q, <<q>>)
      /\ results' = [results EXCEPT ![s] = Tail(@)]
      /\ pc = "pop" /\ pc' = "combine"
      /\ UNCHANGED <<asked, given, internal_proofs, recursive_proofs, proof_parents,
                     proof_children, proof_aliases, free_batch_id, queue, finished,
                     free_sub_batch_id>>
  BY <1>1, <1>2, <1>3 DEF PopSubProof, caller, tree
<1>5. AskedOK /\ KnownOK(K) /\ WaitingOK(K) /\ AwayOK(K) /\ ReceivedOK(K) /\ TreeOK(K)
      /\ ApartOK /\ TopsOK(K) /\ AnswersOK
  BY DEF Placed
<1>6. AwayAtOK(K, s)
  BY <1>5 DEF AwayOK
<1>7. IsSeq(results[s]) /\ OnceEach(results[s])
  BY <1>6 DEF AwayAtOK, Listed
<1>8. e \in ToSet(results[s])
  BY <1>2, <1>4, <1>7, HeadIds
<1>9. AnswerAt(K, s, e) /\ Bears(e) /\ e.id \in Nat
  BY <1>6, <1>8 DEF AwayAtOK, AnswerAt
<1>10. /\ Listed(results'[s]) /\ ToSet(results'[s]) \subseteq ToSet(results[s])
       /\ e.id \in Ids(results[s]) /\ Ids(results'[s]) = Ids(results[s]) \ {e.id}
       /\ \A t \in Subs : t # s => results'[t] = results[t]
       /\ results' = [t \in Subs |-> results'[t]]
  <2>1. results = [t \in Subs |-> results[t]]
    BY <1>5 DEF AwayOK
  <2>2. results'[s] = Tail(results[s]) /\ \A t \in Subs : t # s => results'[t] = results[t]
    BY <1>4, <2>1
  <2>3. /\ Listed(Tail(results[s])) /\ ToSet(Tail(results[s])) \subseteq ToSet(results[s])
        /\ e.id \in Ids(results[s]) /\ Ids(Tail(results[s])) = Ids(results[s]) \ {e.id}
    BY <1>2, <1>4, <1>7, <1>9, HeadIds DEF Listed
  <2>4. QED
    BY <1>4, <2>1, <2>2, <2>3
<1>11. s \in Nat /\ s # Self
  BY SubsAre
<1>12. /\ q \in Pairs /\ q[1] = s /\ q[2] = e.id
       /\ \A r \in Pairs : r[1] = s /\ r[2] = e.id => r = q
  BY <1>3, <1>9, <1>11, QualifiedIs
<1>13. AwayAt(s)' = AwayAt(s) \ {e.id} /\ e.id \in AwayAt(s)
       /\ \A t \in Subs : t # s => AwayAt(t)' = AwayAt(t)
  <2>1. e.id \notin Ids(queue[s]) /\ e.id \notin Ids(finished[s])
    BY <1>6, <1>10 DEF AwayAtOK
  <2>2. QED
    BY <1>4, <1>10, <2>1 DEF AwayAt
<1>14. Away' = Away \ {q} /\ q \in Away
  <2>1. \A r \in Pairs : r \in Away' <=> r \in Away /\ r # q
    BY <1>12, <1>13 DEF Away
  <2>2. Away' \subseteq Pairs /\ Away \subseteq Pairs
    BY DEF Away
  <2>3. q \in Away
    BY <1>12, <1>13 DEF Away
  <2>4. QED
    BY <2>1, <2>2, <2>3
<1>15. Pieces' = Pieces /\ PieceSet' = PieceSet
  BY <1>4 DEF Pieces, PieceSet
<1>16. Waiting' = Waiting /\ Above' = Above /\ Received' = Received \cup {q} /\ Known' = Known
  BY <1>4, <1>15 DEF Waiting, Above, Received, With, Known, NextId
<1>17. q \notin Received /\ q \notin DOMAIN sub_recursive_proofs /\ q \notin Waiting /\ q \notin Above
  <2>1. q \notin Waiting /\ q \notin Above
    BY <1>5, <1>11, <1>12 DEF Waiting, KnownOK
  <2>2. QED
    BY <1>5, <1>14, <2>1 DEF ReceivedOK, ApartOK
<1>18. Live' = Live /\ Tops' = Tops
  BY <1>4, <1>14, <1>16 DEF Live, Tops
<1>19. AskedOK'
  BY <1>4, <1>5 DEF AskedOK
<1>20. DOMAIN sub_recursive_proofs' = DOMAIN sub_recursive_proofs \cup {q}
       /\ sub_recursive_proofs'[q] = e.node
       /\ \A r \in DOMAIN sub_recursive_proofs : sub_recursive_proofs'[r] = sub_recursive_proofs[r]
  BY <1>4, <1>17 DEF With
<1>21. KnownOK(K)'
  <2>1. q \in Live
    BY <1>14 DEF Live
  <2>2. QED
    BY <1>4, <1>5, <1>11, <1>12, <1>16, <1>18, <1>20, <2>1 DEF KnownOK
<1>22. WaitingOK(K)'
  BY <1>4, <1>5, <1>15 DEF WaitingOK, BatchAt
<1>23. AwayOK(K)'
  <2>1. ASSUME NEW t \in Subs PROVE AwayAtOK(K, t)'
    <3>1. AwayAtOK(K, t)
      BY <1>5 DEF AwayOK
    <3>2. CASE t # s
      BY <1>4, <1>10, <3>1, <3>2 DEF AwayAtOK, BatchAt, AnswerAt
    <3>3. CASE t = s
      BY <1>4, <1>10, <3>1, <3>3 DEF AwayAtOK, BatchAt, AnswerAt
    <3>4. QED
      BY <3>2, <3>3
  <2>2. QED
    BY <1>4, <1>5, <1>10, <2>1 DEF AwayOK
<1>24. /\ proof_descendants'[q] = <<q>>
       /\ \A r \in Received : proof_descendants'[r] = proof_descendants[r]
  BY <1>4, <1>17 DEF With, Received
<1>25. ReceivedOK(K)'
  <2>1. IsSeq(<<q>>) /\ Len(<<q>>) = 1 /\ ToSet(<<q>>) = {q}
    BY ProofsInOne
  <2>2. ReceivedAtOK(K, q)'
    <3>1. ProofsOf(q)' = <<e.node>>
      <4>1. ProofsOf(q)' = ProofsIn(<<q>>, sub_recursive_proofs')
        BY <1>24 DEF ProofsOf, ProofsIn
      <4>2. QED
        BY <1>20, <4>1, ProofsInOne
    <3>2. Stands(K[q], <<e.node>>)
      BY <1>3, <1>9 DEF AnswerAt
    <3>3. QED
      BY <1>20, <1>24, <2>1, <3>1, <3>2 DEF ReceivedAtOK
  <2>3. ASSUME NEW r \in Received PROVE ReceivedAtOK(K, r)'
    <3>1. ReceivedAtOK(K, r)
      BY <1>5 DEF ReceivedOK
    <3>2. ProofsOf(r)' = ProofsOf(r)
      <4>1. \A i \in DOMAIN proof_descendants[r] : proof_descendants[r][i] \in DOMAIN sub_recursive_proofs
        BY <3>1 DEF ReceivedAtOK, ToSet
      <4>2. QED
        BY <1>20, <1>24, <4>1 DEF ProofsOf
    <3>3. QED
      BY <1>20, <1>24, <3>1, <3>2 DEF ReceivedAtOK
  <2>4. IsFiniteSet(Received')
    BY <1>5, <1>16, FS_AddElement DEF ReceivedOK
  <2>5. ASSUME NEW r \in Received', NEW t \in Received', r # t
        PROVE  ToSet(proof_descendants'[r]) \cap ToSet(proof_descendants'[t]) = {}
    <3>1. \A u \in Received : ToSet(proof_descendants[u]) \subseteq DOMAIN sub_recursive_proofs
      BY <1>5 DEF ReceivedOK, ReceivedAtOK
    <3>2. \A u \in Received : q \notin ToSet(proof_descendants[u])
      BY <1>17, <3>1
    <3>3. CASE r = q
      BY <1>16, <1>24, <2>1, <2>5, <3>2, <3>3
    <3>4. CASE t = q
      BY <1>16, <1>24, <2>1, <2>5, <3>2, <3>4
    <3>5. CASE r # q /\ t # q
      BY <1>5, <1>16, <1>24, <2>5, <3>5 DEF ReceivedOK
    <3>6. QED
      BY <3>3, <3>4, <3>5
  <2>6. Away' \cap DOMAIN sub_recursive_proofs' = {}
    BY <1>5, <1>14, <1>20 DEF ReceivedOK
  <2>7. ASSUME NEW p \in DOMAIN sub_recursive_proofs'
        PROVE  \E r \in Received' : p \in ToSet(proof_descendants'[r])
    <3>1. CASE p = q
      BY <1>16, <1>24, <2>1, <3>1
    <3>2. CASE p # q
      <4>1. PICK r \in Received : p \in ToSet(proof_descendants[r])
        BY <1>5, <1>20, <3>2 DEF ReceivedOK
      <4>2. QED
        BY <1>16, <1>24, <4>1
    <3>3. QED
      BY <3>1, <3>2
  <2>8. QED
    BY <1>16, <2>2, <2>3, <2>4, <2>5, <2>6, <2>7 DEF ReceivedOK
<1>26. TreeOK(K)'
  BY <1>4, <1>5, <1>16 DEF TreeOK
<1>27. ApartOK'
  BY <1>5, <1>14, <1>16, <1>17 DEF ApartOK
<1>28. TopsOK(K)' /\ AnswersOK'
  BY <1>4, <1>5, <1>18 DEF TopsOK, Top, Whole, AnswersOK
<1>29. Kept(K) => Kept(K)'
  <2>1. Held' = Held
    BY <1>14, <1>16 DEF Held
  <2>2. Open' = Open /\ UNCHANGED <<asked, dropped>>
    BY <1>4 DEF Open, PopSubProof, calls
  <2>3. QED
    BY <2>1, <2>2, KeptSame
<1>30. QED
  BY <1>4, <1>16, <1>19, <1>21, <1>22, <1>23, <1>25, <1>26, <1>27, <1>28, <1>29 DEF Placed

\* The descendants of two halves, joined in order, stand for their parent.
LEMMA CombinePlaced ==
  ASSUME NEW K, Placed(K), CombineSubtrees
  PROVE  Placed(K)' /\ (Kept(K) => Kept(K)') /\ qualified_id' \in Received'
<1>1. PICK p : p = proof_parents[qualified_id]
  OBVIOUS
<1>2. AskedOK /\ KnownOK(K) /\ WaitingOK(K) /\ AwayOK(K) /\ ReceivedOK(K) /\ TreeOK(K)
      /\ ApartOK /\ TopsOK(K) /\ AnswersOK
  BY DEF Placed
<1>3. qualified_id \in DOMAIN proof_parents
  BY DEF CombineSubtrees, HasSibling
<1>4. p \in Above
  BY <1>1, <1>2, <1>3 DEF TreeOK
<1>5. PICK l \in DOMAIN proof_parents, r \in DOMAIN proof_parents :
        /\ proof_children[p] = <<l, r>> /\ l # r
        /\ proof_parents[l] = p /\ proof_parents[r] = p
        /\ Halves(K[p], K[l], K[r])
  BY <1>2, <1>4 DEF TreeOK
<1>6. PICK a : a = proof_descendants[l]
  OBVIOUS
<1>7. PICK b : b = proof_descendants[r]
  OBVIOUS
<1>8. PICK c : c = a \o b
  OBVIOUS
<1>9. proof_children[p][1] = l /\ proof_children[p][2] = r
  BY <1>5
<1>10. /\ l \in Received /\ r \in Received /\ Len(a) = Len(b)
  BY <1>1, <1>6, <1>7, <1>9 DEF CombineSubtrees, HasSibling, Complete, Received
<1>11. /\ proof_descendants' = With(Without(proof_descendants, {l, r}), p, c)
       /\ proof_children' = Without(proof_children, {p})
       /\ proof_parents' = Without(proof_parents, {l, r})
       /\ qualified_id' = p /\ pc = "combine" /\ pc' = "combine"
       /\ UNCHANGED <<asked, given, internal_proofs, recursive_proofs, sub_recursive_proofs,
                      proof_aliases, free_batch_id, queue, finished, results, free_sub_batch_id>>
  BY <1>1, <1>6, <1>7, <1>8, <1>9 DEF CombineSubtrees, Join, caller, subVars
<1>12. /\ p \in Live /\ l \in Live /\ r \in Live /\ p \notin Received /\ p # l /\ p # r
       /\ l \notin Above /\ r \notin Above /\ l \notin Waiting /\ r \notin Waiting
       /\ l \notin Away /\ r \notin Away /\ p \notin Waiting
  BY <1>2, <1>4, <1>10 DEF Live, ApartOK
<1>13. /\ Received' = (Received \ {l, r}) \cup {p} /\ Above' = Above \ {p}
       /\ DOMAIN proof_parents' = DOMAIN proof_parents \ {l, r}
       /\ \A q \in DOMAIN proof_parents' : proof_parents'[q] = proof_parents[q]
       /\ \A q \in Above' : proof_children'[q] = proof_children[q]
       /\ proof_descendants'[p] = c
       /\ \A q \in Received \ {l, r} : proof_descendants'[q] = proof_descendants[q]
  BY <1>11, <1>12 DEF Received, Above, With, Without
<1>14. Pieces' = Pieces /\ PieceSet' = PieceSet
  BY <1>11 DEF Pieces, PieceSet
<1>15. Waiting' = Waiting /\ Away' = Away /\ Known' = Known
  BY <1>11, <1>14 DEF Waiting, Away, AwayAt, Known, NextId
<1>16. Live' = Live \ {l, r}
  BY <1>4, <1>12, <1>13, <1>15 DEF Live
<1>17. Tops' = Tops
  BY <1>5, <1>13, <1>16 DEF Tops
<1>18. AskedOK'
  BY <1>2, <1>11 DEF AskedOK
<1>19. KnownOK(K)'
  BY <1>2, <1>11, <1>13, <1>15, <1>16 DEF KnownOK
<1>20. WaitingOK(K)' /\ AwayOK(K)'
  BY <1>2, <1>11, <1>14 DEF WaitingOK, AwayOK, AwayAtOK, BatchAt, AnswerAt
<1>21. p[1] = Self /\ K[p] \in Blocks /\ K[l] \in Blocks /\ K[r] \in Blocks
  <2>1. p \in Pairs /\ l \in Pairs /\ r \in Pairs
    BY <1>2, <1>12 DEF KnownOK, Known
  <2>2. QED
    BY <1>2, <1>4, <2>1 DEF KnownOK
<1>22. /\ IsSeq(a) /\ IsSeq(b) /\ Stands(K[l], ProofsOf(l)) /\ Stands(K[r], ProofsOf(r))
       /\ ToSet(a) \subseteq DOMAIN sub_recursive_proofs
       /\ ToSet(b) \subseteq DOMAIN sub_recursive_proofs
  BY <1>2, <1>6, <1>7, <1>10 DEF ReceivedOK, ReceivedAtOK
<1>23. IsSeq(c) /\ ToSet(c) = ToSet(a) \cup ToSet(b)
  BY <1>8, <1>22, ConcatIsSeq, ConcatToSet
<1>24. ReceivedAtOK(K, p)'
  <2>1. ProofsOf(p)' = ProofsIn(c, sub_recursive_proofs)
        /\ ProofsOf(l) = ProofsIn(a, sub_recursive_proofs)
        /\ ProofsOf(r) = ProofsIn(b, sub_recursive_proofs)
    BY <1>6, <1>7, <1>11, <1>13 DEF ProofsOf, ProofsIn
  <2>2. ProofsOf(p)' = ProofsOf(l) \o ProofsOf(r)
    BY <1>8, <1>22, <2>1, ProofsInConcat
  <2>3. Len(ProofsOf(l)) = Len(ProofsOf(r))
    <3>1. ASSUME NEW ids, IsSeq(ids) PROVE Len(ProofsIn(ids, sub_recursive_proofs)) = Len(ids)
      <4>1. PICK f : f = ProofsIn(ids, sub_recursive_proofs)
        OBVIOUS
      <4>2. Len(ids) \in Nat /\ f = [i \in 1..Len(ids) |-> f[i]]
        BY <3>1, <4>1, IsSeqLength DEF ProofsIn
      <4>3. QED
        BY <4>1, <4>2, FunctionSeq
    <3>2. QED
      BY <1>10, <1>22, <2>1, <3>1
  <2>4. Stands(K[p], ProofsOf(l) \o ProofsOf(r))
    BY <1>5, <1>21, <1>22, <2>3, StandsJoin
  <2>5. QED
    BY <1>11, <1>13, <1>21, <1>22, <1>23, <2>2, <2>4 DEF ReceivedAtOK
<1>25. ReceivedOK(K)'
  <2>1. ASSUME NEW q \in Received \ {l, r} PROVE ReceivedAtOK(K, q)'
    <3>1. ReceivedAtOK(K, q)
      BY <1>2 DEF ReceivedOK
    <3>2. QED
      BY <1>11, <1>13, <3>1 DEF ReceivedAtOK, ProofsOf
  <2>2. IsFiniteSet(Received')
    <3>1. IsFiniteSet(Received \ {l, r})
      BY <1>2, FS_Subset DEF ReceivedOK
    <3>2. QED
      BY <1>13, <3>1, FS_AddElement
  <2>3. \A t \in Received, u \in Received :
          t # u => ToSet(proof_descendants[t]) \cap ToSet(proof_descendants[u]) = {}
    BY <1>2 DEF ReceivedOK
  <2>4. \A q \in Received \ {l, r} : ToSet(proof_descendants[q]) \cap ToSet(c) = {}
    BY <1>6, <1>7, <1>10, <1>23, <2>3
  <2>5. ASSUME NEW t \in Received', NEW u \in Received', t # u
        PROVE  ToSet(proof_descendants'[t]) \cap ToSet(proof_descendants'[u]) = {}
    <3>1. CASE t = p
      BY <1>13, <2>4, <2>5, <3>1
    <3>2. CASE u = p
      BY <1>13, <2>4, <2>5, <3>2
    <3>3. CASE t # p /\ u # p
      BY <1>13, <2>3, <2>5, <3>3
    <3>4. QED
      BY <3>1, <3>2, <3>3
  <2>6. Away' \cap DOMAIN sub_recursive_proofs' = {}
    BY <1>2, <1>11, <1>15 DEF ReceivedOK
  <2>7. ASSUME NEW t \in DOMAIN sub_recursive_proofs'
        PROVE  \E q \in Received' : t \in ToSet(proof_descendants'[q])
    <3>1. PICK q \in Received : t \in ToSet(proof_descendants[q])
      BY <1>2, <1>11 DEF ReceivedOK
    <3>2. CASE q \in {l, r}
      BY <1>6, <1>7, <1>13, <1>23, <3>1, <3>2
    <3>3. CASE q \notin {l, r}
      BY <1>13, <3>1, <3>3
    <3>4. QED
      BY <3>2, <3>3
  <2>8. QED
    BY <1>13, <1>24, <2>1, <2>2, <2>5, <2>6, <2>7 DEF ReceivedOK
<1>26. TreeOK(K)'
  <2>1. ToSet(<<l, r>>) = {l, r}
    BY DEF ToSet
  <2>2. ASSUME NEW q \in Above'
        PROVE  \E x, y \in DOMAIN proof_parents' :
                 /\ proof_children'[q] = <<x, y>> /\ x # y
                 /\ proof_parents'[x] = q /\ proof_parents'[y] = q
                 /\ Halves(K[q], K[x], K[y])
    <3>1. q \in Above /\ q # p
      BY <1>13
    <3>2. PICK x \in DOMAIN proof_parents, y \in DOMAIN proof_parents :
            /\ proof_children[q] = <<x, y>> /\ x # y
            /\ proof_parents[x] = q /\ proof_parents[y] = q
            /\ Halves(K[q], K[x], K[y])
      BY <1>2, <3>1 DEF TreeOK
    <3>3. x \notin {l, r} /\ y \notin {l, r}
      BY <1>5, <3>1, <3>2
    <3>4. QED
      BY <1>13, <3>2, <3>3
  <2>3. ASSUME NEW q \in DOMAIN proof_parents'
        PROVE  proof_parents'[q] \in Above' /\ q \in ToSet(proof_children'[proof_parents'[q]])
    <3>1. q \in DOMAIN proof_parents /\ q \notin {l, r} /\ proof_parents'[q] = proof_parents[q]
      BY <1>13
    <3>2. proof_parents[q] \in Above /\ q \in ToSet(proof_children[proof_parents[q]])
      BY <1>2, <3>1 DEF TreeOK
    <3>3. proof_parents[q] # p
      BY <1>5, <2>1, <3>1, <3>2
    <3>4. QED
      BY <1>13, <3>1, <3>2, <3>3
  <2>4. DOMAIN proof_aliases' \cap DOMAIN proof_parents' = {}
    BY <1>2, <1>11, <1>13 DEF TreeOK
  <2>5. QED
    BY <2>2, <2>3, <2>4 DEF TreeOK
<1>27. ApartOK'
  <2>1. p \notin Away
    BY <1>21, SubsAre DEF Away
  <2>2. QED
    BY <1>2, <1>12, <1>13, <1>15, <2>1 DEF ApartOK
<1>28. TopsOK(K)' /\ AnswersOK'
  BY <1>2, <1>11, <1>17 DEF TopsOK, Top, Whole, AnswersOK
<1>29. ASSUME Kept(K) PROVE Kept(K)'
  <2>1. dropped' = dropped /\ Open' = Open
    BY <1>11 DEF CombineSubtrees, calls, Open
  <2>2. p \notin Away
    BY <1>21, SubsAre DEF Away
  <2>3. Held' = (Held \ {l, r}) \cup {p} /\ l \in Held /\ r \in Held /\ p \notin Held
    BY <1>10, <1>12, <1>13, <1>15, <2>2 DEF Held
  <2>4. Tiles(K, Held, asked, Open, dropped)
    BY <1>29 DEF Kept
  <2>5. Tiles(K, (Held \ {l, r}) \cup {p}, asked, Open, dropped)
    BY <1>5, <1>21, <2>3, <2>4, TilesJoin
  <2>6. QED
    BY <1>11, <2>1, <2>3, <2>5 DEF Kept
<1>30. QED
  BY <1>11, <1>13, <1>18, <1>19, <1>20, <1>25, <1>26, <1>27, <1>28, <1>29 DEF Placed

-----------------------------------------------------------------------------
(* Results are queued again. *)

LEMMA NotBeforeItself ==
  ASSUME NEW q \in Pairs
  PROVE  ~IdBefore(q, q)
<1>1. q[1] \in Nat /\ q[2] \in Nat
  BY QualifiedIs
<1>2. ~(q[1] < q[1]) /\ ~(q[2] < q[2])
  BY <1>1
<1>3. QED
  BY <1>2 DEF IdBefore

LEMMA IdsSorted ==
  ASSUME NEW S, S \subseteq Pairs, IsFiniteSet(S), NEW l \in Sortings(S, IdBefore)
  PROVE  \E n \in Nat : /\ DOMAIN l = 1..n /\ S = {l[i] : i \in 1..n}
                        /\ \A i, j \in 1..n : l[i] = l[j] => i = j
<1>1. PICK n \in Nat : n = Cardinality(S)
  BY FS_CardinalityType
<1>2. /\ l \in [1..n -> S] /\ ToSet(l) = S
      /\ \A i, j \in DOMAIN l : i < j => IdBefore(l[i], l[j])
  BY <1>1 DEF Sortings
<1>3. DOMAIN l = 1..n /\ S = {l[i] : i \in 1..n}
  BY <1>2 DEF ToSet
<1>4. ASSUME NEW i \in 1..n, NEW j \in 1..n, l[i] = l[j] PROVE i = j
  <2>1. l[i] \in Pairs
    BY <1>2
  <2>2. ~IdBefore(l[i], l[i])
    BY <2>1, NotBeforeItself
  <2>3. ~(i < j) /\ ~(j < i)
    BY <1>2, <1>3, <1>4, <2>2
  <2>4. QED
    BY <2>3
<1>5. QED
  BY <1>3, <1>4

LEMMA ProofsInLength ==
  ASSUME NEW ids, IsSeq(ids), NEW f
  PROVE  Len(ProofsIn(ids, f)) = Len(ids) /\ Len(ids) \in Nat
<1>1. PICK g : g = ProofsIn(ids, f)
  OBVIOUS
<1>2. Len(ids) \in Nat /\ g = [i \in 1..Len(ids) |-> g[i]]
  BY <1>1, IsSeqLength DEF ProofsIn
<1>3. QED
  BY <1>1, <1>2, FunctionSeq

QueuedAgain(q) == Batch(q[2], ProofsOf(q))

\* Complete pairs of results, as they are queued again.
LEMMA QueuedListed ==
  ASSUME NEW queued \in Sortings(Multiple, IdBefore), IsFiniteSet(Multiple),
         Multiple \subseteq Pairs, \A q \in Multiple : q[1] = Self
  PROVE  LET again == Reverse([i \in DOMAIN queued |-> Batch(queued[i][2], ProofsOf(queued[i]))])
         IN  /\ Listed(again) /\ Ids(again) = {q[2] : q \in Multiple}
             /\ ToSet(again) = {QueuedAgain(q) : q \in Multiple}
<1>1. PICK n \in Nat : /\ DOMAIN queued = 1..n /\ Multiple = {queued[i] : i \in 1..n}
                       /\ \A i, j \in 1..n : queued[i] = queued[j] => i = j
  BY IdsSorted
<1>2. PICK f : f = [i \in DOMAIN queued |-> Batch(queued[i][2], ProofsOf(queued[i]))]
  OBVIOUS
<1>3. f = [i \in 1..n |-> f[i]] /\ \A i \in 1..n : f[i] = QueuedAgain(queued[i])
  BY <1>1, <1>2 DEF QueuedAgain
<1>4. Len(f) = n
  BY <1>3, FunctionSeq
<1>5. PICK g : g = Reverse(f)
  OBVIOUS
<1>6. \A i \in 1..n : (n - i) + 1 \in 1..n /\ (n - ((n - i) + 1)) + 1 = i
  OBVIOUS
<1>7. g = [i \in 1..n |-> f[(n - i) + 1]]
  BY <1>4, <1>5 DEF Reverse
<1>8. g = [i \in 1..n |-> g[i]] /\ \A i \in 1..n : g[i] = QueuedAgain(queued[(n - i) + 1])
  <2>1. \A i \in 1..n : g[i] = f[(n - i) + 1]
    BY <1>7
  <2>2. \A i \in 1..n : g[i] = QueuedAgain(queued[(n - i) + 1])
    BY <1>3, <1>6, <2>1
  <2>3. QED
    BY <1>7, <2>2
<1>9. \A q \in Multiple : Bears(QueuedAgain(q)) /\ QueuedAgain(q).id = q[2]
  BY DEF Bears, QueuedAgain, Batch
<1>10. \A i \in 1..n : queued[(n - i) + 1] \in Multiple
  BY <1>1, <1>6
<1>11. \A i \in 1..n : Bears(g[i]) /\ g[i].id = queued[(n - i) + 1][2]
  BY <1>8, <1>9, <1>10
<1>12. ASSUME NEW i \in 1..n, NEW j \in 1..n, g[i].id = g[j].id PROVE i = j
  <2>1. PICK p \in Multiple : p = queued[(n - i) + 1]
    BY <1>10
  <2>2. PICK q \in Multiple : q = queued[(n - j) + 1]
    BY <1>10
  <2>3. p[2] = q[2] /\ p[1] = q[1]
    BY <1>11, <1>12, <2>1, <2>2
  <2>4. p = q
    BY <2>3, QualifiedIs
  <2>5. (n - i) + 1 = (n - j) + 1
    <3>1. (n - i) + 1 \in 1..n /\ (n - j) + 1 \in 1..n
      BY <1>6
    <3>2. queued[(n - i) + 1] = queued[(n - j) + 1]
      BY <2>1, <2>2, <2>4
    <3>3. QED
      BY <1>1, <3>1, <3>2, Zenon
  <2>6. QED
    BY <2>5
<1>13. /\ Listed(g) /\ ToSet(g) = {g[i] : i \in 1..n} /\ Ids(g) = {g[i].id : i \in 1..n}
  <2>1. \A i \in 1..n : Bears(g[i])
    BY <1>11
  <2>2. \A i, j \in 1..n : g[i].id = g[j].id => i = j
    BY <1>12
  <2>3. g = [i \in 1..n |-> g[i]]
    BY <1>8
  <2>4. QED
    BY <2>1, <2>2, <2>3, ListedIs, SMTT(30)
<1>14. ASSUME NEW x PROVE x \in ToSet(g) <=> \E q \in Multiple : x = QueuedAgain(q)
  <2>1. ASSUME x \in ToSet(g) PROVE \E q \in Multiple : x = QueuedAgain(q)
    BY <1>8, <1>10, <1>13, <2>1
  <2>2. ASSUME NEW q \in Multiple, x = QueuedAgain(q) PROVE x \in ToSet(g)
    <3>1. PICK j \in 1..n : q = queued[j]
      BY <1>1
    <3>2. PICK i \in 1..n : (n - i) + 1 = j
      BY <1>6
    <3>3. g[i] = x
      BY <1>8, <2>2, <3>1, <3>2
    <3>4. QED
      BY <1>13, <3>3
  <2>3. QED
    BY <2>1, <2>2
<1>15. ToSet(g) = {QueuedAgain(q) : q \in Multiple}
  BY <1>14
<1>16. Ids(g) = {q[2] : q \in Multiple}
  <2>1. ASSUME NEW x PROVE x \in Ids(g) <=> \E q \in Multiple : x = q[2]
    <3>1. x \in Ids(g) <=> \E e \in ToSet(g) : Bears(e) /\ e.id = x
      BY IdsOf
    <3>2. QED
      BY <1>9, <1>14, <3>1
  <2>2. QED
    BY <2>1
<1>17. QED
  BY <1>2, <1>5, <1>13, <1>15, <1>16

AnswerOf(q) == [id |-> proof_aliases[q], node |-> ProofsOf(q)[1]]

LEMMA RootsListed ==
  ASSUME NEW roots \in Sortings(Roots, IdBefore), IsFiniteSet(Roots), Roots \subseteq Pairs,
         \A p, q \in Roots : proof_aliases[p] = proof_aliases[q] => p = q
  PROVE  LET answers == [i \in DOMAIN roots |-> [id |-> proof_aliases[roots[i]],
                                                 node |-> ProofsOf(roots[i])[1]]]
         IN  /\ Listed(answers) /\ Ids(answers) = {proof_aliases[q] : q \in Roots}
             /\ ToSet(answers) = {AnswerOf(q) : q \in Roots}
<1>1. PICK n \in Nat : /\ DOMAIN roots = 1..n /\ Roots = {roots[i] : i \in 1..n}
                       /\ \A i, j \in 1..n : roots[i] = roots[j] => i = j
  BY IdsSorted
<1>2. PICK g : g = [i \in DOMAIN roots |-> [id |-> proof_aliases[roots[i]],
                                            node |-> ProofsOf(roots[i])[1]]]
  OBVIOUS
<1>3. g = [i \in 1..n |-> g[i]] /\ \A i \in 1..n : g[i] = AnswerOf(roots[i])
  BY <1>1, <1>2 DEF AnswerOf
<1>4. \A q \in Roots : Bears(AnswerOf(q)) /\ AnswerOf(q).id = proof_aliases[q]
  BY DEF Bears, AnswerOf
<1>5. \A i \in 1..n : roots[i] \in Roots
  BY <1>1
<1>6. \A i \in 1..n : Bears(g[i]) /\ g[i].id = proof_aliases[roots[i]]
  BY <1>3, <1>4, <1>5
<1>7. \A i, j \in 1..n : g[i].id = g[j].id => i = j
  BY <1>1, <1>5, <1>6
<1>8. /\ Listed(g) /\ ToSet(g) = {g[i] : i \in 1..n} /\ Ids(g) = {g[i].id : i \in 1..n}
  <2>1. g = [i \in 1..n |-> g[i]]
    BY <1>3
  <2>2. \A i \in 1..n : Bears(g[i])
    BY <1>6
  <2>3. QED
    BY <1>7, <2>1, <2>2, ListedIs, SMTT(30)
<1>9. \A x : x \in ToSet(g) <=> \E q \in Roots : x = AnswerOf(q)
  BY <1>1, <1>3, <1>5, <1>8
<1>10. ToSet(g) = {AnswerOf(q) : q \in Roots}
  BY <1>9
<1>11. \A x : x \in Ids(g) <=> \E q \in Roots : x = proof_aliases[q]
  BY <1>1, <1>5, <1>6, <1>8
<1>12. Ids(g) = {proof_aliases[q] : q \in Roots}
  BY <1>11
<1>13. QED
  BY <1>2, <1>8, <1>10, <1>12

\* What stands for a subtree by more than one proof waits again; a single proof
\* that stands for a whole batch is its answer.
LEMMA ConsolidatePlaced ==
  ASSUME NEW K, Placed(K), Consolidate
  PROVE  Placed(K)' /\ (Kept(K) => Kept(K)')
<1>1. AskedOK /\ KnownOK(K) /\ WaitingOK(K) /\ AwayOK(K) /\ ReceivedOK(K) /\ TreeOK(K)
      /\ ApartOK /\ TopsOK(K) /\ AnswersOK
  BY DEF Placed
<1>2. PICK queued \in Sortings(Multiple, IdBefore), roots \in Sortings(Roots, IdBefore) :
         /\ internal_proofs' =
              Reverse([i \in DOMAIN queued |-> Batch(queued[i][2], ProofsOf(queued[i]))])
                \o internal_proofs
         /\ recursive_proofs' = recursive_proofs \o
              [i \in DOMAIN roots |-> [id |-> proof_aliases[roots[i]],
                                       node |-> ProofsOf(roots[i])[1]]]
  BY DEF Consolidate
<1>3. /\ sub_recursive_proofs' = Without(sub_recursive_proofs, Moved)
      /\ proof_aliases' = Without(proof_aliases, Roots)
      /\ proof_descendants' = Without(proof_descendants, Multiple \cup Roots)
      /\ pc = "prove" /\ pc' = "idle"
      /\ UNCHANGED <<asked, given, proof_parents, proof_children, free_batch_id,
                     queue, finished, results, free_sub_batch_id>>
  BY DEF Consolidate, ForgetMoved, caller, tree, subVars
<1>4. PICK again : again = Reverse([i \in DOMAIN queued |-> Batch(queued[i][2], ProofsOf(queued[i]))])
  OBVIOUS
<1>5. PICK answers : answers = [i \in DOMAIN roots |-> [id |-> proof_aliases[roots[i]],
                                                        node |-> ProofsOf(roots[i])[1]]]
  OBVIOUS
<1>6. PICK M : M = Multiple
  OBVIOUS
<1>7. PICK R : R = Roots
  OBVIOUS
<1>8. /\ M \subseteq Received /\ R \subseteq Received /\ M \cap R = {}
      /\ R \subseteq DOMAIN proof_aliases
      /\ \A q \in M : Len(proof_descendants[q]) > 1
      /\ \A q \in R : ~(Len(proof_descendants[q]) > 1)
  BY <1>6, <1>7 DEF Multiple, Roots, Received
<1>9. Received \subseteq Live /\ Live \subseteq Known /\ Known \subseteq Pairs /\ Received \subseteq Pairs
  BY <1>1 DEF KnownOK, Live, Known
<1>10. \A q \in M : q[1] = Self
  BY <1>1, <1>8 DEF ReceivedOK, ReceivedAtOK
<1>11. \A q \in R : q \in Tops /\ q[1] # Self /\ Top(q) = proof_aliases[q]
  <2>1. \A q \in R : q[1] # Self /\ q \notin DOMAIN proof_parents
    BY <1>1, <1>8 DEF KnownOK, TreeOK
  <2>2. QED
    BY <1>8, <1>9, <2>1 DEF Tops, Top
<1>12. \A p, q \in R : proof_aliases[p] = proof_aliases[q] => p = q
  BY <1>1, <1>11 DEF TopsOK
<1>13. IsFiniteSet(M) /\ IsFiniteSet(R)
  BY <1>1, <1>8, FS_Subset DEF ReceivedOK
<1>14. /\ Listed(again) /\ Ids(again) = {q[2] : q \in M}
       /\ ToSet(again) = {QueuedAgain(q) : q \in M}
  BY <1>4, <1>6, <1>8, <1>9, <1>10, <1>13, QueuedListed
<1>15. /\ Listed(answers) /\ Ids(answers) = {proof_aliases[q] : q \in R}
       /\ ToSet(answers) = {AnswerOf(q) : q \in R}
  BY <1>5, <1>7, <1>8, <1>9, <1>12, <1>13, RootsListed
<1>16. Pieces = {} /\ PieceSet = {} /\ Pieces' = {} /\ PieceSet' = {}
  BY <1>3 DEF Pieces, PieceSet
<1>17. Ids(again) \cap Ids(internal_proofs) = {}
  <2>1. ASSUME NEW q \in M, q[2] \in Ids(internal_proofs) PROVE FALSE
    <3>1. q \in Waiting
      BY <1>8, <1>9, <1>10, <2>1 DEF Waiting
    <3>2. QED
      BY <1>1, <1>8, <3>1 DEF ApartOK
  <2>2. QED
    BY <1>14, <2>1
<1>18. /\ Listed(internal_proofs')
       /\ Ids(internal_proofs') = Ids(again) \cup Ids(internal_proofs)
       /\ ToSet(internal_proofs') = ToSet(again) \cup ToSet(internal_proofs)
  <2>1. Listed(internal_proofs) /\ internal_proofs' = again \o internal_proofs
    BY <1>1, <1>2, <1>4 DEF WaitingOK
  <2>2. QED
    BY <1>14, <1>17, <2>1, IdsConcat
<1>19. Waiting' = Waiting \cup M
  <2>1. ASSUME NEW q \in Pairs PROVE q \in Waiting' <=> q \in Waiting \/ q \in M
    <3>1. q[1] = Self /\ q[2] \in {m[2] : m \in M} => q \in M
      <4>1. ASSUME q[1] = Self, NEW m \in M, q[2] = m[2] PROVE q \in M
        <5>1. m \in Pairs /\ m[1] = Self
          BY <1>8, <1>9, <1>10
        <5>2. q = m
          BY <4>1, <5>1, QualifiedIs
        <5>3. QED
          BY <5>2
      <4>2. QED
        BY <4>1
    <3>2. QED
      BY <1>10, <1>14, <1>16, <1>18, <3>1 DEF Waiting
  <2>2. Waiting' \subseteq Pairs /\ Waiting \subseteq Pairs /\ M \subseteq Pairs
    BY <1>8, <1>9 DEF Waiting
  <2>3. QED
    BY <2>1, <2>2
<1>20. /\ Received' = Received \ (M \cup R) /\ Above' = Above /\ Away' = Away /\ Known' = Known
       /\ \A q \in Received' : proof_descendants'[q] = proof_descendants[q]
       /\ DOMAIN proof_aliases' = DOMAIN proof_aliases \ R
       /\ \A q \in DOMAIN proof_aliases' : proof_aliases'[q] = proof_aliases[q]
  BY <1>3, <1>6, <1>7 DEF Received, Above, Away, AwayAt, Known, NextId, Without
<1>21. \A q \in R : q \notin Waiting /\ q \notin M /\ q \notin Above /\ q \notin Away
  BY <1>1, <1>8 DEF ApartOK
<1>22. Live' = Live \ R
  BY <1>8, <1>9, <1>19, <1>20, <1>21 DEF Live
<1>23. Tops' = Tops \ R
  BY <1>3, <1>22 DEF Tops
<1>24. AskedOK'
  BY <1>1, <1>3 DEF AskedOK
<1>25. \A q \in Received : /\ Stands(K[q], ProofsOf(q)) /\ IsSeq(proof_descendants[q])
                           /\ Len(ProofsOf(q)) = Len(proof_descendants[q])
  <2>1. ASSUME NEW q \in Received
        PROVE  /\ Stands(K[q], ProofsOf(q)) /\ IsSeq(proof_descendants[q])
               /\ Len(ProofsOf(q)) = Len(proof_descendants[q])
    <3>1. Stands(K[q], ProofsOf(q)) /\ IsSeq(proof_descendants[q])
      BY <1>1 DEF ReceivedOK, ReceivedAtOK
    <3>2. ProofsOf(q) = ProofsIn(proof_descendants[q], sub_recursive_proofs)
      BY DEF ProofsOf, ProofsIn
    <3>3. QED
      BY <3>1, <3>2, ProofsInLength
  <2>2. QED
    BY <2>1
<1>26. KnownOK(K)'
  <2>1. DOMAIN sub_recursive_proofs' \subseteq DOMAIN sub_recursive_proofs
    BY <1>3 DEF Without
  <2>2. QED
    BY <1>1, <1>3, <1>20, <1>22, <2>1 DEF KnownOK
<1>27. WaitingOK(K)'
  <2>1. ASSUME NEW q \in M PROVE BatchAt(K, Self, QueuedAgain(q))
    <3>1. q \in Known /\ q \in Pairs /\ q[1] = Self
      BY <1>8, <1>9, <1>10
    <3>2. q[2] \in Nat \ {0}
      BY <3>1 DEF Known, Pairs
    <3>3. q = Qualified(Self, q[2])
      BY <3>1, QualifiedIs
    <3>4. /\ Bears(QueuedAgain(q)) /\ QueuedAgain(q).id = q[2]
          /\ QueuedAgain(q).proofs = ProofsOf(q)
      BY DEF QueuedAgain, Batch, Bears
    <3>5. Len(ProofsOf(q)) > 1 /\ Stands(K[q], ProofsOf(q))
      BY <1>8, <1>25
    <3>6. QED
      BY <3>2, <3>3, <3>4, <3>5 DEF BatchAt
  <2>2. \A b \in ToSet(internal_proofs') : BatchAt(K, Self, b)
    BY <1>1, <1>14, <1>18, <2>1 DEF WaitingOK
  <2>3. QED
    BY <1>16, <1>18, <2>2 DEF WaitingOK, BatchAt
<1>28. AwayOK(K)'
  BY <1>1, <1>3 DEF AwayOK, AwayAtOK, BatchAt, AnswerAt
<1>29. ReceivedOK(K)'
  <2>1. ASSUME NEW q \in Received' PROVE ReceivedAtOK(K, q)'
    <3>1. q \in Received /\ q \notin M /\ q \notin R /\ proof_descendants'[q] = proof_descendants[q]
      BY <1>20
    <3>2. ReceivedAtOK(K, q)
      BY <1>1, <3>1 DEF ReceivedOK
    <3>3. ToSet(proof_descendants[q]) \cap Moved = {}
      <4>1. \A r \in M \cup R : ToSet(proof_descendants[q]) \cap ToSet(proof_descendants[r]) = {}
        BY <1>1, <1>8, <3>1 DEF ReceivedOK
      <4>2. QED
        BY <1>6, <1>7, <4>1 DEF Moved
    <3>4. /\ ToSet(proof_descendants[q]) \subseteq DOMAIN sub_recursive_proofs'
          /\ \A p \in ToSet(proof_descendants[q]) : sub_recursive_proofs'[p] = sub_recursive_proofs[p]
      BY <1>3, <3>2, <3>3 DEF Without, ReceivedAtOK
    <3>5. ProofsOf(q)' = ProofsOf(q)
      <4>1. \A i \in DOMAIN proof_descendants[q] : proof_descendants[q][i] \in ToSet(proof_descendants[q])
        BY DEF ToSet
      <4>2. QED
        BY <3>1, <3>4, <4>1 DEF ProofsOf
    <3>6. QED
      BY <3>1, <3>2, <3>4, <3>5 DEF ReceivedAtOK
  <2>2. IsFiniteSet(Received')
    BY <1>1, <1>20, FS_Subset DEF ReceivedOK
  <2>3. DOMAIN sub_recursive_proofs' \subseteq DOMAIN sub_recursive_proofs
    BY <1>3 DEF Without
  <2>4. ASSUME NEW p \in DOMAIN sub_recursive_proofs'
        PROVE  \E q \in Received' : p \in ToSet(proof_descendants'[q])
    <3>1. p \in DOMAIN sub_recursive_proofs /\ p \notin Moved
      BY <1>3 DEF Without
    <3>2. PICK q \in Received : p \in ToSet(proof_descendants[q])
      BY <1>1, <3>1 DEF ReceivedOK
    <3>3. q \notin M \cup R
      BY <1>6, <1>7, <3>1, <3>2 DEF Moved
    <3>4. QED
      BY <1>20, <3>2, <3>3
  <2>5. QED
    BY <1>1, <1>20, <2>1, <2>2, <2>3, <2>4 DEF ReceivedOK
<1>30. TreeOK(K)'
  <2>1. DOMAIN proof_aliases' \cap DOMAIN proof_parents' = {}
    BY <1>1, <1>3, <1>20 DEF TreeOK
  <2>2. QED
    BY <1>1, <1>3, <1>20, <2>1 DEF TreeOK
<1>31. ApartOK'
  BY <1>1, <1>8, <1>19, <1>20 DEF ApartOK
<1>32. \A q \in R : /\ proof_aliases[q] \in DOMAIN asked \ (DOMAIN given \cup Ids(recursive_proofs))
                    /\ AnswerOf(q).node = asked[proof_aliases[q]]
                    /\ AnswerOf(q).id = proof_aliases[q] /\ Bears(AnswerOf(q))
  <2>1. SUFFICES ASSUME NEW q \in R
                 PROVE  /\ proof_aliases[q] \in DOMAIN asked \ (DOMAIN given \cup Ids(recursive_proofs))
                        /\ AnswerOf(q).node = asked[proof_aliases[q]]
                        /\ AnswerOf(q).id = proof_aliases[q] /\ Bears(AnswerOf(q))
    OBVIOUS
  <2>2. PICK a : a = proof_aliases[q]
    OBVIOUS
  <2>3. a \in DOMAIN asked \ (DOMAIN given \cup Ids(recursive_proofs)) /\ K[q] = Whole(a, asked[a])
    BY <1>1, <1>11, <2>2 DEF TopsOK
  <2>4. PICK n \in Sizes : asked[a] = Leaves(a, n)
    BY <1>1, <2>3 DEF AskedOK
  <2>5. n \in Nat /\ a \in Nat
    BY <1>1, <2>3, BatchesAssumption DEF AskedOK
  <2>6. LeavesOf(K[q]) = asked[a]
    <3>1. Len(asked[a]) = n
      <4>1. PICK f : f = Leaves(a, n)
        OBVIOUS
      <4>2. f = [i \in 1..n |-> f[i]]
        BY <4>1 DEF Leaves
      <4>3. QED
        BY <2>4, <2>5, <4>1, <4>2, FunctionSeq
    <3>2. K[q] = [batch |-> a, from |-> 0, size |-> n]
      BY <2>3, <3>1 DEF Whole
    <3>3. \A i \in 1..n : 0 + i = i
      OBVIOUS
    <3>4. LeavesOf(K[q]) = [i \in 1..n |-> Leaf(a, i)]
      BY <3>2, <3>3 DEF LeavesOf
    <3>5. QED
      BY <2>4, <3>4 DEF Leaves
  <2>7. ProofsOf(q) = <<LeavesOf(K[q])>>
    <3>1. q \in Received /\ K[q] \in Blocks
      BY <1>1, <1>8, <1>9 DEF KnownOK
    <3>2. Stands(K[q], ProofsOf(q)) /\ ~(Len(ProofsOf(q)) > 1)
      BY <1>8, <1>25, <3>1
    <3>3. Len(ProofsOf(q)) = 1
      <4>1. PICK m : m = Len(ProofsOf(q))
        OBVIOUS
      <4>2. m \in Nat \ {0} /\ ~(m > 1)
        BY <3>2, <4>1, StandsLength
      <4>3. m = 1
        BY <4>2
      <4>4. QED
        BY <4>1, <4>3
    <3>4. QED
      BY <3>1, <3>2, <3>3, StandsOne
  <2>8. ProofsOf(q)[1] = asked[a]
    BY <2>6, <2>7
  <2>9. QED
    BY <2>2, <2>3, <2>8 DEF AnswerOf, Bears
<1>33. /\ Listed(recursive_proofs')
       /\ Ids(recursive_proofs') = Ids(recursive_proofs) \cup {proof_aliases[q] : q \in R}
       /\ ToSet(recursive_proofs') = ToSet(recursive_proofs) \cup {AnswerOf(q) : q \in R}
  <2>1. Listed(recursive_proofs) /\ recursive_proofs' = recursive_proofs \o answers
    BY <1>1, <1>2, <1>5 DEF AnswersOK
  <2>2. Ids(recursive_proofs) \cap Ids(answers) = {}
    BY <1>15, <1>32
  <2>3. QED
    BY <1>15, <2>1, <2>2, IdsConcat
<1>34. TopsOK(K)'
  <2>1. \A q \in Tops' : Top(q)' = Top(q) /\ q \in Tops /\ q \notin R
    <3>1. \A q \in Tops : q[1] # Self => q \in DOMAIN proof_aliases
      BY <1>1 DEF TopsOK
    <3>2. QED
      BY <1>20, <1>23, <3>1 DEF Top
  <2>2. \A q \in Tops' : \A r \in R : Top(q) # proof_aliases[r]
    BY <1>1, <1>11, <2>1 DEF TopsOK
  <2>3. ASSUME NEW q \in Tops'
        PROVE  /\ q[1] # Self => q \in DOMAIN proof_aliases'
               /\ Top(q)' \in DOMAIN asked' \ (DOMAIN given' \cup Ids(recursive_proofs'))
               /\ K[q] = Whole(Top(q)', asked'[Top(q)'])
    <3>1. /\ q[1] # Self => q \in DOMAIN proof_aliases
          /\ Top(q) \in DOMAIN asked \ (DOMAIN given \cup Ids(recursive_proofs))
          /\ K[q] = Whole(Top(q), asked[Top(q)])
      BY <1>1, <2>1 DEF TopsOK
    <3>2. QED
      BY <1>3, <1>20, <1>33, <2>1, <2>2, <3>1
  <2>4. \A q, r \in Tops' : Top(q)' = Top(r)' => q = r
    BY <1>1, <2>1 DEF TopsOK
  <2>5. QED
    BY <2>3, <2>4 DEF TopsOK
<1>35. AnswersOK'
  BY <1>1, <1>3, <1>32, <1>33 DEF AnswersOK
<1>36. ASSUME Kept(K) PROVE Kept(K)'
  <2>1. dropped' = dropped /\ asked' = asked
    BY <1>3 DEF Consolidate, calls
  <2>2. Held' = Held \ R /\ R \subseteq Held
    BY <1>8, <1>19, <1>20, <1>21 DEF Held
  <2>3. \A q \in R : K[q] = Whole(proof_aliases[q], asked[proof_aliases[q]])
    BY <1>1, <1>11 DEF TopsOK
  <2>4. ASSUME NEW q \in R PROVE K[q].batch = proof_aliases[q]
    <3>1. PICK a : a = proof_aliases[q]
      OBVIOUS
    <3>2. K[q] = Whole(a, asked[a])
      BY <2>3, <3>1
    <3>3. QED
      BY <3>1, <3>2 DEF Whole
  <2>5. {K[q].batch : q \in R} = {proof_aliases[q] : q \in R}
    BY <2>4
  <2>6. Open' = Open \ {K[q].batch : q \in R}
    BY <1>3, <1>33, <2>5 DEF Open
  <2>7. Tiles(K, Held, asked, Open, dropped)
    BY <1>36 DEF Kept
  <2>8. \A q \in R : K[q] = Whole(K[q].batch, asked[K[q].batch])
    BY <2>3, <2>4
  <2>9. Tiles(K, Held \ R, asked, Open \ {K[q].batch : q \in R}, dropped)
    BY <2>2, <2>7, <2>8, TilesDone
  <2>10. QED
    BY <2>1, <2>2, <2>6, <2>9 DEF Kept
<1>37. QED
  BY <1>24, <1>26, <1>27, <1>28, <1>29, <1>30, <1>31, <1>34, <1>35, <1>36 DEF Placed

-----------------------------------------------------------------------------
(* How many proofs are in a queue. *)

Sized(q) == IsSeq(q) /\ \A b \in ToSet(q) : Len(b.proofs) \in Nat
Lengths(q) == [i \in DOMAIN q |-> Len(q[i].proofs)]

LEMMA LengthsAre ==
  ASSUME NEW q, Sized(q)
  PROVE  /\ IsCounts(Lengths(q)) /\ Len(Lengths(q)) = Len(q) /\ SizeOf(q) = Total(Lengths(q))
         /\ \A i \in 1..Len(q) : Lengths(q)[i] = Len(q[i].proofs)
         /\ SizeOf(q) \in Nat
<1>1. PICK c : c = Lengths(q)
  OBVIOUS
<1>2. DOMAIN q = 1..Len(q) /\ Len(q) \in Nat /\ ToSet(q) = {q[i] : i \in 1..Len(q)}
  BY IsSeqLength, IsSeqRange DEF Sized
<1>3. c = [i \in 1..Len(q) |-> c[i]] /\ \A i \in 1..Len(q) : c[i] = Len(q[i].proofs)
  BY <1>1, <1>2 DEF Lengths
<1>4. IsSeq(c) /\ Len(c) = Len(q)
  BY <1>2, <1>3, FunctionSeq
<1>5. \A i \in 1..Len(q) : c[i] \in Nat
  BY <1>2, <1>3 DEF Sized
<1>6. IsCounts(c)
  BY <1>4, <1>5 DEF IsCounts
<1>7. SizeOf(q) = Total(c)
  BY <1>1 DEF SizeOf, Lengths
<1>8. QED
  BY <1>1, <1>3, <1>4, <1>6, <1>7, TotalNat

LEMMA SizeEmpty == SizeOf(<<>>) = 0
<1>1. Lengths(<<>>) = <<>>
  BY DEF Lengths
<1>2. SizeOf(<<>>) = Total(Lengths(<<>>))
  BY DEF SizeOf, Lengths
<1>3. QED
  BY <1>1, <1>2, TotalEmpty

LEMMA SizeTail ==
  ASSUME NEW q, Sized(q), q # <<>>
  PROVE  /\ Sized(Tail(q)) /\ Len(Head(q).proofs) \in Nat
         /\ SizeOf(q) = Len(Head(q).proofs) + SizeOf(Tail(q))
<1>1. PICK t : t = Tail(q)
  OBVIOUS
<1>2. PICK n \in Nat : n = Len(q)
  BY IsSeqLength DEF Sized
<1>3. /\ IsSeq(t) /\ DOMAIN t = 1..(n - 1) /\ n # 0 /\ Head(q) = q[1]
      /\ \A i \in 1..(n - 1) : t[i] = q[i + 1]
      /\ ToSet(t) \subseteq ToSet(q) /\ Head(q) \in ToSet(q)
  BY <1>1, <1>2, TailIsSeq DEF Sized
<1>4. Sized(t) /\ Len(Head(q).proofs) \in Nat
  BY <1>3 DEF Sized
<1>5. Len(t) = n - 1
  <2>1. Len(t) \in Nat /\ 1..Len(t) = 1..(n - 1)
    BY <1>3, IsSeqLength
  <2>2. PICK m \in Nat : m = Len(t)
    BY <2>1
  <2>3. m = n - 1
    BY <1>2, <1>3, <2>1, <2>2
  <2>4. QED
    BY <2>2, <2>3
<1>6. PICK c : c = Lengths(q)
  OBVIOUS
<1>7. PICK d : d = Lengths(t)
  OBVIOUS
<1>8. /\ IsCounts(c) /\ Len(c) = n /\ SizeOf(q) = Total(c)
      /\ \A i \in 1..n : c[i] = Len(q[i].proofs)
  BY <1>2, <1>6, LengthsAre
<1>9. /\ IsCounts(d) /\ Len(d) = n - 1 /\ SizeOf(t) = Total(d)
      /\ \A i \in 1..(n - 1) : d[i] = Len(t[i].proofs)
  BY <1>4, <1>5, <1>7, LengthsAre
<1>10. \A i \in 1..Len(d) : d[i] = c[i + 1]
  <2>1. ASSUME NEW i \in 1..(n - 1) PROVE d[i] = c[i + 1]
    <3>1. i + 1 \in 1..n
      OBVIOUS
    <3>2. QED
      BY <1>3, <1>8, <1>9, <3>1
  <2>2. QED
    BY <1>9, <2>1
<1>11. Total(c) = c[1] + Total(d)
  <2>1. IsSeq(d) /\ Len(d) = Len(c) - 1 /\ Len(c) # 0
    BY <1>3, <1>8, <1>9 DEF IsCounts
  <2>2. QED
    BY <1>8, <1>10, <2>1, TotalTail
<1>12. c[1] = Len(Head(q).proofs)
  <2>1. 1 \in 1..n
    BY <1>2, <1>3
  <2>2. QED
    BY <1>3, <1>8, <2>1
<1>13. QED
  BY <1>1, <1>4, <1>8, <1>9, <1>11, <1>12

LEMMA SizeAppended ==
  ASSUME NEW q, Sized(q), NEW t, IsSeq(t), Len(t) = Len(q) + 1,
         \A i \in 1..Len(q) : t[i] = q[i], Len(t[Len(q) + 1].proofs) \in Nat
  PROVE  Sized(t) /\ SizeOf(t) = SizeOf(q) + Len(t[Len(q) + 1].proofs)
<1>1. PICK n \in Nat : n = Len(q)
  BY IsSeqLength DEF Sized
<1>2. ToSet(q) = {q[i] : i \in 1..n} /\ ToSet(t) = {t[i] : i \in 1..(n + 1)}
  BY <1>1, IsSeqRange DEF Sized
<1>3. Sized(t)
  <2>1. ASSUME NEW i \in 1..(n + 1) PROVE Len(t[i].proofs) \in Nat
    <3>1. CASE i \in 1..n
      BY <1>1, <1>2, <3>1 DEF Sized
    <3>2. CASE i \notin 1..n
      <4>1. i = n + 1
        BY <3>2
      <4>2. QED
        BY <1>1, <4>1
    <3>3. QED
      BY <3>1, <3>2
  <2>2. QED
    BY <1>2, <2>1 DEF Sized
<1>4. PICK c : c = Lengths(q)
  OBVIOUS
<1>5. PICK d : d = Lengths(t)
  OBVIOUS
<1>6. /\ IsCounts(c) /\ Len(c) = n /\ SizeOf(q) = Total(c)
      /\ \A i \in 1..n : c[i] = Len(q[i].proofs)
  BY <1>1, <1>4, LengthsAre
<1>7. /\ IsCounts(d) /\ Len(d) = n + 1 /\ SizeOf(t) = Total(d)
      /\ \A i \in 1..(n + 1) : d[i] = Len(t[i].proofs)
  BY <1>1, <1>3, <1>5, LengthsAre
<1>8. \A i \in 1..n : i \in 1..(n + 1) /\ d[i] = c[i]
  BY <1>1, <1>6, <1>7
<1>9. d[n + 1] = Len(t[n + 1].proofs)
  BY <1>7
<1>10. Total(d) = Total(c) + d[n + 1]
  <2>1. IsSeq(d) /\ Len(d) = Len(c) + 1 /\ \A i \in 1..Len(c) : d[i] = c[i]
    BY <1>6, <1>7, <1>8 DEF IsCounts
  <2>2. d[Len(c) + 1] \in Nat
    BY <1>1, <1>6, <1>9
  <2>3. Total(d) = Total(c) + d[Len(c) + 1]
    BY <1>6, <2>1, <2>2, TotalAppended
  <2>4. QED
    BY <1>6, <2>3
<1>11. QED
  BY <1>1, <1>3, <1>6, <1>7, <1>9, <1>10

LEMMA SizeAppend ==
  ASSUME NEW q, Sized(q), NEW b, Len(b.proofs) \in Nat
  PROVE  Sized(Append(q, b)) /\ SizeOf(Append(q, b)) = SizeOf(q) + Len(b.proofs)
<1>1. PICK t : t = Append(q, b)
  OBVIOUS
<1>2. /\ IsSeq(t) /\ Len(t) = Len(q) + 1 /\ \A i \in 1..Len(q) : t[i] = q[i]
      /\ t[Len(q) + 1] = b
  BY <1>1, AppendIsSeq DEF Sized
<1>3. Len(t[Len(q) + 1].proofs) \in Nat
  BY <1>2
<1>4. Sized(t) /\ SizeOf(t) = SizeOf(q) + Len(t[Len(q) + 1].proofs)
  BY <1>2, <1>3, SizeAppended
<1>5. QED
  BY <1>1, <1>2, <1>4

LEMMA SizeConcat ==
  ASSUME NEW p, Sized(p), NEW q, Sized(q)
  PROVE  Sized(p \o q) /\ SizeOf(p \o q) = SizeOf(p) + SizeOf(q)
<1>1. PICK r : r = p \o q
  OBVIOUS
<1>2. PICK n \in Nat : n = Len(p)
  BY IsSeqLength DEF Sized
<1>3. PICK m \in Nat : m = Len(q)
  BY IsSeqLength DEF Sized
<1>4. /\ IsSeq(r) /\ Len(r) = n + m
      /\ \A i \in 1..(n + m) : r[i] = IF i <= n THEN p[i] ELSE q[i - n]
      /\ ToSet(r) = ToSet(p) \cup ToSet(q)
  BY <1>1, <1>2, <1>3, ConcatIsSeq, ConcatToSet DEF Sized
<1>5. Sized(r)
  BY <1>4 DEF Sized
<1>6. PICK c : c = Lengths(p)
  OBVIOUS
<1>7. PICK d : d = Lengths(q)
  OBVIOUS
<1>8. PICK e : e = Lengths(r)
  OBVIOUS
<1>9. /\ IsCounts(c) /\ Len(c) = n /\ SizeOf(p) = Total(c)
      /\ \A i \in 1..n : c[i] = Len(p[i].proofs)
  BY <1>2, <1>6, LengthsAre
<1>10. /\ IsCounts(d) /\ Len(d) = m /\ SizeOf(q) = Total(d)
       /\ \A i \in 1..m : d[i] = Len(q[i].proofs)
  BY <1>3, <1>7, LengthsAre
<1>11. /\ IsCounts(e) /\ Len(e) = n + m /\ SizeOf(r) = Total(e)
       /\ \A i \in 1..(n + m) : e[i] = Len(r[i].proofs)
  BY <1>4, <1>5, <1>8, LengthsAre
<1>12. ASSUME NEW i \in 1..n PROVE e[i] = c[i]
  <2>1. i \in 1..(n + m) /\ i <= n
    OBVIOUS
  <2>2. QED
    BY <1>4, <1>9, <1>11, <2>1
<1>13. ASSUME NEW i \in 1..m PROVE e[n + i] = d[i]
  <2>1. n + i \in 1..(n + m) /\ ~(n + i <= n) /\ (n + i) - n = i
    OBVIOUS
  <2>2. QED
    BY <1>4, <1>10, <1>11, <2>1
<1>14. Joins(e, c, d)
  <2>1. \A i \in 1..Len(c) : e[i] = c[i]
    BY <1>9, <1>12, Zenon
  <2>2. \A i \in 1..Len(d) : e[Len(c) + i] = d[i]
    BY <1>9, <1>10, <1>13, Zenon
  <2>3. Len(e) = Len(c) + Len(d)
    BY <1>9, <1>10, <1>11
  <2>4. QED
    BY <2>1, <2>2, <2>3, Zenon DEF Joins
<1>15. Total(e) = Total(c) + Total(d)
  BY <1>9, <1>10, <1>11, <1>14, CountsAreNumbers, TotalJoined
<1>16. QED
  BY <1>1, <1>5, <1>9, <1>10, <1>11, <1>15

LEMMA SizeOne ==
  ASSUME NEW b, Len(b.proofs) \in Nat
  PROVE  Sized(<<b>>) /\ SizeOf(<<b>>) = Len(b.proofs)
<1>1. PICK none : none = <<>>
  OBVIOUS
<1>2. Sized(none) /\ SizeOf(none) = 0
  BY <1>1, EmptyIds, SizeEmpty DEF Sized
<1>3. <<b>> = Append(none, b)
  BY <1>1
<1>4. Sized(Append(none, b)) /\ SizeOf(Append(none, b)) = SizeOf(none) + Len(b.proofs)
  BY <1>2, SizeAppend
<1>5. PICK n \in Nat : n = Len(b.proofs)
  OBVIOUS
<1>6. 0 + n = n
  OBVIOUS
<1>7. QED
  BY <1>2, <1>3, <1>4, <1>5, <1>6

LEMMA SizeRemoveAt ==
  ASSUME NEW q, Sized(q), NEW k \in DOMAIN q
  PROVE  Sized(RemoveAt(q, k)) /\ SizeOf(RemoveAt(q, k)) <= SizeOf(q)
<1>1. PICK n \in Nat : n = Len(q) /\ DOMAIN q = 1..n
  BY IsSeqLength DEF Sized
<1>2. ToSet(q) = {q[i] : i \in 1..n} /\ IsSeq(q) /\ k \in 1..n
  BY <1>1, IsSeqRange DEF Sized
<1>3. PICK a : a = SubSeq(q, 1, k - 1)
  OBVIOUS
<1>4. PICK b : b = SubSeq(q, k + 1, n)
  OBVIOUS
<1>5. PICK c : c = SubSeq(q, 1, k)
  OBVIOUS
<1>6. RemoveAt(q, k) = a \o b
  BY <1>1, <1>3, <1>4 DEF RemoveAt
<1>7. /\ IsSeq(a) /\ Len(a) = k - 1 /\ \A i \in 1..(k - 1) : a[i] = q[i]
      /\ IsSeq(b) /\ Len(b) = (n - (k + 1)) + 1
      /\ \A i \in 1..((n - (k + 1)) + 1) : b[i] = q[((k + 1) + i) - 1]
  <2>1. k + 1 \in 1..(n + 1)
    BY <1>2
  <2>2. QED
    BY <1>1, <1>2, <1>3, <1>4, <2>1, SubSeqsAre, SMTT(30)
<1>8. IsSeq(c) /\ c \o b = q
  <2>1. k \in 0..n
    BY <1>2
  <2>2. QED
    BY <1>1, <1>2, <1>4, <1>5, <2>1, SplitIsSeq
<1>9. Len(c) = k /\ \A i \in 1..k : c[i] = q[i]
  <2>1. (\A i \in 1..k : q[i] \in ToSet(q)) /\ 1 \in Int /\ k \in Int
    BY <1>2
  <2>2. /\ Len(SubSeq(q, 1, k)) = IF 1 <= k THEN k - 1 + 1 ELSE 0
        /\ \A i \in 1..(k - 1 + 1) : SubSeq(q, 1, k)[i] = q[1 + i - 1]
    BY <2>1, SubSeqProperties
  <2>3. (IF 1 <= k THEN k - 1 + 1 ELSE 0) = k /\ k - 1 + 1 = k /\ \A i \in 1..k : 1 + i - 1 = i
    BY <1>2
  <2>4. QED
    BY <1>5, <2>2, <2>3
<1>10. Sized(a) /\ Sized(b)
  <2>1. ToSet(a) = {a[i] : i \in 1..(k - 1)} /\ ToSet(b) = {b[i] : i \in 1..((n - (k + 1)) + 1)}
    BY <1>7, IsSeqRange
  <2>2. \A i \in 1..(k - 1) : i \in 1..n
    BY <1>2
  <2>3. \A i \in 1..((n - (k + 1)) + 1) : ((k + 1) + i) - 1 \in 1..n
    BY <1>2
  <2>4. ToSet(a) \subseteq ToSet(q)
    BY <1>2, <1>7, <2>1, <2>2
  <2>5. ToSet(b) \subseteq ToSet(q)
    BY <1>2, <1>7, <2>1, <2>3
  <2>6. QED
    BY <1>7, <2>4, <2>5 DEF Sized
<1>11. Sized(c) /\ SizeOf(a) <= SizeOf(c)
  <2>1. PICK m \in Nat : m = Len(q[k].proofs)
    BY <1>2 DEF Sized
  <2>2. (k - 1) + 1 = k
    BY <1>2
  <2>3. Len(c) = Len(a) + 1 /\ Len(a) + 1 = k
    BY <1>7, <1>9, <2>2
  <2>4. \A i \in 1..Len(a) : c[i] = a[i]
    <3>1. \A i \in 1..(k - 1) : i \in 1..k
      BY <1>2
    <3>2. \A i \in 1..(k - 1) : c[i] = a[i]
      BY <1>7, <1>9, <3>1
    <3>3. QED
      BY <1>7, <3>2
  <2>5. c[Len(a) + 1] = q[k]
    <3>1. k \in 1..k
      BY <1>2
    <3>2. QED
      BY <1>9, <2>3, <3>1
  <2>6. Sized(c) /\ SizeOf(c) = SizeOf(a) + m
    BY <1>8, <1>10, <2>1, <2>3, <2>4, <2>5, SizeAppended
  <2>7. SizeOf(a) \in Nat
    BY <1>10, LengthsAre
  <2>8. QED
    BY <2>6, <2>7
<1>12. /\ Sized(a \o b) /\ SizeOf(a \o b) = SizeOf(a) + SizeOf(b)
       /\ SizeOf(q) = SizeOf(c) + SizeOf(b)
  BY <1>8, <1>10, <1>11, SizeConcat
<1>13. SizeOf(a) \in Nat /\ SizeOf(b) \in Nat /\ SizeOf(c) \in Nat
  BY <1>10, <1>11, LengthsAre
<1>14. QED
  BY <1>6, <1>11, <1>12, <1>13

-----------------------------------------------------------------------------
(* The loads, and what step has in its hands. *)

Loads == [throughput : Nat \ {0}, pending : Nat, id : sub_aggregators]
InHand == SizeOf(internal_proofs) + IF pc = "split" THEN Len(piece.proofs) ELSE 0

SizedOK ==
  /\ Sized(internal_proofs)
  /\ \A s \in Subs : Sized(queue[s])
  /\ pc = "split" => Len(piece.proofs) \in Nat

CallsOK ==
  /\ pc \in {"idle", "distribute", "send", "split", "prove", "pop", "combine"}
  /\ inserted \in 0..Len(Throughputs) /\ sub_aggregators \subseteq 1..inserted
  /\ pc \in {"prove", "pop", "combine"} => unvisited \subseteq sub_aggregators
  /\ pc \in {"pop", "combine"} => aggregator_id \in sub_aggregators

PendingOK ==
  /\ pending = [s \in Subs |-> pending[s]]
  /\ \A s \in Subs : pending[s] \in Nat /\ SizeOf(queue[s]) <= pending[s]

VectorOK ==
  /\ IsSeq(aggregator_ids) /\ ToSet(aggregator_ids) \subseteq Loads
  /\ pc \in {"idle", "prove", "pop", "combine"} => aggregator_ids = <<>>
  /\ pc \in {"send", "split"} => aggregator_idx \in DOMAIN aggregator_ids

\* What is left suffices to saturate the sub-aggregator that is being served.
EnoughOK ==
  /\ total_chunk_size \in Nat
  /\ pc \in {"send", "split"} => Saturation(Chosen) <= total_chunk_size + InHand

LoadsOK == CallsOK /\ PendingOK /\ VectorOK /\ EnoughOK

LEMMA PlacedSized ==
  ASSUME NEW K, Placed(K)
  PROVE  SizedOK
<1>1. WaitingOK(K) /\ AwayOK(K)
  BY DEF Placed
<1>2. \A s, b : BatchAt(K, s, b) => Len(b.proofs) \in Nat
  BY StandsLength DEF BatchAt
<1>3. Sized(internal_proofs)
  BY <1>1, <1>2 DEF WaitingOK, Listed, Sized
<1>4. \A s \in Subs : Sized(queue[s])
  BY <1>1, <1>2 DEF AwayOK, AwayAtOK, Listed, Sized
<1>5. pc = "split" => Len(piece.proofs) \in Nat
  BY <1>1, <1>2 DEF WaitingOK, PieceSet
<1>6. QED
  BY <1>3, <1>4, <1>5 DEF SizedOK

LEMMA InHandNat ==
  ASSUME SizedOK
  PROVE  InHand \in Nat /\ SizeOf(internal_proofs) \in Nat
<1>1. SizeOf(internal_proofs) \in Nat
  BY LengthsAre DEF SizedOK
<1>2. QED
  BY <1>1 DEF InHand, SizedOK

LEMMA ChosenIs ==
  ASSUME VectorOK, CallsOK, pc \in {"send", "split"}
  PROVE  /\ Chosen \in Loads /\ Chosen.id \in Subs /\ Chosen.id \in sub_aggregators
         /\ Saturation(Chosen) \in Nat \ {0, 1}
<1>1. Chosen \in ToSet(aggregator_ids)
  BY DEF Chosen, ToSet, VectorOK
<1>2. Chosen \in Loads
  BY <1>1 DEF VectorOK
<1>3. Chosen.throughput \in Nat \ {0} /\ Chosen.id \in sub_aggregators
  BY <1>2 DEF Loads
<1>4. 2 * Chosen.throughput \in Nat \ {0, 1}
  BY <1>3
<1>5. Chosen.id \in Subs
  <2>1. DOMAIN Throughputs = 1..Len(Throughputs) /\ Len(Throughputs) \in Nat
    BY RecursiveAssumption, LenProperties
  <2>2. 1..inserted \subseteq 1..Len(Throughputs)
    BY <2>1 DEF CallsOK
  <2>3. QED
    BY <1>3, <2>1, <2>2 DEF Subs, CallsOK
<1>6. QED
  BY <1>2, <1>3, <1>4, <1>5 DEF Saturation

LEMMA SubsInserted ==
  ASSUME CallsOK
  PROVE  sub_aggregators \subseteq Subs /\ IsFiniteSet(sub_aggregators)
<1>1. DOMAIN Throughputs = 1..Len(Throughputs) /\ Len(Throughputs) \in Nat
  BY RecursiveAssumption, LenProperties
<1>2. sub_aggregators \subseteq 1..Len(Throughputs)
  BY <1>1 DEF CallsOK
<1>3. 1 \in Int /\ Len(Throughputs) \in Int
  BY <1>1
<1>4. IsFiniteSet(1..Len(Throughputs))
  BY <1>3, FS_Interval
<1>5. QED
  BY <1>1, <1>2, <1>4, FS_Subset DEF Subs

-----------------------------------------------------------------------------
(* Pending sizes. *)

LEMMA SyncPending ==
  ASSUME NEW some, SizedOK, PendingOK, Sync(some), UNCHANGED queue
  PROVE  PendingOK'
<1>1. \A s \in Subs : SizeOf(queue[s]) \in Nat
  BY LengthsAre DEF SizedOK
<1>2. /\ pending' = [s \in Subs |-> IF s \in some THEN SizeOf(queue[s]) ELSE pending[s]]
      /\ queue' = queue
  BY DEF Sync
<1>3. ASSUME NEW s \in Subs PROVE pending'[s] \in Nat /\ SizeOf(queue'[s]) <= pending'[s]
  <2>1. pending'[s] = IF s \in some THEN SizeOf(queue[s]) ELSE pending[s]
    BY <1>2
  <2>2. SizeOf(queue'[s]) = SizeOf(queue[s])
    BY <1>2
  <2>3. pending[s] \in Nat /\ SizeOf(queue[s]) <= pending[s] /\ SizeOf(queue[s]) \in Nat
    BY <1>1 DEF PendingOK
  <2>4. QED
    BY <2>1, <2>2, <2>3
<1>4. pending' = [s \in Subs |-> pending'[s]]
  BY <1>2
<1>5. QED
  BY <1>3, <1>4 DEF PendingOK

LEMMA WorkPending ==
  ASSUME NEW K, AwayOK(K), SizedOK, PendingOK, NEW t \in Subs, Work(t)
  PROVE  PendingOK'
<1>1. PICK k \in DOMAIN queue[t] : queue' = [queue EXCEPT ![t] = RemoveAt(@, k)]
  BY DEF Work
<1>2. pending' = pending
  BY DEF Work
<1>3. queue' = [s \in Subs |-> IF s = t THEN RemoveAt(queue[t], k) ELSE queue[s]]
  BY <1>1 DEF AwayOK
<1>4. ASSUME NEW s \in Subs PROVE SizeOf(queue'[s]) <= pending[s]
  <2>1. SizeOf(queue[s]) <= pending[s] /\ pending[s] \in Nat
    BY DEF PendingOK
  <2>2. CASE s # t
    <3>1. queue'[s] = queue[s]
      BY <1>3, <2>2
    <3>2. QED
      BY <2>1, <3>1
  <2>3. CASE s = t
    <3>1. queue'[s] = RemoveAt(queue[t], k)
      BY <1>3, <2>3
    <3>2. Sized(queue[t])
      BY DEF SizedOK
    <3>3. Sized(RemoveAt(queue[t], k)) /\ SizeOf(RemoveAt(queue[t], k)) <= SizeOf(queue[t])
      BY <3>2, SizeRemoveAt
    <3>4. SizeOf(RemoveAt(queue[t], k)) \in Nat /\ SizeOf(queue[t]) \in Nat
      BY <3>2, <3>3, LengthsAre
    <3>5. QED
      BY <2>1, <2>3, <3>1, <3>3, <3>4
  <2>4. QED
    BY <2>2, <2>3
<1>5. QED
  BY <1>2, <1>4 DEF PendingOK

LEMMA SendPending ==
  ASSUME NEW K, AwayOK(K), SizedOK, PendingOK, VectorOK, CallsOK, Send
  PROVE  PendingOK'
<1>1. PICK t : t = Chosen.id
  OBVIOUS
<1>2. PICK b : b = Batch(free_sub_batch_id[t], piece.proofs)
  OBVIOUS
<1>3. pc = "split" /\ t \in Subs
  BY <1>1, ChosenIs DEF Send
<1>4. /\ queue' = [queue EXCEPT ![t] = Append(@, b)]
      /\ pending' = [pending EXCEPT ![t] = @ + Len(b.proofs)]
  BY <1>1, <1>2 DEF Send, PushTo, Batch
<1>5. Len(b.proofs) \in Nat
  BY <1>2, <1>3 DEF Batch, SizedOK
<1>6. /\ queue' = [s \in Subs |-> IF s = t THEN Append(queue[t], b) ELSE queue[s]]
      /\ pending' = [s \in Subs |-> IF s = t THEN pending[t] + Len(b.proofs) ELSE pending[s]]
  BY <1>4 DEF AwayOK, PendingOK
<1>7. ASSUME NEW s \in Subs PROVE pending'[s] \in Nat /\ SizeOf(queue'[s]) <= pending'[s]
  <2>1. SizeOf(queue[s]) <= pending[s] /\ pending[s] \in Nat
    BY DEF PendingOK
  <2>2. CASE s # t
    <3>1. queue'[s] = queue[s] /\ pending'[s] = pending[s]
      BY <1>6, <2>2
    <3>2. QED
      BY <2>1, <3>1
  <2>3. CASE s = t
    <3>1. queue'[s] = Append(queue[t], b) /\ pending'[s] = pending[t] + Len(b.proofs)
      BY <1>6, <2>3
    <3>2. Sized(queue[t])
      BY <1>3 DEF SizedOK
    <3>3. SizeOf(Append(queue[t], b)) = SizeOf(queue[t]) + Len(b.proofs)
      BY <1>5, <3>2, SizeAppend
    <3>4. SizeOf(queue[t]) \in Nat
      BY <3>2, LengthsAre
    <3>5. QED
      BY <1>5, <2>1, <2>3, <3>1, <3>3, <3>4
  <2>4. QED
    BY <2>2, <2>3
<1>8. QED
  BY <1>6, <1>7 DEF PendingOK

LEMMA RemovePending ==
  ASSUME NEW K, AwayOK(K), PendingOK, NEW t \in Subs, RemoveSubAggregator(t)
  PROVE  PendingOK'
<1>1. PICK none : none = <<>>
  OBVIOUS
<1>2. /\ queue' = [queue EXCEPT ![t] = none]
      /\ pending' = [pending EXCEPT ![t] = 0]
  BY <1>1 DEF RemoveSubAggregator
<1>3. /\ queue' = [s \in Subs |-> IF s = t THEN none ELSE queue[s]]
      /\ pending' = [s \in Subs |-> IF s = t THEN 0 ELSE pending[s]]
  BY <1>2 DEF AwayOK, PendingOK
<1>4. SizeOf(none) = 0
  BY <1>1, SizeEmpty
<1>5. QED
  BY <1>3, <1>4 DEF PendingOK

-----------------------------------------------------------------------------
(* Minima and finite sets. *)

LEMMA MinIs ==
  ASSUME NEW S, S \subseteq Nat, S # {}
  PROVE  Min(S) \in S /\ \A x \in S : Min(S) <= x
<1>1. PICK R : R = OpToRel(<, Nat)
  OBVIOUS
<1>2. IsWellFoundedOn(R, Nat)
  BY <1>1, NatLessThanWellFounded
<1>3. PICK x \in S : \A y \in S : <<y, x>> \notin R
  BY <1>2, WFMin
<1>4. ASSUME NEW y \in S PROVE x <= y
  <2>1. x \in Nat /\ y \in Nat
    OBVIOUS
  <2>2. ~(y < x)
    BY <1>1, <1>3, <2>1 DEF OpToRel
  <2>3. QED
    BY <2>1, <2>2
<1>5. QED
  BY <1>4 DEF Min

LEMMA VectorSorted ==
  ASSUME NEW S, IsFiniteSet(S), NEW l \in Sortings(S, Before)
  PROVE  /\ IsSeq(l) /\ ToSet(l) = S
         /\ \A i, j \in DOMAIN l : i < j => Before(l[i], l[j])
<1>1. PICK n \in Nat : n = Cardinality(S)
  BY FS_CardinalityType
<1>2. /\ l \in [1..Cardinality(S) -> S] /\ ToSet(l) = S
      /\ \A i, j \in DOMAIN l : i < j => Before(l[i], l[j])
  BY DEF Sortings
<1>3. l = [i \in 1..n |-> l[i]] /\ DOMAIN l = 1..n
  BY <1>1, <1>2
<1>4. IsSeq(l)
  BY <1>3, FunctionSeq
<1>5. QED
  BY <1>2, <1>4

LEMMA LoadsFinite ==
  ASSUME CallsOK
  PROVE  IsFiniteSet({Load(s) : s \in sub_aggregators})
<1>1. PICK S : S = sub_aggregators
  OBVIOUS
<1>2. PICK f : f = [s \in S |-> Load(s)]
  OBVIOUS
<1>3. PICK T : T = {Load(s) : s \in S}
  OBVIOUS
<1>4. IsFiniteSet(S)
  BY <1>1, SubsInserted
<1>5. f \in Surjection(S, T)
  BY <1>2, <1>3 DEF Surjection
<1>6. IsFiniteSet(T)
  BY <1>4, <1>5, FS_Surjection
<1>7. QED
  BY <1>1, <1>3, <1>6

-----------------------------------------------------------------------------
(* The loads through every step. *)

LEMMA InsertLoads ==
  ASSUME LoadsOK, InsertSubAggregator
  PROVE  LoadsOK'
<1>1. /\ pc = "idle" /\ pc' = pc /\ inserted < Len(Throughputs) /\ inserted' = inserted + 1
      /\ sub_aggregators' = sub_aggregators \cup {inserted'}
      /\ UNCHANGED <<aggregator_ids, total_chunk_size, queue, pending>>
  BY DEF InsertSubAggregator, subVars, distribution
<1>2. CallsOK'
  <2>1. Len(Throughputs) \in Nat
    BY RecursiveAssumption, LenProperties
  <2>2. inserted \in 0..Len(Throughputs) /\ sub_aggregators \subseteq 1..inserted
    BY DEF LoadsOK, CallsOK
  <2>3. inserted' \in 0..Len(Throughputs) /\ sub_aggregators' \subseteq 1..inserted'
    BY <1>1, <2>1, <2>2
  <2>4. QED
    BY <1>1, <2>3 DEF CallsOK
<1>3. PendingOK'
  BY <1>1 DEF LoadsOK, PendingOK
<1>4. VectorOK'
  BY <1>1, EmptyIds DEF LoadsOK, VectorOK
<1>5. EnoughOK'
  BY <1>1 DEF LoadsOK, EnoughOK
<1>6. QED
  BY <1>2, <1>3, <1>4, <1>5 DEF LoadsOK

LEMMA RemoveLoads ==
  ASSUME NEW K, AwayOK(K), LoadsOK, NEW t \in Subs, RemoveSubAggregator(t)
  PROVE  LoadsOK'
<1>1. /\ pc = "idle" /\ pc' = pc /\ inserted' = inserted
      /\ sub_aggregators' = sub_aggregators \ {t}
      /\ UNCHANGED <<aggregator_ids, total_chunk_size>>
  BY DEF RemoveSubAggregator, distribution
<1>2. CallsOK'
  BY <1>1 DEF LoadsOK, CallsOK
<1>3. PendingOK'
  BY RemovePending DEF LoadsOK
<1>4. VectorOK'
  BY <1>1, EmptyIds DEF LoadsOK, VectorOK
<1>5. EnoughOK'
  BY <1>1 DEF LoadsOK, EnoughOK
<1>6. QED
  BY <1>2, <1>3, <1>4, <1>5 DEF LoadsOK

\* The caller's calls, and those steps that leave the loads alone.
LEMMA CallerLoads ==
  ASSUME LoadsOK, pc = "idle",
         UNCHANGED <<pc, inserted, sub_aggregators, queue, pending, aggregator_ids, total_chunk_size>>
  PROVE  LoadsOK'
<1>1. CallsOK'
  BY DEF LoadsOK, CallsOK
<1>2. PendingOK'
  BY DEF LoadsOK, PendingOK
<1>3. VectorOK'
  BY DEF LoadsOK, VectorOK, Loads
<1>4. EnoughOK'
  BY DEF LoadsOK, EnoughOK
<1>5. QED
  BY <1>1, <1>2, <1>3, <1>4 DEF LoadsOK

LEMMA SyncAllLoads ==
  ASSUME SizedOK, LoadsOK, SyncAll
  PROVE  LoadsOK'
<1>1. /\ Sync(sub_aggregators) /\ pc = "idle"
      /\ UNCHANGED <<pc, inserted, sub_aggregators, queue, aggregator_ids, total_chunk_size>>
  BY DEF SyncAll, own, calls, distribution
<1>2. CallsOK'
  BY <1>1 DEF LoadsOK, CallsOK
<1>3. PendingOK'
  BY <1>1, SyncPending DEF LoadsOK
<1>4. VectorOK'
  BY <1>1 DEF LoadsOK, VectorOK, Loads
<1>5. EnoughOK'
  BY <1>1 DEF LoadsOK, EnoughOK
<1>6. QED
  BY <1>2, <1>3, <1>4, <1>5 DEF LoadsOK

LEMMA WorkLoads ==
  ASSUME NEW K, AwayOK(K), SizedOK, LoadsOK, NEW t \in Subs, Work(t)
  PROVE  LoadsOK'
<1>1. UNCHANGED <<pc, inserted, sub_aggregators, unvisited, aggregator_id, aggregator_ids,
                  aggregator_idx, total_chunk_size, internal_proofs, piece>>
  BY DEF Work, own, calls, distribution, collection
<1>2. CallsOK'
  BY <1>1 DEF LoadsOK, CallsOK
<1>3. PendingOK'
  BY WorkPending DEF LoadsOK
<1>4. VectorOK'
  BY <1>1 DEF LoadsOK, VectorOK, Loads
<1>5. EnoughOK'
  BY <1>1 DEF LoadsOK, EnoughOK, InHand, Chosen
<1>6. QED
  BY <1>2, <1>3, <1>4, <1>5 DEF LoadsOK

LEMMA LoadIs ==
  ASSUME SizedOK, CallsOK, NEW s \in sub_aggregators
  PROVE  Load(s) \in Loads
<1>1. s \in Subs
  BY SubsInserted
<1>2. Throughputs[s] \in Nat \ {0}
  BY <1>1, RecursiveAssumption, ElementOfSeq, LenProperties DEF Subs
<1>3. SizeOf(queue[s]) \in Nat
  BY <1>1, LengthsAre DEF SizedOK
<1>4. QED
  BY <1>2, <1>3 DEF Load, Loads

LEMMA StartLoads ==
  ASSUME SizedOK, LoadsOK, StartStep
  PROVE  LoadsOK'
<1>1. /\ Sync(sub_aggregators) /\ pc = "idle" /\ pc' = "distribute"
      /\ aggregator_ids' \in Sortings({Load(s) : s \in sub_aggregators}, Before)
      /\ UNCHANGED <<inserted, sub_aggregators, queue, total_chunk_size>>
  BY Zenon DEF StartStep, own, calls
<1>2. IsSeq(aggregator_ids') /\ ToSet(aggregator_ids') = {Load(s) : s \in sub_aggregators}
  BY <1>1, LoadsFinite, VectorSorted DEF LoadsOK
<1>3. /\ Sync(sub_aggregators) /\ pc' = "distribute"
      /\ UNCHANGED <<inserted, sub_aggregators, queue, total_chunk_size>>
  BY <1>1, Zenon
<1>4. CallsOK'
  BY <1>3 DEF LoadsOK, CallsOK
<1>5. PendingOK'
  BY <1>3, SyncPending DEF LoadsOK
<1>6. VectorOK'
  <2>1. Loads' = Loads
    BY <1>3 DEF Loads
  <2>2. \A s \in sub_aggregators : Load(s) \in Loads
    BY LoadIs DEF LoadsOK
  <2>3. QED
    BY <1>2, <1>3, <2>1, <2>2 DEF VectorOK
<1>7. EnoughOK'
  BY <1>3 DEF LoadsOK, EnoughOK
<1>8. QED
  BY <1>4, <1>5, <1>6, <1>7 DEF LoadsOK

LEMMA FindLoads ==
  ASSUME SizedOK, LoadsOK, FindAggregator
  PROVE  LoadsOK'
<1>1. /\ pc = "distribute" /\ Candidates # {} /\ aggregator_idx' = Min(Candidates)
      /\ total_chunk_size' = 0 /\ pc' = "send"
      /\ UNCHANGED <<internal_proofs, inserted, sub_aggregators, queue, pending, aggregator_ids>>
  BY DEF FindAggregator, own, calls, subVars
<1>2. DOMAIN aggregator_ids = 1..Len(aggregator_ids) /\ Len(aggregator_ids) \in Nat
  BY IsSeqLength DEF LoadsOK, VectorOK
<1>3. Min(Candidates) \in Candidates
  <2>1. Candidates \subseteq Nat
    BY <1>2 DEF Candidates
  <2>2. QED
    BY <1>1, <2>1, MinIs
<1>4. aggregator_idx' \in DOMAIN aggregator_ids /\ CanSaturate(aggregator_ids[aggregator_idx'])
  BY <1>1, <1>3 DEF Candidates
<1>5. aggregator_ids[aggregator_idx'] \in Loads
  BY <1>4 DEF LoadsOK, VectorOK, ToSet
<1>6. CallsOK'
  BY <1>1 DEF LoadsOK, CallsOK
<1>7. PendingOK'
  BY <1>1 DEF LoadsOK, PendingOK
<1>8. VectorOK'
  BY <1>1, <1>4 DEF LoadsOK, VectorOK, Loads
<1>9. EnoughOK'
  <2>1. Chosen' = aggregator_ids[aggregator_idx']
    BY <1>1 DEF Chosen
  <2>2. Saturation(Chosen') <= SizeOf(internal_proofs)
    <3>1. PICK load \in Loads : load = Chosen'
      BY <1>5, <2>1
    <3>2. SizeOf(internal_proofs) >= Saturation(load)
      BY <1>4, <2>1, <3>1 DEF CanSaturate
    <3>3. SizeOf(internal_proofs) \in Nat /\ Saturation(load) \in Nat
      BY InHandNat DEF Saturation, Loads
    <3>4. QED
      BY <3>1, <3>2, <3>3
  <2>3. SizeOf(internal_proofs) \in Nat
    BY InHandNat
  <2>4. InHand' = SizeOf(internal_proofs)
    BY <1>1, <2>3 DEF InHand
  <2>5. 0 + InHand' = SizeOf(internal_proofs)
    BY <2>3, <2>4
  <2>6. QED
    BY <1>1, <2>2, <2>5 DEF EnoughOK, Saturation
<1>10. QED
  BY <1>6, <1>7, <1>8, <1>9 DEF LoadsOK

\* There is a batch to take, as long as the sub-aggregator has not got enough.
LEMMA SomethingLeft ==
  ASSUME SizedOK, LoadsOK, pc = "send", total_chunk_size < Saturation(Chosen)
  PROVE  internal_proofs # <<>>
<1>1. SUFFICES ASSUME internal_proofs = <<>> PROVE FALSE
  OBVIOUS
<1>2. SizeOf(internal_proofs) = 0
  BY <1>1, SizeEmpty
<1>3. InHand = 0
  BY <1>2 DEF InHand
<1>4. Saturation(Chosen) \in Nat
  BY ChosenIs DEF LoadsOK
<1>5. total_chunk_size \in Nat /\ Saturation(Chosen) <= total_chunk_size + InHand
  BY <1>2 DEF LoadsOK, EnoughOK
<1>6. QED
  BY <1>3, <1>4, <1>5

LEMMA TakeLoads ==
  ASSUME SizedOK, LoadsOK, TakeBatch
  PROVE  LoadsOK' /\ InHand' = InHand
<1>1. /\ pc = "send" /\ pc' = "split" /\ piece' = Head(internal_proofs)
      /\ internal_proofs' = Tail(internal_proofs)
      /\ UNCHANGED <<total_chunk_size, inserted, sub_aggregators, queue, pending, aggregator_ids,
                     aggregator_idx>>
  BY DEF TakeBatch, calls, subVars
<1>2. CallsOK'
  BY <1>1 DEF LoadsOK, CallsOK
<1>3. PendingOK'
  BY <1>1 DEF LoadsOK, PendingOK
<1>4. VectorOK'
  BY <1>1 DEF LoadsOK, VectorOK, Loads
<1>5. InHand' = InHand
  <2>1. /\ SizeOf(internal_proofs) = Len(Head(internal_proofs).proofs) + SizeOf(Tail(internal_proofs))
        /\ Len(Head(internal_proofs).proofs) \in Nat /\ Sized(Tail(internal_proofs))
    BY SomethingLeft, SizeTail DEF SizedOK, TakeBatch
  <2>2. SizeOf(Tail(internal_proofs)) \in Nat /\ SizeOf(internal_proofs) \in Nat
    BY <2>1, LengthsAre DEF SizedOK
  <2>3. InHand = SizeOf(internal_proofs) /\ InHand' = SizeOf(Tail(internal_proofs)) + Len(Head(internal_proofs).proofs)
    BY <1>1, <2>2 DEF InHand
  <2>4. QED
    BY <2>1, <2>2, <2>3
<1>6. EnoughOK'
  <2>1. Chosen' = Chosen
    BY <1>1 DEF Chosen
  <2>2. QED
    BY <1>1, <1>5, <2>1 DEF LoadsOK, EnoughOK
<1>7. QED
  BY <1>2, <1>3, <1>4, <1>5, <1>6 DEF LoadsOK

LEMMA SplitLoads ==
  ASSUME NEW K, Placed(K), LoadsOK, Split
  PROVE  LoadsOK' /\ InHand' = InHand
<1>0. SizedOK
  BY PlacedSized
<1>1. PICK half : half = Len(piece.proofs) \div 2
  OBVIOUS
<1>2. PICK b : b = Batch(free_batch_id, SubSeq(piece.proofs, half + 1, 2 * half))
  OBVIOUS
<1>3. /\ pc = "split" /\ pc' = pc /\ Fits(Len(piece.proofs))
      /\ internal_proofs' = <<b>> \o internal_proofs
      /\ piece' = Batch(free_batch_id + 1, SubSeq(piece.proofs, 1, half))
      /\ UNCHANGED <<total_chunk_size, inserted, sub_aggregators, queue, pending, aggregator_ids,
                     aggregator_idx>>
  BY <1>1, <1>2 DEF Split, calls, subVars
<1>4. Len(piece.proofs) = 2 * half /\ half \in Nat /\ Len(b.proofs) = half /\ Len(piece'.proofs) = half
  <2>1. piece.id \in Nat /\ Stands(K[Qualified(Self, piece.id)], piece.proofs) /\ Len(piece.proofs) > 1
    BY <1>3 DEF Placed, WaitingOK, PieceSet, BatchAt
  <2>2. K[Qualified(Self, piece.id)] \in Blocks
    BY <2>1, QualifiedIs, SubsAre DEF Placed, KnownOK
  <2>3. /\ Len(SubSeq(piece.proofs, 1, half)) = half
        /\ Len(SubSeq(piece.proofs, half + 1, 2 * half)) = half
        /\ Len(piece.proofs) = 2 * half /\ half \in Nat \ {0}
    BY <1>1, <2>1, <2>2, StandsSplit
  <2>4. QED
    BY <1>2, <1>3, <2>3 DEF Batch
<1>5. InHand' = InHand
  <2>1. Sized(<<b>>) /\ SizeOf(<<b>>) = half
    BY <1>4, SizeOne
  <2>2. SizeOf(<<b>> \o internal_proofs) = SizeOf(<<b>>) + SizeOf(internal_proofs)
    BY <1>0, <2>1, SizeConcat DEF SizedOK
  <2>3. SizeOf(internal_proofs') = half + SizeOf(internal_proofs)
    BY <1>3, <2>1, <2>2
  <2>4. InHand' = SizeOf(internal_proofs') + half
    BY <1>3, <1>4 DEF InHand
  <2>5. InHand = SizeOf(internal_proofs) + 2 * half
    BY <1>3, <1>4 DEF InHand
  <2>6. SizeOf(internal_proofs) \in Nat
    BY <1>0, InHandNat
  <2>7. QED
    BY <1>4, <2>3, <2>4, <2>5, <2>6
<1>6. CallsOK'
  BY <1>3 DEF LoadsOK, CallsOK
<1>7. PendingOK'
  BY <1>3 DEF LoadsOK, PendingOK
<1>8. VectorOK'
  BY <1>3 DEF LoadsOK, VectorOK, Loads
<1>9. EnoughOK'
  <2>1. Chosen' = Chosen
    BY <1>3 DEF Chosen
  <2>2. QED
    BY <1>3, <1>5, <2>1 DEF LoadsOK, EnoughOK
<1>10. QED
  BY <1>5, <1>6, <1>7, <1>8, <1>9 DEF LoadsOK

LEMMA SendLoads ==
  ASSUME NEW K, AwayOK(K), SizedOK, LoadsOK, Send
  PROVE  LoadsOK' /\ InHand' <= InHand
<1>1. /\ pc = "split" /\ pc' = "send" /\ total_chunk_size' = total_chunk_size + Len(piece.proofs)
      /\ UNCHANGED <<internal_proofs, inserted, sub_aggregators, aggregator_ids, aggregator_idx>>
  BY DEF Send, calls
<1>2. CallsOK'
  BY <1>1 DEF LoadsOK, CallsOK
<1>3. PendingOK'
  BY SendPending DEF LoadsOK
<1>4. VectorOK'
  BY <1>1 DEF LoadsOK, VectorOK, Loads
<1>5. PICK n \in Nat : n = Len(piece.proofs)
  BY <1>1 DEF SizedOK
<1>6. /\ InHand = SizeOf(internal_proofs) + n /\ InHand' = SizeOf(internal_proofs)
      /\ SizeOf(internal_proofs) \in Nat
  BY <1>1, <1>5, InHandNat DEF InHand
<1>7. EnoughOK'
  <2>1. Chosen' = Chosen
    BY <1>1 DEF Chosen
  <2>2. PICK sat \in Nat : sat = Saturation(Chosen)
    BY <1>1, ChosenIs DEF LoadsOK
  <2>3. total_chunk_size \in Nat /\ sat <= total_chunk_size + InHand
    BY <1>1, <2>2 DEF LoadsOK, EnoughOK
  <2>4. total_chunk_size' \in Nat /\ sat <= total_chunk_size' + InHand'
    BY <1>1, <1>5, <1>6, <2>2, <2>3, SMTT(30)
  <2>5. Saturation(Chosen)' = sat
    BY <2>1, <2>2 DEF Saturation
  <2>6. QED
    BY <2>4, <2>5 DEF EnoughOK
<1>8. InHand' <= InHand
  BY <1>6
<1>9. QED
  BY <1>2, <1>3, <1>4, <1>7, <1>8 DEF LoadsOK

LEMMA StopLoads ==
  ASSUME LoadsOK, StopDistributing
  PROVE  LoadsOK'
<1>1. /\ pc' = "prove" /\ aggregator_ids' = <<>> /\ total_chunk_size' = 0
      /\ unvisited' = sub_aggregators
      /\ UNCHANGED <<inserted, sub_aggregators, queue, pending>>
  BY DEF StopDistributing, own, calls, subVars
<1>2. CallsOK'
  BY <1>1 DEF LoadsOK, CallsOK
<1>3. PendingOK'
  BY <1>1 DEF LoadsOK, PendingOK
<1>4. VectorOK'
  BY <1>1, EmptyIds DEF VectorOK
<1>5. EnoughOK'
  BY <1>1 DEF EnoughOK
<1>6. QED
  BY <1>2, <1>3, <1>4, <1>5 DEF LoadsOK

\* While the results are collected, the vector is empty.
LEMMA CollectLoads ==
  ASSUME LoadsOK, CallsOK', PendingOK', pc \in {"prove", "pop", "combine"},
         pc' \in {"prove", "pop", "combine", "idle"},
         UNCHANGED <<aggregator_ids, total_chunk_size>>
  PROVE  LoadsOK'
<1>1. VectorOK'
  BY EmptyIds DEF LoadsOK, VectorOK
<1>2. EnoughOK'
  BY DEF LoadsOK, EnoughOK
<1>3. QED
  BY <1>1, <1>2 DEF LoadsOK

LEMMA VisitLoads ==
  ASSUME SizedOK, LoadsOK, NEW s \in Subs, VisitSubAggregator(s)
  PROVE  LoadsOK'
<1>1. /\ pc = "prove" /\ pc' = "pop" /\ s \in unvisited /\ Sync({s}) /\ aggregator_id' = s
      /\ unvisited' = unvisited \ {s}
      /\ UNCHANGED <<inserted, sub_aggregators, queue, aggregator_ids, total_chunk_size>>
  BY DEF VisitSubAggregator, own, calls, distribution
<1>2. CallsOK'
  BY <1>1 DEF LoadsOK, CallsOK
<1>3. PendingOK'
  BY <1>1, SyncPending DEF LoadsOK
<1>4. QED
  BY <1>1, <1>2, <1>3, CollectLoads

LEMMA ProveLoads ==
  ASSUME LoadsOK,
         PopSubProof \/ LeaveSubAggregator \/ CombineSubtrees \/ StopCombining \/ Consolidate
  PROVE  LoadsOK'
<1>1. /\ pc \in {"prove", "pop", "combine"} /\ pc' \in {"prove", "pop", "combine", "idle"}
      /\ pc' \in {"pop", "combine"} => pc \in {"pop", "combine"} /\ aggregator_id' = aggregator_id
      /\ UNCHANGED <<unvisited, inserted, sub_aggregators, queue, pending, aggregator_ids, total_chunk_size>>
  BY DEF PopSubProof, LeaveSubAggregator, CombineSubtrees, StopCombining, Consolidate, own, calls,
         subVars, distribution, collection
<1>2. CallsOK'
  BY <1>1 DEF LoadsOK, CallsOK
<1>3. PendingOK'
  BY <1>1 DEF LoadsOK, PendingOK
<1>4. QED
  BY <1>1, <1>2, <1>3, CollectLoads

-----------------------------------------------------------------------------
(* The order of the loads. *)

AnyLoad == [throughput : Nat \ {0}, pending : Nat, id : Nat]

\* a waits no longer than b.
LeWait(a, b) == a.pending * b.throughput <= b.pending * a.throughput

LEMMA ProductOrder ==
  ASSUME NEW a \in Nat, NEW b \in Nat, NEW x \in Nat \ {0}
  PROVE  a <= b <=> a * x <= b * x
<1>1. PICK d \in Int : d = b - a
  OBVIOUS
<1>2. b * x = a * x + d * x
  <2>1. b = a + d
    BY <1>1
  <2>2. (a + d) * x = a * x + d * x
    BY <1>1
  <2>3. QED
    BY <2>1, <2>2
<1>3. a * x \in Int /\ d * x \in Int
  BY <1>1
<1>4. CASE d >= 0
  <2>1. d * x >= 0
    BY <1>1, <1>4
  <2>2. QED
    BY <1>1, <1>2, <1>3, <1>4, <2>1
<1>5. CASE d < 0
  <2>1. d * x < 0
    BY <1>1, <1>5
  <2>2. QED
    BY <1>1, <1>2, <1>3, <1>5, <2>1
<1>6. QED
  BY <1>1, <1>4, <1>5

LEMMA CrossOrder ==
  ASSUME NEW a \in Nat, NEW b \in Nat, NEW c \in Nat,
         NEW x \in Nat \ {0}, NEW y \in Nat \ {0}, NEW z \in Nat \ {0},
         a * y <= b * x, b * z <= c * y
  PROVE  a * z <= c * x
<1>1. a * y \in Nat /\ b * x \in Nat /\ b * z \in Nat /\ c * y \in Nat /\ a * z \in Nat /\ c * x \in Nat
  OBVIOUS
<1>2. (a * y) * z <= (b * x) * z
  BY <1>1, ProductOrder
<1>3. (b * z) * x <= (c * y) * x
  BY <1>1, ProductOrder
<1>4. (b * x) * z = (b * z) * x /\ (a * y) * z = (a * z) * y /\ (c * y) * x = (c * x) * y
  OBVIOUS
<1>5. PICK l \in Nat : l = (a * z) * y
  BY <1>1
<1>6. PICK m \in Nat : m = (b * z) * x
  BY <1>1
<1>7. PICK r \in Nat : r = (c * x) * y
  BY <1>1
<1>8. l <= m /\ m <= r
  BY <1>2, <1>3, <1>4, <1>5, <1>6, <1>7
<1>9. l <= r
  BY <1>8
<1>10. (a * z) * y <= (c * x) * y
  BY <1>5, <1>7, <1>9
<1>11. QED
  BY <1>1, <1>10, ProductOrder

LEMMA WaitOrder ==
  /\ \A a, b \in AnyLoad : LeWait(a, b) \/ LeWait(b, a)
  /\ \A a, b, c \in AnyLoad : LeWait(a, b) /\ LeWait(b, c) => LeWait(a, c)
<1>1. ASSUME NEW a \in AnyLoad, NEW b \in AnyLoad PROVE LeWait(a, b) \/ LeWait(b, a)
  <2>1. a.pending * b.throughput \in Nat /\ b.pending * a.throughput \in Nat
    BY DEF AnyLoad
  <2>2. QED
    BY <2>1 DEF LeWait
<1>2. ASSUME NEW a \in AnyLoad, NEW b \in AnyLoad, NEW c \in AnyLoad, LeWait(a, b), LeWait(b, c)
      PROVE  LeWait(a, c)
  <2>1. /\ a.pending \in Nat /\ b.pending \in Nat /\ c.pending \in Nat
        /\ a.throughput \in Nat \ {0} /\ b.throughput \in Nat \ {0} /\ c.throughput \in Nat \ {0}
    BY DEF AnyLoad
  <2>2. a.pending * b.throughput <= b.pending * a.throughput
    BY <1>2 DEF LeWait
  <2>3. b.pending * c.throughput <= c.pending * b.throughput
    BY <1>2 DEF LeWait
  <2>4. a.pending * c.throughput <= c.pending * a.throughput
    BY <2>1, <2>2, <2>3, CrossOrder
  <2>5. QED
    BY <2>4 DEF LeWait
<1>3. QED
  BY <1>1, <1>2

LEMMA BeforeIs ==
  ASSUME NEW a \in AnyLoad, NEW b \in AnyLoad
  PROVE  Before(a, b) <=> \/ ~LeWait(b, a)
                          \/ /\ LeWait(a, b) /\ LeWait(b, a)
                             /\ \/ b.throughput < a.throughput
                                \/ a.throughput = b.throughput /\ a.id < b.id
<1>1. PICK x \in Nat : x = a.pending * b.throughput
  BY DEF AnyLoad
<1>2. PICK y \in Nat : y = b.pending * a.throughput
  BY DEF AnyLoad
<1>3. a.throughput \in Nat /\ b.throughput \in Nat
  BY DEF AnyLoad
<1>4. LeWait(a, b) <=> x <= y
  BY <1>1, <1>2 DEF LeWait
<1>5. LeWait(b, a) <=> y <= x
  BY <1>1, <1>2 DEF LeWait
<1>6. Before(a, b) <=> \/ x < y
                       \/ x = y /\ a.throughput > b.throughput
                       \/ x = y /\ a.throughput = b.throughput /\ a.id < b.id
  BY <1>1, <1>2 DEF Before
<1>7. QED
  BY <1>3, <1>4, <1>5, <1>6

\* The loads are in a strict order, and so is its negation.
LEMMA BeforeOrder ==
  /\ \A a \in AnyLoad : ~Before(a, a)
  /\ \A a, b, c \in AnyLoad : Before(a, b) /\ Before(b, c) => Before(a, c)
  /\ \A a, b, c \in AnyLoad : ~Before(a, b) /\ ~Before(b, c) => ~Before(a, c)
<1>1. \A a \in AnyLoad : a.throughput \in Nat /\ a.id \in Nat
  BY DEF AnyLoad
<1>2. ASSUME NEW a \in AnyLoad PROVE ~Before(a, a)
  BY <1>1, BeforeIs, WaitOrder
<1>3. ASSUME NEW a \in AnyLoad, NEW b \in AnyLoad, NEW c \in AnyLoad, Before(a, b), Before(b, c)
      PROVE  Before(a, c)
  <2>1. LeWait(a, b) /\ LeWait(b, c) /\ LeWait(a, c)
    BY <1>3, BeforeIs, WaitOrder
  <2>2. CASE ~LeWait(c, a)
    BY <2>2, BeforeIs
  <2>3. CASE LeWait(c, a)
    <3>1. LeWait(b, a) /\ LeWait(c, b)
      BY <2>1, <2>3, WaitOrder
    <3>2. QED
      BY <1>1, <1>3, <2>1, <2>3, <3>1, BeforeIs
  <2>4. QED
    BY <2>2, <2>3
<1>4. ASSUME NEW a \in AnyLoad, NEW b \in AnyLoad, NEW c \in AnyLoad, ~Before(a, b), ~Before(b, c)
      PROVE  ~Before(a, c)
  <2>1. LeWait(b, a) /\ LeWait(c, b) /\ LeWait(c, a)
    BY <1>4, BeforeIs, WaitOrder
  <2>2. CASE ~LeWait(a, c)
    BY <2>1, <2>2, BeforeIs
  <2>3. CASE LeWait(a, c)
    <3>1. LeWait(a, b) /\ LeWait(b, c)
      BY <2>1, <2>3, WaitOrder
    <3>2. QED
      BY <1>1, <1>4, <2>1, <2>3, <3>1, BeforeIs
  <2>4. QED
    BY <2>2, <2>3
<1>5. QED
  BY <1>2, <1>3, <1>4

-----------------------------------------------------------------------------
(* The scan of the load vector. *)

\* Whether a load is saturated by n proofs and may be: CanSaturate is this of
\* the proofs in the queue.
CanWith(n, load) == Saturation(load) <= n /\ load.pending < MaxWaitTime * Saturation(load)

\* A vector of n loads: h proofs can saturate none of the first m; those behind
\* them are in order, and but for the first of these none comes before any of
\* the first m.
Scanned(f, n, m, h) ==
  /\ m \in 0..n
  /\ \A i \in 1..m : ~CanWith(h, f[i])
  /\ \A i, j \in 1..n : m < i /\ i < j => ~Before(f[j], f[i])
  /\ \A i, j \in 1..n : i <= m /\ m + 1 < j => ~Before(f[j], f[i])

LEMMA ScanFewer ==
  ASSUME NEW f, NEW n \in Nat, NEW m, NEW h \in Nat, NEW l \in Nat, l <= h, Scanned(f, n, m, h),
         \A i \in 1..n : f[i] \in AnyLoad
  PROVE  Scanned(f, n, m, l)
<1>1. m \in 0..n
  BY DEF Scanned
<1>2. ASSUME NEW i \in 1..m PROVE ~CanWith(l, f[i])
  <2>1. i \in 1..n
    BY <1>1
  <2>2. f[i].throughput \in Nat
    BY <2>1 DEF AnyLoad
  <2>3. Saturation(f[i]) \in Nat
    BY <2>2 DEF Saturation
  <2>4. ~CanWith(h, f[i])
    BY DEF Scanned
  <2>5. QED
    BY <2>3, <2>4 DEF CanWith
<1>3. QED
  BY <1>2 DEF Scanned

LEMMA ScanOn ==
  ASSUME NEW f, NEW n \in Nat, NEW m, NEW h, Scanned(f, n, m, h), NEW c \in 1..n,
         CanWith(h, f[c]), \A i \in 1..n : i < c => ~CanWith(h, f[i])
  PROVE  Scanned(f, n, c - 1, h) /\ m < c
<1>1. m \in 0..n /\ m < c
  BY DEF Scanned
<1>2. c - 1 \in 0..n
  OBVIOUS
<1>3. \A i \in 1..(c - 1) : ~CanWith(h, f[i])
  OBVIOUS
<1>4. ASSUME NEW i \in 1..n, NEW j \in 1..n, c - 1 < i, i < j PROVE ~Before(f[j], f[i])
  <2>1. m < i
    BY <1>1, <1>4
  <2>2. QED
    BY <1>4, <2>1 DEF Scanned
<1>5. ASSUME NEW i \in 1..n, NEW j \in 1..n, i <= c - 1, (c - 1) + 1 < j PROVE ~Before(f[j], f[i])
  <2>1. i < j /\ m + 1 < j
    BY <1>1, <1>5
  <2>2. CASE m < i
    BY <2>1, <2>2 DEF Scanned
  <2>3. CASE i <= m
    BY <2>1, <2>3 DEF Scanned
  <2>4. QED
    BY <1>1, <2>2, <2>3
<1>6. QED
  BY <1>1, <1>2, <1>3, <1>4, <1>5 DEF Scanned

\* The load at c is replaced where it is, before anything that may come before it.
LEMMA ScanReplace ==
  ASSUME NEW f, NEW n \in Nat, NEW c \in 1..n, NEW h, Scanned(f, n, c - 1, h), NEW e \in AnyLoad,
         \A i \in 1..n : f[i] \in AnyLoad,
         NEW p \in 0..n, p < n => ~Before(f[p + 1], e), p <= c,
         NEW g, \A i \in 1..n : g[i] = IF i = c THEN e ELSE f[i]
  PROVE  Scanned(g, n, c - 1, h)
<1>1. ASSUME NEW j \in 1..n, c < j PROVE ~Before(f[j], e)
  <2>1. p < n /\ p + 1 \in 1..n /\ p + 1 <= c + 1
    BY <1>1
  <2>2. ~Before(f[p + 1], e)
    BY <2>1
  <2>3. ~Before(f[j], f[p + 1])
    <3>1. CASE p + 1 = j
      BY <3>1, BeforeOrder
    <3>2. CASE p + 1 # j /\ c - 1 < p + 1
      <4>1. p + 1 < j
        BY <1>1, <2>1, <3>2
      <4>2. QED
        BY <2>1, <3>2, <4>1 DEF Scanned
    <3>3. CASE p + 1 <= c - 1
      <4>1. (c - 1) + 1 < j
        BY <1>1
      <4>2. QED
        BY <2>1, <3>3, <4>1 DEF Scanned
    <3>4. QED
      BY <2>1, <3>1, <3>2, <3>3
  <2>4. QED
    BY <2>1, <2>2, <2>3, BeforeOrder
<1>2. c - 1 \in 0..n
  OBVIOUS
<1>3. ASSUME NEW i \in 1..(c - 1) PROVE ~CanWith(h, g[i])
  <2>1. i \in 1..n /\ i # c
    OBVIOUS
  <2>2. QED
    BY <2>1 DEF Scanned
<1>4. ASSUME NEW i \in 1..n, NEW j \in 1..n, c - 1 < i, i < j PROVE ~Before(g[j], g[i])
  <2>1. j # c /\ c < j
    BY <1>4
  <2>2. g[j] = f[j]
    BY <2>1
  <2>3. CASE i = c
    BY <1>1, <2>1, <2>2, <2>3
  <2>4. CASE i # c
    BY <1>4, <2>2, <2>4 DEF Scanned
  <2>5. QED
    BY <2>3, <2>4
<1>5. ASSUME NEW i \in 1..n, NEW j \in 1..n, i <= c - 1, (c - 1) + 1 < j PROVE ~Before(g[j], g[i])
  <2>1. i # c /\ j # c
    BY <1>5
  <2>2. g[i] = f[i] /\ g[j] = f[j]
    BY <2>1
  <2>3. QED
    BY <1>5, <2>2 DEF Scanned
<1>6. QED
  BY <1>2, <1>3, <1>4, <1>5 DEF Scanned

\* The load at c is moved behind p, the last that comes before it.
LEMMA ScanMove ==
  ASSUME NEW f, NEW n \in Nat, NEW c \in 1..n, NEW h, Scanned(f, n, c - 1, h), NEW e \in AnyLoad,
         \A i \in 1..n : f[i] \in AnyLoad,
         NEW p \in 1..n, c < p, Before(f[p], e), p < n => ~Before(f[p + 1], e),
         NEW g, \A i \in 1..n :
                  g[i] = IF i < c \/ i > p THEN f[i] ELSE IF i = p THEN e ELSE f[i + 1]
  PROVE  Scanned(g, n, c - 1, h)
<1>1. ASSUME NEW j \in 1..n, p < j PROVE ~Before(f[j], e)
  <2>1. p < n /\ p + 1 \in 1..n /\ p + 1 <= j /\ c - 1 < p + 1
    BY <1>1
  <2>2. ~Before(f[p + 1], e)
    BY <2>1
  <2>3. ~Before(f[j], f[p + 1])
    <3>1. CASE p + 1 = j
      BY <3>1, BeforeOrder
    <3>2. CASE p + 1 < j
      BY <2>1, <3>2 DEF Scanned
    <3>3. QED
      BY <2>1, <3>1, <3>2
  <2>4. QED
    BY <2>1, <2>2, <2>3, BeforeOrder
<1>2. ASSUME NEW i \in 1..n, i <= p, i # c PROVE ~Before(e, f[i])
  <2>1. ~Before(f[p], f[i])
    <3>1. CASE i = p
      BY <3>1, BeforeOrder
    <3>2. CASE i < p /\ c - 1 < i
      BY <3>2 DEF Scanned
    <3>3. CASE i <= c - 1
      <4>1. (c - 1) + 1 < p
        OBVIOUS
      <4>2. QED
        BY <3>3, <4>1 DEF Scanned
    <3>4. QED
      BY <1>2, <3>1, <3>2, <3>3
  <2>2. QED
    BY <2>1, BeforeOrder
<1>3. c - 1 \in 0..n
  OBVIOUS
<1>4. ASSUME NEW i \in 1..(c - 1) PROVE ~CanWith(h, g[i])
  <2>1. i \in 1..n /\ i < c
    OBVIOUS
  <2>2. QED
    BY <2>1 DEF Scanned
\* From where each of the places behind c - 1 comes.
<1>5. ASSUME NEW i \in 1..n, c - 1 < i
      PROVE  \/ i < p /\ i + 1 \in 1..n /\ c < i + 1 /\ i + 1 <= p /\ g[i] = f[i + 1]
             \/ i = p /\ g[i] = e
             \/ p < i /\ g[i] = f[i]
  <2>1. ~(i < c)
    BY <1>5
  <2>2. CASE i < p
    <3>1. i + 1 \in 1..n /\ c < i + 1 /\ i + 1 <= p /\ ~(i > p) /\ i # p
      BY <1>5, <2>2
    <3>2. QED
      BY <2>1, <2>2, <3>1
  <2>3. CASE i = p
    BY <2>1, <2>3
  <2>4. CASE p < i
    BY <2>4
  <2>5. QED
    BY <2>2, <2>3, <2>4
<1>6. ASSUME NEW i \in 1..n, NEW j \in 1..n, c - 1 < i, i < j PROVE ~Before(g[j], g[i])
  <2>1. c - 1 < j
    BY <1>6
  <2>2. CASE i < p /\ j < p
    <3>1. /\ g[i] = f[i + 1] /\ g[j] = f[j + 1] /\ i + 1 \in 1..n /\ j + 1 \in 1..n
          /\ c - 1 < i + 1 /\ i + 1 < j + 1
      BY <1>5, <1>6, <2>1, <2>2
    <3>2. QED
      BY <3>1 DEF Scanned
  <2>3. CASE i < p /\ j = p
    <3>1. g[i] = f[i + 1] /\ i + 1 \in 1..n /\ i + 1 <= p /\ i + 1 # c /\ g[j] = e
      BY <1>5, <1>6, <2>1, <2>3
    <3>2. QED
      BY <1>2, <3>1
  <2>4. CASE i < p /\ p < j
    <3>1. /\ g[i] = f[i + 1] /\ i + 1 \in 1..n /\ i + 1 < j /\ c - 1 < i + 1 /\ g[j] = f[j]
      BY <1>5, <1>6, <2>1, <2>4
    <3>2. QED
      BY <3>1 DEF Scanned
  <2>5. CASE i = p
    <3>1. g[i] = e /\ p < j /\ g[j] = f[j]
      BY <1>5, <1>6, <2>1, <2>5
    <3>2. QED
      BY <1>1, <3>1
  <2>6. CASE p < i
    <3>1. g[i] = f[i] /\ g[j] = f[j]
      BY <1>5, <1>6, <2>1, <2>6
    <3>2. QED
      BY <1>6, <3>1 DEF Scanned
  <2>7. QED
    BY <1>6, <2>2, <2>3, <2>4, <2>5, <2>6
<1>7. ASSUME NEW i \in 1..n, NEW j \in 1..n, i <= c - 1, (c - 1) + 1 < j PROVE ~Before(g[j], g[i])
  <2>1. g[i] = f[i] /\ c - 1 < j /\ i <= p /\ i # c
    BY <1>7
  <2>2. CASE j < p
    <3>1. g[j] = f[j + 1] /\ j + 1 \in 1..n /\ (c - 1) + 1 < j + 1
      BY <1>5, <1>7, <2>1, <2>2
    <3>2. QED
      BY <1>7, <2>1, <3>1 DEF Scanned
  <2>3. CASE j = p
    <3>1. g[j] = e
      BY <1>5, <2>1, <2>3
    <3>2. QED
      BY <1>2, <2>1, <3>1
  <2>4. CASE p < j
    <3>1. g[j] = f[j]
      BY <1>5, <2>1, <2>4
    <3>2. QED
      BY <1>7, <2>1, <3>1 DEF Scanned
  <2>5. QED
    BY <2>2, <2>3, <2>4
<1>8. QED
  BY <1>3, <1>4, <1>6, <1>7 DEF Scanned

ScanOK ==
  /\ pc = "distribute" => \E m : Scanned(aggregator_ids, Len(aggregator_ids), m, InHand)
  /\ pc \in {"send", "split"} =>
       Scanned(aggregator_ids, Len(aggregator_ids), aggregator_idx - 1, InHand)

LEMMA VectorIs ==
  ASSUME LoadsOK
  PROVE  /\ Len(aggregator_ids) \in Nat /\ DOMAIN aggregator_ids = 1..Len(aggregator_ids)
         /\ \A i \in 1..Len(aggregator_ids) : aggregator_ids[i] \in AnyLoad /\ aggregator_ids[i] \in Loads
         /\ Loads \subseteq AnyLoad
<1>1. sub_aggregators \subseteq Nat
  BY SubsInserted, SubsAre DEF LoadsOK
<1>2. Loads \subseteq AnyLoad
  BY <1>1 DEF Loads, AnyLoad
<1>3. /\ Len(aggregator_ids) \in Nat /\ DOMAIN aggregator_ids = 1..Len(aggregator_ids)
      /\ ToSet(aggregator_ids) = {aggregator_ids[i] : i \in 1..Len(aggregator_ids)}
  BY IsSeqLength, IsSeqRange DEF LoadsOK, VectorOK
<1>4. ToSet(aggregator_ids) \subseteq Loads
  BY DEF LoadsOK, VectorOK
<1>5. QED
  BY <1>2, <1>3, <1>4

LEMMA CanSaturateIs ==
  ASSUME SizedOK, NEW load \in AnyLoad, pc # "split"
  PROVE  CanSaturate(load) <=> CanWith(InHand, load)
<1>1. load.throughput \in Nat
  BY DEF AnyLoad
<1>2. Saturation(load) \in Nat
  BY <1>1 DEF Saturation
<1>3. SizeOf(internal_proofs) \in Nat
  BY InHandNat
<1>4. InHand = SizeOf(internal_proofs)
  BY <1>3 DEF InHand
<1>5. QED
  BY <1>2, <1>3, <1>4 DEF CanSaturate, CanWith

\* The load of the sub-aggregator that was served is read again.
LEMMA ReloadVector ==
  ASSUME SizedOK, LoadsOK, ScanOK, Reload
  PROVE  /\ IsSeq(aggregator_ids') /\ ToSet(aggregator_ids') \subseteq Loads
         /\ Scanned(aggregator_ids', Len(aggregator_ids'), aggregator_idx - 1, InHand)
<1>1. PICK f : f = aggregator_ids
  OBVIOUS
<1>2. PICK n \in Nat : n = Len(f)
  BY <1>1, VectorIs
<1>3. PICK c : c = aggregator_idx
  OBVIOUS
<1>4. PICK h : h = InHand
  OBVIOUS
<1>5. PICK e : e = Load(Chosen.id)
  OBVIOUS
<1>6. PICK g : g = aggregator_ids'
  OBVIOUS
<1>7. pc = "send"
  BY DEF Reload
<1>8. e \in Loads /\ e \in AnyLoad
  <2>1. Chosen.id \in sub_aggregators
    BY <1>7, ChosenIs DEF LoadsOK
  <2>2. e \in Loads
    BY <1>5, <2>1, LoadIs DEF LoadsOK
  <2>3. QED
    BY <2>2, VectorIs
<1>9. /\ IsSeq(f) /\ \A i \in 1..n : f[i] \in AnyLoad /\ f[i] \in Loads
      /\ DOMAIN f = 1..n
  BY <1>1, <1>2, VectorIs DEF LoadsOK, VectorOK
<1>10. c \in 1..n
  BY <1>1, <1>2, <1>3, <1>7, <1>9 DEF LoadsOK, VectorOK
<1>11. Scanned(f, n, c - 1, h)
  BY <1>1, <1>2, <1>3, <1>4, <1>7 DEF ScanOK
<1>12. PICK p \in InsertionPlaces(e) : g = Place(e, p)
  BY <1>5, <1>6 DEF Reload
<1>13. p \in 0..n /\ (p > 0 => Before(f[p], e)) /\ (p < n => ~Before(f[p + 1], e))
  BY <1>1, <1>2 DEF InsertionPlaces
<1>14. IsSeq(g) /\ Len(g) = n /\ (\A i \in 1..n : g[i] \in Loads) /\ Scanned(g, n, c - 1, h)
  <2>1. CASE p <= c
    <3>1. g = [f EXCEPT ![c] = e]
      BY <1>1, <1>3, <1>12, <2>1 DEF Place
    <3>2. g = [i \in 1..n |-> g[i]] /\ \A i \in 1..n : g[i] = IF i = c THEN e ELSE f[i]
      <4>1. f = [i \in 1..n |-> f[i]]
        BY <1>2, <1>9, SeqIsSeq DEF IsSeq
      <4>2. QED
        BY <3>1, <4>1
    <3>3. IsSeq(g) /\ Len(g) = n
      BY <3>2, FunctionSeq
    <3>4. Scanned(g, n, c - 1, h)
      BY <1>8, <1>9, <1>10, <1>11, <1>13, <2>1, <3>2, ScanReplace
    <3>5. QED
      BY <1>8, <1>9, <3>2, <3>3, <3>4
  <2>2. CASE ~(p <= c)
    <3>1. g = InsertAt(RemoveAt(f, c), p, e)
      BY <1>1, <1>3, <1>12, <2>2 DEF Place
    <3>2. p \in 1..n /\ c < p
      BY <1>10, <1>13, <2>2
    <3>3. /\ IsSeq(g) /\ Len(g) = n
          /\ \A i \in 1..n : g[i] = IF i < c \/ i > p THEN f[i] ELSE IF i = p THEN e ELSE f[i + 1]
      BY <1>2, <1>9, <1>10, <3>1, <3>2, MovedIs
    <3>4. Before(f[p], e) /\ (p < n => ~Before(f[p + 1], e))
      BY <1>13, <3>2
    <3>5. Scanned(g, n, c - 1, h)
      <4>1. \A i \in 1..n : f[i] \in AnyLoad
        BY <1>9
      <4>2. \A i \in 1..n : g[i] = IF i < c \/ i > p THEN f[i] ELSE IF i = p THEN e ELSE f[i + 1]
        BY <3>3
      <4>3. e \in AnyLoad /\ p \in 1..n /\ c < p /\ c \in 1..n /\ n \in Nat
        BY <1>8, <1>10, <3>2
      <4>4. Before(f[p], e)
        BY <3>4
      <4>5. p < n => ~Before(f[p + 1], e)
        BY <3>4
      <4>6. QED
        BY <1>11, <4>1, <4>2, <4>3, <4>4, <4>5, ScanMove, SMTT(60)
    <3>6. ASSUME NEW i \in 1..n PROVE g[i] \in Loads
      <4>1. CASE i < c \/ i > p
        BY <1>9, <3>3, <4>1
      <4>2. CASE ~(i < c \/ i > p) /\ i = p
        BY <1>8, <3>3, <4>2
      <4>3. CASE ~(i < c \/ i > p) /\ i # p
        <5>1. i + 1 \in 1..n
          BY <1>13, <4>3
        <5>2. QED
          BY <1>9, <3>3, <4>3, <5>1
      <4>4. QED
        BY <4>1, <4>2, <4>3
    <3>7. QED
      BY <3>3, <3>5, <3>6
  <2>3. QED
    BY <2>1, <2>2
<1>15. ToSet(g) = {g[i] : i \in 1..n}
  BY <1>14, IsSeqRange
<1>16. QED
  BY <1>3, <1>4, <1>6, <1>14, <1>15

LEMMA ReloadLoads ==
  ASSUME SizedOK, LoadsOK, ScanOK, Reload
  PROVE  LoadsOK' /\ ScanOK'
<1>1. /\ pc = "send" /\ pc' = "distribute" /\ Sync({Chosen.id})
      /\ UNCHANGED <<internal_proofs, inserted, sub_aggregators, queue, total_chunk_size>>
  BY DEF Reload, own, calls
<1>2. CallsOK'
  BY <1>1 DEF LoadsOK, CallsOK
<1>3. PendingOK'
  BY <1>1, SyncPending DEF LoadsOK
<1>4. VectorOK'
  <2>1. Loads' = Loads
    BY <1>1 DEF Loads
  <2>2. QED
    BY <1>1, <2>1, ReloadVector DEF VectorOK
<1>5. EnoughOK'
  BY <1>1 DEF LoadsOK, EnoughOK
<1>6. InHand' = InHand
  <2>1. SizeOf(internal_proofs) \in Nat
    BY InHandNat
  <2>2. QED
    BY <1>1, <2>1 DEF InHand
<1>7. ScanOK'
  <2>1. Scanned(aggregator_ids', Len(aggregator_ids'), aggregator_idx - 1, InHand')
    BY <1>6, ReloadVector
  <2>2. QED
    BY <1>1, <2>1 DEF ScanOK
<1>8. QED
  BY <1>2, <1>3, <1>4, <1>5, <1>7 DEF LoadsOK

LEMMA StartScan ==
  ASSUME LoadsOK, LoadsOK', StartStep
  PROVE  ScanOK'
<1>1. aggregator_ids' \in Sortings({Load(s) : s \in sub_aggregators}, Before)
  BY Zenon DEF StartStep
<1>2. /\ IsSeq(aggregator_ids') /\ ToSet(aggregator_ids') = {Load(s) : s \in sub_aggregators}
      /\ \A i, j \in DOMAIN aggregator_ids' : i < j => Before(aggregator_ids'[i], aggregator_ids'[j])
  BY <1>1, LoadsFinite, VectorSorted DEF LoadsOK
<1>3. pc' = "distribute"
  BY Zenon DEF StartStep
<1>4. PICK f : f = aggregator_ids'
  OBVIOUS
<1>5. PICK n \in Nat : n = Len(f)
  BY <1>2, <1>4, IsSeqLength
<1>6. DOMAIN f = 1..n /\ (\A i \in 1..n : f[i] \in Loads') /\ Loads' \subseteq AnyLoad
  <2>1. DOMAIN f = 1..n /\ ToSet(f) = {f[i] : i \in 1..n}
    BY <1>2, <1>4, <1>5, IsSeqLength, IsSeqRange
  <2>2. ToSet(f) \subseteq Loads'
    BY <1>4 DEF LoadsOK, VectorOK
  <2>3. sub_aggregators' \subseteq Nat
    BY DEF LoadsOK, CallsOK
  <2>4. QED
    BY <2>1, <2>2, <2>3 DEF Loads, AnyLoad
<1>7. ASSUME NEW i \in 1..n, NEW j \in 1..n, i < j PROVE ~Before(f[j], f[i])
  <2>1. Before(f[i], f[j])
    BY <1>2, <1>4, <1>6, <1>7, Zenon
  <2>2. f[i] \in AnyLoad /\ f[j] \in AnyLoad
    BY <1>6, Zenon
  <2>3. QED
    BY <2>1, <2>2, BeforeOrder, Zenon
<1>8. PICK h : h = InHand'
  OBVIOUS
<1>9. Scanned(f, n, 0, h)
  <2>1. 0 \in 0..n /\ (\A i \in 1..0 : FALSE) /\ \A i \in 1..n : ~(i <= 0)
    OBVIOUS
  <2>2. \A i, j \in 1..n : i < j => ~Before(f[j], f[i])
    BY <1>7
  <2>3. QED
    BY <2>1, <2>2, Zenon DEF Scanned
<1>10. Scanned(aggregator_ids', Len(aggregator_ids'), 0, InHand')
  BY <1>4, <1>5, <1>8, <1>9, Zenon
<1>11. pc' \notin {"send", "split"}
  BY <1>3
<1>12. QED
  BY <1>10, <1>11, Zenon DEF ScanOK

LEMMA FindScan ==
  ASSUME SizedOK, LoadsOK, ScanOK, FindAggregator
  PROVE  ScanOK'
<1>1. /\ pc = "distribute" /\ Candidates # {} /\ aggregator_idx' = Min(Candidates) /\ pc' = "send"
      /\ UNCHANGED <<internal_proofs, aggregator_ids>>
  BY DEF FindAggregator, own
<1>2. PICK n \in Nat : n = Len(aggregator_ids)
  BY VectorIs
<1>3. DOMAIN aggregator_ids = 1..n /\ \A i \in 1..n : aggregator_ids[i] \in AnyLoad
  BY <1>2, VectorIs
<1>4. Candidates = {i \in 1..n : CanWith(InHand, aggregator_ids[i])}
  BY <1>1, <1>3, CanSaturateIs DEF Candidates
<1>5. PICK c : c = Min(Candidates)
  OBVIOUS
<1>6. c \in Candidates /\ \A i \in Candidates : c <= i
  <2>1. Candidates \subseteq Nat
    BY <1>4
  <2>2. QED
    BY <1>1, <1>5, <2>1, MinIs
<1>7. c \in 1..n /\ CanWith(InHand, aggregator_ids[c])
  BY <1>4, <1>6
<1>8. ASSUME NEW i \in 1..n, i < c PROVE ~CanWith(InHand, aggregator_ids[i])
  BY <1>4, <1>6, <1>7, <1>8
<1>9. PICK m : Scanned(aggregator_ids, n, m, InHand)
  BY <1>1, <1>2 DEF ScanOK
<1>10. Scanned(aggregator_ids, n, c - 1, InHand)
  BY <1>7, <1>8, <1>9, ScanOn
<1>11. InHand' = InHand
  BY <1>1 DEF InHand
<1>12. QED
  BY <1>1, <1>2, <1>5, <1>10, <1>11 DEF ScanOK

\* While proofs are handed out, those in hand never become more.
LEMMA GoOnScan ==
  ASSUME SizedOK, LoadsOK, ScanOK, pc \in {"send", "split"}, pc' \in {"send", "split"},
         InHand' \in Nat, InHand' <= InHand, UNCHANGED <<aggregator_ids, aggregator_idx>>
  PROVE  ScanOK'
<1>1. Scanned(aggregator_ids, Len(aggregator_ids), aggregator_idx - 1, InHand)
  BY DEF ScanOK
<1>2. InHand \in Nat
  BY InHandNat
<1>3. Scanned(aggregator_ids, Len(aggregator_ids), aggregator_idx - 1, InHand')
  BY <1>1, <1>2, VectorIs, ScanFewer
<1>4. QED
  BY <1>3 DEF ScanOK

LEMMA LeastLoaded ==
  ASSUME SizedOK, LoadsOK, ScanOK
  PROVE  LeastLoadedChosen
<1>1. SUFFICES ASSUME pc = "distribute", Candidates # {}, NEW i \in Candidates
               PROVE  ~Before(aggregator_ids[i], aggregator_ids[Min(Candidates)])
  BY DEF LeastLoadedChosen
<1>2. PICK n \in Nat : n = Len(aggregator_ids)
  BY VectorIs
<1>3. DOMAIN aggregator_ids = 1..n /\ \A j \in 1..n : aggregator_ids[j] \in AnyLoad
  BY <1>2, VectorIs
<1>4. Candidates = {j \in 1..n : CanWith(InHand, aggregator_ids[j])}
  BY <1>1, <1>3, CanSaturateIs DEF Candidates
<1>5. PICK c : c = Min(Candidates)
  OBVIOUS
<1>6. c \in Candidates /\ c <= i
  <2>1. Candidates \subseteq Nat
    BY <1>4
  <2>2. QED
    BY <1>1, <1>5, <2>1, MinIs
<1>7. PICK m : Scanned(aggregator_ids, n, m, InHand)
  BY <1>1, <1>2 DEF ScanOK
<1>8. c \in 1..n /\ i \in 1..n /\ CanWith(InHand, aggregator_ids[c])
  BY <1>1, <1>4, <1>6
<1>9. m < c
  BY <1>7, <1>8 DEF Scanned
<1>10. CASE i = c
  BY <1>3, <1>5, <1>8, <1>10, BeforeOrder
<1>11. CASE i # c
  <2>1. c < i
    BY <1>6, <1>8, <1>11
  <2>2. ~Before(aggregator_ids[i], aggregator_ids[c])
    BY <1>7, <1>8, <1>9, <2>1 DEF Scanned
  <2>3. QED
    BY <1>5, <2>2
<1>12. QED
  BY <1>10, <1>11

-----------------------------------------------------------------------------
(* The inductive invariant. *)

IInv == (\E K : Placed(K) /\ Kept(K)) /\ LoadsOK /\ ScanOK /\ dropped \subseteq DOMAIN asked

LEMMA AwayStays ==
  ASSUME NEW K, AwayOK(K), UNCHANGED <<queue, finished, results>>
  PROVE  AwayOK(K)' /\ \A s \in Subs : AwayAt(s)' = AwayAt(s)
BY DEF AwayOK, AwayAtOK, AwayAt, BatchAt, AnswerAt

\* Nothing is anywhere at first.
LEMMA InitPlaced == Init => \E K : Placed(K) /\ Kept(K)
<1> SUFFICES ASSUME Init PROVE \E K : Placed(K) /\ Kept(K)
  OBVIOUS
<1>1. PICK K : K = [q \in Pairs |-> [batch |-> 0, from |-> 0, size |-> 0]]
  OBVIOUS
<1>2. PICK none : none = <<>>
  OBVIOUS
<1>3. Listed(none) /\ Ids(none) = {} /\ ToSet(none) = {} /\ DOMAIN none = {}
  BY <1>2, EmptyIds DEF Listed
<1>4. /\ asked = none /\ given = none /\ internal_proofs = none /\ recursive_proofs = none
      /\ sub_recursive_proofs = none /\ proof_parents = none /\ proof_children = none
      /\ proof_aliases = none /\ proof_descendants = none
      /\ free_batch_id = 1 /\ pc = "idle"
      /\ queue = [s \in Subs |-> none] /\ finished = [s \in Subs |-> none]
      /\ results = [s \in Subs |-> none] /\ free_sub_batch_id = [s \in Subs |-> 1]
  BY <1>2 DEF Init
<1>5. Known = {}
  <2>1. ASSUME NEW q \in Pairs, q[1] \in {Self} \cup Subs PROVE 1..(NextId(q[1]) - 1) = {}
    <3>1. NextId(q[1]) = 1
      BY <1>4, <2>1 DEF NextId
    <3>2. QED
      BY <3>1
  <2>2. QED
    BY <2>1 DEF Known
<1>6. Waiting = {} /\ Received = {} /\ Above = {} /\ PieceSet = {} /\ Pieces = {}
  BY <1>3, <1>4 DEF Waiting, Received, Above, PieceSet, Pieces
<1>7. \A s \in Subs : queue[s] = none /\ finished[s] = none /\ results[s] = none /\ AwayAt(s) = {}
  BY <1>3, <1>4 DEF AwayAt
<1>8. Away = {}
  BY <1>7 DEF Away
<1>9. Live = {} /\ Tops = {}
  BY <1>6, <1>8 DEF Live, Tops
<1>10. AskedOK
  BY <1>3, <1>4 DEF AskedOK
<1>11. KnownOK(K)
  <2>1. K \in [Pairs -> Blocks]
    BY <1>1 DEF Blocks
  <2>2. QED
    BY <1>3, <1>4, <1>5, <1>6, <1>9, <2>1 DEF KnownOK
<1>12. WaitingOK(K)
  BY <1>3, <1>4, <1>6 DEF WaitingOK
<1>13. AwayOK(K)
  BY <1>3, <1>4, <1>7 DEF AwayOK, AwayAtOK
<1>14. ReceivedOK(K)
  BY <1>3, <1>4, <1>6, <1>8, FS_EmptySet DEF ReceivedOK
<1>15. TreeOK(K)
  BY <1>3, <1>4, <1>6 DEF TreeOK
<1>16. ApartOK /\ TopsOK(K)
  BY <1>6, <1>8, <1>9 DEF ApartOK, TopsOK
<1>17. AnswersOK
  BY <1>3, <1>4 DEF AnswersOK
<1>18. Kept(K)
  <2>1. Held = {} /\ Open = {}
    BY <1>3, <1>4, <1>6, <1>8 DEF Held, Open
  <2>2. QED
    BY <2>1 DEF Kept, Tiles
<1>19. QED
  BY <1>10, <1>11, <1>12, <1>13, <1>14, <1>15, <1>16, <1>17, <1>18 DEF Placed

LEMMA InitHolds == Init => IInv
<1> SUFFICES ASSUME Init PROVE IInv
  OBVIOUS
<1>1. pc = "idle" /\ inserted = 0 /\ sub_aggregators = {} /\ aggregator_ids = <<>> /\ total_chunk_size = 0
  BY DEF Init
<1>2. CallsOK
  <2>1. Len(Throughputs) \in Nat
    BY RecursiveAssumption, LenProperties
  <2>2. QED
    BY <1>1, <2>1 DEF CallsOK
<1>3. PendingOK
  <2>1. PICK none : none = <<>>
    OBVIOUS
  <2>2. pending = [s \in Subs |-> 0] /\ queue = [s \in Subs |-> none]
    BY <2>1 DEF Init
  <2>3. SizeOf(none) = 0
    BY <2>1, SizeEmpty
  <2>4. \A s \in Subs : queue[s] = none /\ pending[s] = 0
    BY <2>2
  <2>5. QED
    BY <2>2, <2>3, <2>4 DEF PendingOK
<1>4. VectorOK
  BY <1>1, EmptyIds DEF VectorOK
<1>5. EnoughOK
  BY <1>1 DEF EnoughOK
<1>6. ScanOK
  BY <1>1 DEF ScanOK
<1>7. dropped \subseteq DOMAIN asked
  BY DEF Init
<1>8. QED
  BY <1>2, <1>3, <1>4, <1>5, <1>6, <1>7, InitPlaced DEF IInv, LoadsOK

\* What a removed sub-aggregator had was part of batches that were pushed.
LEMMA RemoveDrops ==
  ASSUME NEW K, Placed(K), NEW s \in Subs, RemoveSubAggregator(s), dropped \subseteq DOMAIN asked
  PROVE  dropped' \subseteq DOMAIN asked
<1>1. AwayAtOK(K, s)
  BY DEF Placed, AwayOK
<1>2. s \in Nat
  BY SubsAre
<1>3. ASSUME NEW i \in Nat, i \in AwayAt(s) PROVE K[Qualified(s, i)].batch \in DOMAIN asked
  <2>1. Qualified(s, i) \in Away
    BY <1>2, <1>3, QualifiedIs DEF Away
  <2>2. Qualified(s, i) \in Known
    BY <2>1 DEF Placed, KnownOK, Live
  <2>3. QED
    BY <2>2 DEF Placed, KnownOK
<1>4. ASSUME NEW b \in ToSet(queue[s]), NEW p \in ToSet(b.proofs)
      PROVE  BatchesIn(p) \subseteq DOMAIN asked
  <2>1. BatchAt(K, s, b)
    BY <1>1 DEF AwayAtOK
  <2>2. b.id \in AwayAt(s) /\ b.id \in Nat
    BY <2>1, IdsOf DEF AwayAt, BatchAt
  <2>3. BatchesIn(p) \subseteq {K[Qualified(s, b.id)].batch}
    BY <2>1, StandsBatch DEF BatchAt
  <2>4. QED
    BY <1>3, <2>2, <2>3
<1>5. ASSUME NEW r \in ToSet(finished[s]) \cup ToSet(results[s])
      PROVE  BatchesIn(r.node) \subseteq DOMAIN asked
  <2>1. AnswerAt(K, s, r)
    BY <1>1 DEF AwayAtOK
  <2>2. r.id \in AwayAt(s) /\ r.id \in Nat
    BY <2>1, IdsOf DEF AwayAt, AnswerAt
  <2>3. PICK one : one = <<r.node>>
    OBVIOUS
  <2>4. r.node \in ToSet(one)
    <3>1. one[1] = r.node /\ 1 \in DOMAIN one
      BY <2>3
    <3>2. QED
      BY <3>1 DEF ToSet
  <2>5. Stands(K[Qualified(s, r.id)], one)
    BY <2>1, <2>3 DEF AnswerAt
  <2>6. BatchesIn(r.node) \subseteq {K[Qualified(s, r.id)].batch}
    BY <2>4, <2>5, StandsBatch
  <2>7. QED
    BY <1>3, <2>2, <2>6
<1>6. BatchesOf(queue[s]) \subseteq DOMAIN asked
  BY <1>4 DEF BatchesOf
<1>7. ToSet(finished[s] \o results[s]) = ToSet(finished[s]) \cup ToSet(results[s])
  BY <1>1, ConcatToSet DEF AwayAtOK, Listed
<1>8. UNION {BatchesIn(r.node) : r \in ToSet(finished[s] \o results[s])} \subseteq DOMAIN asked
  BY <1>5, <1>7
<1>9. dropped' = dropped \cup BatchesOf(queue[s])
                   \cup UNION {BatchesIn(r.node) : r \in ToSet(finished[s] \o results[s])}
  BY DEF RemoveSubAggregator
<1>10. QED
  BY <1>6, <1>8, <1>9

\* What it had is all that is lost.
LEMMA RemoveKept ==
  ASSUME NEW K, Placed(K), NEW s \in Subs, RemoveSubAggregator(s)
  PROVE  Kept(K) => Kept(K)'
<1> SUFFICES ASSUME Kept(K) PROVE Kept(K)'
  OBVIOUS
<1>1. PICK none : none = <<>>
  OBVIOUS
<1>2. /\ queue' = [t \in Subs |-> IF t = s THEN none ELSE queue[t]]
      /\ finished' = [t \in Subs |-> IF t = s THEN none ELSE finished[t]]
      /\ results' = [t \in Subs |-> IF t = s THEN none ELSE results[t]]
      /\ UNCHANGED <<asked, given, internal_proofs, recursive_proofs, proof_descendants>>
      /\ pc = "idle" /\ pc' = "idle"
      /\ dropped' = dropped \cup BatchesOf(queue[s])
                        \cup UNION {BatchesIn(r.node) : r \in ToSet(finished[s] \o results[s])}
  BY <1>1 DEF RemoveSubAggregator, Placed, AwayOK, caller, done
<1>3. AwayAt(s)' = {} /\ \A t \in Subs : t # s => AwayAt(t)' = AwayAt(t)
  BY <1>1, <1>2, EmptyIds DEF AwayAt
<1>4. AwayAtOK(K, s) /\ KnownOK(K) /\ s \in Nat
  BY SubsAre DEF Placed, AwayOK
<1>5. Waiting' = Waiting /\ Received' = Received /\ Away' = {q \in Away : q[1] # s}
  <2>1. Waiting' = Waiting /\ Received' = Received
    BY <1>2 DEF Waiting, Received, Pieces
  <2>2. \A q : q \in Away' <=> q \in Away /\ q[1] # s
    BY <1>3 DEF Away
  <2>3. QED
    BY <2>1, <2>2
<1>6. Held' \subseteq Held /\ \A q \in Held \ Held' : q \in Away /\ q[1] = s
  BY <1>5 DEF Held
<1>7. ASSUME NEW b \in ToSet(queue[s]) PROVE K[Qualified(s, b.id)].batch \in dropped'
  <2>1. BatchAt(K, s, b)
    BY <1>4 DEF AwayAtOK
  <2>2. K[Qualified(s, b.id)] \in Blocks
    BY <1>4, <2>1, QualifiedIs DEF BatchAt, KnownOK
  <2>3. PICK p \in ToSet(b.proofs) : K[Qualified(s, b.id)].batch \in BatchesIn(p)
    BY <2>1, <2>2, StandsTouches DEF BatchAt
  <2>4. K[Qualified(s, b.id)].batch \in BatchesOf(queue[s])
    BY <2>3 DEF BatchesOf
  <2>5. QED
    BY <1>2, <2>4
<1>8. ASSUME NEW r \in ToSet(finished[s]) \cup ToSet(results[s])
      PROVE  K[Qualified(s, r.id)].batch \in dropped'
  <2>1. AnswerAt(K, s, r)
    BY <1>4 DEF AwayAtOK
  <2>2. K[Qualified(s, r.id)] \in Blocks
    BY <1>4, <2>1, QualifiedIs DEF AnswerAt, KnownOK
  <2>3. PICK one : one = <<r.node>>
    OBVIOUS
  <2>4. PICK p \in ToSet(one) : K[Qualified(s, r.id)].batch \in BatchesIn(p)
    BY <2>1, <2>2, <2>3, StandsTouches DEF AnswerAt
  <2>5. p = r.node
    BY <2>3, <2>4 DEF ToSet
  <2>6. r \in ToSet(finished[s] \o results[s])
    BY <1>4, ConcatToSet DEF AwayAtOK, Listed
  <2>7. QED
    BY <1>2, <2>4, <2>5, <2>6
<1>9. ASSUME NEW q \in Held \ Held' PROVE K[q].batch \in dropped'
  <2>1. q \in Pairs /\ q[1] = s /\ q[2] \in AwayAt(s)
    BY <1>6, <1>9 DEF Away
  <2>2. q = Qualified(s, q[2])
    BY <2>1, QualifiedIs
  <2>3. CASE q[2] \in Ids(queue[s])
    <3>1. PICK b \in ToSet(queue[s]) : b.id = q[2]
      BY <2>3, IdsOf
    <3>2. QED
      BY <1>7, <2>2, <3>1
  <2>4. CASE q[2] \in Ids(finished[s]) \cup Ids(results[s])
    <3>1. PICK r \in ToSet(finished[s]) \cup ToSet(results[s]) : r.id = q[2]
      BY <2>4, IdsOf
    <3>2. QED
      BY <1>8, <2>2, <3>1
  <2>5. QED
    BY <2>1, <2>3, <2>4 DEF AwayAt
<1>10. Tiles(K, Held, asked, Open, dropped)
  BY DEF Kept
<1>11. dropped \subseteq dropped'
  BY <1>2
<1>12. Tiles(K, Held', asked, Open, dropped')
  BY <1>6, <1>9, <1>10, <1>11, TilesLost
<1>13. Open' = Open
  BY <1>2 DEF Open
<1>14. QED
  BY <1>2, <1>12, <1>13 DEF Kept

-----------------------------------------------------------------------------
(* Every step keeps the invariant, and keeps the contract. *)

\* A step that moves nothing but batches and answers of sub-aggregators.
LEMMA QuietPlaced ==
  ASSUME NEW K, Placed(K), AwayOK(K)', \A s \in Subs : AwayAt(s)' \subseteq AwayAt(s), UNCHANGED Ours,
         (pc = "split" /\ pc' = "split" /\ piece' = piece) \/ (pc # "split" /\ pc' # "split")
  PROVE  Placed(K)'
<1>1. PieceSet' = PieceSet /\ Pieces' = Pieces
  BY DEF PieceSet, Pieces
<1>2. QED
  BY <1>1, AwayMoves

LEMMA QuietKept ==
  ASSUME NEW K, \A s \in Subs : AwayAt(s)' = AwayAt(s), UNCHANGED Ours, UNCHANGED dropped,
         (pc = "split" /\ pc' = "split" /\ piece' = piece) \/ (pc # "split" /\ pc' # "split")
  PROVE  Kept(K) => Kept(K)'
<1>1. Pieces' = Pieces
  BY DEF Pieces
<1>2. QED
  BY <1>1, AwayMovesKept

LEMMA QuietContract ==
  ASSUME UNCHANGED caller
  PROVE  [Contract!Next]_<<asked, given>>
BY DEF caller

LEMMA PushHolds ==
  ASSUME IInv, NEW n \in Sizes, Push(n)
  PROVE  IInv' /\ [Contract!Next]_<<asked, given>>
<1>1. PICK K : Placed(K) /\ Kept(K)
  BY DEF IInv
<1>2. PICK q : q = Qualified(Self, free_batch_id)
  OBVIOUS
<1>3. q \in Pairs /\ q \notin Known
  <2>1. free_batch_id \in Nat
    BY <1>1 DEF Placed, AskedOK
  <2>2. q \in Pairs /\ q[1] = Self /\ q[2] = free_batch_id
    BY <1>2, <2>1, QualifiedIs, SubsAre
  <2>3. NextId(q[1]) = free_batch_id
    BY <2>2 DEF NextId
  <2>4. q[2] \notin 1..(NextId(q[1]) - 1)
    BY <2>1, <2>2, <2>3
  <2>5. QED
    BY <2>2, <2>4 DEF Known
<1>4. PushedBlock(n) \in Blocks
  <2>1. free_batch_id \in Nat /\ n \in Nat
    BY <1>1, BatchesAssumption DEF Placed, AskedOK
  <2>2. QED
    BY <2>1 DEF PushedBlock, Blocks
<1>5. PICK L : Placed(L) /\ Kept(L) /\ L[q] = PushedBlock(n)
  BY <1>1, <1>3, <1>4, Extend
<1>6. Placed(L)' /\ Kept(L)' /\ Contract!Push(n)
  BY <1>2, <1>5, PushPlaced
<1>7. /\ pc = "idle" /\ pc' = pc
      /\ UNCHANGED <<inserted, sub_aggregators, queue, pending, aggregator_ids, total_chunk_size, dropped>>
      /\ asked' = With(asked, free_batch_id, Leaves(free_batch_id, n))
  BY DEF Push, calls, subVars, distribution
<1>8. LoadsOK'
  BY <1>7, CallerLoads DEF IInv
<1>9. ScanOK'
  BY <1>7 DEF ScanOK
<1>10. dropped' \subseteq DOMAIN asked'
  BY <1>7 DEF With, IInv
<1>11. QED
  BY <1>6, <1>8, <1>9, <1>10 DEF IInv, Contract!Next

LEMMA PopHolds ==
  ASSUME IInv, Pop
  PROVE  IInv' /\ [Contract!Next]_<<asked, given>>
<1>1. PICK K : Placed(K) /\ Kept(K)
  BY DEF IInv
<1>2. Placed(K)' /\ Kept(K)' /\ \E id \in DOMAIN asked : Contract!Pop(id)
  BY <1>1, PopPlaced
<1>3. /\ pc = "idle" /\ pc' = pc
      /\ UNCHANGED <<inserted, sub_aggregators, queue, pending, aggregator_ids, total_chunk_size,
                     dropped, asked>>
  BY DEF Pop, calls, subVars, distribution
<1>4. LoadsOK'
  BY <1>3, CallerLoads DEF IInv
<1>5. ScanOK'
  BY <1>3 DEF ScanOK
<1>6. dropped' \subseteq DOMAIN asked'
  BY <1>3 DEF IInv
<1>7. QED
  BY <1>2, <1>4, <1>5, <1>6 DEF IInv, Contract!Next

LEMMA CallsHold ==
  ASSUME IInv, InsertSubAggregator \/ SyncAll \/ \E s \in Subs : RemoveSubAggregator(s)
  PROVE  IInv' /\ UNCHANGED caller
<1>1. PICK K : Placed(K) /\ Kept(K)
  BY DEF IInv
<1>2. SizedOK
  BY <1>1, PlacedSized
<1>3. AwayOK(K)
  BY <1>1 DEF Placed
<1>4. CASE InsertSubAggregator
  <2>1. /\ pc = "idle" /\ pc' = pc /\ UNCHANGED <<Ours, queue, finished, results, caller, dropped, asked>>
    BY <1>4 DEF InsertSubAggregator, Ours, subVars, caller
  <2>2. Placed(K)' /\ Kept(K)'
    <3>1. AwayOK(K)' /\ \A s \in Subs : AwayAt(s)' = AwayAt(s)
      BY <1>3, <2>1, AwayStays
    <3>2. QED
      BY <1>1, <2>1, <3>1, QuietPlaced, QuietKept
  <2>3. LoadsOK'
    BY <1>4, InsertLoads DEF IInv
  <2>4. QED
    BY <2>1, <2>2, <2>3 DEF IInv, ScanOK
<1>5. CASE SyncAll
  <2>1. /\ pc = "idle" /\ pc' = pc /\ UNCHANGED <<Ours, caller, dropped, asked>>
        /\ Sync(sub_aggregators) /\ UNCHANGED queue
    BY <1>5 DEF SyncAll, own, Ours, caller, calls
  <2>2. Placed(K)' /\ Kept(K)'
    <3>1. AwayOK(K)' /\ \A s \in Subs : AwayAt(s)' = AwayAt(s)
      BY <1>3, <2>1, SyncOK
    <3>2. QED
      BY <1>1, <2>1, <3>1, QuietPlaced, QuietKept
  <2>3. LoadsOK'
    BY <1>2, <1>5, SyncAllLoads DEF IInv
  <2>4. QED
    BY <2>1, <2>2, <2>3 DEF IInv, ScanOK
<1>6. ASSUME NEW s \in Subs, RemoveSubAggregator(s) PROVE IInv' /\ UNCHANGED caller
  <2>1. pc = "idle" /\ pc' = pc /\ UNCHANGED <<Ours, caller, asked>>
    BY <1>6 DEF RemoveSubAggregator, Ours, caller
  <2>2. AwayOK(K)' /\ \A t \in Subs : AwayAt(t)' \subseteq AwayAt(t)
    BY <1>3, <1>6, RemoveOK
  <2>3. Placed(K)' /\ Kept(K)'
    <3>1. Placed(K)'
      BY <1>1, <2>1, <2>2, QuietPlaced
    <3>2. Kept(K)'
      BY <1>1, <1>6, RemoveKept
    <3>3. QED
      BY <3>1, <3>2
  <2>4. LoadsOK'
    BY <1>3, <1>6, RemoveLoads DEF IInv
  <2>5. dropped' \subseteq DOMAIN asked
    BY <1>1, <1>6, RemoveDrops DEF IInv
  <2>6. QED
    BY <2>1, <2>3, <2>4, <2>5 DEF IInv, ScanOK
<1>7. QED
  BY <1>4, <1>5, <1>6

LEMMA WorkHolds ==
  ASSUME IInv, NEW t \in Subs, Work(t)
  PROVE  IInv' /\ UNCHANGED caller
<1>1. PICK K : Placed(K) /\ Kept(K)
  BY DEF IInv
<1>2. SizedOK /\ AwayOK(K) /\ K \in [Pairs -> Blocks]
  BY <1>1, PlacedSized DEF Placed, KnownOK
<1>3. UNCHANGED <<Ours, caller, dropped, asked, pc, piece, aggregator_ids, aggregator_idx, internal_proofs>>
  BY DEF Work, own, Ours, caller, calls, distribution
<1>4. AwayOK(K)' /\ \A s \in Subs : AwayAt(s)' = AwayAt(s)
  BY <1>2, WorkOK
<1>5. Placed(K)' /\ Kept(K)'
  BY <1>1, <1>3, <1>4, QuietPlaced, QuietKept
<1>6. LoadsOK'
  BY <1>2, WorkLoads DEF IInv
<1>7. ScanOK'
  BY <1>3 DEF IInv, ScanOK, InHand
<1>8. QED
  BY <1>3, <1>5, <1>6, <1>7 DEF IInv

LEMMA DistributeHolds ==
  ASSUME IInv, Distribute
  PROVE  IInv' /\ UNCHANGED caller
<1>1. PICK K : Placed(K) /\ Kept(K)
  BY DEF IInv
<1>2. SizedOK /\ AwayOK(K) /\ LoadsOK /\ ScanOK
  BY <1>1, PlacedSized DEF Placed, IInv
<1>3. UNCHANGED <<caller, asked, dropped>>
  BY Zenon DEF Distribute, StartStep, FindAggregator, TakeBatch, Split, Send, Reload, StopDistributing,
               own, caller, calls
<1>4. dropped' \subseteq DOMAIN asked'
  BY <1>3 DEF IInv
<1>5. CASE StartStep
  <2>1. /\ pc = "idle" /\ pc' = "distribute" /\ UNCHANGED <<Ours, queue>>
        /\ Sync(sub_aggregators)
    BY <1>5, Zenon DEF StartStep, own, Ours
  <2>2. Placed(K)' /\ Kept(K)'
    <3>1. AwayOK(K)' /\ \A s \in Subs : AwayAt(s)' = AwayAt(s)
      BY <1>2, <2>1, SyncOK
    <3>2. QED
      BY <1>1, <1>3, <2>1, <3>1, QuietPlaced, QuietKept
  <2>3. LoadsOK'
    BY <1>2, <1>5, StartLoads
  <2>4. ScanOK'
    BY <1>2, <1>5, <2>3, StartScan
  <2>5. QED
    BY <1>3, <1>4, <2>2, <2>3, <2>4 DEF IInv
<1>6. CASE FindAggregator
  <2>1. pc = "distribute" /\ pc' = "send" /\ UNCHANGED <<Ours, queue, finished, results>>
    BY <1>6 DEF FindAggregator, own, Ours, subVars
  <2>2. Placed(K)' /\ Kept(K)'
    <3>1. AwayOK(K)' /\ \A s \in Subs : AwayAt(s)' = AwayAt(s)
      BY <1>2, <2>1, AwayStays
    <3>2. QED
      BY <1>1, <1>3, <2>1, <3>1, QuietPlaced, QuietKept
  <2>3. LoadsOK' /\ ScanOK'
    BY <1>2, <1>6, FindLoads, FindScan
  <2>4. QED
    BY <1>3, <1>4, <2>2, <2>3 DEF IInv
<1>7. CASE TakeBatch
  <2>1. Placed(K)' /\ Kept(K)'
    <3>1. internal_proofs # <<>>
      BY <1>2, <1>7, SomethingLeft DEF TakeBatch
    <3>2. QED
      BY <1>1, <1>7, <3>1, TakeBatchPlaced
  <2>2. LoadsOK' /\ InHand' = InHand
    BY <1>2, <1>7, TakeLoads
  <2>3. InHand \in Nat /\ InHand' <= InHand
    BY <1>2, <2>2, InHandNat
  <2>4. pc = "send" /\ pc' = "split" /\ UNCHANGED <<aggregator_ids, aggregator_idx>>
    BY <1>7 DEF TakeBatch
  <2>5. ScanOK'
    BY <1>2, <2>2, <2>3, <2>4, GoOnScan
  <2>6. QED
    BY <1>3, <1>4, <2>1, <2>2, <2>5 DEF IInv
<1>8. CASE Split
  <2>1. pc = "split" /\ pc' = "split" /\ UNCHANGED <<aggregator_ids, aggregator_idx>>
    BY <1>8 DEF Split
  <2>2. \E L : Placed(L)' /\ Kept(L)'
    BY <1>1, <1>2, <1>8, <2>1, ChosenIs, SplitOK DEF LoadsOK
  <2>3. LoadsOK' /\ InHand' = InHand
    BY <1>1, <1>2, <1>8, SplitLoads
  <2>4. InHand \in Nat /\ InHand' <= InHand
    BY <1>2, <2>3, InHandNat
  <2>5. ScanOK'
    BY <1>2, <2>1, <2>3, <2>4, GoOnScan
  <2>6. QED
    BY <1>3, <1>4, <2>2, <2>3, <2>5 DEF IInv
<1>9. CASE Send
  <2>1. pc = "split" /\ pc' = "send" /\ UNCHANGED <<aggregator_ids, aggregator_idx>>
    BY <1>9 DEF Send
  <2>2. \E L : Placed(L)' /\ Kept(L)'
    BY <1>1, <1>2, <1>9, <2>1, ChosenIs, SendOK DEF LoadsOK
  <2>3. LoadsOK' /\ InHand' <= InHand
    BY <1>2, <1>9, SendLoads
  <2>4. InHand' \in Nat
    <3>1. InHand' = SizeOf(internal_proofs)
      <4>1. internal_proofs' = internal_proofs
        BY <1>9 DEF Send
      <4>2. SizeOf(internal_proofs) \in Nat
        BY <1>2, InHandNat
      <4>3. QED
        BY <2>1, <4>1, <4>2 DEF InHand
    <3>2. QED
      BY <1>2, <3>1, InHandNat
  <2>5. ScanOK'
    BY <1>2, <2>1, <2>3, <2>4, GoOnScan
  <2>6. QED
    BY <1>3, <1>4, <2>2, <2>3, <2>5 DEF IInv
<1>10. CASE Reload
  <2>1. pc = "send" /\ pc' = "distribute" /\ UNCHANGED <<Ours, queue>> /\ Sync({Chosen.id})
    BY <1>10 DEF Reload, own, Ours
  <2>2. Placed(K)' /\ Kept(K)'
    <3>1. AwayOK(K)' /\ \A s \in Subs : AwayAt(s)' = AwayAt(s)
      BY <1>2, <2>1, SyncOK
    <3>2. QED
      BY <1>1, <1>3, <2>1, <3>1, QuietPlaced, QuietKept
  <2>3. LoadsOK' /\ ScanOK'
    BY <1>2, <1>10, ReloadLoads
  <2>4. QED
    BY <1>3, <1>4, <2>2, <2>3 DEF IInv
<1>11. CASE StopDistributing
  <2>1. pc = "distribute" /\ pc' = "prove" /\ UNCHANGED <<Ours, queue, finished, results>>
    BY <1>11 DEF StopDistributing, own, Ours, subVars
  <2>2. Placed(K)' /\ Kept(K)'
    <3>1. AwayOK(K)' /\ \A s \in Subs : AwayAt(s)' = AwayAt(s)
      BY <1>2, <2>1, AwayStays
    <3>2. QED
      BY <1>1, <1>3, <2>1, <3>1, QuietPlaced, QuietKept
  <2>3. LoadsOK'
    BY <1>2, <1>11, StopLoads
  <2>4. QED
    BY <1>3, <1>4, <2>1, <2>2, <2>3 DEF IInv, ScanOK
<1>12. QED
  BY <1>5, <1>6, <1>7, <1>8, <1>9, <1>10, <1>11, Zenon DEF Distribute

LEMMA ProveHolds ==
  ASSUME IInv, Prove \/ Consolidate
  PROVE  IInv' /\ UNCHANGED caller
<1>1. PICK K : Placed(K) /\ Kept(K)
  BY DEF IInv
<1>2. SizedOK /\ AwayOK(K) /\ LoadsOK
  BY <1>1, PlacedSized DEF Placed, IInv
<1>3. /\ pc' \in {"prove", "pop", "combine", "idle"} /\ pc # "split"
      /\ UNCHANGED <<caller, asked, dropped>>
  BY Zenon DEF Prove, VisitSubAggregator, PopSubProof, LeaveSubAggregator, CombineSubtrees, StopCombining,
         Consolidate, own, caller, calls
<1>4. ScanOK' /\ dropped' \subseteq DOMAIN asked'
  BY <1>3 DEF IInv, ScanOK
<1>5. ASSUME NEW s \in Subs, VisitSubAggregator(s) PROVE Placed(K)' /\ Kept(K)' /\ LoadsOK'
  <2>1. Sync({s}) /\ UNCHANGED <<Ours, queue>>
    BY <1>5 DEF VisitSubAggregator, own, Ours
  <2>2. Placed(K)' /\ Kept(K)'
    <3>1. AwayOK(K)' /\ \A t \in Subs : AwayAt(t)' = AwayAt(t)
      BY <1>2, <2>1, SyncOK
    <3>2. pc # "split" /\ pc' # "split"
      BY <1>3
    <3>3. QED
      BY <1>1, <1>3, <2>1, <3>1, <3>2, QuietPlaced, QuietKept
  <2>3. LoadsOK'
    BY <1>2, <1>5, VisitLoads
  <2>4. QED
    BY <2>2, <2>3
<1>6. PopSubProof \/ LeaveSubAggregator \/ CombineSubtrees \/ StopCombining \/ Consolidate => LoadsOK'
  BY <1>2, ProveLoads
<1>7. ASSUME PopSubProof PROVE Placed(K)' /\ Kept(K)' /\ LoadsOK'
  <2>1. aggregator_id \in Subs
    BY <1>2, <1>7, SubsInserted DEF PopSubProof, LoadsOK, CallsOK
  <2>2. QED
    BY <1>1, <1>6, <1>7, <2>1, PopSubProofPlaced, Zenon
<1>8. ASSUME LeaveSubAggregator \/ StopCombining PROVE Placed(K)' /\ Kept(K)' /\ LoadsOK'
  <2>1. UNCHANGED <<Ours, queue, finished, results>>
    BY <1>8 DEF LeaveSubAggregator, StopCombining, own, subVars, Ours
  <2>2. Placed(K)' /\ Kept(K)'
    <3>1. AwayOK(K)' /\ \A s \in Subs : AwayAt(s)' = AwayAt(s)
      BY <1>2, <2>1, AwayStays
    <3>2. pc # "split" /\ pc' # "split"
      BY <1>3
    <3>3. QED
      BY <1>1, <1>3, <2>1, <3>1, <3>2, QuietPlaced, QuietKept
  <2>3. LoadsOK'
    BY <1>6, <1>8, Zenon
  <2>4. QED
    BY <2>2, <2>3
<1>9. ASSUME CombineSubtrees PROVE Placed(K)' /\ Kept(K)' /\ LoadsOK'
  BY <1>1, <1>6, <1>9, CombinePlaced, Zenon
<1>10. ASSUME Consolidate PROVE Placed(K)' /\ Kept(K)' /\ LoadsOK'
  BY <1>1, <1>6, <1>10, ConsolidatePlaced, Zenon
<1>11. Placed(K)' /\ Kept(K)' /\ LoadsOK'
  BY <1>5, <1>7, <1>8, <1>9, <1>10, Zenon DEF Prove
<1>12. QED
  BY <1>3, <1>4, <1>11 DEF IInv

\* Every step keeps the invariant, and is a step of the contract or leaves the
\* caller's view alone.
LEMMA StepHolds == IInv /\ [Next]_vars => IInv' /\ [Contract!Next]_<<asked, given>>
<1> SUFFICES ASSUME IInv, [Next]_vars PROVE IInv' /\ [Contract!Next]_<<asked, given>>
  OBVIOUS
<1>1. CASE UNCHANGED vars
  <2>1. PICK K : Placed(K) /\ Kept(K)
    BY DEF IInv
  <2>2. /\ UNCHANGED <<Ours, caller, asked, dropped, queue, finished, results>>
        /\ UNCHANGED <<pc, piece, internal_proofs, inserted, sub_aggregators, pending, unvisited,
                       aggregator_id, aggregator_ids, aggregator_idx, total_chunk_size>>
    BY <1>1 DEF vars, own, subVars, distribution, collection, calls, Ours, caller
  <2>3. AwayOK(K)' /\ \A s \in Subs : AwayAt(s)' = AwayAt(s)
    BY <2>1, <2>2, AwayStays DEF Placed
  <2>4. Placed(K)' /\ Kept(K)'
    BY <2>1, <2>2, <2>3, QuietPlaced, QuietKept
  <2>5. CallsOK' /\ PendingOK'
    BY <2>2 DEF IInv, LoadsOK, CallsOK, PendingOK
  <2>6. VectorOK' /\ EnoughOK' /\ ScanOK'
    BY <2>2 DEF IInv, LoadsOK, VectorOK, Loads, EnoughOK, InHand, Chosen, ScanOK
  <2>7. QED
    BY <2>2, <2>4, <2>5, <2>6 DEF IInv, LoadsOK, caller
<1>2. ASSUME NEW n \in Sizes, Push(n) PROVE IInv' /\ [Contract!Next]_<<asked, given>>
  BY <1>2, PushHolds
<1>3. ASSUME Pop PROVE IInv' /\ [Contract!Next]_<<asked, given>>
  BY <1>3, PopHolds
<1>4. ASSUME InsertSubAggregator \/ SyncAll \/ \E s \in Subs : RemoveSubAggregator(s)
      PROVE  IInv' /\ UNCHANGED caller
  BY <1>4, CallsHold
<1>5. ASSUME NEW s \in Subs, Work(s) PROVE IInv' /\ UNCHANGED caller
  BY <1>5, WorkHolds
<1>6. ASSUME Distribute PROVE IInv' /\ UNCHANGED caller
  BY <1>6, DistributeHolds
<1>7. ASSUME Prove \/ Consolidate PROVE IInv' /\ UNCHANGED caller
  BY <1>7, ProveHolds
<1>8. CASE Next
  <2>1. CASE (\E n \in Sizes : Push(n)) \/ Pop
    BY <1>2, <1>3, <2>1
  <2>2. CASE ~((\E n \in Sizes : Push(n)) \/ Pop)
    <3>1. IInv' /\ UNCHANGED caller
      BY <1>4, <1>5, <1>6, <1>7, <1>8, <2>2, Zenon DEF Next
    <3>2. QED
      BY <3>1, QuietContract
  <2>3. QED
    BY <2>1, <2>2
<1>9. QED
  BY <1>1, <1>8

LEMMA Invariant == Spec => []IInv
<1>1. Init => IInv
  BY InitHolds
<1>2. IInv /\ [Next]_vars => IInv'
  BY StepHolds
<1>3. QED
  BY <1>1, <1>2, PTL DEF Spec

\* The variables keep their types: the size that a sub-aggregator reports covers
\* what it has been handed, and the load vector names only sub-aggregators that are
\* there (aggregator.rs:245 to 254, 311 to 314).
THEOREM TypeCorrect == Spec => []TypeOK
<1>1. ASSUME IInv PROVE TypeOK
  <2>1. DOMAIN given \subseteq DOMAIN asked /\ dropped \subseteq DOMAIN asked
    BY <1>1 DEF IInv, Placed, AskedOK
  <2>2. PICK K : Placed(K)
    BY <1>1 DEF IInv
  <2>3. SizedOK
    BY <2>2, PlacedSized
  <2>4. \A s \in Subs : pending[s] >= SizeOf(queue[s])
    BY <1>1, <2>3, LengthsAre DEF IInv, LoadsOK, PendingOK, SizedOK
  <2>5. QED
    BY <1>1, <2>1, <2>4 DEF IInv, LoadsOK, CallsOK, VectorOK, Loads, TypeOK
<1>2. QED
  BY <1>1, Invariant, PTL

\* However batches are split and queued again, a sub-aggregator is only handed a
\* power of two of proofs, more than one, as its push asserts (aggregator.rs:281 to 317).
THEOREM LegalPushesHolds == Spec => []LegalPushes
<1>1. ASSUME IInv PROVE LegalPushes
  <2>1. PICK K : Placed(K)
    BY <1>1 DEF IInv
  <2>2. ASSUME NEW s \in Subs, NEW b \in ToSet(queue[s]) PROVE IsBatchSize(Len(b.proofs))
    <3>1. BatchAt(K, s, b)
      BY <2>1 DEF Placed, AwayOK, AwayAtOK
    <3>2. QED
      BY <3>1, StandsLength DEF BatchAt, IsBatchSize
  <2>3. QED
    BY <2>2 DEF LegalPushes
<1>2. QED
  BY <1>1, Invariant, PTL

\* The maps of parents, children, aliases and descendants agree in every state, for
\* any order of answers, so no lookup of step panics (aggregator.rs:292 to 431).
THEOREM BookkeepingHolds == Spec => []Bookkeeping
<1>1. ASSUME IInv PROVE Bookkeeping
  <2>1. PICK K : Placed(K)
    BY <1>1 DEF IInv
  <2>2. TreeOK(K) /\ ReceivedOK(K)
    BY <2>1 DEF Placed
  <2>3. ASSUME NEW p \in DOMAIN proof_children, NEW q \in ToSet(proof_children[p])
        PROVE  q \in DOMAIN proof_parents /\ proof_parents[q] = p
    <3>1. PICK l, r \in DOMAIN proof_parents :
            proof_children[p] = <<l, r>> /\ proof_parents[l] = p /\ proof_parents[r] = p
      BY <2>2 DEF TreeOK, Above
    <3>2. q = l \/ q = r
      BY <3>1 DEF ToSet
    <3>3. QED
      BY <3>1, <3>2
  <2>4. QED
    BY <2>2, <2>3 DEF TreeOK, Above, ReceivedOK, ReceivedAtOK, Received, Bookkeeping
<1>2. QED
  BY <1>1, Invariant, PTL

\* The first candidate of the scan is a least loaded one, although the vector is
\* only repaired towards its end (aggregator.rs:264 to 274, 341 to 356): those the scan has
\* passed can never be saturated again, and those ahead of it stay in order.
THEOREM LeastLoadedHolds == Spec => []LeastLoadedChosen
<1>1. ASSUME IInv PROVE LeastLoadedChosen
  <2>1. PICK K : Placed(K)
    BY <1>1 DEF IInv
  <2>2. SizedOK
    BY <2>1, PlacedSized
  <2>3. QED
    BY <1>1, <2>2, LeastLoaded DEF IInv
<1>2. QED
  BY <1>1, Invariant, PTL

\* The queue is never empty when a batch is taken from it, so the unwrap of
\* pop_front does not panic (aggregator.rs:276 to 279).
SomethingToTake ==
  pc = "send" /\ total_chunk_size < Saturation(Chosen) => internal_proofs # <<>>

\* The unwrap of pop_front (aggregator.rs:279) does not panic, whatever was split,
\* delegated and removed before.
THEOREM SomethingToTakeHolds == Spec => []SomethingToTake
<1>1. ASSUME IInv PROVE SomethingToTake
  <2>1. PICK K : Placed(K)
    BY <1>1 DEF IInv
  <2>2. SizedOK
    BY <2>1, PlacedSized
  <2>3. QED
    BY <1>1, <2>2, SomethingLeft DEF IInv, SomethingToTake
<1>2. QED
  BY <1>1, Invariant, PTL

\* The specification implements the trait's contract: an answer that is popped is
\* the root of the leaves of the batch pushed under its id, in order, and is popped
\* once, whatever was split, delegated, removed and combined in between.
THEOREM ImplementsContract == Spec => KeepsContract
<1>1. Init => Contract!Init
  BY DEF Init, Contract!Init
<1>2. IInv /\ [Next]_vars => [Contract!Next]_<<asked, given>>
  BY StepHolds
<1>3. QED
  BY <1>1, <1>2, Invariant, PTL DEF Spec, KeepsContract, Contract!Safe

-----------------------------------------------------------------------------
(* Every leaf is held once. *)

\* Which proofs there are under an id, and in which places.
UnderBatch(list, s, batches, q, proofs, at) ==
  \E i \in DOMAIN batches :
    /\ q = Qualified(s, batches[i].id) /\ proofs = batches[i].proofs
    /\ at = [j \in DOMAIN proofs |-> <<list, s, i, j>>]
UnderAnswer(list, s, answers, q, proofs, at) ==
  \E i \in DOMAIN answers :
    /\ q = Qualified(s, answers[i].id) /\ proofs = <<answers[i].node>>
    /\ at = [j \in DOMAIN proofs |-> <<list, s, i, j>>]
UnderReceived(q, proofs, at) ==
  /\ q \in Received /\ proofs = ProofsOf(q)
  /\ at = [j \in DOMAIN proofs |-> <<"sub_recursive_proofs", proof_descendants[q][j][1],
                                     proof_descendants[q][j][2], 1>>]

UnderWaiting(q, proofs, at) ==
  \/ UnderBatch("internal_proofs", Self, internal_proofs, q, proofs, at)
  \/ pc = "split" /\ UnderBatch("piece", Self, <<piece>>, q, proofs, at)
UnderAway(s, q, proofs, at) ==
  \/ UnderBatch("queue", s, queue[s], q, proofs, at)
  \/ UnderAnswer("finished", s, finished[s], q, proofs, at)
  \/ UnderAnswer("results", s, results[s], q, proofs, at)

Under(q, proofs, at) ==
  \/ UnderWaiting(q, proofs, at)
  \/ \E s \in Subs : UnderAway(s, q, proofs, at)
  \/ UnderReceived(q, proofs, at)

\* The batches of a list stand under ids of their own, and so do its answers.
BatchesUnder(list, s, batches) ==
  /\ \A q, p, a : UnderBatch(list, s, batches, q, p, a) =>
       /\ q \in Pairs /\ q[1] = s /\ q[2] \in Ids(batches)
       /\ DOMAIN a = DOMAIN p
       /\ \E b \in ToSet(batches) : q = Qualified(s, b.id) /\ p = b.proofs
  /\ \A q, p, a, r, c :
       UnderBatch(list, s, batches, q, p, a) /\ UnderBatch(list, s, batches, q, r, c)
         => p = r /\ a = c
  /\ \A q \in Pairs : q[1] = s /\ q[2] \in Ids(batches) =>
       \E p, a : UnderBatch(list, s, batches, q, p, a)
AnswersUnder(list, s, answers) ==
  /\ \A q, p, a : UnderAnswer(list, s, answers, q, p, a) =>
       /\ q \in Pairs /\ q[1] = s /\ q[2] \in Ids(answers)
       /\ DOMAIN a = DOMAIN p
       /\ \E r \in ToSet(answers) : q = Qualified(s, r.id) /\ p = <<r.node>>
  /\ \A q, p, a, r, c :
       UnderAnswer(list, s, answers, q, p, a) /\ UnderAnswer(list, s, answers, q, r, c)
         => p = r /\ a = c
  /\ \A q \in Pairs : q[1] = s /\ q[2] \in Ids(answers) =>
       \E p, a : UnderAnswer(list, s, answers, q, p, a)

LEMMA UnderBatchIs ==
  ASSUME NEW list, NEW s \in Nat, NEW batches, Listed(batches),
         \A b \in ToSet(batches) : Bears(b) /\ b.id \in Nat
  PROVE  BatchesUnder(list, s, batches)
<1>1. \A i \in DOMAIN batches : /\ batches[i] \in ToSet(batches) /\ Bears(batches[i])
                                /\ batches[i].id \in Nat /\ batches[i].id \in Ids(batches)
  BY DEF ToSet, Ids
<1>2. ASSUME NEW q, NEW p, NEW a, UnderBatch(list, s, batches, q, p, a)
      PROVE  /\ q \in Pairs /\ q[1] = s /\ q[2] \in Ids(batches)
             /\ DOMAIN a = DOMAIN p
             /\ \E b \in ToSet(batches) : q = Qualified(s, b.id) /\ p = b.proofs
  <2>1. PICK i \in DOMAIN batches :
          /\ q = Qualified(s, batches[i].id) /\ p = batches[i].proofs
          /\ a = [j \in DOMAIN p |-> <<list, s, i, j>>]
    BY <1>2 DEF UnderBatch
  <2>2. q \in Pairs /\ q[1] = s /\ q[2] \in Ids(batches)
    BY <1>1, <2>1, QualifiedIs
  <2>3. QED
    BY <1>1, <2>1, <2>2
<1>3. ASSUME NEW q, NEW p, NEW a, NEW r, NEW c, UnderBatch(list, s, batches, q, p, a),
             UnderBatch(list, s, batches, q, r, c)
      PROVE  p = r /\ a = c
  <2>1. PICK i \in DOMAIN batches :
          /\ q = Qualified(s, batches[i].id) /\ p = batches[i].proofs
          /\ a = [j \in DOMAIN p |-> <<list, s, i, j>>]
    BY <1>3 DEF UnderBatch
  <2>2. PICK k \in DOMAIN batches :
          /\ q = Qualified(s, batches[k].id) /\ r = batches[k].proofs
          /\ c = [j \in DOMAIN r |-> <<list, s, k, j>>]
    BY <1>3 DEF UnderBatch
  <2>3. batches[i].id = batches[k].id
    <3>1. q[2] = batches[i].id
      BY <1>1, <2>1, QualifiedIs
    <3>2. q[2] = batches[k].id
      BY <1>1, <2>2, QualifiedIs
    <3>3. QED
      BY <3>1, <3>2
  <2>4. i = k
    BY <1>1, <2>3 DEF Listed, OnceEach
  <2>5. QED
    BY <2>1, <2>2, <2>4
<1>4. ASSUME NEW q \in Pairs, q[1] = s, q[2] \in Ids(batches)
      PROVE  \E p, a : UnderBatch(list, s, batches, q, p, a)
  <2>1. PICK i \in DOMAIN batches : batches[i].id = q[2]
    BY <1>4 DEF Ids
  <2>2. q = Qualified(s, batches[i].id)
    BY <1>4, <2>1, QualifiedIs
  <2>3. UnderBatch(list, s, batches, q, batches[i].proofs,
                   [j \in DOMAIN batches[i].proofs |-> <<list, s, i, j>>])
    BY <2>2 DEF UnderBatch
  <2>4. QED
    BY <2>3
<1>5. \A q, p, a : UnderBatch(list, s, batches, q, p, a) =>
        /\ q \in Pairs /\ q[1] = s /\ q[2] \in Ids(batches)
        /\ DOMAIN a = DOMAIN p
        /\ \E b \in ToSet(batches) : q = Qualified(s, b.id) /\ p = b.proofs
  BY <1>2
<1>6. \A q, p, a, r, c :
        UnderBatch(list, s, batches, q, p, a) /\ UnderBatch(list, s, batches, q, r, c)
          => p = r /\ a = c
  BY <1>3
<1>7. \A q \in Pairs : q[1] = s /\ q[2] \in Ids(batches) =>
        \E p, a : UnderBatch(list, s, batches, q, p, a)
  BY <1>4
<1>8. QED
  BY <1>5, <1>6, <1>7 DEF BatchesUnder

LEMMA UnderAnswerIs ==
  ASSUME NEW list, NEW s \in Nat, NEW answers, Listed(answers),
         \A r \in ToSet(answers) : Bears(r) /\ r.id \in Nat
  PROVE  AnswersUnder(list, s, answers)
<1>1. \A i \in DOMAIN answers : /\ answers[i] \in ToSet(answers) /\ Bears(answers[i])
                                /\ answers[i].id \in Nat /\ answers[i].id \in Ids(answers)
  BY DEF ToSet, Ids
<1>2. ASSUME NEW q, NEW p, NEW a, UnderAnswer(list, s, answers, q, p, a)
      PROVE  /\ q \in Pairs /\ q[1] = s /\ q[2] \in Ids(answers)
             /\ DOMAIN a = DOMAIN p
             /\ \E r \in ToSet(answers) : q = Qualified(s, r.id) /\ p = <<r.node>>
  <2>1. PICK i \in DOMAIN answers :
          /\ q = Qualified(s, answers[i].id) /\ p = <<answers[i].node>>
          /\ a = [j \in DOMAIN p |-> <<list, s, i, j>>]
    BY <1>2 DEF UnderAnswer
  <2>2. q \in Pairs /\ q[1] = s /\ q[2] \in Ids(answers)
    BY <1>1, <2>1, QualifiedIs
  <2>3. DOMAIN a = DOMAIN p
    BY <2>1
  <2>4. QED
    BY <1>1, <2>1, <2>2, <2>3
<1>3. ASSUME NEW q, NEW p, NEW a, NEW r, NEW c, UnderAnswer(list, s, answers, q, p, a),
             UnderAnswer(list, s, answers, q, r, c)
      PROVE  p = r /\ a = c
  <2>1. PICK i \in DOMAIN answers :
          /\ q = Qualified(s, answers[i].id) /\ p = <<answers[i].node>>
          /\ a = [j \in DOMAIN p |-> <<list, s, i, j>>]
    BY <1>3 DEF UnderAnswer
  <2>2. PICK k \in DOMAIN answers :
          /\ q = Qualified(s, answers[k].id) /\ r = <<answers[k].node>>
          /\ c = [j \in DOMAIN r |-> <<list, s, k, j>>]
    BY <1>3 DEF UnderAnswer
  <2>3. answers[i].id = answers[k].id
    <3>1. q[2] = answers[i].id
      BY <1>1, <2>1, QualifiedIs
    <3>2. q[2] = answers[k].id
      BY <1>1, <2>2, QualifiedIs
    <3>3. QED
      BY <3>1, <3>2
  <2>4. i = k
    BY <1>1, <2>3 DEF Listed, OnceEach
  <2>5. QED
    BY <2>1, <2>2, <2>4
<1>4. ASSUME NEW q \in Pairs, q[1] = s, q[2] \in Ids(answers)
      PROVE  \E p, a : UnderAnswer(list, s, answers, q, p, a)
  <2>1. PICK i \in DOMAIN answers : answers[i].id = q[2]
    BY <1>4 DEF Ids
  <2>2. q = Qualified(s, answers[i].id)
    BY <1>4, <2>1, QualifiedIs
  <2>3. PICK one : one = <<answers[i].node>>
    OBVIOUS
  <2>4. UnderAnswer(list, s, answers, q, one, [j \in DOMAIN one |-> <<list, s, i, j>>])
    BY <2>2, <2>3 DEF UnderAnswer
  <2>5. QED
    BY <2>4
<1>5. \A q, p, a : UnderAnswer(list, s, answers, q, p, a) =>
        /\ q \in Pairs /\ q[1] = s /\ q[2] \in Ids(answers)
        /\ DOMAIN a = DOMAIN p
        /\ \E r \in ToSet(answers) : q = Qualified(s, r.id) /\ p = <<r.node>>
  BY <1>2
<1>6. \A q, p, a, r, c :
        UnderAnswer(list, s, answers, q, p, a) /\ UnderAnswer(list, s, answers, q, r, c)
          => p = r /\ a = c
  BY <1>3
<1>7. \A q \in Pairs : q[1] = s /\ q[2] \in Ids(answers) =>
        \E p, a : UnderAnswer(list, s, answers, q, p, a)
  BY <1>4
<1>8. QED
  BY <1>5, <1>6, <1>7 DEF AnswersUnder

LEMMA WaitingUnder ==
  ASSUME NEW K, Placed(K)
  PROVE  /\ \A q, p, a : UnderWaiting(q, p, a) =>
              q \in Waiting /\ DOMAIN a = DOMAIN p /\ Stands(K[q], p)
         /\ \A q, p, a, r, c : UnderWaiting(q, p, a) /\ UnderWaiting(q, r, c) => p = r /\ a = c
         /\ \A q \in Waiting : \E p, a : UnderWaiting(q, p, a)
<1>1. /\ Listed(internal_proofs) /\ Ids(internal_proofs) \cap Pieces = {}
      /\ \A b \in ToSet(internal_proofs) \cup PieceSet :
           Bears(b) /\ b.id \in Nat /\ Stands(K[Qualified(Self, b.id)], b.proofs)
  BY DEF Placed, WaitingOK, BatchAt
<1>2. Self \in Nat
  BY SubsAre
<1> DEFINE I(q, p, a) == UnderBatch("internal_proofs", Self, internal_proofs, q, p, a)
           P(q, p, a) == UnderBatch("piece", Self, <<piece>>, q, p, a)
<1>3. /\ \A q, p, a : I(q, p, a) =>
           /\ q \in Pairs /\ q[1] = Self /\ q[2] \in Ids(internal_proofs) /\ DOMAIN a = DOMAIN p
           /\ \E b \in ToSet(internal_proofs) : q = Qualified(Self, b.id) /\ p = b.proofs
      /\ \A q, p, a, r, c : I(q, p, a) /\ I(q, r, c) => p = r /\ a = c
      /\ \A q \in Pairs : q[1] = Self /\ q[2] \in Ids(internal_proofs) => \E p, a : I(q, p, a)
  <2>1. \A b \in ToSet(internal_proofs) : Bears(b) /\ b.id \in Nat
    BY <1>1
  <2>2. BatchesUnder("internal_proofs", Self, internal_proofs)
    BY <1>1, <1>2, <2>1, UnderBatchIs
  <2>3. QED
    BY <2>2 DEF BatchesUnder
<1>4. ASSUME pc = "split"
      PROVE  /\ \A q, p, a : P(q, p, a) =>
                  /\ q \in Pairs /\ q[1] = Self /\ q[2] = piece.id /\ DOMAIN a = DOMAIN p
                  /\ q = Qualified(Self, piece.id) /\ p = piece.proofs
             /\ \A q, p, a, r, c : P(q, p, a) /\ P(q, r, c) => p = r /\ a = c
             /\ \A q \in Pairs : q[1] = Self /\ q[2] = piece.id => \E p, a : P(q, p, a)
  <2>1. Bears(piece) /\ piece.id \in Nat
    BY <1>1, <1>4 DEF PieceSet
  <2>2. PICK one : one = <<piece>>
    OBVIOUS
  <2>3. Listed(one) /\ Ids(one) = {piece.id} /\ ToSet(one) = {piece}
    BY <2>1, <2>2, OneListed
  <2>4. \A b \in ToSet(one) : Bears(b) /\ b.id \in Nat
    BY <2>1, <2>3
  <2>5. BatchesUnder("piece", Self, one)
    BY <1>2, <2>3, <2>4, UnderBatchIs
  <2>6. \A q, p, a : P(q, p, a) <=> UnderBatch("piece", Self, one, q, p, a)
    BY <2>2
  <2> HIDE DEF P
  <2>7. QED
    BY <2>3, <2>5, <2>6 DEF BatchesUnder
<1> HIDE DEF I, P
<1>5. \A q, p, a : UnderWaiting(q, p, a) <=> I(q, p, a) \/ (pc = "split" /\ P(q, p, a))
  BY DEF UnderWaiting, I, P
<1>6. pc = "split" => Pieces = {piece.id} /\ PieceSet = {piece}
  BY DEF Pieces, PieceSet
<1>7. ASSUME NEW q, NEW p, NEW a, UnderWaiting(q, p, a)
      PROVE  q \in Waiting /\ DOMAIN a = DOMAIN p /\ Stands(K[q], p)
  <2>1. CASE I(q, p, a)
    <3>1. q \in Waiting /\ DOMAIN a = DOMAIN p
      BY <1>3, <2>1 DEF Waiting
    <3>2. PICK b \in ToSet(internal_proofs) : q = Qualified(Self, b.id) /\ p = b.proofs
      BY <1>3, <2>1
    <3>3. QED
      BY <1>1, <3>1, <3>2
  <2>2. CASE pc = "split" /\ P(q, p, a)
    <3>1. q \in Waiting /\ DOMAIN a = DOMAIN p
      BY <1>4, <1>6, <2>2 DEF Waiting
    <3>2. q = Qualified(Self, piece.id) /\ p = piece.proofs
      BY <1>4, <2>2
    <3>3. QED
      BY <1>1, <1>6, <2>2, <3>1, <3>2
  <2>3. QED
    BY <1>5, <1>7, <2>1, <2>2
<1>8. ASSUME NEW q, NEW p, NEW a, NEW r, NEW c, UnderWaiting(q, p, a), UnderWaiting(q, r, c)
      PROVE  p = r /\ a = c
  <2>1. CASE I(q, p, a)
    <3>1. ~(pc = "split" /\ P(q, r, c))
      BY <1>1, <1>3, <1>4, <1>6, <2>1
    <3>2. QED
      BY <1>3, <1>5, <1>8, <2>1, <3>1
  <2>2. CASE pc = "split" /\ P(q, p, a)
    <3>1. ~I(q, r, c)
      BY <1>1, <1>3, <1>4, <1>6, <2>2
    <3>2. QED
      BY <1>4, <1>5, <1>8, <2>2, <3>1
  <2>3. QED
    BY <1>5, <1>8, <2>1, <2>2
<1>9. ASSUME NEW q \in Waiting PROVE \E p, a : UnderWaiting(q, p, a)
  <2>1. q \in Pairs /\ q[1] = Self /\ q[2] \in Ids(internal_proofs) \cup Pieces
    BY DEF Waiting
  <2>2. CASE q[2] \in Ids(internal_proofs)
    BY <1>3, <1>5, <2>1, <2>2
  <2>3. CASE q[2] \in Pieces
    <3>1. pc = "split" /\ q[2] = piece.id
      BY <2>3 DEF Pieces
    <3>2. QED
      BY <1>4, <1>5, <2>1, <3>1
  <2>4. QED
    BY <2>1, <2>2, <2>3
<1>10. \A q, p, a : UnderWaiting(q, p, a) => q \in Waiting /\ DOMAIN a = DOMAIN p /\ Stands(K[q], p)
  BY <1>7
<1>11. \A q, p, a, r, c : UnderWaiting(q, p, a) /\ UnderWaiting(q, r, c) => p = r /\ a = c
  BY <1>8
<1>12. QED
  BY <1>9, <1>10, <1>11

LEMMA AwayUnder ==
  ASSUME NEW K, Placed(K), NEW s \in Subs
  PROVE  /\ \A q, p, a : UnderAway(s, q, p, a) =>
              q \in Away /\ q[1] = s /\ DOMAIN a = DOMAIN p /\ Stands(K[q], p)
         /\ \A q, p, a, r, c : UnderAway(s, q, p, a) /\ UnderAway(s, q, r, c) => p = r /\ a = c
         /\ \A q \in Away : q[1] = s => \E p, a : UnderAway(s, q, p, a)
<1>1. AwayAtOK(K, s) /\ s \in Nat
  BY SubsAre DEF Placed, AwayOK
<1> DEFINE Q(q, p, a) == UnderBatch("queue", s, queue[s], q, p, a)
           F(q, p, a) == UnderAnswer("finished", s, finished[s], q, p, a)
           R(q, p, a) == UnderAnswer("results", s, results[s], q, p, a)
<1>2. /\ \A q, p, a : Q(q, p, a) =>
           /\ q \in Pairs /\ q[1] = s /\ q[2] \in Ids(queue[s]) /\ DOMAIN a = DOMAIN p
           /\ \E b \in ToSet(queue[s]) : q = Qualified(s, b.id) /\ p = b.proofs
      /\ \A q, p, a, r, c : Q(q, p, a) /\ Q(q, r, c) => p = r /\ a = c
      /\ \A q \in Pairs : q[1] = s /\ q[2] \in Ids(queue[s]) => \E p, a : Q(q, p, a)
  <2>1. Listed(queue[s]) /\ \A b \in ToSet(queue[s]) : Bears(b) /\ b.id \in Nat
    BY <1>1 DEF AwayAtOK, BatchAt
  <2>2. BatchesUnder("queue", s, queue[s])
    BY <1>1, <2>1, UnderBatchIs
  <2>3. QED
    BY <2>2 DEF BatchesUnder
<1>3. /\ \A q, p, a : F(q, p, a) =>
           /\ q \in Pairs /\ q[1] = s /\ q[2] \in Ids(finished[s]) /\ DOMAIN a = DOMAIN p
           /\ \E b \in ToSet(finished[s]) : q = Qualified(s, b.id) /\ p = <<b.node>>
      /\ \A q, p, a, r, c : F(q, p, a) /\ F(q, r, c) => p = r /\ a = c
      /\ \A q \in Pairs : q[1] = s /\ q[2] \in Ids(finished[s]) => \E p, a : F(q, p, a)
  <2>1. Listed(finished[s]) /\ \A b \in ToSet(finished[s]) : Bears(b) /\ b.id \in Nat
    BY <1>1 DEF AwayAtOK, AnswerAt
  <2>2. AnswersUnder("finished", s, finished[s])
    BY <1>1, <2>1, UnderAnswerIs
  <2>3. QED
    BY <2>2 DEF AnswersUnder
<1>4. /\ \A q, p, a : R(q, p, a) =>
           /\ q \in Pairs /\ q[1] = s /\ q[2] \in Ids(results[s]) /\ DOMAIN a = DOMAIN p
           /\ \E b \in ToSet(results[s]) : q = Qualified(s, b.id) /\ p = <<b.node>>
      /\ \A q, p, a, r, c : R(q, p, a) /\ R(q, r, c) => p = r /\ a = c
      /\ \A q \in Pairs : q[1] = s /\ q[2] \in Ids(results[s]) => \E p, a : R(q, p, a)
  <2>1. Listed(results[s]) /\ \A b \in ToSet(results[s]) : Bears(b) /\ b.id \in Nat
    BY <1>1 DEF AwayAtOK, AnswerAt
  <2>2. AnswersUnder("results", s, results[s])
    BY <1>1, <2>1, UnderAnswerIs
  <2>3. QED
    BY <2>2 DEF AnswersUnder
<1> HIDE DEF Q, F, R
<1>5. \A q, p, a : UnderAway(s, q, p, a) <=> Q(q, p, a) \/ F(q, p, a) \/ R(q, p, a)
  BY DEF UnderAway, Q, F, R
<1>6. \A q \in Pairs : q[1] = s => (q \in Away <=> q[2] \in AwayAt(s))
  BY DEF Away
<1>7. AwayAt(s) = Ids(queue[s]) \cup Ids(finished[s]) \cup Ids(results[s])
  BY DEF AwayAt
<1>8. /\ \A b \in ToSet(queue[s]) : Stands(K[Qualified(s, b.id)], b.proofs)
      /\ \A b \in ToSet(finished[s]) : Stands(K[Qualified(s, b.id)], <<b.node>>)
      /\ \A b \in ToSet(results[s]) : Stands(K[Qualified(s, b.id)], <<b.node>>)
  BY <1>1 DEF AwayAtOK, BatchAt, AnswerAt
<1>9. /\ Ids(queue[s]) \cap (Ids(finished[s]) \cup Ids(results[s])) = {}
      /\ Ids(finished[s]) \cap Ids(results[s]) = {}
  BY <1>1 DEF AwayAtOK
<1>10. \A q, p, a : UnderAway(s, q, p, a) =>
         q \in Away /\ q[1] = s /\ DOMAIN a = DOMAIN p /\ Stands(K[q], p)
  <2>1. SUFFICES ASSUME NEW q, NEW p, NEW a, UnderAway(s, q, p, a)
                 PROVE  q \in Away /\ q[1] = s /\ DOMAIN a = DOMAIN p /\ Stands(K[q], p)
    OBVIOUS
  <2>2. CASE Q(q, p, a)
    <3>1. PICK b \in ToSet(queue[s]) : q = Qualified(s, b.id) /\ p = b.proofs
      BY <1>2, <2>2
    <3>2. Stands(K[q], p)
      BY <1>8, <3>1
    <3>3. QED
      BY <1>2, <1>6, <1>7, <2>2, <3>2
  <2>3. CASE F(q, p, a)
    <3>1. PICK b \in ToSet(finished[s]) : q = Qualified(s, b.id) /\ p = <<b.node>>
      BY <1>3, <2>3
    <3>2. Stands(K[q], p)
      BY <1>8, <3>1
    <3>3. QED
      BY <1>3, <1>6, <1>7, <2>3, <3>2
  <2>4. CASE R(q, p, a)
    <3>1. PICK b \in ToSet(results[s]) : q = Qualified(s, b.id) /\ p = <<b.node>>
      BY <1>4, <2>4
    <3>2. Stands(K[q], p)
      BY <1>8, <3>1
    <3>3. QED
      BY <1>4, <1>6, <1>7, <2>4, <3>2
  <2>5. QED
    BY <1>5, <2>1, <2>2, <2>3, <2>4
<1>11. \A q, p, a, r, c : UnderAway(s, q, p, a) /\ UnderAway(s, q, r, c) => p = r /\ a = c
  <2>1. SUFFICES ASSUME NEW q, NEW p, NEW a, NEW r, NEW c,
                        UnderAway(s, q, p, a), UnderAway(s, q, r, c)
                 PROVE  p = r /\ a = c
    OBVIOUS
  <2>2. CASE Q(q, p, a)
    <3>1. q[2] \in Ids(queue[s])
      BY <1>2, <2>2
    <3>2. ~F(q, r, c) /\ ~R(q, r, c)
      BY <1>3, <1>4, <1>9, <3>1
    <3>3. QED
      BY <1>2, <1>5, <2>1, <2>2, <3>2
  <2>3. CASE F(q, p, a)
    <3>1. q[2] \in Ids(finished[s])
      BY <1>3, <2>3
    <3>2. ~Q(q, r, c) /\ ~R(q, r, c)
      BY <1>2, <1>4, <1>9, <3>1
    <3>3. QED
      BY <1>3, <1>5, <2>1, <2>3, <3>2
  <2>4. CASE R(q, p, a)
    <3>1. q[2] \in Ids(results[s])
      BY <1>4, <2>4
    <3>2. ~Q(q, r, c) /\ ~F(q, r, c)
      BY <1>2, <1>3, <1>9, <3>1
    <3>3. QED
      BY <1>4, <1>5, <2>1, <2>4, <3>2
  <2>5. QED
    BY <1>5, <2>1, <2>2, <2>3, <2>4
<1>12. \A q \in Away : q[1] = s => \E p, a : UnderAway(s, q, p, a)
  <2>1. SUFFICES ASSUME NEW q \in Away, q[1] = s PROVE \E p, a : UnderAway(s, q, p, a)
    OBVIOUS
  <2>2. q \in Pairs
    BY DEF Away
  <2>3. (\E p, a : Q(q, p, a)) \/ (\E p, a : F(q, p, a)) \/ (\E p, a : R(q, p, a))
    BY <1>2, <1>3, <1>4, <1>6, <1>7, <2>1, <2>2
  <2>4. QED
    BY <1>5, <2>3
<1>13. QED
  BY <1>10, <1>11, <1>12

\* Every id that is held has proofs of its own, which stand for its block.
UnderOK(K) ==
  /\ \A q, p, a : Under(q, p, a) => q \in Held /\ DOMAIN a = DOMAIN p /\ Stands(K[q], p)
  /\ \A q, p, a, r, c : Under(q, p, a) /\ Under(q, r, c) => p = r /\ a = c
  /\ \A q \in Held : \E p, a : Under(q, p, a)

LEMMA HeldUnder ==
  ASSUME NEW K, Placed(K)
  PROVE  UnderOK(K)
<1>1. /\ \A q, p, a : UnderWaiting(q, p, a) =>
           q \in Waiting /\ DOMAIN a = DOMAIN p /\ Stands(K[q], p)
      /\ \A q, p, a, r, c : UnderWaiting(q, p, a) /\ UnderWaiting(q, r, c) => p = r /\ a = c
      /\ \A q \in Waiting : \E p, a : UnderWaiting(q, p, a)
  BY WaitingUnder
<1>2. \A s \in Subs :
        /\ \A q, p, a : UnderAway(s, q, p, a) =>
             q \in Away /\ q[1] = s /\ DOMAIN a = DOMAIN p /\ Stands(K[q], p)
        /\ \A q, p, a, r, c : UnderAway(s, q, p, a) /\ UnderAway(s, q, r, c) => p = r /\ a = c
        /\ \A q \in Away : q[1] = s => \E p, a : UnderAway(s, q, p, a)
  BY AwayUnder
<1>3. \A q, p, a : UnderReceived(q, p, a) =>
        q \in Received /\ DOMAIN a = DOMAIN p /\ Stands(K[q], p)
  <2>1. \A q \in Received : Stands(K[q], ProofsOf(q))
    BY DEF Placed, ReceivedOK, ReceivedAtOK
  <2>2. QED
    BY <2>1 DEF UnderReceived
<1>4. \A q, p, a, r, c : UnderReceived(q, p, a) /\ UnderReceived(q, r, c) => p = r /\ a = c
  BY DEF UnderReceived
<1>5. \A q \in Received : \E p, a : UnderReceived(q, p, a)
  <2>1. SUFFICES ASSUME NEW q \in Received PROVE \E p, a : UnderReceived(q, p, a)
    OBVIOUS
  <2>2. PICK p : p = ProofsOf(q)
    OBVIOUS
  <2>3. PICK a : a = [j \in DOMAIN p |-> <<"sub_recursive_proofs", proof_descendants[q][j][1],
                                           proof_descendants[q][j][2], 1>>]
    OBVIOUS
  <2>4. UnderReceived(q, p, a)
    BY <2>2, <2>3 DEF UnderReceived
  <2>5. QED
    BY <2>4
<1>6. /\ Waiting \cap Received = {} /\ Away \cap Received = {} /\ Waiting \cap Away = {}
      /\ \A q \in Away : q[1] \in Subs
  BY SubsAre DEF Placed, ApartOK, Waiting, Away
<1>7. ASSUME NEW q, NEW p, NEW a, Under(q, p, a)
      PROVE  q \in Held /\ DOMAIN a = DOMAIN p /\ Stands(K[q], p)
  BY <1>1, <1>2, <1>3, <1>7 DEF Under, Held
<1>8. ASSUME NEW q, NEW p, NEW a, NEW r, NEW c, Under(q, p, a), Under(q, r, c)
      PROVE  p = r /\ a = c
  <2>1. CASE UnderWaiting(q, p, a)
    <3>1. q \notin Received /\ q \notin Away
      BY <1>1, <1>6, <2>1
    <3>2. UnderWaiting(q, r, c)
      BY <1>2, <1>3, <1>8, <3>1 DEF Under
    <3>3. QED
      BY <1>1, <2>1, <3>2
  <2>2. CASE \E s \in Subs : UnderAway(s, q, p, a)
    <3>1. PICK s \in Subs : UnderAway(s, q, p, a)
      BY <2>2
    <3>2. q \in Away /\ q[1] = s
      BY <1>2, <3>1
    <3>3. q \notin Received /\ q \notin Waiting
      BY <1>6, <3>2
    <3>4. PICK t \in Subs : UnderAway(t, q, r, c)
      BY <1>1, <1>3, <1>8, <3>3 DEF Under
    <3>5. t = s
      BY <1>2, <3>2, <3>4
    <3>6. QED
      BY <1>2, <3>1, <3>4, <3>5
  <2>3. CASE UnderReceived(q, p, a)
    <3>1. q \notin Waiting /\ q \notin Away
      BY <1>3, <1>6, <2>3
    <3>2. UnderReceived(q, r, c)
      BY <1>1, <1>2, <1>8, <3>1 DEF Under
    <3>3. QED
      BY <1>4, <2>3, <3>2
  <2>4. QED
    BY <1>8, <2>1, <2>2, <2>3 DEF Under
<1>9. ASSUME NEW q \in Held PROVE \E p, a : Under(q, p, a)
  BY <1>1, <1>2, <1>5, <1>6 DEF Under, Held
<1>10. \A q, p, a : Under(q, p, a) => q \in Held /\ DOMAIN a = DOMAIN p /\ Stands(K[q], p)
  BY <1>7
<1>11. \A q, p, a, r, c : Under(q, p, a) /\ Under(q, r, c) => p = r /\ a = c
  BY <1>8
<1>12. QED
  BY <1>9, <1>10, <1>11 DEF UnderOK

\* One proof, with its place.
ProofAt(p, a, j) == [at |-> a[j], leaves |-> p[j]]

\* What is held of a list is what stands under the ids of the list.
LEMMA InBatchesAre ==
  ASSUME NEW list, NEW s, NEW batches, NEW x
  PROVE  x \in InBatches(list, s, batches) <=>
           \E q, p, a : /\ UnderBatch(list, s, batches, q, p, a)
                        /\ \E j \in DOMAIN p : x = ProofAt(p, a, j)
<1>1. ASSUME x \in InBatches(list, s, batches)
      PROVE  \E q, p, a : UnderBatch(list, s, batches, q, p, a)
                            /\ \E j \in DOMAIN p : x = ProofAt(p, a, j)
  <2>1. PICK i \in DOMAIN batches : \E j \in DOMAIN batches[i].proofs :
          x = [at |-> <<list, s, i, j>>, leaves |-> batches[i].proofs[j]]
    BY <1>1 DEF InBatches
  <2>2. PICK p : p = batches[i].proofs
    OBVIOUS
  <2>3. PICK a : a = [j \in DOMAIN p |-> <<list, s, i, j>>]
    OBVIOUS
  <2>4. PICK j \in DOMAIN p : x = [at |-> <<list, s, i, j>>, leaves |-> p[j]]
    BY <2>1, <2>2
  <2>5. x = ProofAt(p, a, j)
    BY <2>3, <2>4 DEF ProofAt
  <2>6. UnderBatch(list, s, batches, Qualified(s, batches[i].id), p, a)
    BY <2>2, <2>3 DEF UnderBatch
  <2>7. QED
    BY <2>5, <2>6
<1>2. ASSUME NEW q, NEW p, NEW a, UnderBatch(list, s, batches, q, p, a),
             NEW j \in DOMAIN p, x = ProofAt(p, a, j)
      PROVE  x \in InBatches(list, s, batches)
  <2>1. PICK i \in DOMAIN batches :
          /\ p = batches[i].proofs
          /\ a = [k \in DOMAIN p |-> <<list, s, i, k>>]
    BY <1>2 DEF UnderBatch
  <2>2. x = [at |-> <<list, s, i, j>>, leaves |-> batches[i].proofs[j]]
    BY <1>2, <2>1 DEF ProofAt
  <2>3. j \in DOMAIN batches[i].proofs
    BY <1>2, <2>1
  <2>4. QED
    BY <2>2, <2>3 DEF InBatches
<1>3. QED
  BY <1>1, <1>2

LEMMA InAnswersAre ==
  ASSUME NEW list, NEW s, NEW answers, NEW x
  PROVE  x \in InAnswers(list, s, answers) <=>
           \E q, p, a : /\ UnderAnswer(list, s, answers, q, p, a)
                        /\ \E j \in DOMAIN p : x = ProofAt(p, a, j)
<1>1. ASSUME x \in InAnswers(list, s, answers)
      PROVE  \E q, p, a : UnderAnswer(list, s, answers, q, p, a)
                            /\ \E j \in DOMAIN p : x = ProofAt(p, a, j)
  <2>1. PICK i \in DOMAIN answers : x = [at |-> <<list, s, i, 1>>, leaves |-> answers[i].node]
    BY <1>1 DEF InAnswers
  <2>2. PICK p : p = <<answers[i].node>>
    OBVIOUS
  <2>3. PICK a : a = [j \in DOMAIN p |-> <<list, s, i, j>>]
    OBVIOUS
  <2>4. 1 \in DOMAIN p /\ p[1] = answers[i].node
    BY <2>2
  <2>5. x = ProofAt(p, a, 1)
    BY <2>1, <2>3, <2>4 DEF ProofAt
  <2>6. UnderAnswer(list, s, answers, Qualified(s, answers[i].id), p, a)
    BY <2>2, <2>3 DEF UnderAnswer
  <2>7. QED
    BY <2>4, <2>5, <2>6
<1>2. ASSUME NEW q, NEW p, NEW a, UnderAnswer(list, s, answers, q, p, a),
             NEW j \in DOMAIN p, x = ProofAt(p, a, j)
      PROVE  x \in InAnswers(list, s, answers)
  <2>1. PICK i \in DOMAIN answers :
          /\ p = <<answers[i].node>>
          /\ a = [k \in DOMAIN p |-> <<list, s, i, k>>]
    BY <1>2 DEF UnderAnswer
  <2>2. j = 1 /\ p[1] = answers[i].node
    BY <2>1
  <2>3. x = [at |-> <<list, s, i, 1>>, leaves |-> answers[i].node]
    BY <1>2, <2>1, <2>2 DEF ProofAt
  <2>4. QED
    BY <2>3 DEF InAnswers
<1>3. QED
  BY <1>1, <1>2

\* There is a piece only while it is split.
PieceOK == pc # "split" => piece = NoPiece

\* Every proof that is held stands under an id, or is an answer.
LEMMA HeldAre ==
  ASSUME NEW K, Placed(K), PieceOK, NEW x
  PROVE  x \in ProofsHeld <=>
           \/ \E q, p, a : Under(q, p, a) /\ \E j \in DOMAIN p : x = ProofAt(p, a, j)
           \/ x \in InAnswers("recursive_proofs", Self, recursive_proofs)
<1> DEFINE At(p, a) == \E j \in DOMAIN p : x = ProofAt(p, a, j)
           Receipts == {[at |-> <<"sub_recursive_proofs", q[1], q[2], 1>>,
                         leaves |-> sub_recursive_proofs[q]] : q \in DOMAIN sub_recursive_proofs}
<1>1. x \in InBatches("internal_proofs", Self, internal_proofs) <=>
        \E q, p, a : UnderBatch("internal_proofs", Self, internal_proofs, q, p, a) /\ At(p, a)
  BY InBatchesAre
<1>2. x \in InBatches("piece", Self, <<piece>>) <=>
        \E q, p, a : /\ pc = "split" /\ UnderBatch("piece", Self, <<piece>>, q, p, a)
                     /\ At(p, a)
  <2>1. x \in InBatches("piece", Self, <<piece>>) <=>
          \E q, p, a : UnderBatch("piece", Self, <<piece>>, q, p, a) /\ At(p, a)
    BY InBatchesAre
  <2>2. CASE pc = "split"
    BY <2>1, <2>2
  <2>3. CASE pc # "split"
    <3>1. \A i \in DOMAIN <<piece>> : DOMAIN <<piece>>[i].proofs = {}
      BY <2>3 DEF PieceOK, NoPiece
    <3>2. x \notin InBatches("piece", Self, <<piece>>)
      BY <3>1 DEF InBatches
    <3>3. QED
      BY <2>3, <3>2
  <2>4. QED
    BY <2>2, <2>3
<1>3. \A s \in Subs :
        x \in InBatches("queue", s, queue[s]) \cup InAnswers("finished", s, finished[s])
                \cup InAnswers("results", s, results[s])
          <=> \E q, p, a : UnderAway(s, q, p, a) /\ At(p, a)
  <2>1. SUFFICES ASSUME NEW s \in Subs
                 PROVE  x \in InBatches("queue", s, queue[s])
                                \cup InAnswers("finished", s, finished[s])
                                \cup InAnswers("results", s, results[s])
                          <=> \E q, p, a : UnderAway(s, q, p, a) /\ At(p, a)
    OBVIOUS
  <2>2. x \in InBatches("queue", s, queue[s]) <=>
          \E q, p, a : UnderBatch("queue", s, queue[s], q, p, a) /\ At(p, a)
    BY InBatchesAre
  <2>3. x \in InAnswers("finished", s, finished[s]) <=>
          \E q, p, a : UnderAnswer("finished", s, finished[s], q, p, a) /\ At(p, a)
    BY InAnswersAre
  <2>4. x \in InAnswers("results", s, results[s]) <=>
          \E q, p, a : UnderAnswer("results", s, results[s], q, p, a) /\ At(p, a)
    BY InAnswersAre
  <2> HIDE DEF At
  <2>5. QED
    BY <2>2, <2>3, <2>4, Zenon DEF UnderAway
<1>4. x \in Receipts <=> \E q, p, a : UnderReceived(q, p, a) /\ At(p, a)
  <2>1. ASSUME x \in Receipts PROVE \E q, p, a : UnderReceived(q, p, a) /\ At(p, a)
    <3>1. PICK d \in DOMAIN sub_recursive_proofs :
            x = [at |-> <<"sub_recursive_proofs", d[1], d[2], 1>>,
                 leaves |-> sub_recursive_proofs[d]]
      BY <2>1
    <3>2. PICK q \in Received : d \in ToSet(proof_descendants[q])
      BY DEF Placed, ReceivedOK
    <3>3. PICK j \in DOMAIN proof_descendants[q] : proof_descendants[q][j] = d
      BY <3>2 DEF ToSet
    <3>4. PICK p : p = ProofsOf(q)
      OBVIOUS
    <3>5. DOMAIN p = DOMAIN proof_descendants[q] /\ p[j] = sub_recursive_proofs[d]
      BY <3>3, <3>4 DEF ProofsOf
    <3>6. PICK a : a = [i \in DOMAIN p |-> <<"sub_recursive_proofs", proof_descendants[q][i][1],
                                             proof_descendants[q][i][2], 1>>]
      OBVIOUS
    <3>7. UnderReceived(q, p, a)
      BY <3>4, <3>6 DEF UnderReceived
    <3>8. a[j] = <<"sub_recursive_proofs", d[1], d[2], 1>>
      BY <3>3, <3>5, <3>6
    <3>9. x = ProofAt(p, a, j)
      BY <3>1, <3>5, <3>8 DEF ProofAt
    <3>10. QED
      BY <3>3, <3>5, <3>7, <3>9
  <2>2. ASSUME NEW q, NEW p, NEW a, UnderReceived(q, p, a), At(p, a) PROVE x \in Receipts
    <3>1. PICK j \in DOMAIN p : x = ProofAt(p, a, j)
      BY <2>2
    <3>2. /\ q \in Received /\ p = ProofsOf(q)
          /\ a = [i \in DOMAIN p |-> <<"sub_recursive_proofs", proof_descendants[q][i][1],
                                       proof_descendants[q][i][2], 1>>]
      BY <2>2 DEF UnderReceived
    <3>3. PICK d : d = proof_descendants[q][j]
      OBVIOUS
    <3>4. j \in DOMAIN proof_descendants[q] /\ p[j] = sub_recursive_proofs[d]
      BY <3>1, <3>2, <3>3 DEF ProofsOf
    <3>5. d \in DOMAIN sub_recursive_proofs
      <4>1. ToSet(proof_descendants[q]) \subseteq DOMAIN sub_recursive_proofs
        BY <3>2 DEF Placed, ReceivedOK, ReceivedAtOK
      <4>2. d \in ToSet(proof_descendants[q])
        BY <3>3, <3>4 DEF ToSet
      <4>3. QED
        BY <4>1, <4>2
    <3>6. a[j] = <<"sub_recursive_proofs", d[1], d[2], 1>>
      BY <3>1, <3>2, <3>3
    <3>7. x = [at |-> <<"sub_recursive_proofs", d[1], d[2], 1>>, leaves |-> sub_recursive_proofs[d]]
      BY <3>1, <3>4, <3>6 DEF ProofAt
    <3>8. QED
      BY <3>5, <3>7
  <2> HIDE DEF At, Receipts
  <2>3. QED
    BY <2>1, <2>2
<1>5. x \in ProofsHeld <=>
        \/ x \in InBatches("internal_proofs", Self, internal_proofs)
        \/ x \in InBatches("piece", Self, <<piece>>)
        \/ x \in InAnswers("recursive_proofs", Self, recursive_proofs)
        \/ \E s \in Subs : x \in InBatches("queue", s, queue[s])
                                   \cup InAnswers("finished", s, finished[s])
                                   \cup InAnswers("results", s, results[s])
        \/ x \in Receipts
  <2> DEFINE I == InBatches("internal_proofs", Self, internal_proofs)
             P == InBatches("piece", Self, <<piece>>)
             R == InAnswers("recursive_proofs", Self, recursive_proofs)
             Q(s) == InBatches("queue", s, queue[s]) \cup InAnswers("finished", s, finished[s])
                       \cup InAnswers("results", s, results[s])
  <2>1. ProofsHeld = I \cup P \cup R \cup (UNION {Q(s) : s \in Subs}) \cup Receipts
    BY DEF ProofsHeld
  <2> HIDE DEF I, P, R, Q, Receipts
  <2>2. x \in ProofsHeld <=>
          x \in I \/ x \in P \/ x \in R \/ (\E s \in Subs : x \in Q(s)) \/ x \in Receipts
    <3>1. PICK all : all = UNION {Q(s) : s \in Subs}
      OBVIOUS
    <3>2. x \in all <=> \E s \in Subs : x \in Q(s)
      <4>1. x \in all <=> x \in UNION {Q(s) : s \in Subs}
        BY <3>1
      <4>2. QED
        BY <4>1, Zenon
    <3>3. ProofsHeld = I \cup P \cup R \cup all \cup Receipts
      BY <2>1, <3>1
    <3>4. QED
      BY <3>2, <3>3
  <2>3. QED
    BY <2>2 DEF I, P, R, Q
<1> HIDE DEF At, Receipts
<1>6. (\E q, p, a : Under(q, p, a) /\ At(p, a)) <=>
        \/ \E q, p, a : UnderBatch("internal_proofs", Self, internal_proofs, q, p, a) /\ At(p, a)
        \/ \E q, p, a : /\ pc = "split" /\ UnderBatch("piece", Self, <<piece>>, q, p, a)
                        /\ At(p, a)
        \/ \E s \in Subs : \E q, p, a : UnderAway(s, q, p, a) /\ At(p, a)
        \/ \E q, p, a : UnderReceived(q, p, a) /\ At(p, a)
  BY Zenon DEF Under, UnderWaiting
<1>7. x \in ProofsHeld <=>
        (\E q, p, a : Under(q, p, a) /\ At(p, a))
          \/ x \in InAnswers("recursive_proofs", Self, recursive_proofs)
  BY <1>1, <1>2, <1>3, <1>4, <1>5, <1>6
<1>8. QED
  BY <1>7 DEF At

\* One leaf of a proof, with its place.
LeafAt(p, a, j, n) == [at |-> a[j], nth |-> n, leaf |-> p[j][n]]

\* A leaf that stands under an id, and one of an answer.
LeafUnder(q, x) ==
  \E p, a : Under(q, p, a) /\ \E j \in DOMAIN p : \E n \in DOMAIN p[j] : x = LeafAt(p, a, j, n)
LeafAnswered(i, x) ==
  \E n \in DOMAIN recursive_proofs[i].node :
    x = [at |-> <<"recursive_proofs", Self, i, 1>>, nth |-> n, leaf |-> recursive_proofs[i].node[n]]

LEMMA LeavesHeldAre ==
  ASSUME NEW K, Placed(K), PieceOK, NEW x
  PROVE  x \in LeavesHeld <=>
           \/ \E q : LeafUnder(q, x)
           \/ \E i \in DOMAIN recursive_proofs : LeafAnswered(i, x)
<1>1. x \in LeavesHeld <=>
        \E h \in ProofsHeld : \E n \in DOMAIN h.leaves :
          x = [at |-> h.at, nth |-> n, leaf |-> h.leaves[n]]
  BY DEF LeavesHeld
<1>2. ASSUME NEW q, NEW p, NEW a, Under(q, p, a), NEW j \in DOMAIN p
      PROVE  ProofAt(p, a, j) \in ProofsHeld
  BY <1>2, HeldAre
<1>3. ASSUME NEW q, LeafUnder(q, x) PROVE x \in LeavesHeld
  <2>1. PICK p, a :
          /\ Under(q, p, a)
          /\ \E j \in DOMAIN p : \E n \in DOMAIN p[j] : x = LeafAt(p, a, j, n)
    BY <1>3 DEF LeafUnder
  <2>2. PICK j \in DOMAIN p : \E n \in DOMAIN p[j] : x = LeafAt(p, a, j, n)
    BY <2>1
  <2>3. PICK n \in DOMAIN p[j] : x = LeafAt(p, a, j, n)
    BY <2>2
  <2>4. PICK h : h = ProofAt(p, a, j)
    OBVIOUS
  <2>5. h \in ProofsHeld
    BY <1>2, <2>1, <2>4
  <2>6. h.at = a[j] /\ h.leaves = p[j]
    BY <2>4 DEF ProofAt
  <2>7. QED
    BY <1>1, <2>3, <2>5, <2>6 DEF LeafAt
<1>4. ASSUME NEW i \in DOMAIN recursive_proofs, LeafAnswered(i, x) PROVE x \in LeavesHeld
  <2>1. PICK h : h = [at |-> <<"recursive_proofs", Self, i, 1>>,
                      leaves |-> recursive_proofs[i].node]
    OBVIOUS
  <2>2. h \in InAnswers("recursive_proofs", Self, recursive_proofs)
    BY <2>1 DEF InAnswers
  <2>3. h \in ProofsHeld
    BY <2>2, HeldAre
  <2>4. h.at = <<"recursive_proofs", Self, i, 1>> /\ h.leaves = recursive_proofs[i].node
    BY <2>1
  <2>5. QED
    BY <1>1, <1>4, <2>3, <2>4 DEF LeafAnswered
<1>5. ASSUME x \in LeavesHeld
      PROVE  \/ \E q : LeafUnder(q, x)
             \/ \E i \in DOMAIN recursive_proofs : LeafAnswered(i, x)
  <2>1. PICK h \in ProofsHeld : \E n \in DOMAIN h.leaves :
          x = [at |-> h.at, nth |-> n, leaf |-> h.leaves[n]]
    BY <1>1, <1>5
  <2>2. PICK n \in DOMAIN h.leaves : x = [at |-> h.at, nth |-> n, leaf |-> h.leaves[n]]
    BY <2>1
  <2>3. \/ \E q, p, a : Under(q, p, a) /\ \E j \in DOMAIN p : h = ProofAt(p, a, j)
        \/ h \in InAnswers("recursive_proofs", Self, recursive_proofs)
    BY HeldAre
  <2>4. CASE \E q, p, a : Under(q, p, a) /\ \E j \in DOMAIN p : h = ProofAt(p, a, j)
    <3>1. PICK q, p, a : Under(q, p, a) /\ \E j \in DOMAIN p : h = ProofAt(p, a, j)
      BY <2>4
    <3>2. PICK j \in DOMAIN p : h = ProofAt(p, a, j)
      BY <3>1
    <3>3. h.at = a[j] /\ h.leaves = p[j]
      BY <3>2 DEF ProofAt
    <3>4. n \in DOMAIN p[j] /\ x = LeafAt(p, a, j, n)
      BY <2>2, <3>3 DEF LeafAt
    <3>5. QED
      BY <3>1, <3>4 DEF LeafUnder
  <2>5. CASE h \in InAnswers("recursive_proofs", Self, recursive_proofs)
    <3>1. PICK i \in DOMAIN recursive_proofs :
            h = [at |-> <<"recursive_proofs", Self, i, 1>>, leaves |-> recursive_proofs[i].node]
      BY <2>5 DEF InAnswers
    <3>2. h.at = <<"recursive_proofs", Self, i, 1>> /\ h.leaves = recursive_proofs[i].node
      BY <3>1
    <3>3. LeafAnswered(i, x)
      BY <2>2, <3>2 DEF LeafAnswered
    <3>4. QED
      BY <3>3
  <2>6. QED
    BY <2>3, <2>4, <2>5
<1>6. QED
  BY <1>3, <1>4, <1>5

\* A leaf under an id is one of the block of the id, and a leaf of an answer one of
\* the batch that is answered.
LEMMA LeafUnderIs ==
  ASSUME NEW K, Placed(K), Kept(K), NEW q, NEW x, LeafUnder(q, x)
  PROVE  /\ q \in Held /\ K[q] \in Blocks
         /\ \E i \in 1..K[q].size : x.leaf = Leaf(K[q].batch, K[q].from + i)
<1>1. UnderOK(K)
  BY HeldUnder
<1>2. PICK p, a :
        /\ Under(q, p, a)
        /\ \E j \in DOMAIN p : \E n \in DOMAIN p[j] : x = LeafAt(p, a, j, n)
  BY DEF LeafUnder
<1>3. PICK j \in DOMAIN p : \E n \in DOMAIN p[j] : x = LeafAt(p, a, j, n)
  BY <1>2
<1>4. PICK n \in DOMAIN p[j] : x = LeafAt(p, a, j, n)
  BY <1>3
<1>5. q \in Held /\ Stands(K[q], p)
  BY <1>1, <1>2 DEF UnderOK
<1>6. K[q] \in Blocks
  BY <1>5 DEF Kept, Tiles
<1>7. \A l \in DOMAIN p : \A m \in DOMAIN p[l] :
        \E i \in 1..K[q].size : p[l][m] = Leaf(K[q].batch, K[q].from + i)
  BY <1>5, <1>6, StandsPlaces
<1>8. \E i \in 1..K[q].size : p[j][n] = Leaf(K[q].batch, K[q].from + i)
  BY <1>7
<1>9. x.leaf = p[j][n]
  BY <1>4 DEF LeafAt
<1>10. QED
  BY <1>5, <1>6, <1>8, <1>9

LEMMA AskedIs ==
  ASSUME AskedOK, NEW b \in DOMAIN asked
  PROVE  /\ Len(asked[b]) \in Nat \ {0} /\ DOMAIN asked[b] = 1..Len(asked[b])
         /\ \A i \in DOMAIN asked[b] : asked[b][i] = Leaf(b, i)
<1>1. PICK n \in Sizes : asked[b] = Leaves(b, n)
  BY DEF AskedOK
<1>2. n \in Nat \ {0}
  BY BatchesAssumption DEF IsBatchSize
<1>3. DOMAIN asked[b] = 1..n /\ \A i \in 1..n : asked[b][i] = Leaf(b, i)
  BY <1>1 DEF Leaves
<1>4. Len(asked[b]) = n
  <2>1. PICK f : f = asked[b]
    OBVIOUS
  <2>2. f = [i \in 1..n |-> f[i]]
    BY <1>1, <2>1 DEF Leaves
  <2>3. Len(f) = n
    BY <1>2, <2>2, FunctionSeq
  <2>4. QED
    BY <2>1, <2>3
<1>5. QED
  BY <1>2, <1>3, <1>4

\* Where nothing is lost, every leaf of an open batch is held, in one place.
LEMMA OpenOnce ==
  ASSUME NEW K, Placed(K), Kept(K), PieceOK, NEW b \in Open, b \notin dropped
  PROVE  LET ofBatch == {x \in LeavesHeld : x.leaf[1] = b}
         IN  /\ {x.leaf : x \in ofBatch} = ToSet(asked[b])
             /\ \A x, y \in ofBatch : x.leaf = y.leaf => x = y
<1> DEFINE ofBatch == {x \in LeavesHeld : x.leaf[1] = b}
<1>1. UnderOK(K) /\ AskedOK /\ b \in DOMAIN asked
  BY HeldUnder DEF Placed, Open
<1>2. /\ Len(asked[b]) \in Nat \ {0} /\ DOMAIN asked[b] = 1..Len(asked[b])
      /\ \A i \in DOMAIN asked[b] : asked[b][i] = Leaf(b, i)
  BY <1>1, AskedIs
<1>3. \A q \in Held : K[q] \in Blocks /\ K[q].from + K[q].size <= Len(asked[K[q].batch])
  BY DEF Kept, Tiles
<1>4. ASSUME NEW x \in ofBatch
      PROVE  \E q \in Held : /\ LeafUnder(q, x) /\ K[q].batch = b
                             /\ \E i \in 1..K[q].size : x.leaf = Leaf(b, K[q].from + i)
  <2>1. x \in LeavesHeld /\ x.leaf[1] = b
    OBVIOUS
  <2>2. ~\E i \in DOMAIN recursive_proofs : LeafAnswered(i, x)
    <3>1. SUFFICES ASSUME NEW i \in DOMAIN recursive_proofs, LeafAnswered(i, x) PROVE FALSE
      OBVIOUS
    <3>2. PICK e : e = recursive_proofs[i]
      OBVIOUS
    <3>3. e \in ToSet(recursive_proofs) /\ e.id \in Ids(recursive_proofs)
      <4>1. e \in ToSet(recursive_proofs)
        BY <3>2 DEF ToSet
      <4>2. Bears(e)
        BY <4>1 DEF Placed, AnswersOK
      <4>3. QED
        BY <4>1, <4>2, IdsOf
    <3>4. e.id \in DOMAIN asked /\ e.node = asked[e.id]
      BY <3>3 DEF Placed, AnswersOK
    <3>5. PICK n \in DOMAIN e.node : x.leaf = e.node[n]
      BY <3>1, <3>2 DEF LeafAnswered
    <3>6. x.leaf = Leaf(e.id, n)
      BY <1>1, <3>4, <3>5, AskedIs
    <3>7. e.id = b
      BY <2>1, <3>6 DEF Leaf
    <3>8. QED
      BY <3>3, <3>7 DEF Open
  <2>3. PICK q : LeafUnder(q, x)
    BY <2>1, <2>2, LeavesHeldAre
  <2>4. q \in Held /\ \E i \in 1..K[q].size : x.leaf = Leaf(K[q].batch, K[q].from + i)
    BY <2>3, LeafUnderIs
  <2>5. PICK i \in 1..K[q].size : x.leaf = Leaf(K[q].batch, K[q].from + i)
    BY <2>4
  <2>6. K[q].batch = b
    BY <2>1, <2>5 DEF Leaf
  <2>7. QED
    BY <2>3, <2>4, <2>5, <2>6
<1>5. ASSUME NEW x \in ofBatch PROVE x.leaf \in ToSet(asked[b])
  <2>1. PICK q \in Held : K[q].batch = b /\ \E i \in 1..K[q].size : x.leaf = Leaf(b, K[q].from + i)
    BY <1>4
  <2>2. PICK i \in 1..K[q].size : x.leaf = Leaf(b, K[q].from + i)
    BY <2>1
  <2>3. /\ K[q].from \in Nat /\ K[q].size \in Nat /\ K[q].from + K[q].size <= Len(asked[b])
    BY <1>3, <2>1 DEF Blocks
  <2>4. K[q].from + i \in DOMAIN asked[b]
    BY <1>2, <2>3
  <2>5. x.leaf = asked[b][K[q].from + i]
    BY <1>2, <2>2, <2>4
  <2>6. QED
    BY <2>4, <2>5 DEF ToSet
<1>6. ASSUME NEW i \in DOMAIN asked[b] PROVE \E x \in ofBatch : x.leaf = asked[b][i]
  <2>1. PICK q \in Held : Covers(K[q], b, i)
    BY <1>2 DEF Kept, Tiles
  <2>2. /\ K[q] \in Blocks /\ K[q].batch = b /\ K[q].from < i /\ i <= K[q].from + K[q].size
        /\ K[q].from \in Nat /\ K[q].size \in Nat
    BY <1>3, <2>1 DEF Covers, Blocks
  <2>3. PICK p, a : Under(q, p, a)
    BY <1>1 DEF UnderOK
  <2>4. Stands(K[q], p)
    BY <1>1, <2>3 DEF UnderOK
  <2>5. PICK m : m = i - K[q].from
    OBVIOUS
  <2>6. m \in 1..K[q].size /\ K[q].from + m = i
    BY <1>2, <2>2, <2>5, SMTT(30)
  <2>7. \A l \in 1..K[q].size : \E j \in DOMAIN p : \E n \in DOMAIN p[j] :
          p[j][n] = Leaf(K[q].batch, K[q].from + l)
    BY <2>2, <2>4, StandsPlaces
  <2>8. PICK j \in DOMAIN p : \E n \in DOMAIN p[j] : p[j][n] = Leaf(K[q].batch, K[q].from + m)
    BY <2>6, <2>7
  <2>9. PICK n \in DOMAIN p[j] : p[j][n] = Leaf(b, i)
    BY <2>2, <2>6, <2>8
  <2>10. PICK x : x = LeafAt(p, a, j, n)
    OBVIOUS
  <2>11. LeafUnder(q, x)
    BY <2>3, <2>10 DEF LeafUnder
  <2>12. x.leaf = Leaf(b, i) /\ x.leaf[1] = b
    BY <2>9, <2>10 DEF LeafAt, Leaf
  <2>13. x \in LeavesHeld
    BY <2>11, LeavesHeldAre
  <2>14. QED
    BY <1>2, <2>12, <2>13
<1>7. ASSUME NEW x \in ofBatch, NEW y \in ofBatch, x.leaf = y.leaf
      PROVE  x = y
  <2>1. PICK q \in Held : /\ LeafUnder(q, x) /\ K[q].batch = b
                          /\ \E i \in 1..K[q].size : x.leaf = Leaf(b, K[q].from + i)
    BY <1>4
  <2>2. PICK r \in Held : /\ LeafUnder(r, y) /\ K[r].batch = b
                          /\ \E i \in 1..K[r].size : y.leaf = Leaf(b, K[r].from + i)
    BY <1>4
  <2>3. PICK i \in 1..K[q].size : x.leaf = Leaf(b, K[q].from + i)
    BY <2>1
  <2>4. PICK k \in 1..K[r].size : y.leaf = Leaf(b, K[r].from + k)
    BY <2>2
  <2>5. K[q].from + i = K[r].from + k
    <3>1. \A u, v : Leaf(b, u) = Leaf(b, v) => u = v
      BY DEF Leaf
    <3>2. Leaf(b, K[q].from + i) = Leaf(b, K[r].from + k)
      BY <1>7, <2>3, <2>4
    <3>3. QED
      BY <3>1, <3>2, Zenon
  <2>6. q = r
    <3>1. /\ K[q].from \in Nat /\ K[q].size \in Nat /\ K[r].from \in Nat /\ K[r].size \in Nat
      BY <1>3 DEF Blocks
    <3>2. ~Apart(K[q], K[r])
      BY <2>1, <2>2, <2>3, <2>4, <2>5, <3>1 DEF Apart
    <3>3. QED
      BY <3>2 DEF Kept, Tiles
  <2>7. PICK p, a :
          /\ Under(q, p, a)
          /\ \E j \in DOMAIN p : \E n \in DOMAIN p[j] : x = LeafAt(p, a, j, n)
    BY <2>1 DEF LeafUnder
  <2>8. PICK s, c :
          /\ Under(q, s, c)
          /\ \E j \in DOMAIN s : \E n \in DOMAIN s[j] : y = LeafAt(s, c, j, n)
    BY <2>2, <2>6 DEF LeafUnder
  <2>9. s = p /\ c = a
    BY <1>1, <2>7, <2>8 DEF UnderOK
  <2>10. PICK j \in DOMAIN p : \E n \in DOMAIN p[j] : x = LeafAt(p, a, j, n)
    BY <2>7
  <2>11. PICK n \in DOMAIN p[j] : x = LeafAt(p, a, j, n)
    BY <2>10
  <2>12. PICK l \in DOMAIN p : \E m \in DOMAIN p[l] : y = LeafAt(p, a, l, m)
    BY <2>8, <2>9
  <2>13. PICK m \in DOMAIN p[l] : y = LeafAt(p, a, l, m)
    BY <2>12
  <2>14. p[j][n] = p[l][m]
    BY <1>7, <2>11, <2>13 DEF LeafAt
  <2>15. Stands(K[q], p) /\ K[q] \in Blocks
    BY <1>1, <1>3, <2>7 DEF UnderOK
  <2>16. j = l /\ n = m
    <3>1. \A e, f \in DOMAIN p : \A g \in DOMAIN p[e], h \in DOMAIN p[f] :
            p[e][g] = p[f][h] => e = f /\ g = h
      BY <2>15, StandsPlaces
    <3>2. QED
      BY <2>14, <3>1
  <2>17. QED
    BY <2>11, <2>13, <2>16
<1>8. {x.leaf : x \in ofBatch} = ToSet(asked[b])
  <2>1. \A e \in ToSet(asked[b]) : \E i \in DOMAIN asked[b] : e = asked[b][i]
    BY DEF ToSet
  <2> HIDE DEF ofBatch
  <2>2. QED
    BY <1>5, <1>6, <2>1
<1> HIDE DEF ofBatch
<1>9. \A x, y \in ofBatch : x.leaf = y.leaf => x = y
  BY <1>7
<1>10. QED
  BY <1>8, <1>9 DEF ofBatch

\* A leaf of an answer is one of the batch that is answered, in its own place.
LEMMA LeafAnsweredIs ==
  ASSUME AskedOK, AnswersOK, NEW i \in DOMAIN recursive_proofs, NEW x, LeafAnswered(i, x)
  PROVE  LET b == recursive_proofs[i].id
         IN  /\ b \in DOMAIN asked \ DOMAIN given /\ b \in Ids(recursive_proofs)
             /\ recursive_proofs[i].node = asked[b]
             /\ \E n \in DOMAIN asked[b] :
                  x = [at |-> <<"recursive_proofs", Self, i, 1>>, nth |-> n, leaf |-> Leaf(b, n)]
<1>1. PICK e : e = recursive_proofs[i]
  OBVIOUS
<1>2. e \in ToSet(recursive_proofs) /\ e.id \in Ids(recursive_proofs)
  <2>1. e \in ToSet(recursive_proofs)
    BY <1>1 DEF ToSet
  <2>2. Bears(e)
    BY <2>1 DEF AnswersOK
  <2>3. QED
    BY <2>1, <2>2, IdsOf
<1>3. e.id \in DOMAIN asked \ DOMAIN given /\ e.node = asked[e.id]
  BY <1>2 DEF AnswersOK
<1>4. PICK n \in DOMAIN e.node :
        x = [at |-> <<"recursive_proofs", Self, i, 1>>, nth |-> n, leaf |-> e.node[n]]
  BY <1>1 DEF LeafAnswered
<1>5. e.node[n] = Leaf(e.id, n) /\ n \in DOMAIN asked[e.id]
  BY <1>3, <1>4, AskedIs
<1>6. QED
  BY <1>1, <1>2, <1>3, <1>4, <1>5

\* No leaf is left of a batch that is answered, and an answer that can be popped has
\* the leaves of its batch, each once.
LEMMA ClosedOnce ==
  ASSUME NEW K, Placed(K), Kept(K), PieceOK, NEW b \in DOMAIN asked \ Open
  PROVE  LET ofBatch == {x \in LeavesHeld : x.leaf[1] = b}
         IN  IF b \in DOMAIN given THEN ofBatch = {}
             ELSE /\ {x.leaf : x \in ofBatch} = ToSet(asked[b])
                  /\ \A x, y \in ofBatch : x.leaf = y.leaf => x = y
<1> DEFINE ofBatch == {x \in LeavesHeld : x.leaf[1] = b}
           AnswerLeaf(i, n) ==
             [at |-> <<"recursive_proofs", Self, i, 1>>, nth |-> n, leaf |-> Leaf(b, n)]
<1>1. AskedOK /\ AnswersOK /\ b \in DOMAIN asked
  BY DEF Placed
<1>2. \A i \in DOMAIN asked[b] : asked[b][i] = Leaf(b, i)
  BY <1>1, AskedIs
<1>3. ASSUME NEW x \in ofBatch
      PROVE  \E i \in DOMAIN recursive_proofs : \E n \in DOMAIN asked[b] :
               /\ recursive_proofs[i].id = b /\ b \notin DOMAIN given
               /\ x = AnswerLeaf(i, n)
  <2>1. x \in LeavesHeld /\ x.leaf[1] = b
    OBVIOUS
  <2>2. ASSUME NEW q, LeafUnder(q, x) PROVE FALSE
    <3>1. q \in Held /\ \E i \in 1..K[q].size : x.leaf = Leaf(K[q].batch, K[q].from + i)
      BY <2>2, LeafUnderIs
    <3>2. K[q].batch \in Open
      BY <3>1 DEF Kept, Tiles
    <3>3. K[q].batch = b
      BY <2>1, <3>1 DEF Leaf
    <3>4. QED
      BY <3>2, <3>3
  <2>3. PICK i \in DOMAIN recursive_proofs : LeafAnswered(i, x)
    BY <2>1, <2>2, LeavesHeldAre
  <2>4. PICK c : c = recursive_proofs[i].id
    OBVIOUS
  <2>5. c \notin DOMAIN given /\ \E n \in DOMAIN asked[c] :
          x = [at |-> <<"recursive_proofs", Self, i, 1>>, nth |-> n, leaf |-> Leaf(c, n)]
    BY <1>1, <2>3, <2>4, LeafAnsweredIs
  <2>6. c = b
    BY <2>1, <2>5 DEF Leaf
  <2>7. QED
    BY <2>4, <2>5, <2>6
<1>4. CASE b \in DOMAIN given
  <2>1. ofBatch = {}
    BY <1>3, <1>4
  <2>2. QED
    BY <1>4, <2>1
<1>5. CASE b \notin DOMAIN given
  <2>1. PICK i \in DOMAIN recursive_proofs : recursive_proofs[i].id = b
    BY <1>5 DEF Open, Ids
  <2>2. recursive_proofs[i].node = asked[b]
    <3>1. recursive_proofs[i] \in ToSet(recursive_proofs)
      BY DEF ToSet
    <3>2. QED
      BY <1>1, <2>1, <3>1 DEF AnswersOK
  <2>3. \A k \in DOMAIN recursive_proofs : recursive_proofs[k].id = b => k = i
    <3>1. \A k \in DOMAIN recursive_proofs : Bears(recursive_proofs[k])
      BY <1>1 DEF AnswersOK, ToSet
    <3>2. OnceEach(recursive_proofs)
      BY <1>1 DEF AnswersOK, Listed
    <3>3. QED
      BY <2>1, <3>1, <3>2 DEF OnceEach
  <2>4. ASSUME NEW n \in DOMAIN asked[b]
        PROVE  AnswerLeaf(i, n) \in ofBatch /\ AnswerLeaf(i, n).leaf = asked[b][n]
    <3>1. PICK x : x = AnswerLeaf(i, n)
      OBVIOUS
    <3>2. x.leaf = asked[b][n] /\ x.leaf[1] = b
      BY <1>2, <3>1 DEF Leaf
    <3>3. x = [at |-> <<"recursive_proofs", Self, i, 1>>, nth |-> n, leaf |-> asked[b][n]]
      BY <1>2, <3>1
    <3>4. LeafAnswered(i, x)
      BY <2>2, <3>3 DEF LeafAnswered
    <3>5. x \in LeavesHeld
      BY <3>4, LeavesHeldAre
    <3>6. QED
      BY <3>1, <3>2, <3>5
  <2>5. ASSUME NEW x \in ofBatch PROVE \E n \in DOMAIN asked[b] : x = AnswerLeaf(i, n)
    BY <1>3, <2>3
  <2>6. \A e : e \in ToSet(asked[b]) <=> \E n \in DOMAIN asked[b] : e = asked[b][n]
    BY DEF ToSet
  <2> HIDE DEF ofBatch
  <2>7. \A x \in ofBatch : x.leaf \in ToSet(asked[b])
    <3>1. SUFFICES ASSUME NEW x \in ofBatch PROVE x.leaf \in ToSet(asked[b])
      OBVIOUS
    <3>2. PICK n \in DOMAIN asked[b] : x = AnswerLeaf(i, n)
      BY <2>5
    <3>3. x.leaf = asked[b][n]
      BY <2>4, <3>2
    <3>4. QED
      BY <2>6, <3>3
  <2>8. \A e \in ToSet(asked[b]) : \E x \in ofBatch : x.leaf = e
    <3>1. SUFFICES ASSUME NEW e \in ToSet(asked[b]) PROVE \E x \in ofBatch : x.leaf = e
      OBVIOUS
    <3>2. PICK n \in DOMAIN asked[b] : e = asked[b][n]
      BY <2>6
    <3>3. PICK x : x = AnswerLeaf(i, n)
      OBVIOUS
    <3>4. x \in ofBatch /\ x.leaf = asked[b][n]
      BY <2>4, <3>3
    <3>5. QED
      BY <3>2, <3>4
  <2>9. \A x, y \in ofBatch : x.leaf = y.leaf => x = y
    <3>1. SUFFICES ASSUME NEW x \in ofBatch, NEW y \in ofBatch, x.leaf = y.leaf PROVE x = y
      OBVIOUS
    <3>2. PICK n \in DOMAIN asked[b] : x = AnswerLeaf(i, n)
      BY <2>5
    <3>3. PICK m \in DOMAIN asked[b] : y = AnswerLeaf(i, m)
      BY <2>5
    <3>4. Leaf(b, n) = Leaf(b, m)
      BY <3>1, <3>2, <3>3
    <3>5. n = m
      BY <3>4 DEF Leaf
    <3>6. QED
      BY <3>2, <3>3, <3>5
  <2>10. {x.leaf : x \in ofBatch} = ToSet(asked[b])
    BY <2>7, <2>8
  <2>11. QED
    BY <1>5, <2>9, <2>10 DEF ofBatch
<1>6. QED
  BY <1>4, <1>5

\* The members of a set can be told apart by their leaves, which are those of a list
\* without repetitions: there are as many as the list has.
ListedBy(S, s, n) ==
  /\ \A i, k \in 1..n : s[i] = s[k] => i = k
  /\ \A x \in S : \E i \in 1..n : x.leaf = s[i]
  /\ \A i \in 1..n : \E x \in S : x.leaf = s[i]
  /\ \A x, y \in S : x.leaf = y.leaf => x = y

LEMMA CountOnce ==
  ASSUME NEW S, NEW s, NEW n \in Nat, ListedBy(S, s, n)
  PROVE  Cardinality(S) = n
<1>0. /\ \A i, k \in 1..n : s[i] = s[k] => i = k
      /\ \A x \in S : \E i \in 1..n : x.leaf = s[i]
      /\ \A i \in 1..n : \E x \in S : x.leaf = s[i]
      /\ \A x, y \in S : x.leaf = y.leaf => x = y
  BY DEF ListedBy
<1>1. PICK f : f = [i \in 1..n |-> CHOOSE x \in S : x.leaf = s[i]]
  OBVIOUS
<1>2. \A i \in 1..n : f[i] \in S /\ f[i].leaf = s[i]
  BY <1>0, <1>1
<1>3. f \in [1..n -> S]
  BY <1>1, <1>2
<1>4. \A i, k \in 1..n : f[i] = f[k] => i = k
  BY <1>0, <1>2
<1>5. \A x \in S : \E i \in 1..n : f[i] = x
  BY <1>0, <1>2
<1>6. f \in Bijection(1..n, S)
  BY <1>3, <1>4, <1>5 DEF Bijection, Injection, Surjection, IsInjective
<1>7. IsFiniteSet(1..n) /\ Cardinality(1..n) = n
  BY FS_Interval
<1>8. QED
  BY <1>6, <1>7, FS_Bijection DEF ExistsBijection

LEMMA KeptOnce ==
  ASSUME NEW K, Placed(K), Kept(K), PieceOK
  PROVE  EveryLeafOnce
<1> DEFINE Of(b) == {x \in LeavesHeld : x.leaf[1] = b}
           Once(b) == IF b \in DOMAIN given THEN Of(b) = {}
                      ELSE /\ {x.leaf : x \in Of(b)} = ToSet(asked[b])
                           /\ Cardinality(Of(b)) = Len(asked[b])
<1>1. ASSUME NEW b \in DOMAIN asked \ dropped PROVE Once(b)
  <2>1. IF b \in DOMAIN given THEN Of(b) = {}
        ELSE /\ {x.leaf : x \in Of(b)} = ToSet(asked[b])
             /\ \A x, y \in Of(b) : x.leaf = y.leaf => x = y
    <3>1. CASE b \in Open
      <4>1. b \notin DOMAIN given
        BY <3>1 DEF Open
      <4>2. /\ {x.leaf : x \in Of(b)} = ToSet(asked[b])
            /\ \A x, y \in Of(b) : x.leaf = y.leaf => x = y
        BY <3>1, OpenOnce
      <4>3. QED
        BY <4>1, <4>2
    <3>2. CASE b \notin Open
      BY <3>2, ClosedOnce
    <3>3. QED
      BY <3>1, <3>2
  <2>2. PICK S : S = Of(b)
    OBVIOUS
  <2>3. CASE b \notin DOMAIN given
    <3>1. {x.leaf : x \in S} = ToSet(asked[b]) /\ \A x, y \in S : x.leaf = y.leaf => x = y
      BY <2>1, <2>2, <2>3
    <3>2. PICK s, n : s = asked[b] /\ n = Len(asked[b])
      OBVIOUS
    <3>3. n \in Nat /\ DOMAIN s = 1..n /\ \A i \in 1..n : s[i] = Leaf(b, i)
      BY <3>2, AskedIs DEF Placed
    <3>4. \A i, k \in 1..n : s[i] = s[k] => i = k
      BY <3>3 DEF Leaf
    <3>5. \A e : e \in ToSet(s) <=> \E i \in 1..n : e = s[i]
      BY <3>3 DEF ToSet
    <3>6. \A e : e \in ToSet(s) <=> \E x \in S : e = x.leaf
      <4>1. \A e : e \in {x.leaf : x \in S} <=> \E x \in S : e = x.leaf
        OBVIOUS
      <4>2. {x.leaf : x \in S} = ToSet(s)
        BY <3>1, <3>2
      <4>3. QED
        BY <4>1, <4>2, Zenon
    <3>7. Cardinality(S) = n
      <4>1. \A x \in S : \E i \in 1..n : x.leaf = s[i]
        BY <3>5, <3>6
      <4>2. \A i \in 1..n : \E x \in S : x.leaf = s[i]
        BY <3>5, <3>6
      <4>3. \A x, y \in S : x.leaf = y.leaf => x = y
        BY <3>1
      <4>4. ListedBy(S, s, n)
        BY <3>4, <4>1, <4>2, <4>3 DEF ListedBy
      <4>5. QED
        BY <3>3, <4>4, CountOnce
    <3>8. QED
      BY <2>2, <2>3, <3>1, <3>2, <3>7
  <2>4. QED
    BY <2>1, <2>3
<1>2. QED
  BY <1>1 DEF EveryLeafOnce

\* A piece is held only while a batch is split.
LEMMA PieceInvariant == Spec => []PieceOK
<1>1. Init => PieceOK
  BY DEF Init, PieceOK
<1>2. PieceOK /\ [Next]_vars => PieceOK'
  <2>1. SUFFICES ASSUME PieceOK, [Next]_vars PROVE PieceOK'
    OBVIOUS
  <2>2. CASE TakeBatch
    BY <2>2 DEF TakeBatch, PieceOK
  <2>3. CASE Split
    BY <2>3 DEF Split, PieceOK
  <2>4. CASE Send
    BY <2>4 DEF Send, PieceOK
  <2>5. ASSUME UNCHANGED piece, pc = "split" => pc' = "split" PROVE PieceOK'
    BY <2>1, <2>5 DEF PieceOK
  <2>6. CASE \/ InsertSubAggregator \/ (\E s \in Subs : RemoveSubAggregator(s))
             \/ (\E n \in Sizes : Push(n)) \/ Pop \/ SyncAll
    <3>1. UNCHANGED piece /\ pc = "idle"
      BY <2>6 DEF InsertSubAggregator, RemoveSubAggregator, Push, Pop, SyncAll, distribution
    <3>2. QED
      BY <2>5, <3>1
  <2>7. CASE \E s \in Subs : Work(s)
    <3>1. UNCHANGED <<piece, pc>>
      BY <2>7 DEF Work, distribution
    <3>2. QED
      BY <2>5, <3>1
  <2>8. CASE StartStep \/ FindAggregator \/ Reload \/ StopDistributing
    <3>1. UNCHANGED piece /\ pc # "split"
      BY <2>8 DEF StartStep, FindAggregator, Reload, StopDistributing
    <3>2. QED
      BY <2>5, <3>1
  <2>9. CASE Prove \/ Consolidate
    <3>1. UNCHANGED piece /\ pc # "split"
      BY <2>9 DEF Prove, VisitSubAggregator, PopSubProof, LeaveSubAggregator, CombineSubtrees,
                  StopCombining, Consolidate, distribution
    <3>2. QED
      BY <2>5, <3>1
  <2>10. CASE UNCHANGED vars
    <3>1. UNCHANGED <<piece, pc>>
      BY <2>10 DEF vars, distribution
    <3>2. QED
      BY <2>5, <3>1
  <2>11. QED
    BY <2>1, <2>2, <2>3, <2>4, <2>6, <2>7, <2>8, <2>9, <2>10 DEF Next, Distribute
<1>3. QED
  BY <1>1, <1>2, PTL DEF Spec

\* Whatever step splits, sends, receives in any order, combines and queues again, no
\* leaf proof of a batch is lost and none is proved twice: it is in one proof
\* somewhere, once, until the batch is answered, and then in none.
THEOREM EveryLeafOnceHolds == Spec => []EveryLeafOnce
<1>1. IInv /\ PieceOK => EveryLeafOnce
  BY KeptOnce DEF IInv
<1>2. QED
  BY <1>1, Invariant, PieceInvariant, PTL
=============================================================================
