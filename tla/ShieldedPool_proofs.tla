------------------------ MODULE ShieldedPool_proofs ------------------------
(***************************************************************************)
(* Proofs about ShieldedPool, for every value of its constants: the state  *)
(* keeps its shape, no resource is consumed twice, the tree holds no       *)
(* commitment twice, what is consumed was created, the clients rebuild the *)
(* tree of the pool, and the supply of either kind is conserved.           *)
(***************************************************************************)
EXTENDS ShieldedPool, SequenceLemmas

-----------------------------------------------------------------------------
(* The inductive invariant. *)

\* The quantity of the resource behind a tag is a number.
HasQuantity(tag) == ResourceOf(tag).quantity \in Nat

\* What build() guarantees of a transaction: it consumes something; a consumed
\* tag is the nullifier of a resource that is ephemeral or in the tree whose
\* root comes with it; all resources have quantities; the i-th created tag is the commitment of a resource
\* whose nonce is derived from i and from all the nullifiers; and the logic
\* instances carry the consumed tags, then the created ones, in order.
IsNullifier(tag) == tag = Nullifier(ResourceOf(tag))

ConsumesSomething(t) ==
  /\ IsSeq(t.nullifiers)
  /\ Len(t.nullifiers) \in 1..MaxConsumed
  /\ IsSeq(t.roots)
  /\ Len(t.roots) = Len(t.nullifiers)
  /\ \A i \in 1..Len(t.nullifiers) :
       IsNullifier(t.nullifiers[i]) /\ HasQuantity(t.nullifiers[i])

LeavesOf(root) == root[2]

HasPath(nf, root) ==
  \/ ResourceOf(nf).is_ephemeral
  \/ Commitment(ResourceOf(nf)) \in ToSet(LeavesOf(root))

HasPaths(t) ==
  \A i \in 1..Len(t.nullifiers) : HasPath(t.nullifiers[i], t.roots[i])

IsCommitment(tag) == tag = Commitment(ResourceOf(tag))

BoundNonces(t) ==
  /\ IsSeq(t.commitments)
  /\ Len(t.commitments) \in 0..MaxCreated
  /\ \A i \in 1..Len(t.commitments) :
       /\ IsCommitment(t.commitments[i])
       /\ HasQuantity(t.commitments[i])
       /\ ResourceOf(t.commitments[i]).nonce = DeriveNonce(i, t.nullifiers)

ConsumedFirst(t) ==
  /\ IsSeq(t.logic_instances)
  /\ Len(t.logic_instances) = Len(t.nullifiers) + Len(t.commitments)
  /\ \A k \in 1..Len(t.logic_instances) :
       t.logic_instances[k] =
         IF k <= Len(t.nullifiers)
         THEN [tag |-> t.nullifiers[k], is_consumed |-> TRUE]
         ELSE [tag |-> t.commitments[k - Len(t.nullifiers)], is_consumed |-> FALSE]

WellBuilt(t) ==
  /\ ConsumesSomething(t)
  /\ HasPaths(t)
  /\ BoundNonces(t)
  /\ ConsumedFirst(t)

BuiltOK == \A t \in built : WellBuilt(t)

\* What the accepted transactions consumed is nullified.
AcceptedNullified ==
  \A i \in 1..Len(transactions) : ToSet(transactions[i].nullifiers) \subseteq nullifiers

\* Every commitment in the tree is bound to nullifiers that are spent.
BoundToSpent ==
  \A j \in 1..Len(commitments) :
    LET nonce == ResourceOf(commitments[j]).nonce
    IN  /\ IsCommitment(commitments[j])
        /\ HasQuantity(commitments[j])
        /\ nonce.nullifiers # <<>>
        /\ nonce.nullifiers[1] \in nullifiers

\* While the last loop of submit runs: the nullifiers it passed are inserted and
\* no accepted transaction consumed them; the commitments it has still to push
\* are not in the tree; its roots are anchors; it is balanced and consumes
\* nothing twice.
Passed == {tx.nullifiers[k] : k \in {i \in 1..Len(tx.nullifiers) : i < at}}

LoopOK ==
  pc = "apply" =>
    /\ tx \in built
    /\ at <= Len(tx.logic_instances) + 1
    /\ ToSet(tx.roots) \subseteq anchors
    /\ Balanced(tx)
    /\ IsInjective(tx.nullifiers)
    /\ Passed \cap ToSet(ConsumedTags) = {}
    /\ Passed \subseteq nullifiers
    /\ \A i \in 1..Len(transactions) :
         Passed \cap ToSet(transactions[i].nullifiers) = {}
    /\ at > 1 => \A k \in 1..Len(tx.commitments) :
         at <= k + Len(tx.nullifiers) => tx.commitments[k] \notin ToSet(commitments)

\* The tree has the commitments of the recorded transactions, then those that
\* the last loop of submit pushed so far.
Pushed == IF pc = "apply" /\ at > Len(tx.nullifiers) THEN at - Len(tx.nullifiers) - 1 ELSE 0

TreeIsRecorded ==
  /\ Len(commitments) = Len(RecordedTags) + Pushed
  /\ \A i \in 1..Len(RecordedTags) : commitments[i] = RecordedTags[i]
  /\ \A i \in 1..Pushed : commitments[Len(RecordedTags) + i] = tx.commitments[i]

\* The anchors are roots of recorded trees, the last one among them.
AnchorsRecorded ==
  /\ Root(RecordedTags) \in anchors
  /\ \A root \in anchors : ToSet(LeavesOf(root)) \subseteq ToSet(RecordedTags)

\* The books of the recorded transactions: what they consumed is nullified and
\* was recorded before, and of every kind they balance.
BooksOK ==
  /\ IsSeq(RecordedTags) /\ IsSeq(ConsumedTags)
  /\ ToSet(ConsumedTags) \subseteq nullifiers
  /\ \A nf \in ToSet(ConsumedTags) :
       /\ HasQuantity(nf)
       /\ IsEphemeral(nf) \/ Commitment(ResourceOf(nf)) \in ToSet(RecordedTags)
  /\ \A k \in Kinds :
       Unspent(RecordedTags, ToSet(ConsumedTags), k)
         = Transparent(ConsumedTags, k) - Transparent(RecordedTags, k)

IInv ==
  /\ TypeOK
  /\ BuiltOK
  /\ TreeIsRecorded
  /\ AnchorsRecorded
  /\ BooksOK
  /\ AcceptedNullified
  /\ BoundToSpent
  /\ LoopOK
  /\ NoDoubleSpend
  /\ CommitmentsUnique
  /\ SpentNotesExist

-----------------------------------------------------------------------------
(* The sums that SupplyConserved speaks of, for tags from a set S. *)

Counted(S) == \A tag \in S : HasQuantity(tag)

QuantityV(S, k) == [tag \in S |-> Amount(tag, k)]
NoteV(S, k) == [tag \in S |-> IF IsEphemeral(tag) THEN 0 ELSE Amount(tag, k)]
TransparentV(S, k) == [tag \in S |-> IF IsEphemeral(tag) THEN Amount(tag, k) ELSE 0]
UnspentV(S, spent, k) ==
  [tag \in S |-> IF IsUnspentNote(tag, spent) THEN Amount(tag, k) ELSE 0]

LEMMA AmountInt ==
  ASSUME NEW tag, HasQuantity(tag), NEW k
  PROVE  Amount(tag, k) \in Int
BY DEF HasQuantity, Amount

LEMMA ValueTypes ==
  ASSUME NEW S, Counted(S), NEW spent, NEW k
  PROVE  /\ QuantityV(S, k) \in [S -> Int]
         /\ NoteV(S, k) \in [S -> Int]
         /\ TransparentV(S, k) \in [S -> Int]
         /\ UnspentV(S, spent, k) \in [S -> Int]
<1>1. \A tag \in S : Amount(tag, k) \in Int
  BY AmountInt DEF Counted
<1>2. QED
  BY <1>1 DEF QuantityV, NoteV, TransparentV, UnspentV

LEMMA SumsAreValues ==
  ASSUME NEW S, NEW tags \in Seq(S), NEW spent, NEW k
  PROVE  /\ QuantityOf(tags, k) = Worth(tags, QuantityV(S, k))
         /\ Transparent(tags, k) = Worth(tags, TransparentV(S, k))
         /\ Unspent(tags, spent, k) = Worth(tags, UnspentV(S, spent, k))
<1>1. \A i \in DOMAIN tags : tags[i] \in S
  BY ElementOfSeq, LenProperties
<1>2. [i \in DOMAIN tags |-> Amount(tags[i], k)] = [i \in DOMAIN tags |-> QuantityV(S, k)[tags[i]]]
  BY <1>1 DEF QuantityV
<1>3. [i \in DOMAIN tags |-> IF IsEphemeral(tags[i]) THEN Amount(tags[i], k) ELSE 0]
        = [i \in DOMAIN tags |-> TransparentV(S, k)[tags[i]]]
  BY <1>1 DEF TransparentV
<1>4. [i \in DOMAIN tags |-> IF IsUnspentNote(tags[i], spent) THEN Amount(tags[i], k) ELSE 0]
        = [i \in DOMAIN tags |-> UnspentV(S, spent, k)[tags[i]]]
  BY <1>1 DEF UnspentV
<1>5. QED
  BY <1>2, <1>3, <1>4, Zenon DEF QuantityOf, Transparent, Unspent, Worth

\* What a sequence of tags holds is what its notes and its ephemeral resources do.
LEMMA NotesAndTransparent ==
  ASSUME NEW S, Counted(S), NEW tags \in Seq(S), NEW k
  PROVE  /\ QuantityOf(tags, k) = Worth(tags, NoteV(S, k)) + Transparent(tags, k)
         /\ Worth(tags, NoteV(S, k)) \in Int /\ Transparent(tags, k) \in Int
<1> DEFINE u == QuantityV(S, k)
           v == NoteV(S, k)
           w == TransparentV(S, k)
<1>1. u \in [S -> Int] /\ v \in [S -> Int] /\ w \in [S -> Int]
  BY ValueTypes
<1>2. \A tag \in S : u[tag] = v[tag] + w[tag]
  <2>1. \A tag \in S : Amount(tag, k) \in Int
    BY AmountInt DEF Counted
  <2>2. QED
    BY <2>1 DEF QuantityV, NoteV, TransparentV
<1>3. QuantityOf(tags, k) = Worth(tags, u) /\ Transparent(tags, k) = Worth(tags, w)
  BY SumsAreValues
<1> HIDE DEF u, v, w
<1>4. Worth(tags, u) = Worth(tags, v) + Worth(tags, w)
  <2>1. WorthsAdd(S, u, v, w)
    BY <1>1, <1>2, Zenon DEF WorthsAdd
  <2>2. QED
    BY <2>1, WorthPlus
<1>5. Worth(tags, v) \in Int /\ Worth(tags, w) \in Int
  BY <1>1, WorthsAreNumbers
<1>6. QED
  BY <1>3, <1>4, <1>5 DEF v

\* A resource that is consumed is one note less, or none if it is ephemeral.
LEMMA SpendOne ==
  ASSUME NEW S, Counted(S), NEW tags \in Seq(S), Distinct(tags), NEW spent, NEW k,
         \A tag \in ToSet(tags) : IsCommitment(tag),
         NEW nf \in S, nf = Nullifier(ResourceOf(nf)), nf \notin spent,
         IsEphemeral(nf) \/ Commitment(ResourceOf(nf)) \in ToSet(tags)
  PROVE  Unspent(tags, spent, k)
           = Unspent(tags, spent \cup {nf}, k) + NoteV(S, k)[nf]
<1> DEFINE cm == Commitment(ResourceOf(nf))
           T == ToSet(tags)
           a == NoteV(S, k)[nf]
           d == [tag \in T |-> IF tag = cm THEN a ELSE 0]
           u == UnspentV(T, spent, k)
           w == UnspentV(T, spent \cup {nf}, k)
<1>1. tags \in Seq(T) /\ T \subseteq S
  BY SeqIsSeq, ElementOfSeq DEF IsSeq
<1>2. Counted(T)
  BY <1>1 DEF Counted
<1>3. a \in Int
  <2>1. NoteV(S, k) \in [S -> Int]
    BY ValueTypes
  <2>2. QED
    BY <2>1
<1>4. u \in [T -> Int] /\ w \in [T -> Int]
  BY <1>2, ValueTypes
<1>5. d \in [T -> Int]
  BY <1>3
<1>6. ResourceOf(cm) = ResourceOf(nf)
  BY DEF Commitment, ResourceOf
<1>7. \A tag \in T : u[tag] = w[tag] + d[tag]
  <2> SUFFICES ASSUME NEW tag \in T PROVE u[tag] = w[tag] + d[tag]
    OBVIOUS
  <2>1. u[tag] \in Int /\ w[tag] \in Int
    BY <1>4
  <2>2. CASE tag = cm /\ ~IsEphemeral(nf)
    <3>1. IsUnspentNote(tag, spent) /\ ~IsUnspentNote(tag, spent \cup {nf})
      BY <1>6, <2>2 DEF IsUnspentNote, IsEphemeral
    <3>2. u[tag] = Amount(tag, k) /\ w[tag] = 0
      BY <3>1 DEF UnspentV
    <3>3. d[tag] = Amount(tag, k)
      BY <2>2, <1>6 DEF NoteV, Amount
    <3>4. QED
      BY <2>1, <3>2, <3>3
  <2>3. CASE ~(tag = cm /\ ~IsEphemeral(nf))
    <3>1. d[tag] = 0
      BY <2>3 DEF NoteV
    <3>2. IsUnspentNote(tag, spent) <=> IsUnspentNote(tag, spent \cup {nf})
      <4>1. SUFFICES ASSUME ~IsEphemeral(tag), Nullifier(ResourceOf(tag)) = nf PROVE FALSE
        BY DEF IsUnspentNote
      <4>2. ResourceOf(tag) = ResourceOf(nf)
        BY <4>1 DEF Nullifier, ResourceOf
      <4>3. tag = cm /\ ~IsEphemeral(nf)
        BY <4>1, <4>2 DEF IsCommitment, IsEphemeral
      <4>4. QED
        BY <2>3, <4>3
    <3>3. u[tag] = w[tag]
      BY <3>2 DEF UnspentV
    <3>4. QED
      BY <2>1, <3>1, <3>3
  <2>4. QED
    BY <2>2, <2>3
<1>8. \A x \in T : x # cm => d[x] = 0
  OBVIOUS
<1>9. cm \in T => d[cm] = a
  OBVIOUS
<1>10. cm \notin T => a = 0
  BY DEF NoteV
<1>11. /\ Unspent(tags, spent, k) = Worth(tags, u)
       /\ Unspent(tags, spent \cup {nf}, k) = Worth(tags, w)
  BY <1>1, SumsAreValues
<1> HIDE DEF u, w, d, a, cm, T
<1>12. Worth(tags, u) = Worth(tags, w) + Worth(tags, d)
  <2>1. WorthsAdd(T, u, w, d)
    BY <1>4, <1>5, <1>7, Zenon DEF WorthsAdd
  <2>2. QED
    BY <1>1, <2>1, WorthPlus
<1>13. Worth(tags, d) = IF cm \in T THEN d[cm] ELSE 0
  BY <1>1, <1>5, <1>8, WorthAt DEF T
<1>14. QED
  BY <1>9, <1>10, <1>11, <1>12, <1>13 DEF a

\* The commitments that the resources nfs consumes have in tags.
Consumable(nfs, tags, spent) ==
  \A i \in 1..Len(nfs) :
    /\ nfs[i] = Nullifier(ResourceOf(nfs[i]))
    /\ nfs[i] \notin spent
    /\ IsEphemeral(nfs[i]) \/ Commitment(ResourceOf(nfs[i])) \in ToSet(tags)

LEMMA SpendAll ==
  ASSUME NEW S, Counted(S), NEW tags \in Seq(S), Distinct(tags), NEW spent, NEW k,
         \A tag \in ToSet(tags) : IsCommitment(tag),
         NEW nfs \in Seq(S), Distinct(nfs), Consumable(nfs, tags, spent)
  PROVE  Unspent(tags, spent, k)
           = Unspent(tags, spent \cup ToSet(nfs), k) + Worth(nfs, NoteV(S, k))
<1> DEFINE m == Len(nfs)
           First(n) == {nfs[i] : i \in 1..n}
           v == NoteV(S, k)
           F == Worths(nfs, v)
           U(n) == Unspent(tags, spent \cup First(n), k)
           T == {n \in Nat : n <= m => U(0) = U(n) + Partial(F)[n]}
<1>1. /\ m \in Nat /\ v \in [S -> Int] /\ ToSet(nfs) = {nfs[i] : i \in 1..m}
      /\ \A i \in 1..m : nfs[i] \in S
  <2>1. v \in [S -> Int]
    BY ValueTypes
  <2>2. m \in Nat /\ ToSet(nfs) = {nfs[i] : i \in 1..m} /\ \A i \in 1..m : nfs[i] \in S
    BY LenProperties, SeqIsSeq, ElementOfSeq
  <2>3. QED
    BY <2>1, <2>2
<1>2. /\ IsNumbers(F) /\ Len(F) = m /\ \A i \in 1..m : F[i] = v[nfs[i]]
      /\ Worth(nfs, v) = Total(F)
  BY <1>1, WorthsAreNumbers
<1>3. /\ Partial(F)[0] = 0 /\ Total(F) = Partial(F)[m]
      /\ \A i \in 1..m : Partial(F)[i] = Partial(F)[i - 1] + F[i]
  BY <1>1, <1>2, PartialDef
<1>4. \A i \in 0..m : Partial(F)[i] \in Int
  BY <1>2, PartialInt
<1>5. ASSUME NEW n \in Nat PROVE U(n) \in Int
  <2> DEFINE w == UnspentV(S, spent \cup First(n), k)
  <2>1. w \in [S -> Int] /\ U(n) = Worth(tags, w)
    BY ValueTypes, SumsAreValues
  <2> HIDE DEF w, U
  <2>2. QED
    BY <2>1, WorthsAreNumbers
<1>6. First(0) = {} /\ First(m) = ToSet(nfs)
  BY <1>1
<1>7. ASSUME NEW n \in Nat, n + 1 \in 1..m
      PROVE  U(n) = U(n + 1) + v[nfs[n + 1]]
  <2>1. First(n + 1) = First(n) \cup {nfs[n + 1]}
    <3>1. \A i \in 1..(n + 1) : i \in 1..n \/ i = n + 1
      OBVIOUS
    <3>2. (\A i \in 1..n : i \in 1..(n + 1)) /\ n + 1 \in 1..(n + 1)
      OBVIOUS
    <3>3. QED
      BY <3>1, <3>2
  <2>2. nfs[n + 1] \notin First(n)
    <3>1. \A i \in 1..n : i \in 1..m /\ i # n + 1
      BY <1>1, <1>7
    <3>2. QED
      BY <1>7, <3>1 DEF Distinct
  <2> DEFINE e == nfs[n + 1]
             X == spent \cup First(n)
  <2>3. /\ e \in S /\ e = Nullifier(ResourceOf(e)) /\ e \notin X
        /\ IsEphemeral(e) \/ Commitment(ResourceOf(e)) \in ToSet(tags)
    BY <1>1, <1>7, <2>2 DEF Consumable
  <2>4. spent \cup First(n + 1) = X \cup {e}
    BY <2>1
  <2> HIDE DEF e, X
  <2>5. Unspent(tags, X, k) = Unspent(tags, X \cup {e}, k) + NoteV(S, k)[e]
    BY <2>3, SpendOne
  <2>6. QED
    BY <2>4, <2>5 DEF e, X
<1> HIDE DEF v, F, U
<1>8. 0 \in T
  <2>1. U(0) \in Int
    BY <1>5
  <2>2. QED
    BY <1>3, <2>1
<1>9. ASSUME NEW n \in Nat, n \in T PROVE n + 1 \in T
  <2>1. SUFFICES ASSUME n + 1 <= m PROVE U(0) = U(n + 1) + Partial(F)[n + 1]
    OBVIOUS
  <2>2. n + 1 \in 1..m /\ (n + 1) - 1 = n /\ n \in 0..m
    BY <1>1, <2>1
  <2>3. U(0) = U(n) + Partial(F)[n]
    BY <1>9, <2>2
  <2>4. U(n) = U(n + 1) + v[nfs[n + 1]]
    BY <1>7, <2>2
  <2>5. Partial(F)[n + 1] = Partial(F)[n] + v[nfs[n + 1]]
    BY <1>2, <1>3, <2>2
  <2>6. /\ U(0) \in Int /\ U(n) \in Int /\ U(n + 1) \in Int /\ Partial(F)[n] \in Int
        /\ v[nfs[n + 1]] \in Int
    BY <1>1, <1>4, <1>5, <2>2
  <2>7. QED
    BY <2>3, <2>4, <2>5, <2>6
<1>10. m \in T
  <2> HIDE DEF T
  <2>1. QED
    BY <1>1, <1>8, <1>9, Induction
<1>11. U(0) = U(m) + Partial(F)[m]
  BY <1>1, <1>10
<1>12. U(0) = Unspent(tags, spent, k)
  BY <1>6 DEF U
<1>13. U(m) = Unspent(tags, spent \cup ToSet(nfs), k)
  BY <1>6 DEF U
<1>14. QED
  BY <1>2, <1>3, <1>11, <1>12, <1>13 DEF v

\* Notes none of which is spent.
LEMMA NoneSpent ==
  ASSUME NEW S, NEW tags \in Seq(S), NEW spent, NEW k,
         \A tag \in ToSet(tags) : IsEphemeral(tag) \/ Nullifier(ResourceOf(tag)) \notin spent
  PROVE  Unspent(tags, spent, k) = Worth(tags, NoteV(S, k))
<1>1. (\A i \in 1..Len(tags) : tags[i] \in S) /\ ToSet(tags) = {tags[i] : i \in 1..Len(tags)}
  BY ElementOfSeq, SeqIsSeq
<1>2. \A i \in 1..Len(tags) : UnspentV(S, spent, k)[tags[i]] = NoteV(S, k)[tags[i]]
  BY <1>1 DEF UnspentV, NoteV, IsUnspentNote
<1>3. Worth(tags, UnspentV(S, spent, k)) = Worth(tags, NoteV(S, k))
  BY <1>2, WorthSame
<1>4. QED
  BY <1>3, SumsAreValues

\* Recording a balanced transaction that consumes nfs and creates cms keeps the
\* books of kind k in balance.
LEMMA SupplyStays ==
  ASSUME NEW S, Counted(S), NEW k,
         NEW tags \in Seq(S), NEW gone \in Seq(S), NEW nfs \in Seq(S), NEW cms \in Seq(S),
         Distinct(tags), \A tag \in ToSet(tags) : IsCommitment(tag),
         Distinct(nfs), Consumable(nfs, tags, ToSet(gone)),
         \A tag \in ToSet(cms) : IsEphemeral(tag)
           \/ Nullifier(ResourceOf(tag)) \notin ToSet(gone) \cup ToSet(nfs),
         QuantityOf(nfs, k) = QuantityOf(cms, k),
         Unspent(tags, ToSet(gone), k) = Transparent(gone, k) - Transparent(tags, k)
  PROVE  Unspent(tags \o cms, ToSet(gone \o nfs), k)
           = Transparent(gone \o nfs, k) - Transparent(tags \o cms, k)
<1> DEFINE X == ToSet(gone) \cup ToSet(nfs)
           noteN == Worth(nfs, NoteV(S, k))
           noteC == Worth(cms, NoteV(S, k))
<1>1. ToSet(gone \o nfs) = X
  BY SeqIsSeq, ConcatToSet
<1>2. /\ tags \o cms \in Seq(S) /\ gone \o nfs \in Seq(S)
      /\ Transparent(gone \o nfs, k) = Transparent(gone, k) + Transparent(nfs, k)
      /\ Transparent(tags \o cms, k) = Transparent(tags, k) + Transparent(cms, k)
      /\ Unspent(tags \o cms, X, k) = Unspent(tags, X, k) + Unspent(cms, X, k)
  <2> DEFINE u == TransparentV(S, k)
             w == UnspentV(S, X, k)
  <2>1. u \in [S -> Int] /\ w \in [S -> Int]
    BY ValueTypes
  <2>2. \A s \in Seq(S) : Transparent(s, k) = Worth(s, u) /\ Unspent(s, X, k) = Worth(s, w)
    BY SumsAreValues
  <2> HIDE DEF u, w, X
  <2>3. /\ tags \o cms \in Seq(S) /\ gone \o nfs \in Seq(S)
        /\ Worth(gone \o nfs, u) = Worth(gone, u) + Worth(nfs, u)
        /\ Worth(tags \o cms, u) = Worth(tags, u) + Worth(cms, u)
        /\ Worth(tags \o cms, w) = Worth(tags, w) + Worth(cms, w)
    BY <2>1, WorthConcat
  <2>4. QED
    BY <2>2, <2>3
<1>3. Unspent(tags, ToSet(gone), k) = Unspent(tags, X, k) + noteN
  BY SpendAll
<1>4. Unspent(cms, X, k) = noteC
  BY NoneSpent
<1>5. /\ QuantityOf(nfs, k) = noteN + Transparent(nfs, k)
      /\ QuantityOf(cms, k) = noteC + Transparent(cms, k)
      /\ noteN \in Int /\ noteC \in Int
      /\ \A s \in {tags, gone, nfs, cms} : Transparent(s, k) \in Int
  BY NotesAndTransparent
<1>6. Unspent(tags, X, k) \in Int
  <2> DEFINE w == UnspentV(S, X, k)
  <2>1. w \in [S -> Int] /\ Unspent(tags, X, k) = Worth(tags, w)
    BY ValueTypes, SumsAreValues
  <2> HIDE DEF w, X
  <2>2. QED
    BY <2>1, WorthsAreNumbers
<1> DEFINE p == Unspent(tags, X, k)
           bt == Transparent(tags, k)
           bg == Transparent(gone, k)
           bn == Transparent(nfs, k)
           bc == Transparent(cms, k)
<1>7. p + noteN = bg - bt /\ noteN + bn = noteC + bc
  BY <1>3, <1>5, Zenon
<1>8. p \in Int /\ bt \in Int /\ bg \in Int /\ bn \in Int /\ bc \in Int /\ noteN \in Int /\ noteC \in Int
  BY <1>5, <1>6, Zenon
<1>9. p + noteC = (bg + bn) - (bt + bc)
  <2> HIDE DEF p, bt, bg, bn, bc, noteN, noteC
  <2>1. QED
    BY <1>7, <1>8
<1>10. QED
  BY <1>1, <1>2, <1>4, <1>9, Zenon

-----------------------------------------------------------------------------
(* What clients build. *)

LEMMA TransactionWellBuilt ==
  ASSUME NEW view, NEW ins, NEW outs, NEW n \in 1..MaxConsumed, NEW m \in 0..MaxCreated,
         NEW S, ins \in [1..n -> S], outs \in [1..m -> Outputs],
         \A i \in 1..n : \/ ins[i] \in TransparentInputs
                        \/ \E cm \in ToSet(view) : /\ IsCommitment(cm) /\ HasQuantity(cm)
                                                  /\ ins[i] = ShieldedInput(cm, view)
  PROVE  WellBuilt(Transaction(ins, outs))
<1> DEFINE t == Transaction(ins, outs)
<1>0. n \in Nat /\ m \in Nat /\ n \in 1..MaxConsumed
  BY ResourcesAssumption DEF ResourcesAssumption
<1>1. Len(ins) = n /\ Len(outs) = m
  BY <1>0, FunctionIsSeq
<1>2. /\ t.nullifiers = [i \in 1..n |-> Nullifier(ins[i].resource)]
      /\ t.roots = [i \in 1..n |-> ins[i].root]
      /\ t.commitments = [i \in 1..m |-> Commitment(WithNonce(outs[i], DeriveNonce(i, t.nullifiers)))]
      /\ t.logic_instances = LogicInstances(t.nullifiers, t.commitments)
  BY <1>1 DEF Transaction, CreatedTags
<1> HIDE DEF t
<1>3. IsSeq(t.nullifiers) /\ Len(t.nullifiers) = n /\ DOMAIN t.nullifiers = 1..n
  <2>1. t.nullifiers \in [1..n -> ToSet(t.nullifiers)]
    BY <1>2 DEF ToSet
  <2>2. QED
    BY <1>0, <2>1, FunctionIsSeq, SeqIsSeq
<1>4. IsSeq(t.roots) /\ Len(t.roots) = n
  <2>1. t.roots \in [1..n -> ToSet(t.roots)]
    BY <1>2 DEF ToSet
  <2>2. QED
    BY <1>0, <2>1, FunctionIsSeq, SeqIsSeq
<1>5. IsSeq(t.commitments) /\ Len(t.commitments) = m
  <2>1. t.commitments \in [1..m -> ToSet(t.commitments)]
    BY <1>2 DEF ToSet
  <2>2. QED
    BY <1>0, <2>1, FunctionIsSeq, SeqIsSeq
<1>6. ConsumesSomething(t)
  <2>1. ASSUME NEW i \in 1..n PROVE IsNullifier(t.nullifiers[i]) /\ HasQuantity(t.nullifiers[i])
    <3>1. /\ t.nullifiers[i] = Nullifier(ins[i].resource)
          /\ ResourceOf(t.nullifiers[i]) = ins[i].resource
      BY <1>2 DEF Nullifier, ResourceOf
    <3>2. CASE ins[i] \in TransparentInputs
      BY <3>1, <3>2, ResourcesAssumption
      DEF HasQuantity, IsNullifier, TransparentInputs, TransparentInput, ResourcesAssumption
    <3>3. CASE \E cm \in ToSet(view) : HasQuantity(cm) /\ ins[i] = ShieldedInput(cm, view)
      BY <3>1, <3>3 DEF HasQuantity, IsNullifier, ShieldedInput
    <3>4. QED
      BY <3>2, <3>3
  <2>2. QED
    BY <1>0, <1>3, <1>4, <2>1 DEF ConsumesSomething
<1>7. HasPaths(t)
  <2>1. SUFFICES ASSUME NEW i \in 1..n
                 PROVE  HasPath(t.nullifiers[i], t.roots[i])
    BY <1>3 DEF HasPaths
  <2>2. /\ t.nullifiers[i] = Nullifier(ins[i].resource)
        /\ t.roots[i] = ins[i].root
        /\ ResourceOf(t.nullifiers[i]) = ins[i].resource
    BY <1>2 DEF Nullifier, ResourceOf
  <2>3. CASE ins[i] \in TransparentInputs
    BY <2>2, <2>3 DEF HasPath, TransparentInputs, TransparentInput
  <2>4. CASE \E cm \in ToSet(view) : IsCommitment(cm) /\ ins[i] = ShieldedInput(cm, view)
    BY <2>2, <2>4 DEF HasPath, ShieldedInput, IsCommitment, LeavesOf, Root
  <2>5. QED
    BY <2>3, <2>4
<1>8. BoundNonces(t)
  <2>1. SUFFICES ASSUME NEW i \in 1..m
                 PROVE  /\ IsCommitment(t.commitments[i])
                        /\ HasQuantity(t.commitments[i])
                        /\ ResourceOf(t.commitments[i]).nonce = DeriveNonce(i, t.nullifiers)
    BY <1>5 DEF BoundNonces
  <2>2. outs[i].quantity \in Nat
    BY ResourcesAssumption DEF Outputs, ResourcesAssumption
  <2>3. QED
    BY <1>2, <2>2 DEF IsCommitment, HasQuantity, Commitment, ResourceOf, WithNonce
<1>9. ConsumedFirst(t)
  <2> DEFINE c == ConsumedInstances(t.nullifiers)
             d == CreatedInstances(t.commitments)
             T == [tag : ToSet(t.nullifiers) \cup ToSet(t.commitments), is_consumed : BOOLEAN]
  <2> HIDE DEF c, d, T
  <2>1. c \in Seq(T) /\ Len(c) = n
    <3>1. c \in [1..n -> T]
      BY <1>3 DEF c, T, ConsumedInstances, ToSet
    <3>2. QED
      BY <3>1, <1>0, FunctionIsSeq
  <2>2. d \in Seq(T) /\ Len(d) = m
    <3>1. d \in [1..m -> T]
      BY <1>2, <1>5 DEF d, T, CreatedInstances, ToSet
    <3>2. QED
      BY <3>1, <1>0, FunctionIsSeq
  <2>3. /\ c \o d \in Seq(T)
        /\ Len(c \o d) = n + m
        /\ \A k \in 1..(n + m) : (c \o d)[k] = IF k <= n THEN c[k] ELSE d[k - n]
    BY <2>1, <2>2, ConcatProperties
  <2>4. t.logic_instances = c \o d
    BY <1>2 DEF LogicInstances, c, d
  <2>5. IsSeq(c \o d)
    BY <2>3, SeqIsSeq
  <2>6. ASSUME NEW k \in 1..(n + m)
        PROVE  (c \o d)[k] = IF k <= n
                             THEN [tag |-> t.nullifiers[k], is_consumed |-> TRUE]
                             ELSE [tag |-> t.commitments[k - n], is_consumed |-> FALSE]
    <3>1. CASE k <= n
      BY <3>1, <2>3, <1>0, <1>3 DEF c, ConsumedInstances
    <3>2. CASE ~(k <= n)
      <4>1. k - n \in 1..m
        BY <3>2, <1>0
      <4>2. QED
        BY <3>2, <4>1, <2>3, <1>5 DEF d, CreatedInstances
    <3>3. QED
      BY <3>1, <3>2
  <2>7. QED
    BY <2>3, <2>4, <2>5, <2>6, <1>3, <1>5 DEF ConsumedFirst
<1>10. QED
  BY <1>6, <1>7, <1>8, <1>9 DEF WellBuilt, t

\* How many instances a transaction can have, and where they are.
LEMMA InstanceCount ==
  ASSUME NEW t, WellBuilt(t)
  PROVE  /\ Len(t.nullifiers) \in Nat \ {0}
         /\ Len(t.commitments) \in Nat
         /\ Len(t.logic_instances) = Len(t.nullifiers) + Len(t.commitments)
         /\ Len(t.logic_instances) <= MaxConsumed + MaxCreated
<1>1. ConsumesSomething(t) /\ BoundNonces(t) /\ ConsumedFirst(t)
  BY DEF WellBuilt
<1> DEFINE n == Len(t.nullifiers)
           m == Len(t.commitments)
           l == Len(t.logic_instances)
<1>2. n \in 1..MaxConsumed
  BY <1>1 DEF ConsumesSomething
<1>3. m \in 0..MaxCreated
  BY <1>1 DEF BoundNonces
<1>4. l = n + m
  BY <1>1, Zenon DEF ConsumedFirst
<1> HIDE DEF n, m, l
<1>5. n \in Nat \ {0} /\ m \in Nat /\ l = n + m /\ l <= MaxConsumed + MaxCreated
  BY <1>2, <1>3, <1>4, ResourcesAssumption DEF ResourcesAssumption
<1>6. QED
  BY <1>5, Zenon DEF n, m, l

LEMMA ConsumedInstance ==
  ASSUME NEW t, WellBuilt(t), NEW k \in 1..Len(t.logic_instances)
  PROVE  /\ t.logic_instances[k].is_consumed <=> k <= Len(t.nullifiers)
         /\ k <= Len(t.nullifiers) => t.logic_instances[k].tag = t.nullifiers[k]
         /\ ~(k <= Len(t.nullifiers)) =>
              t.logic_instances[k].tag = t.commitments[k - Len(t.nullifiers)]
<1>1. t.logic_instances[k] =
        IF k <= Len(t.nullifiers)
        THEN [tag |-> t.nullifiers[k], is_consumed |-> TRUE]
        ELSE [tag |-> t.commitments[k - Len(t.nullifiers)], is_consumed |-> FALSE]
  BY Zenon DEF WellBuilt, ConsumedFirst
<1>2. CASE k <= Len(t.nullifiers)
  <2>1. t.logic_instances[k] = [tag |-> t.nullifiers[k], is_consumed |-> TRUE]
    BY <1>1, <1>2, Zenon
  <2>2. t.logic_instances[k].is_consumed = TRUE /\ t.logic_instances[k].tag = t.nullifiers[k]
    BY <2>1
  <2>3. QED
    BY <2>2, <1>2, Zenon
<1>3. CASE ~(k <= Len(t.nullifiers))
  <2>1. t.logic_instances[k] =
          [tag |-> t.commitments[k - Len(t.nullifiers)], is_consumed |-> FALSE]
    BY <1>1, <1>3, Zenon
  <2>2. /\ t.logic_instances[k].is_consumed = FALSE
        /\ t.logic_instances[k].tag = t.commitments[k - Len(t.nullifiers)]
    BY <2>1
  <2>3. QED
    BY <2>2, <1>3, Zenon
<1>4. QED
  BY <1>2, <1>3

-----------------------------------------------------------------------------
(* The invariant holds initially and no step breaks it. *)

LEMMA InitIInv == Init => IInv
<1> SUFFICES ASSUME Init PROVE IInv
  OBVIOUS
<1>1. /\ commitments = <<>> /\ transactions = <<>> /\ built = {}
      /\ Len(commitments) = 0 /\ Len(transactions) = 0
      /\ DOMAIN commitments = {} /\ ToSet(commitments) = {}
  BY DEF Init, ToSet
<1>2. SubSeq(commitments, 1, 0) = <<>>
  BY <1>1, SubSeqProperties
<1>3. TypeOK
  <2>1. commitments \in Seq(ToSet(commitments)) /\ transactions \in Seq(built)
    BY <1>1, EmptySeq
  <2>2. anchors \in SUBSET {Root(SubSeq(commitments, 1, n)) : n \in 0..Len(commitments)}
    <3>1. anchors = {Root(SubSeq(commitments, 1, 0))}
      BY <1>2 DEF Init, EmptyRoot
    <3>2. 0 \in 0..Len(commitments)
      BY <1>1
    <3>3. QED
      BY <3>1, <3>2
  <2>3. at \in 1..(MaxConsumed + MaxCreated + 1)
    BY ResourcesAssumption DEF Init, ResourcesAssumption
  <2>4. QED
    BY <2>1, <2>2, <2>3 DEF TypeOK, Init
<1>4. BuiltOK /\ AcceptedNullified /\ BoundToSpent /\ LoopOK
  BY <1>1 DEF BuiltOK, AcceptedNullified, BoundToSpent, LoopOK, Init
<1>5. NoDoubleSpend /\ CommitmentsUnique /\ SpentNotesExist
  BY <1>1 DEF NoDoubleSpend, CommitmentsUnique, SpentNotesExist, IsInjective
<1>6. RecordedTags = <<>> /\ ConsumedTags = <<>>
  <2> DEFINE c == [i \in 1..Len(transactions) |-> transactions[i].commitments]
             d == [i \in 1..Len(transactions) |-> transactions[i].nullifiers]
  <2>1. c = <<>> /\ d = <<>>
    BY <1>1
  <2>2. Len(c) = 0 /\ Len(d) = 0
    BY <2>1
  <2> HIDE DEF c, d
  <2>3. FlattenSeq(c) = c /\ FlattenSeq(d) = d
    <3>1. Len(c) \in Nat /\ Len(d) \in Nat
      BY <2>2
    <3>2. QED
      BY <2>2, <3>1, FlattenDef, Zenon
  <2> USE DEF c, d
  <2>4. QED
    BY <2>1, <2>3, Zenon DEF RecordedTags, ConsumedTags
<1>7. TreeIsRecorded
  <2>1. Pushed = 0
    BY DEF Init, Pushed
  <2>2. QED
    BY <1>1, <1>6, <2>1 DEF TreeIsRecorded
<1>8. AnchorsRecorded
  BY <1>1, <1>6 DEF Init, AnchorsRecorded, EmptyRoot, LeavesOf, Root
<1>9. BooksOK
  <2>1. IsSeq(<<>>) /\ ToSet(<<>>) = {}
    BY <1>1, EmptyIsSeq
  <2>2. ASSUME NEW k \in Kinds
        PROVE  Unspent(<<>>, ToSet(<<>>), k) = 0 /\ Transparent(<<>>, k) = 0
    <3>1. <<>> \in Seq({}) /\ ToSet(<<>>) = {}
      BY <2>1, EmptySeq
    <3>2. /\ Transparent(<<>>, k) = Worth(<<>>, TransparentV({}, k))
          /\ Unspent(<<>>, ToSet(<<>>), k) = Worth(<<>>, UnspentV({}, ToSet(<<>>), k))
      <4>1. \A tags \in Seq({}) : \A spent :
              /\ Transparent(tags, k) = Worth(tags, TransparentV({}, k))
              /\ Unspent(tags, spent, k) = Worth(tags, UnspentV({}, spent, k))
        BY SumsAreValues
      <4>2. QED
        BY <3>1, <4>1, Zenon
    <3>3. QED
      BY <3>2, WorthEmpty
  <2>3. QED
    BY <1>6, <2>1, <2>2 DEF BooksOK
<1>10. QED
  BY <1>3, <1>4, <1>5, <1>7, <1>8, <1>9 DEF IInv

\* A step that records nothing keeps the books.
LEMMA BooksStay ==
  ASSUME IInv, UNCHANGED <<transactions, anchors>>, nullifiers \subseteq nullifiers'
  PROVE  /\ RecordedTags' = RecordedTags /\ ConsumedTags' = ConsumedTags
         /\ AnchorsRecorded' /\ BooksOK'
<1>1. RecordedTags' = RecordedTags /\ ConsumedTags' = ConsumedTags
  BY DEF RecordedTags, ConsumedTags
<1>2. AnchorsRecorded'
  BY <1>1 DEF IInv, AnchorsRecorded
<1>3. BooksOK'
  BY <1>1 DEF IInv, BooksOK
<1>4. QED
  BY <1>1, <1>2, <1>3

\* A step that leaves the pool and the call alone keeps every part of the
\* invariant if it keeps what clients hold well built.
LEMMA OutsideTheCall ==
  ASSUME IInv, UNCHANGED <<pool, call>>, built \subseteq built', BuiltOK',
         logic_circuits' \in SUBSET LogicRefs
  PROVE  IInv'
<1> USE DEF pool, call
<1>1. transactions \in Seq(built')
  BY SeqMonotonic DEF IInv, TypeOK
<1>2. TypeOK'
  BY <1>1 DEF IInv, TypeOK
<1>3. AcceptedNullified' /\ BoundToSpent' /\ NoDoubleSpend' /\ CommitmentsUnique'
      /\ SpentNotesExist'
  BY DEF IInv, AcceptedNullified, BoundToSpent, NoDoubleSpend, CommitmentsUnique,
         SpentNotesExist
<1>4. BooksOK' /\ AnchorsRecorded' /\ RecordedTags' = RecordedTags /\ ConsumedTags' = ConsumedTags
  BY BooksStay
<1>5. LoopOK' /\ TreeIsRecorded'
  BY <1>4 DEF IInv, LoopOK, Passed, TreeIsRecorded, Pushed
<1>6. QED
  BY <1>2, <1>3, <1>4, <1>5 DEF IInv

LEMMA BuildStep ==
  ASSUME IInv, NEW view \in Views, NEW ins \in InputsOf(view), NEW outs \in OutputsOf,
         Build(view, ins, outs)
  PROVE  IInv'
<1>1. \A cm \in ToSet(view) : IsCommitment(cm) /\ HasQuantity(cm)
  <2>1. \A cm \in ToSet(commitments) : IsCommitment(cm) /\ HasQuantity(cm)
    <3>1. ToSet(commitments) = {commitments[j] : j \in 1..Len(commitments)}
      BY SeqIsSeq DEF IInv, TypeOK
    <3>2. QED
      BY <3>1 DEF IInv, BoundToSpent
  <2>2. ASSUME NEW u \in built, view = commitments \o u.commitments
        PROVE  \A cm \in ToSet(view) : IsCommitment(cm) /\ HasQuantity(cm)
    <3>1. /\ commitments \in Seq(ToSet(commitments))
          /\ u.commitments \in Seq(ToSet(u.commitments))
      BY DEF IInv, TypeOK, BuiltOK, WellBuilt, BoundNonces, IsSeq
    <3>2. \A cm \in ToSet(u.commitments) : IsCommitment(cm) /\ HasQuantity(cm)
      BY <3>1, SeqIsSeq DEF IInv, BuiltOK, WellBuilt, BoundNonces
    <3>3. view \in Seq(ToSet(commitments) \cup ToSet(u.commitments))
      BY <2>2, <3>1, SeqMonotonic, ConcatProperties
    <3>4. ToSet(view) \subseteq ToSet(commitments) \cup ToSet(u.commitments)
      BY <3>3, SeqIsSeq, ElementOfSeq
    <3>5. QED
      BY <2>1, <3>2, <3>4
  <2>3. QED
    BY <2>1, <2>2 DEF Views
<1>2. WellBuilt(Transaction(ins, outs))
  <2>1. PICK m \in 0..MaxCreated : outs \in [1..m -> Outputs]
    BY DEF OutputsOf
  <2>2. PICK n \in 1..MaxConsumed :
             ins \in [1..n -> ShieldedInputs(view) \cup TransparentInputs]
    <3>1. CASE ins \in UpToMaxConsumed(ShieldedInputs(view))
      BY <3>1 DEF UpToMaxConsumed
    <3>2. CASE ins \in UpToMaxConsumed(FreshInputs)
      BY <3>2 DEF FreshInputs, UpToMaxConsumed
    <3>3. \/ ins \in UpToMaxConsumed(ShieldedInputs(view))
          \/ ins \in UpToMaxConsumed(FreshInputs)
      BY DEF InputsOf
    <3>4. QED
      BY <3>1, <3>2, <3>3
  <2>3. \A i \in 1..n :
           \/ ins[i] \in TransparentInputs
           \/ \E cm \in ToSet(view) : /\ IsCommitment(cm) /\ HasQuantity(cm)
                                     /\ ins[i] = ShieldedInput(cm, view)
    BY <1>1, <2>2 DEF ShieldedInputs, Notes
  <2>4. QED
    BY <2>1, <2>2, <2>3, TransactionWellBuilt
<1>3. built' = built \cup {Transaction(ins, outs)}
  BY DEF Build
<1>4. BuiltOK'
  BY <1>2, <1>3 DEF IInv, BuiltOK
<1>5. QED
  BY <1>3, <1>4, OutsideTheCall DEF Build, IInv, TypeOK

LEMMA SubmitStep ==
  ASSUME IInv, NEW t \in built, Submit(t)
  PROVE  IInv'
<1>1. WellBuilt(t)
  BY DEF IInv, BuiltOK
<1>2. CASE Check(t, anchors, logic_circuits) # "ok"
  <2>1. Check(t, anchors, logic_circuits) \in Errors
    BY <1>2 DEF Check, Errors
  <2>2. UNCHANGED <<pool, pc, tx, at, logic_circuits, built>> /\ verdict' \in Errors
    BY <2>1, <1>2 DEF Submit
  <2>3. BooksOK' /\ AnchorsRecorded' /\ RecordedTags' = RecordedTags /\ ConsumedTags' = ConsumedTags
    BY <2>2, BooksStay DEF pool
  <2>4. LoopOK' /\ TreeIsRecorded'
    BY <2>2, <2>3 DEF pool, IInv, LoopOK, Passed, TreeIsRecorded, Pushed
  <2>5. TypeOK' /\ BuiltOK' /\ AcceptedNullified' /\ BoundToSpent' /\ NoDoubleSpend'
        /\ CommitmentsUnique' /\ SpentNotesExist'
    BY <2>2 DEF pool, IInv, TypeOK, BuiltOK, AcceptedNullified, BoundToSpent,
       NoDoubleSpend, CommitmentsUnique, SpentNotesExist
  <2>6. QED
    BY <2>3, <2>4, <2>5 DEF IInv
<1>3. CASE Check(t, anchors, logic_circuits) = "ok"
  <2>1. /\ pc' = "apply" /\ tx' = t /\ at' = 1
        /\ UNCHANGED <<pool, verdict, logic_circuits, built>>
    BY <1>3 DEF Submit
  <2>2. TypeOK'
    BY <2>1, ResourcesAssumption DEF IInv, TypeOK, pool, ResourcesAssumption
  <2>3. ToSet(t.roots) \subseteq anchors
    <3>1. BadInputs(t, anchors) = {}
      BY <1>3 DEF Check
    <3>2. ConsumesSomething(t)
      BY <1>1 DEF WellBuilt
    <3>3. DOMAIN t.nullifiers = 1..Len(t.roots) /\ ToSet(t.roots) = {t.roots[i] : i \in 1..Len(t.roots)}
      BY <3>2, SeqIsSeq DEF ConsumesSomething, IsSeq
    <3>4. QED
      BY <3>1, <3>3 DEF BadInputs, UnknownAnchor
  <2>4. Passed' = {}
    BY <2>1 DEF Passed
  <2>5. IsInjective(t.nullifiers)
    <3>1. BadInputs(t, anchors) = {}
      BY <1>3 DEF Check
    <3>2. DOMAIN t.nullifiers = 1..Len(t.nullifiers) /\ Len(t.nullifiers) \in Nat
      BY <1>1, IsSeqLength DEF WellBuilt, ConsumesSomething
    <3>3. SUFFICES ASSUME NEW i \in 1..Len(t.nullifiers), NEW j \in 1..Len(t.nullifiers),
                          t.nullifiers[i] = t.nullifiers[j], i # j
                   PROVE  FALSE
      BY <3>2 DEF IsInjective
    <3>4. j \in 1..(i - 1) \/ i \in 1..(j - 1)
      BY <3>2, <3>3
    <3>5. Repeats(t.nullifiers, i) \/ Repeats(t.nullifiers, j)
      BY <3>3, <3>4 DEF Repeats
    <3>6. QED
      BY <3>1, <3>2, <3>5 DEF BadInputs
  <2>6. BooksOK' /\ AnchorsRecorded' /\ RecordedTags' = RecordedTags /\ ConsumedTags' = ConsumedTags
    BY <2>1, BooksStay DEF pool
  <2>7. LoopOK'
    <3>1. Len(t.logic_instances) \in Nat
      BY <1>1, LenProperties DEF WellBuilt, ConsumedFirst, IsSeq
    <3>2. Balanced(t)
      BY <1>3 DEF Check
    <3>3. QED
      BY <2>1, <2>3, <2>4, <2>5, <3>1, <3>2 DEF LoopOK, pool
  <2>8. TreeIsRecorded'
    <3>1. Pushed = 0
      BY DEF Pushed, Submit
    <3>2. Len(t.nullifiers) \in Nat \ {0}
      BY <1>1, InstanceCount
    <3>3. Pushed' = 0
      BY <2>1, <3>2 DEF Pushed
    <3>4. QED
      BY <2>1, <2>6, <3>1, <3>3 DEF IInv, TreeIsRecorded, pool
  <2>9. QED
    BY <2>1, <2>2, <2>6, <2>7, <2>8 DEF IInv, pool, BuiltOK, AcceptedNullified, BoundToSpent,
       NoDoubleSpend, CommitmentsUnique, SpentNotesExist
<1>4. QED
  BY <1>2, <1>3

\* Where the last loop of submit is.
LEMMA LoopPosition ==
  ASSUME IInv, ApplyInstance
  PROVE  LET n == Len(tx.nullifiers)
             m == Len(tx.commitments)
         IN  /\ tx \in built /\ WellBuilt(tx) /\ pc = "apply"
             /\ n \in Nat \ {0} /\ m \in Nat
             /\ at \in 1..(n + m)
             /\ at + 1 <= Len(tx.logic_instances) + 1
             /\ at + 1 \in 1..(MaxConsumed + MaxCreated + 1)
             /\ Instance.is_consumed <=> at <= n
             /\ at <= n => Instance.tag = tx.nullifiers[at]
             /\ ~(at <= n) => Instance.tag = tx.commitments[at - n]
<1> DEFINE n == Len(tx.nullifiers)
           m == Len(tx.commitments)
           l == Len(tx.logic_instances)
<1>1. tx \in built /\ WellBuilt(tx) /\ pc = "apply"
  BY DEF ApplyInstance, IInv, LoopOK, BuiltOK
<1>2. n \in Nat \ {0} /\ m \in Nat /\ l = n + m /\ l <= MaxConsumed + MaxCreated
  BY <1>1, InstanceCount, Zenon
<1>3. at <= l
  BY DEF ApplyInstance
<1>4. at \in 1..(MaxConsumed + MaxCreated + 1)
  BY DEF IInv, TypeOK
<1> HIDE DEF n, m, l
<1>5. /\ at \in 1..l /\ at \in 1..(n + m) /\ at + 1 <= l + 1
      /\ at + 1 \in 1..(MaxConsumed + MaxCreated + 1)
  BY <1>2, <1>3, <1>4, ResourcesAssumption DEF ResourcesAssumption
<1>6. /\ Instance.is_consumed <=> at <= n
      /\ at <= n => Instance.tag = tx.nullifiers[at]
      /\ ~(at <= n) => Instance.tag = tx.commitments[at - n]
  BY <1>1, <1>5, ConsumedInstance, Zenon DEF Instance, n, l
<1>7. QED
  BY <1>1, <1>2, <1>5, <1>6, Zenon DEF n, m, l

LEMMA InsertNullifierStep ==
  ASSUME IInv, ApplyInstance, InsertNullifier
  PROVE  IInv'
<1>1. /\ tx \in built /\ WellBuilt(tx) /\ pc = "apply" /\ at \in Nat /\ at >= 1
      /\ Len(tx.nullifiers) \in Nat \ {0} /\ Len(tx.commitments) \in Nat
  BY LoopPosition
<1>2. at <= Len(tx.nullifiers) /\ Instance.tag = tx.nullifiers[at]
  BY LoopPosition, Zenon DEF InsertNullifier
<1>3. /\ nullifiers' = nullifiers \cup {tx.nullifiers[at]}
      /\ tx.nullifiers[at] \notin nullifiers
      /\ at' = at + 1 /\ pc' = "apply"
      /\ UNCHANGED <<commitments, transactions, anchors, logic_circuits, built, pc, tx, verdict>>
  BY <1>2 DEF ApplyInstance, InsertNullifier
<1>4. at + 1 <= Len(tx.logic_instances) + 1
  BY LoopPosition, Zenon
<1>5. TypeOK'
  <2>1. at + 1 \in 1..(MaxConsumed + MaxCreated + 1)
    BY LoopPosition, Zenon
  <2>2. QED
    BY <1>3, <2>1 DEF IInv, TypeOK
<1>6. AcceptedNullified' /\ BoundToSpent'
  BY <1>3 DEF IInv, AcceptedNullified, BoundToSpent
<1>7. Passed' = Passed \cup {tx.nullifiers[at]}
  BY <1>1, <1>2, <1>3 DEF Passed
<1>8. \A k \in 1..Len(tx.commitments) : tx.commitments[k] \notin ToSet(commitments)
  <2> ToSet(commitments) = {commitments[j] : j \in 1..Len(commitments)}
    BY SeqIsSeq DEF IInv, TypeOK
  <2>1. SUFFICES ASSUME NEW k \in 1..Len(tx.commitments), NEW j \in 1..Len(commitments),
                        tx.commitments[k] = commitments[j]
                 PROVE  FALSE
    OBVIOUS
  <2>2. ResourceOf(commitments[j]).nonce.nullifiers = tx.nullifiers
    <3>1. ResourceOf(tx.commitments[k]).nonce = DeriveNonce(k, tx.nullifiers)
      BY <1>1 DEF WellBuilt, BoundNonces
    <3>2. QED
      BY <3>1, <2>1 DEF DeriveNonce
  <2>3. tx.nullifiers[1] \in nullifiers
    BY <2>2 DEF IInv, BoundToSpent
  <2>4. at > 1
    BY <2>3, <1>1, <1>3
  <2>5. k + Len(tx.nullifiers) >= at
    BY <1>1, <1>2
  <2>6. tx.commitments[k] \notin ToSet(commitments)
    BY <2>4, <2>5, <1>1 DEF IInv, LoopOK, ApplyInstance
  <2>7. QED
    BY <2>1, <2>6
<1>9. RecordedTags' = RecordedTags /\ ConsumedTags' = ConsumedTags /\ AnchorsRecorded' /\ BooksOK'
  BY <1>3, BooksStay
<1>10. LoopOK'
  <2>1. \A i \in 1..Len(transactions) :
          Passed' \cap ToSet(transactions[i].nullifiers) = {}
    BY <1>3, <1>7 DEF IInv, LoopOK, AcceptedNullified, ApplyInstance
  <2>2. Passed' \subseteq nullifiers'
    BY <1>3, <1>7 DEF IInv, LoopOK, ApplyInstance
  <2>3. Passed' \cap ToSet(ConsumedTags)' = {}
    BY <1>3, <1>7, <1>9 DEF IInv, LoopOK, BooksOK, ApplyInstance
  <2>4. QED
    BY <1>1, <1>3, <1>4, <1>8, <2>1, <2>2, <2>3 DEF IInv, LoopOK, ApplyInstance
<1>11. TreeIsRecorded'
  <2>1. Pushed = 0 /\ Pushed' = 0
    BY <1>1, <1>2, <1>3 DEF Pushed
  <2>2. QED
    BY <1>3, <1>9, <2>1 DEF IInv, TreeIsRecorded
<1>12. BuiltOK' /\ NoDoubleSpend' /\ CommitmentsUnique' /\ SpentNotesExist'
  BY <1>3 DEF IInv, BuiltOK, NoDoubleSpend, CommitmentsUnique, SpentNotesExist
<1>13. QED
  BY <1>5, <1>6, <1>9, <1>10, <1>11, <1>12 DEF IInv

LEMMA RefuseNullifierStep ==
  ASSUME IInv, ApplyInstance, RefuseNullifier
  PROVE  IInv'
<1>1. /\ pc' = "idle" /\ tx' = NoTransaction /\ at' = 1 /\ verdict' = "DuplicateNullifier"
      /\ UNCHANGED <<nullifiers, commitments, transactions, anchors, logic_circuits, built>>
  BY DEF ApplyInstance, RefuseNullifier, Return
<1>2. TypeOK'
  BY <1>1, ResourcesAssumption DEF IInv, TypeOK, Errors, ResourcesAssumption
<1>3. LoopOK'
  BY <1>1 DEF LoopOK
<1>4. RecordedTags' = RecordedTags /\ AnchorsRecorded' /\ BooksOK'
  BY <1>1, BooksStay
<1>5. TreeIsRecorded'
  <2>1. at <= Len(tx.nullifiers) /\ at \in Nat /\ Len(tx.nullifiers) \in Nat
    BY LoopPosition DEF RefuseNullifier
  <2>2. Pushed = 0
    BY <2>1 DEF Pushed
  <2>3. Pushed' = 0
    BY <1>1 DEF Pushed
  <2>4. QED
    BY <1>1, <1>4, <2>2, <2>3 DEF IInv, TreeIsRecorded
<1>6. QED
  BY <1>1, <1>2, <1>3, <1>4, <1>5 DEF IInv, BuiltOK, AcceptedNullified, BoundToSpent,
     NoDoubleSpend, CommitmentsUnique, SpentNotesExist

LEMMA PushCommitmentStep ==
  ASSUME IInv, ApplyInstance, PushCommitment
  PROVE  IInv'
<1> DEFINE k == at - Len(tx.nullifiers)
           cm == tx.commitments[k]
           n == Len(commitments)
<1>1. /\ tx \in built /\ WellBuilt(tx) /\ pc = "apply" /\ at \in Nat /\ at >= 1
      /\ Len(tx.nullifiers) \in Nat \ {0} /\ Len(tx.commitments) \in Nat
      /\ IsSeq(commitments) /\ n \in Nat
  <2>1. IsSeq(commitments) /\ n \in Nat
    BY LenProperties DEF IInv, IsSeq, TypeOK
  <2>2. QED
    BY <2>1, LoopPosition
<1>2. k \in 1..Len(tx.commitments) /\ Instance.tag = cm
  <2>1. ~(at <= Len(tx.nullifiers)) /\ Instance.tag = cm
    BY LoopPosition, Zenon DEF PushCommitment
  <2>2. at \in 1..(Len(tx.nullifiers) + Len(tx.commitments))
    BY LoopPosition, Zenon
  <2> DEFINE a == Len(tx.nullifiers)
             b == Len(tx.commitments)
  <2>3. ~(at <= a) /\ at \in 1..(a + b) /\ a \in Nat /\ b \in Nat
    BY <1>1, <2>1, <2>2, Zenon
  <2>4. k = at - a
    OBVIOUS
  <2> HIDE DEF a, b, k
  <2>5. k \in 1..b
    BY <2>3, <2>4
  <2>6. QED
    BY <2>1, <2>5, Zenon DEF b
<1>3. /\ commitments' = Append(commitments, cm)
      /\ at' = at + 1 /\ pc' = "apply"
      /\ UNCHANGED <<nullifiers, transactions, anchors, logic_circuits, built, pc, tx, verdict>>
  BY <1>2 DEF ApplyInstance, PushCommitment
<1>4. at > 1 /\ k + Len(tx.nullifiers) = at
  BY <1>1, <1>2
<1>5. cm \notin ToSet(commitments)
  BY <1>2, <1>4 DEF IInv, LoopOK, ApplyInstance
<1>6. /\ IsSeq(commitments') /\ Len(commitments') = n + 1
      /\ ToSet(commitments') = ToSet(commitments) \cup {cm}
      /\ \A i \in 1..n : commitments'[i] = commitments[i]
      /\ commitments'[n + 1] = cm
  BY <1>1, <1>3, AppendIsSeq
<1>7. /\ IsCommitment(cm) /\ HasQuantity(cm)
      /\ ResourceOf(cm).nonce = DeriveNonce(k, tx.nullifiers)
  BY <1>1, <1>2 DEF WellBuilt, BoundNonces
<1> HIDE DEF k, cm, n
<1>8. TypeOK'
  <2>1. at + 1 \in 1..(MaxConsumed + MaxCreated + 1)
    BY LoopPosition, Zenon
  <2>2. ASSUME NEW m \in 0..n
        PROVE  SubSeq(commitments', 1, m) = SubSeq(commitments, 1, m)
    BY <2>2, <1>1, <1>6 DEF n
  <2>3. \A m \in 0..n : m \in 0..Len(commitments')
    BY <1>1, <1>6
  <2>4. {Root(SubSeq(commitments, 1, m)) : m \in 0..n}
          \subseteq {Root(SubSeq(commitments', 1, m)) : m \in 0..Len(commitments')}
    BY <2>2, <2>3
  <2>5. QED
    BY <1>3, <1>6, <2>1, <2>4 DEF IInv, TypeOK, IsSeq, n
<1>9. BoundToSpent'
  <2>1. SUFFICES ASSUME NEW j \in 1..(n + 1)
                 PROVE  LET nonce == ResourceOf(commitments'[j]).nonce
                        IN  /\ IsCommitment(commitments'[j])
                            /\ HasQuantity(commitments'[j])
                            /\ nonce.nullifiers # <<>>
                            /\ nonce.nullifiers[1] \in nullifiers
    BY <1>3, <1>6 DEF BoundToSpent
  <2>2. CASE j = n + 1
    <3>1. tx.nullifiers # <<>>
      BY <1>1
    <3>2. tx.nullifiers[1] \in nullifiers
      BY <1>1, <1>2, <1>4 DEF IInv, LoopOK, ApplyInstance, Passed, k
    <3>3. QED
      BY <2>2, <3>1, <3>2, <1>6, <1>7 DEF DeriveNonce
  <2>3. CASE j # n + 1
    BY <2>3, <1>1, <1>6 DEF IInv, BoundToSpent, n
  <2>4. QED
    BY <2>2, <2>3
<1>10. /\ RecordedTags' = RecordedTags /\ ConsumedTags' = ConsumedTags
       /\ AnchorsRecorded' /\ BooksOK'
  BY <1>3, BooksStay
<1>11. LoopOK'
  <2>1. Passed' = Passed
    BY <1>1, <1>2, <1>3 DEF Passed, k
  <2>2. ASSUME NEW i \in 1..Len(tx.commitments), at + 1 <= i + Len(tx.nullifiers)
        PROVE  tx.commitments[i] \notin ToSet(commitments')
    <3>1. tx.commitments[i] \notin ToSet(commitments)
      BY <2>2, <1>1, <1>4 DEF IInv, LoopOK, ApplyInstance
    <3>2. i # k
      BY <2>2, <1>1, <1>4
    <3>3. tx.commitments[i] # cm
      <4>1. ResourceOf(tx.commitments[i]).nonce = DeriveNonce(i, tx.nullifiers)
        BY <1>1 DEF WellBuilt, BoundNonces
      <4>2. QED
        BY <4>1, <3>2, <1>7 DEF DeriveNonce
    <3>4. QED
      BY <3>1, <3>3, <1>6
  <2>3. at + 1 <= Len(tx.logic_instances) + 1
    BY LoopPosition, Zenon
  <2>4. QED
    BY <1>1, <1>3, <1>10, <2>1, <2>2, <2>3 DEF IInv, LoopOK, ApplyInstance
<1>12. CommitmentsUnique'
  <2>1. SUFFICES ASSUME NEW i \in 1..(n + 1), NEW j \in 1..(n + 1),
                        commitments'[i] = commitments'[j], i # j
                 PROVE  FALSE
    BY <1>6, SeqIsSeq DEF CommitmentsUnique, IsInjective, IsSeq
  <2>2. ASSUME NEW a \in 1..n PROVE commitments'[a] # cm
    <3>1. ToSet(commitments) = {commitments[c] : c \in 1..n}
      BY <1>1, SeqIsSeq DEF n, IsSeq
    <3>2. QED
      BY <3>1, <1>5, <1>6
  <2>3. ASSUME NEW a \in 1..n, NEW b \in 1..n, commitments'[a] = commitments'[b]
        PROVE  a = b
    BY <2>3, <1>1, <1>6, SeqIsSeq DEF IInv, CommitmentsUnique, IsInjective, n, IsSeq
  <2>4. QED
    BY <2>1, <2>2, <2>3, <1>1, <1>6
<1>13. TreeIsRecorded'
  <2> DEFINE r == Len(RecordedTags)
             a == Len(tx.nullifiers)
  <2>1. a \in Nat /\ r \in Nat /\ at = k + a /\ k \in Nat \ {0}
    BY <1>1, <1>2, <1>4, IsSeqLength DEF IInv, BooksOK
  <2>2. Pushed = k - 1
    BY <1>1, <2>1 DEF Pushed
  <2>3. Pushed' = k
    BY <1>1, <1>3, <2>1 DEF Pushed
  <2>4. /\ n = r + (k - 1)
        /\ \A i \in 1..r : commitments[i] = RecordedTags[i]
        /\ \A i \in 1..(k - 1) : commitments[r + i] = tx.commitments[i]
    BY <2>2 DEF IInv, TreeIsRecorded, n
  <2> HIDE DEF r, a
  <2>5. Len(commitments') = r + k
    BY <1>1, <1>6, <2>1, <2>4
  <2>6. \A i \in 1..r : commitments'[i] = RecordedTags[i]
    BY <1>1, <1>6, <2>1, <2>4
  <2>7. ASSUME NEW i \in 1..k PROVE commitments'[r + i] = tx.commitments[i]
    <3>1. CASE i = k
      <4>1. r + i = n + 1
        BY <2>1, <2>4, <3>1
      <4>2. QED
        BY <1>6, <3>1, <4>1 DEF cm
    <3>2. CASE i # k
      <4>1. i \in 1..(k - 1) /\ r + i \in 1..n
        BY <2>1, <2>4, <3>2
      <4>2. QED
        BY <1>6, <2>4, <4>1
    <3>3. QED
      BY <3>1, <3>2
  <2>8. QED
    BY <1>3, <1>10, <2>3, <2>5, <2>6, <2>7 DEF TreeIsRecorded, r
<1>14. SpentNotesExist' /\ BuiltOK' /\ AcceptedNullified' /\ NoDoubleSpend'
  BY <1>3, <1>6 DEF IInv, SpentNotesExist, BuiltOK, AcceptedNullified, NoDoubleSpend
<1>15. QED
  BY <1>8, <1>9, <1>10, <1>11, <1>12, <1>13, <1>14 DEF IInv

\* The last loop of submit is through.
LEMMA AllPassed ==
  ASSUME IInv, Record
  PROVE  /\ tx \in built /\ WellBuilt(tx) /\ pc = "apply"
         /\ Passed = ToSet(tx.nullifiers)
         /\ Pushed = Len(tx.commitments)
<1> DEFINE a == Len(tx.nullifiers)
           b == Len(tx.commitments)
           l == Len(tx.logic_instances)
<1>1. tx \in built /\ WellBuilt(tx) /\ pc = "apply"
  BY DEF IInv, BuiltOK, LoopOK, Record
<1>2. a \in Nat /\ b \in Nat /\ l = a + b
  BY <1>1, InstanceCount, Zenon
<1>3. at > l /\ at <= l + 1 /\ at \in 1..(MaxConsumed + MaxCreated + 1)
  BY <1>1 DEF Record, IInv, TypeOK, LoopOK
<1>4. ToSet(tx.nullifiers) = {tx.nullifiers[i] : i \in 1..a}
  BY <1>1, SeqIsSeq DEF WellBuilt, ConsumesSomething, IsSeq
<1>5. Passed = {tx.nullifiers[i] : i \in {j \in 1..a : j < at}}
  BY DEF Passed
<1>6. Pushed = IF at > a THEN at - a - 1 ELSE 0
  BY <1>1, Zenon DEF Pushed
<1> HIDE DEF a, b, l
<1>7. {j \in 1..a : j < at} = 1..a
  BY <1>2, <1>3, ResourcesAssumption DEF ResourcesAssumption
<1>8. Pushed = b
  BY <1>2, <1>3, <1>6, ResourcesAssumption DEF ResourcesAssumption
<1>9. QED
  BY <1>1, <1>4, <1>5, <1>7, <1>8 DEF b

\* The tree is the recorded commitments and those of the transaction.
LEMMA TreeAtRecord ==
  ASSUME IInv, Record
  PROVE  /\ commitments = RecordedTags \o tx.commitments
         /\ Distinct(RecordedTags)
         /\ ToSet(RecordedTags) \subseteq ToSet(commitments)
         /\ \A tag \in ToSet(RecordedTags) : IsCommitment(tag) /\ HasQuantity(tag)
         /\ \A tag \in ToSet(tx.commitments) : IsCommitment(tag) /\ HasQuantity(tag)
         /\ ToSet(RecordedTags) \cap ToSet(tx.commitments) = {}
<1> DEFINE r == Len(RecordedTags)
           m == Len(tx.commitments)
           n == Len(commitments)
<1>1. /\ IsSeq(RecordedTags) /\ IsSeq(tx.commitments) /\ IsSeq(commitments)
      /\ r \in Nat /\ m \in Nat
  <2>1. IsSeq(RecordedTags) /\ IsSeq(tx.commitments) /\ IsSeq(commitments)
    BY AllPassed, SeqIsSeq DEF IInv, BooksOK, TypeOK, WellBuilt, BoundNonces
  <2>2. QED
    BY <2>1, IsSeqLength
<1>2. /\ n = r + m
      /\ \A i \in 1..r : commitments[i] = RecordedTags[i]
      /\ \A i \in 1..m : commitments[r + i] = tx.commitments[i]
  BY AllPassed DEF IInv, TreeIsRecorded
<1>3. /\ ToSet(RecordedTags) = {RecordedTags[i] : i \in 1..r}
      /\ ToSet(tx.commitments) = {tx.commitments[i] : i \in 1..m}
      /\ ToSet(commitments) = {commitments[i] : i \in 1..n}
      /\ DOMAIN commitments = 1..n
  <2>1. \A s : IsSeq(s) => DOMAIN s = 1..Len(s) /\ ToSet(s) = {s[i] : i \in 1..Len(s)}
    BY SeqIsSeq DEF IsSeq
  <2>2. QED
    BY <1>1, <2>1, Zenon
<1>4. \A i, j \in 1..n : commitments[i] = commitments[j] => i = j
  BY <1>3 DEF IInv, CommitmentsUnique, IsInjective
<1>5. \A i \in 1..n : IsCommitment(commitments[i]) /\ HasQuantity(commitments[i])
  BY DEF IInv, BoundToSpent
<1>6. commitments = RecordedTags \o tx.commitments
  <2>1. Joins(commitments, RecordedTags, tx.commitments)
    BY <1>2 DEF Joins
  <2>2. QED
    BY <1>1, <2>1, JoinsIs
<1> HIDE DEF r, m, n
<1>7. (\A i \in 1..r : i \in 1..n) /\ (\A i \in 1..m : r + i \in 1..n)
  BY <1>1, <1>2
<1>8. Distinct(RecordedTags)
  BY <1>2, <1>4, <1>7 DEF Distinct, r
<1>9. /\ ToSet(RecordedTags) \subseteq ToSet(commitments)
      /\ \A tag \in ToSet(RecordedTags) : IsCommitment(tag) /\ HasQuantity(tag)
  BY <1>2, <1>3, <1>5, <1>7
<1>10. \A tag \in ToSet(tx.commitments) : IsCommitment(tag) /\ HasQuantity(tag)
  <2>1. \A i \in 1..m : IsCommitment(tx.commitments[i]) /\ HasQuantity(tx.commitments[i])
    BY <1>2, <1>5, <1>7, Zenon
  <2>2. QED
    BY <1>3, <2>1
<1>11. ToSet(RecordedTags) \cap ToSet(tx.commitments) = {}
  <2>1. SUFFICES ASSUME NEW i \in 1..r, NEW j \in 1..m, RecordedTags[i] = tx.commitments[j]
                 PROVE  FALSE
    BY <1>3
  <2>2. commitments[i] = commitments[r + j] /\ i # r + j
    BY <1>1, <1>2, <2>1
  <2>3. QED
    BY <1>4, <1>7, <2>2
<1>12. QED
  BY <1>6, <1>8, <1>9, <1>10, <1>11

\* What the transaction consumes is in the recorded tree and not yet consumed.
LEMMA ConsumableAtRecord ==
  ASSUME IInv, Record
  PROVE  Consumable(tx.nullifiers, RecordedTags, ToSet(ConsumedTags))
<1> SUFFICES ASSUME NEW i \in 1..Len(tx.nullifiers)
             PROVE  LET nf == tx.nullifiers[i]
                    IN  /\ nf = Nullifier(ResourceOf(nf))
                        /\ nf \notin ToSet(ConsumedTags)
                        /\ IsEphemeral(nf) \/ Commitment(ResourceOf(nf)) \in ToSet(RecordedTags)
  BY Zenon DEF Consumable
<1> DEFINE nf == tx.nullifiers[i]
<1>1. WellBuilt(tx) /\ pc = "apply" /\ Passed = ToSet(tx.nullifiers)
  BY AllPassed
<1>2. nf = Nullifier(ResourceOf(nf))
  BY <1>1 DEF WellBuilt, ConsumesSomething, IsNullifier
<1>3. nf \in ToSet(tx.nullifiers)
  BY <1>1, SeqIsSeq DEF WellBuilt, ConsumesSomething, IsSeq
<1>4. nf \notin ToSet(ConsumedTags)
  BY <1>1, <1>3 DEF IInv, LoopOK
<1>5. tx.roots[i] \in anchors
  <2>1. IsSeq(tx.roots) /\ Len(tx.roots) = Len(tx.nullifiers)
    BY <1>1 DEF WellBuilt, ConsumesSomething
  <2>2. tx.roots[i] \in ToSet(tx.roots)
    BY <2>1, SeqIsSeq DEF IsSeq
  <2>3. QED
    BY <1>1, <2>2 DEF IInv, LoopOK
<1>6. HasPath(nf, tx.roots[i])
  BY <1>1 DEF WellBuilt, HasPaths
<1>7. IsEphemeral(nf) \/ Commitment(ResourceOf(nf)) \in ToSet(RecordedTags)
  BY <1>5, <1>6 DEF HasPath, IsEphemeral, IInv, AnchorsRecorded
<1>8. QED
  BY <1>2, <1>4, <1>7

\* What Record adds to the recorded tags.
LEMMA RecordTags ==
  ASSUME IInv, Record
  PROVE  /\ RecordedTags' = RecordedTags \o tx.commitments
         /\ ConsumedTags' = ConsumedTags \o tx.nullifiers
<1> DEFINE n == Len(transactions)
           c == [i \in 1..n |-> transactions[i].commitments]
           d == [i \in 1..n |-> transactions[i].nullifiers]
           cc == [i \in 1..(n + 1) |-> transactions'[i].commitments]
           dd == [i \in 1..(n + 1) |-> transactions'[i].nullifiers]
<1>1. /\ WellBuilt(tx) /\ n \in Nat
      /\ \A i \in 1..n : WellBuilt(transactions[i])
  BY LenProperties, ElementOfSeq DEF IInv, TypeOK, BuiltOK, LoopOK, Record
<1>2. /\ Len(transactions') = n + 1
      /\ \A i \in 1..n : transactions'[i] = transactions[i]
      /\ transactions'[n + 1] = tx
  BY AppendProperties DEF Record, IInv, TypeOK
<1>3. \A i \in 1..(n + 1) : WellBuilt(transactions'[i])
  <2>1. \A i \in 1..(n + 1) : i \in 1..n \/ i = n + 1
    BY <1>1
  <2>2. QED
    BY <1>1, <1>2, <2>1
<1>4. AreSeqs(c) /\ Len(c) = n /\ AreSeqs(cc) /\ Len(cc) = n + 1
  <2>1. c = [i \in 1..n |-> c[i]] /\ cc = [i \in 1..(n + 1) |-> cc[i]]
    OBVIOUS
  <2>2. (\A i \in 1..n : IsSeq(c[i])) /\ (\A i \in 1..(n + 1) : IsSeq(cc[i]))
    BY <1>1, <1>3 DEF WellBuilt, BoundNonces
  <2> HIDE DEF c, cc
  <2>3. IsSeq(c) /\ Len(c) = n /\ IsSeq(cc) /\ Len(cc) = n + 1
    BY <1>1, <2>1, FunctionSeq
  <2>4. QED
    BY <2>2, <2>3 DEF AreSeqs
<1>5. AreSeqs(d) /\ Len(d) = n /\ AreSeqs(dd) /\ Len(dd) = n + 1
  <2>1. d = [i \in 1..n |-> d[i]] /\ dd = [i \in 1..(n + 1) |-> dd[i]]
    OBVIOUS
  <2>2. (\A i \in 1..n : IsSeq(d[i])) /\ (\A i \in 1..(n + 1) : IsSeq(dd[i]))
    BY <1>1, <1>3 DEF WellBuilt, ConsumesSomething
  <2> HIDE DEF d, dd
  <2>3. IsSeq(d) /\ Len(d) = n /\ IsSeq(dd) /\ Len(dd) = n + 1
    BY <1>1, <2>1, FunctionSeq
  <2>4. QED
    BY <2>2, <2>3 DEF AreSeqs
<1>6. /\ \A i \in 1..n : cc[i] = c[i] /\ dd[i] = d[i]
      /\ cc[n + 1] = tx.commitments /\ dd[n + 1] = tx.nullifiers
  BY <1>1, <1>2
<1>7. /\ RecordedTags = FlattenSeq(c) /\ RecordedTags' = FlattenSeq(cc)
      /\ ConsumedTags = FlattenSeq(d) /\ ConsumedTags' = FlattenSeq(dd)
  BY <1>2, Zenon DEF RecordedTags, ConsumedTags
<1> HIDE DEF c, cc, d, dd, n
<1>8. FlattenSeq(cc) = FlattenSeq(c) \o cc[n + 1]
  <2>1. Len(cc) = Len(c) + 1 /\ \A i \in 1..Len(c) : cc[i] = c[i]
    BY <1>4, <1>6
  <2>2. FlattenSeq(cc) = FlattenSeq(c) \o cc[Len(c) + 1]
    BY <1>4, <2>1, FlattenAppended, Zenon
  <2>3. QED
    BY <1>4, <2>2, Zenon
<1>9. FlattenSeq(dd) = FlattenSeq(d) \o dd[n + 1]
  <2>1. Len(dd) = Len(d) + 1 /\ \A i \in 1..Len(d) : dd[i] = d[i]
    BY <1>5, <1>6
  <2>2. FlattenSeq(dd) = FlattenSeq(d) \o dd[Len(d) + 1]
    BY <1>5, <2>1, FlattenAppended, Zenon
  <2>3. QED
    BY <1>5, <2>2, Zenon
<1>10. QED
  BY <1>6, <1>7, <1>8, <1>9, Zenon

\* A created note is not yet consumed, nor by the transaction that creates it.
LEMMA CreatedUnspent ==
  ASSUME IInv, Record, NEW cm \in ToSet(tx.commitments)
  PROVE  IsEphemeral(cm)
           \/ Nullifier(ResourceOf(cm)) \notin ToSet(ConsumedTags) \cup ToSet(tx.nullifiers)
<1> DEFINE nf == Nullifier(ResourceOf(cm))
<1>1. SUFFICES ASSUME nf \in ToSet(ConsumedTags) \cup ToSet(tx.nullifiers), ~IsEphemeral(cm)
               PROVE  FALSE
  OBVIOUS
<1>2. ResourceOf(nf) = ResourceOf(cm)
  BY DEF Nullifier, ResourceOf
<1>3. ~IsEphemeral(nf)
  BY <1>1, <1>2 DEF IsEphemeral
<1>4. Commitment(ResourceOf(nf)) = cm /\ cm \notin ToSet(RecordedTags)
  BY <1>2, TreeAtRecord DEF IsCommitment
<1>5. nf \notin ToSet(ConsumedTags)
  BY <1>3, <1>4 DEF IInv, BooksOK
<1>6. nf \notin ToSet(tx.nullifiers)
  <2>1. ToSet(tx.nullifiers) = {tx.nullifiers[i] : i \in 1..Len(tx.nullifiers)}
    BY AllPassed, SeqIsSeq DEF WellBuilt, ConsumesSomething, IsSeq
  <2>2. SUFFICES ASSUME NEW i \in 1..Len(tx.nullifiers), nf = tx.nullifiers[i] PROVE FALSE
    BY <2>1
  <2>3. IsEphemeral(nf) \/ Commitment(ResourceOf(nf)) \in ToSet(RecordedTags)
    BY <2>2, ConsumableAtRecord DEF Consumable
  <2>4. QED
    BY <1>3, <1>4, <2>3
<1>7. QED
  BY <1>1, <1>5, <1>6

LEMMA RecordBooks ==
  ASSUME IInv, Record
  PROVE  TreeIsRecorded' /\ AnchorsRecorded' /\ BooksOK'
<1> DEFINE rec == RecordedTags
           con == ConsumedTags
           nfs == tx.nullifiers
           cms == tx.commitments
           S == ToSet(rec) \cup ToSet(con) \cup ToSet(nfs) \cup ToSet(cms)
<1>1. /\ anchors' = anchors \cup {Root(commitments)} /\ pc' = "idle"
      /\ nullifiers' = nullifiers /\ commitments' = commitments
  BY DEF Record, Return
<1>2. RecordedTags' = rec \o cms /\ ConsumedTags' = con \o nfs /\ commitments = rec \o cms
  BY RecordTags, TreeAtRecord
<1>3. IsSeq(rec) /\ IsSeq(con) /\ IsSeq(nfs) /\ IsSeq(cms)
  BY AllPassed DEF IInv, BooksOK, WellBuilt, ConsumesSomething, BoundNonces
<1>4. /\ ToSet(rec \o cms) = ToSet(rec) \cup ToSet(cms)
      /\ ToSet(con \o nfs) = ToSet(con) \cup ToSet(nfs)
      /\ IsSeq(rec \o cms) /\ IsSeq(con \o nfs)
  BY <1>3, ConcatToSet, ConcatIsSeq
<1>5. TreeIsRecorded'
  <2>1. Pushed' = 0
    BY <1>1 DEF Pushed
  <2>2. commitments' = RecordedTags'
    BY <1>1, <1>2
  <2>3. Len(RecordedTags') \in Nat
    BY <1>2, <1>4, IsSeqLength
  <2>4. QED
    BY <2>1, <2>2, <2>3 DEF TreeIsRecorded
<1>6. AnchorsRecorded'
  <2>1. LeavesOf(Root(commitments)) = commitments
    BY DEF LeavesOf, Root
  <2>2. \A root \in anchors : ToSet(LeavesOf(root)) \subseteq ToSet(rec)
    BY DEF IInv, AnchorsRecorded
  <2>3. \A root \in anchors' : ToSet(LeavesOf(root)) \subseteq ToSet(rec \o cms)
    BY <1>1, <1>2, <1>4, <2>1, <2>2
  <2>4. QED
    BY <1>1, <1>2, <2>3 DEF AnchorsRecorded
<1>7. ASSUME NEW nf \in ToSet(nfs)
      PROVE  /\ nf \in nullifiers /\ HasQuantity(nf)
             /\ IsEphemeral(nf) \/ Commitment(ResourceOf(nf)) \in ToSet(rec)
  <2>1. nf \in nullifiers
    BY AllPassed DEF IInv, LoopOK
  <2>2. PICK i \in 1..Len(nfs) : nf = nfs[i]
    BY <1>3, SeqIsSeq DEF IsSeq
  <2>3. HasQuantity(nf)
    BY <2>2, AllPassed DEF WellBuilt, ConsumesSomething
  <2>4. QED
    BY <2>1, <2>2, <2>3, ConsumableAtRecord DEF Consumable
<1>8. \A nf \in ToSet(con) :
        HasQuantity(nf) /\ (IsEphemeral(nf) \/ Commitment(ResourceOf(nf)) \in ToSet(rec))
  BY DEF IInv, BooksOK
<1>9. ToSet(con \o nfs) \subseteq nullifiers
  BY <1>4, <1>7 DEF IInv, BooksOK
<1>10. Counted(S)
  BY <1>7, <1>8, TreeAtRecord DEF Counted
<1>11. rec \in Seq(S) /\ con \in Seq(S) /\ nfs \in Seq(S) /\ cms \in Seq(S)
  BY <1>3, SeqMonotonic DEF IsSeq
<1>12. Distinct(nfs)
  <2>1. DOMAIN nfs = 1..Len(nfs)
    BY <1>3, IsSeqLength
  <2>2. IsInjective(nfs)
    BY AllPassed DEF IInv, LoopOK
  <2>3. QED
    BY <2>1, <2>2 DEF IsInjective, Distinct
<1>13. ASSUME NEW k \in Kinds
       PROVE  Unspent(rec \o cms, ToSet(con \o nfs), k)
                = Transparent(con \o nfs, k) - Transparent(rec \o cms, k)
  <2>1. QuantityOf(nfs, k) - QuantityOf(cms, k) = 0
    BY AllPassed DEF IInv, LoopOK, Balanced, Delta
  <2>2. QuantityOf(nfs, k) \in Int /\ QuantityOf(cms, k) \in Int
    <3> HIDE DEF S, nfs, cms
    <3>1. ASSUME NEW s \in Seq(S) PROVE QuantityOf(s, k) \in Int
      BY <1>10, NotesAndTransparent
    <3>2. QED
      BY <1>11, <3>1
  <2>3. QuantityOf(nfs, k) = QuantityOf(cms, k)
    <3> DEFINE a == QuantityOf(nfs, k)
               b == QuantityOf(cms, k)
    <3>1. a - b = 0 /\ a \in Int /\ b \in Int
      BY <2>1, <2>2
    <3> HIDE DEF a, b
    <3>2. a = b
      BY <3>1
    <3>3. QED
      BY <3>2 DEF a, b
  <2>4. Unspent(rec, ToSet(con), k) = Transparent(con, k) - Transparent(rec, k)
    BY DEF IInv, BooksOK
  <2>5. Distinct(rec) /\ \A tag \in ToSet(rec) : IsCommitment(tag)
    BY TreeAtRecord
  <2>6. Consumable(nfs, rec, ToSet(con))
    BY ConsumableAtRecord
  <2>7. \A tag \in ToSet(cms) : IsEphemeral(tag)
          \/ Nullifier(ResourceOf(tag)) \notin ToSet(con) \cup ToSet(nfs)
    BY CreatedUnspent
  <2> HIDE DEF rec, con, nfs, cms, S
  <2>8. QED
    BY <1>10, <1>11, <1>12, <2>3, <2>4, <2>5, <2>6, <2>7, SupplyStays
<1>14. BooksOK'
  <2>1. /\ ToSet(ConsumedTags') = ToSet(con) \cup ToSet(nfs)
        /\ ToSet(RecordedTags') = ToSet(rec) \cup ToSet(cms)
    BY <1>2, <1>4
  <2>2. \A nf \in ToSet(con) \cup ToSet(nfs) :
          /\ HasQuantity(nf)
          /\ IsEphemeral(nf) \/ Commitment(ResourceOf(nf)) \in ToSet(rec) \cup ToSet(cms)
    BY <1>7, <1>8
  <2>3. IsSeq(RecordedTags') /\ IsSeq(ConsumedTags')
    BY <1>2, <1>4
  <2>4. \A k \in Kinds :
          Unspent(RecordedTags', ToSet(ConsumedTags'), k)
            = Transparent(ConsumedTags', k) - Transparent(RecordedTags', k)
    BY <1>2, <1>13
  <2>5. ToSet(ConsumedTags') \subseteq nullifiers'
    BY <1>1, <1>2, <1>9
  <2>6. QED
    BY <2>1, <2>2, <2>3, <2>4, <2>5 DEF BooksOK
<1>15. QED
  BY <1>5, <1>6, <1>14

LEMMA RecordStep ==
  ASSUME IInv, Record
  PROVE  IInv'
<1> DEFINE n == Len(transactions)
<1>1. /\ tx \in built /\ WellBuilt(tx) /\ pc = "apply"
      /\ IsSeq(transactions) /\ n \in Nat /\ transactions \in Seq(built)
  <2>1. transactions \in Seq(built)
    BY DEF IInv, TypeOK
  <2>2. QED
    BY <2>1, SeqIsSeq, LenProperties DEF IInv, BuiltOK, LoopOK, Record
<1>2. /\ transactions' = Append(transactions, tx)
      /\ anchors' = anchors \cup {Root(commitments)}
      /\ pc' = "idle" /\ tx' = NoTransaction /\ at' = 1 /\ verdict' = "ok"
      /\ UNCHANGED <<nullifiers, commitments, logic_circuits, built>>
  BY DEF Record, Return
<1>3. /\ Len(transactions') = n + 1
      /\ \A i \in 1..n : transactions'[i] = transactions[i]
      /\ transactions'[n + 1] = tx
      /\ transactions' \in Seq(built)
  BY <1>1, <1>2, AppendProperties
<1>4. Passed = ToSet(tx.nullifiers)
  BY AllPassed
<1> HIDE DEF n
<1>5. TypeOK'
  <2>1. commitments = SubSeq(commitments, 1, Len(commitments)) /\ Len(commitments) \in Nat
    BY LenProperties DEF IInv, TypeOK
  <2>2. Root(commitments) \in {Root(SubSeq(commitments, 1, m)) : m \in 0..Len(commitments)}
    <3>1. Root(commitments) = Root(SubSeq(commitments, 1, Len(commitments)))
      BY <2>1
    <3>2. Len(commitments) \in 0..Len(commitments)
      BY <2>1
    <3>3. QED
      BY <3>1, <3>2, Zenon
  <2>3. at' \in 1..(MaxConsumed + MaxCreated + 1)
    BY <1>2, ResourcesAssumption DEF ResourcesAssumption
  <2>4. QED
    BY <1>2, <1>3, <2>2, <2>3 DEF IInv, TypeOK
<1>6. AcceptedNullified'
  <2>1. Passed \subseteq nullifiers
    BY <1>1 DEF IInv, LoopOK
  <2>2. SUFFICES ASSUME NEW i \in 1..(n + 1)
                 PROVE  ToSet(transactions'[i].nullifiers) \subseteq nullifiers
    BY <1>2, <1>3 DEF AcceptedNullified
  <2>3. CASE i = n + 1
    BY <2>1, <2>3, <1>3, <1>4
  <2>4. CASE i # n + 1
    BY <2>4, <1>1, <1>3 DEF IInv, AcceptedNullified, n
  <2>5. QED
    BY <2>3, <2>4
<1>7. NoDoubleSpend'
  <2>1. ASSUME NEW i \in 1..n
        PROVE  ToSet(transactions[i].nullifiers) \cap ToSet(tx.nullifiers) = {}
    BY <1>1, <1>4 DEF IInv, LoopOK, n
  <2>2. SUFFICES ASSUME NEW i \in 1..(n + 1), NEW j \in 1..(n + 1), i # j
                 PROVE  ToSet(transactions'[i].nullifiers)
                          \cap ToSet(transactions'[j].nullifiers) = {}
    BY <1>3 DEF NoDoubleSpend
  <2>3. CASE i = n + 1
    BY <2>1, <2>2, <2>3, <1>1, <1>3
  <2>4. CASE j = n + 1
    BY <2>1, <2>2, <2>4, <1>1, <1>3
  <2>5. CASE i \in 1..n /\ j \in 1..n
    BY <2>2, <2>5, <1>3 DEF IInv, NoDoubleSpend, n
  <2>6. QED
    BY <2>3, <2>4, <2>5, <1>1
<1>8. SpentNotesExist'
  <2>1. ASSUME NEW nf \in ToSet(tx.nullifiers)
        PROVE  IsEphemeral(nf) \/ Commitment(ResourceOf(nf)) \in ToSet(commitments)
    <3>1. PICK k \in 1..Len(tx.nullifiers) : nf = tx.nullifiers[k]
      BY <1>1, SeqIsSeq DEF WellBuilt, ConsumesSomething, IsSeq
    <3>2. HasPath(nf, tx.roots[k])
      BY <1>1, <3>1 DEF WellBuilt, HasPaths
    <3>3. tx.roots[k] \in anchors
      <4>1. IsSeq(tx.roots) /\ Len(tx.roots) = Len(tx.nullifiers)
        BY <1>1 DEF WellBuilt, ConsumesSomething
      <4>2. tx.roots[k] \in ToSet(tx.roots)
        BY <4>1, <3>1, SeqIsSeq DEF IsSeq
      <4>3. QED
        BY <4>2, <1>1 DEF IInv, LoopOK
    <3>4. PICK m \in 0..Len(commitments) : tx.roots[k] = Root(SubSeq(commitments, 1, m))
      BY <3>3 DEF IInv, TypeOK
    <3>5. LeavesOf(tx.roots[k]) = SubSeq(commitments, 1, m)
      BY <3>4 DEF LeavesOf, Root
    <3>6. ToSet(SubSeq(commitments, 1, m)) \subseteq ToSet(commitments)
      <4>1. IsSeq(commitments) /\ Len(commitments) \in Nat
        BY LenProperties DEF IInv, TypeOK, IsSeq
      <4>2. \A i \in 1..m : commitments[i] \in ToSet(commitments)
        BY <4>1, SeqIsSeq DEF IsSeq
      <4>3. SubSeq(commitments, 1, m) \in Seq(ToSet(commitments))
        BY <4>1, <4>2, SubSeqProperties
      <4> DEFINE p == SubSeq(commitments, 1, m)
      <4> HIDE DEF p
      <4>4. ToSet(p) = {p[i] : i \in 1..Len(p)} /\ p \in Seq(ToSet(commitments))
        BY <4>3, SeqIsSeq DEF p
      <4>5. QED
        BY <4>4, ElementOfSeq DEF p
    <3>7. QED
      BY <3>2, <3>5, <3>6 DEF HasPath, IsEphemeral
  <2>2. SUFFICES ASSUME NEW i \in 1..(n + 1),
                        NEW nf \in ToSet(transactions'[i].nullifiers)
                 PROVE  IsEphemeral(nf) \/ Commitment(ResourceOf(nf)) \in ToSet(commitments)
    BY <1>2, <1>3 DEF SpentNotesExist, IsEphemeral
  <2>3. CASE i = n + 1
    BY <2>1, <2>3, <1>3
  <2>4. CASE i # n + 1
    BY <2>4, <1>1, <1>3 DEF IInv, SpentNotesExist, IsEphemeral, n
  <2>5. QED
    BY <2>3, <2>4
<1>9. BuiltOK' /\ BoundToSpent' /\ LoopOK' /\ CommitmentsUnique'
  BY <1>2 DEF IInv, BuiltOK, BoundToSpent, LoopOK, CommitmentsUnique
<1>10. TreeIsRecorded' /\ AnchorsRecorded' /\ BooksOK'
  BY RecordBooks
<1>11. QED
  BY <1>5, <1>6, <1>7, <1>8, <1>9, <1>10 DEF IInv

LEMMA Inductive == IInv /\ [Next]_vars => IInv'
<1> SUFFICES ASSUME IInv, [Next]_vars PROVE IInv'
  OBVIOUS
<1>1. ASSUME NEW l \in LogicRefs, RegisterLogic(l) \/ DeregisterLogic(l)
      PROVE  IInv'
  BY <1>1, OutsideTheCall DEF RegisterLogic, DeregisterLogic, IInv, TypeOK, BuiltOK
<1>2. ASSUME NEW view \in Views, NEW ins \in InputsOf(view), NEW outs \in OutputsOf,
             Build(view, ins, outs)
      PROVE  IInv'
  BY <1>2, BuildStep
<1>3. ASSUME NEW t \in built, Submit(t)
      PROVE  IInv'
  BY <1>3, SubmitStep
<1>4. CASE ApplyInstance
  <2>1. CASE InsertNullifier
    BY <1>4, <2>1, InsertNullifierStep
  <2>2. CASE RefuseNullifier
    BY <1>4, <2>2, RefuseNullifierStep
  <2>3. CASE PushCommitment
    BY <1>4, <2>3, PushCommitmentStep
  <2>4. QED
    BY <1>4, <2>1, <2>2, <2>3 DEF ApplyInstance
<1>5. CASE Record
  BY <1>5, RecordStep
<1>6. CASE UNCHANGED vars
  <2>1. UNCHANGED <<pool, call>> /\ built \subseteq built' /\ BuiltOK'
    BY <1>6 DEF vars, pool, call, IInv, BuiltOK
  <2>2. logic_circuits' \in SUBSET LogicRefs
    BY <1>6 DEF vars, IInv, TypeOK
  <2>3. QED
    BY <2>1, <2>2, OutsideTheCall
<1>7. QED
  BY <1>1, <1>2, <1>3, <1>4, <1>5, <1>6 DEF Next

\* The inductive invariant holds in every reachable state.
THEOREM Invariant == Spec => []IInv
  BY InitIInv, Inductive, PTL DEF Spec

-----------------------------------------------------------------------------
(* What follows for the pool. *)

\* Between submissions the tree is what was recorded.
LEMMA TreeWhenIdle ==
  ASSUME IInv, pc = "idle"
  PROVE  RecordedTags = commitments
<1> DEFINE n == Len(RecordedTags)
<1>1. Pushed = 0
  BY DEF Pushed
<1>2. /\ Len(commitments) = n + 0
      /\ \A i \in 1..n : commitments[i] = RecordedTags[i]
  BY <1>1 DEF IInv, TreeIsRecorded
<1>3. IsSeq(RecordedTags) /\ IsSeq(commitments)
  BY SeqIsSeq DEF IInv, BooksOK, TypeOK
<1>4. DOMAIN RecordedTags = 1..n /\ DOMAIN commitments = 1..n
  <2>1. n \in Nat /\ DOMAIN RecordedTags = 1..n /\ DOMAIN commitments = 1..Len(commitments)
    BY <1>3, IsSeqLength
  <2>2. Len(commitments) = n
    BY <1>2, <2>1
  <2>3. QED
    BY <2>1, <2>2
<1>5. /\ RecordedTags = [i \in 1..n |-> RecordedTags[i]]
      /\ commitments = [i \in 1..n |-> commitments[i]]
  <2>1. RecordedTags \in Seq(ToSet(RecordedTags)) /\ commitments \in Seq(ToSet(commitments))
    BY <1>3 DEF IsSeq
  <2>2. QED
    BY <1>4, <2>1
<1> HIDE DEF n
<1>6. QED
  BY <1>2, <1>5

\* The state of the pool keeps its shape: every anchor is the root of a prefix
\* of the commitments (ShieldedPool, nodes/src/verifier.rs).
THEOREM TypeCorrect == Spec => []TypeOK
<1>1. IInv => TypeOK
  BY DEF IInv
<1>2. QED
  BY <1>1, Invariant, PTL

\* No two accepted transactions consume the same resource, for any number of
\* clients, transactions and submissions (the last loop of submit).
THEOREM NoDoubleSpendHolds == Spec => []NoDoubleSpend
<1>1. IInv => NoDoubleSpend
  BY DEF IInv
<1>2. QED
  BY <1>1, Invariant, PTL

\* The tree never holds a commitment twice, although submit does not compare
\* the commitments of a transaction with those of the pool.
THEOREM CommitmentsUniqueHolds == Spec => []CommitmentsUnique
<1>1. IInv => CommitmentsUnique
  BY DEF IInv
<1>2. QED
  BY <1>1, Invariant, PTL

\* Every note an accepted transaction consumes is in the tree: the anchor check
\* of submit, with the Merkle path the compliance circuit proves.
THEOREM SpentNotesExistHolds == Spec => []SpentNotesExist
<1>1. IInv => SpentNotesExist
  BY DEF IInv
<1>2. QED
  BY <1>1, Invariant, PTL

\* Between submissions, what a client collects from the recorded transactions
\* is the tree, and its root is an anchor (the last loop of submit, and
\* ClientState.synchronize).
THEOREM ClientsFindTheTreeHolds == Spec => []ClientsFindTheTree
<1>1. IInv => ClientsFindTheTree
  BY TreeWhenIdle DEF IInv, AnchorsRecorded, ClientsFindTheTree
<1>2. QED
  BY <1>1, Invariant, PTL

\* Of every kind, the notes not yet consumed hold what transparent inputs
\* brought in less what transparent outputs took out: no history of builds and
\* submissions makes or loses value (submit, with the delta it verifies).
THEOREM SupplyConservedHolds == Spec => []SupplyConserved
<1>1. IInv => SupplyConserved
  BY TreeWhenIdle DEF IInv, BooksOK, SupplyConserved
<1>2. QED
  BY <1>1, Invariant, PTL
=============================================================================
