--------------------- MODULE TransactionBuilder_proofs ---------------------
(***************************************************************************)
(* Proofs about TransactionBuilder, for every value of its constants: the  *)
(* state keeps its shape, sums in sign and magnitude are those of the      *)
(* integers, and what the builder records call by call is what the         *)
(* compliance circuit computes again at the end; every path of a tree      *)
(* leads to its root; and the builder implements its contract.             *)
(***************************************************************************)
EXTENDS TransactionBuilder, SequenceLemmas, FiniteSetTheorems

-----------------------------------------------------------------------------
(* The inductive invariant. *)

NoteOK(cm) ==
  /\ cm = Commitment(ResourceOf(cm))
  /\ ResourceOf(cm).quantity \in Magnitudes
  /\ Kind(ResourceOf(cm)) \in Kinds

LeafsOK == IsSeq(leafs) /\ \A pos \in 1..Len(leafs) : NoteOK(leafs[pos])

ResourceOK(r) == r.quantity \in Magnitudes /\ Kind(r) \in Kinds

ResourcesOK ==
  /\ \A i \in 1..Len(consumed_data) : ResourceOK(consumed_data[i].resource)
  /\ \A i \in 1..Len(created_resources) : ResourceOK(created_resources[i])

\* How far the loops of build have come.
LoopOK ==
  /\ pc = "open" => at = 1
  /\ pc = "inputs" => at <= Len(consumed_data) + 1
  /\ pc = "outputs" => at <= Len(created_resources) + 1

\* What is built consumes something.
Consumes ==
  created_resources # <<>> \/ pc \in {"inputs", "outputs", "built"} => consumed_data # <<>>

\* The public parts the builder recorded are those the circuit computes.
ConsumedAgree ==
  \A i \in 1..Len(consumed_data) : consumed_publics[i] = CircuitConsumed(consumed_data[i])

CreatedAgree ==
  \A i \in 1..Len(created_resources) : created_publics[i] = CircuitCreated(created_resources[i])

IInv ==
  /\ TypeOK
  /\ LeafsOK
  /\ ResourcesOK
  /\ LoopOK
  /\ Consumes
  /\ ConsumedAgree
  /\ CreatedAgree
  /\ NoncesDerived
  /\ DeltaExact

-----------------------------------------------------------------------------
(* Sign and magnitude. *)

SignedNats == [sign : BOOLEAN, magnitude : Nat]

LEMMA SignMagnitudesAreSigned ==
  /\ SignMagnitudes \subseteq SignedNats
  /\ \A n \in Magnitudes : Positive(n) \in SignMagnitudes /\ ValueOf(Positive(n)) = n
  /\ \A a \in SignMagnitudes : Negated(a) \in SignMagnitudes /\ ValueOf(Negated(a)) = -ValueOf(a)
<1>1. Magnitudes \subseteq Nat
  BY SignMagnitudeAssumption DEF SignMagnitudeAssumption, Magnitudes
<1>2. SignMagnitudes \subseteq SignedNats
  BY <1>1 DEF SignMagnitudes, SignedNats
<1>3. ASSUME NEW n \in Magnitudes
      PROVE  Positive(n) \in SignMagnitudes /\ ValueOf(Positive(n)) = n
  BY DEF SignMagnitudes, Positive, ValueOf
<1>4. ASSUME NEW a \in SignMagnitudes
      PROVE  Negated(a) \in SignMagnitudes /\ ValueOf(Negated(a)) = -ValueOf(a)
  <2>1. a.sign \in BOOLEAN /\ a.magnitude \in Nat
    BY <1>2 DEF SignedNats
  <2>2. Negated(a).sign = ~a.sign /\ Negated(a).magnitude = a.magnitude
    BY DEF Negated, SignMagnitudes
  <2>3. Negated(a) \in SignMagnitudes
    BY DEF Negated, SignMagnitudes
  <2>4. CASE a.sign
    <3>1. ~Negated(a).sign
      BY <2>2, <2>4, Zenon
    <3>2. ValueOf(Negated(a)) = Negated(a).magnitude /\ ValueOf(a) = -a.magnitude
      BY <2>4, <3>1, Zenon DEF ValueOf
    <3>3. QED
      BY <2>1, <2>2, <2>3, <3>2
  <2>5. CASE ~a.sign
    <3>1. Negated(a).sign
      BY <2>2, <2>5, Zenon
    <3>2. ValueOf(Negated(a)) = -Negated(a).magnitude /\ ValueOf(a) = a.magnitude
      BY <2>5, <3>1, Zenon DEF ValueOf
    <3>3. QED
      BY <2>1, <2>2, <2>3, <3>2
  <2>6. QED
    BY <2>4, <2>5
<1>5. QED
  BY <1>2, <1>3, <1>4

LEMMA PlusAdds ==
  ASSUME NEW a \in SignedNats, NEW b \in SignedNats
  PROVE  Plus(a, b) \in SignedNats /\ ValueOf(Plus(a, b)) = ValueOf(a) + ValueOf(b)
<1>1. /\ a = [sign |-> a.sign, magnitude |-> a.magnitude]
      /\ b = [sign |-> b.sign, magnitude |-> b.magnitude]
      /\ a.sign \in BOOLEAN /\ b.sign \in BOOLEAN
      /\ a.magnitude \in Nat /\ b.magnitude \in Nat
  BY DEF SignedNats
<1>2. CASE a.sign = b.sign
  BY <1>1, <1>2 DEF SignedNats, Plus, ValueOf
<1>3. CASE a.sign # b.sign /\ a.magnitude >= b.magnitude
  BY <1>1, <1>3 DEF SignedNats, Plus, ValueOf
<1>4. CASE a.sign # b.sign /\ ~(a.magnitude >= b.magnitude)
  BY <1>1, <1>4 DEF SignedNats, Plus, ValueOf
<1>5. QED
  BY <1>2, <1>3, <1>4

LEMMA FitsOrWraps ==
  ASSUME NEW a \in SignedNats
  PROVE  /\ Fits(a) => a \in SignMagnitudes
         /\ Wrapped(a) \in SignMagnitudes
<1>1. MaxMagnitude + 1 \in Nat \ {0} /\ Magnitudes = 0..MaxMagnitude /\ MaxMagnitude \in Nat
  BY SignMagnitudeAssumption DEF SignMagnitudeAssumption, Magnitudes
<1>2. a.magnitude % (MaxMagnitude + 1) \in Magnitudes
  BY <1>1 DEF SignedNats
<1>3. QED
  BY <1>2 DEF SignedNats, SignMagnitudes, Fits, Wrapped

\* The comparison that decides about a kind's sign is that of the integers; for
\* either zero the sign it chooses makes no difference.
LEMMA ComparisonKeepsValue ==
  ASSUME NEW a \in SignMagnitudes
  PROVE  (IF AtLeast(a, Zero) THEN a.magnitude ELSE -a.magnitude) = ValueOf(a)
<1>1. a.sign \in BOOLEAN /\ a.magnitude \in Nat /\ a = [sign |-> a.sign, magnitude |-> a.magnitude]
  BY SignMagnitudesAreSigned DEF SignedNats
<1>2. Zero.sign = FALSE /\ Zero.magnitude = 0 /\ Zero = [sign |-> FALSE, magnitude |-> 0]
  BY DEF Zero, Positive
<1>3. CASE a.magnitude = 0
  BY <1>3 DEF ValueOf
<1>4. CASE a.magnitude # 0 /\ a.sign
  <2>1. ~AtLeast(a, Zero)
    BY <1>1, <1>2, <1>4 DEF AtLeast, Equal
  <2>2. QED
    BY <2>1, <1>4 DEF ValueOf
<1>5. CASE a.magnitude # 0 /\ ~a.sign
  <2>1. a.sign = Zero.sign
    BY <1>1, <1>2, <1>5
  <2>2. a.magnitude > Zero.magnitude
    BY <1>1, <1>2, <1>5
  <2>3. AtLeast(a, Zero)
    BY <1>5, <2>1, <2>2 DEF AtLeast
  <2>4. QED
    BY <2>3, <1>5 DEF ValueOf
<1>6. QED
  BY <1>1, <1>3, <1>4, <1>5
-----------------------------------------------------------------------------
(* The initial states and the calls that end the client. *)

LEMMA InitOK == Init => IInv
<1> SUFFICES ASSUME Init PROVE IInv
  OBVIOUS
<1>0. MaxConsumed \in Nat \ {0} /\ MaxCreated \in Nat
  BY ResourcesAssumption DEF ResourcesAssumption
<1>1. LeafsOK
  <2>1. PICK n \in 0..Len(PoolNotes) : leafs = SubSeq(PoolNotes, 1, n)
    BY DEF Init
  <2>2. PoolNotes \in Seq(ToSet(PoolNotes))
    BY TransactionBuilderAssumption DEF TransactionBuilderAssumption
  <2>3. Len(PoolNotes) \in Nat
    BY <2>2, LenProperties
  <2>4. /\ leafs \in Seq(ToSet(PoolNotes))
        /\ Len(leafs) = n
        /\ \A pos \in 1..n : leafs[pos] = PoolNotes[pos]
    BY <2>1, <2>2, <2>3, SubSeqProperties
  <2>5. \A pos \in 1..n : PoolNotes[pos] \in ToSet(PoolNotes)
    BY <2>2, <2>3, ElementOfSeq
  <2>6. \A cm \in ToSet(PoolNotes) : NoteOK(cm)
    BY TransactionBuilderAssumption DEF TransactionBuilderAssumption, NoteOK
  <2>7. QED
    BY <2>4, <2>5, <2>6, SeqIsSeq DEF LeafsOK
<1>2. TypeOK
  <2>1. Zero \in SignMagnitudes
    BY SignMagnitudesAreSigned, SignMagnitudeAssumption
       DEF Zero, Magnitudes, SignMagnitudeAssumption
  <2>2. <<>> \in Seq(ToSet(<<>>)) /\ Len(<<>>) = 0
    OBVIOUS
  <2>3. /\ consumed_data \in Seq(ToSet(consumed_data))
        /\ consumed_publics \in Seq(ToSet(consumed_publics))
        /\ created_resources \in Seq(ToSet(created_resources))
        /\ created_publics \in Seq(ToSet(created_publics))
        /\ Len(consumed_data) = 0 /\ Len(consumed_publics) = 0
        /\ Len(created_resources) = 0 /\ Len(created_publics) = 0
    BY <2>2 DEF Init
  <2>4. delta_map \in [Kinds -> SignMagnitudes] /\ net \in [Kinds -> Int]
    BY <2>1 DEF Init
  <2>5. pc = "open" /\ at = 1 /\ wrapped = FALSE
    BY DEF Init
  <2>6. 0 \in 0..MaxConsumed /\ 0 \in 0..MaxCreated /\ 1 \in 1..(MaxConsumed + MaxCreated + 1)
    BY <1>0
  <2>7. QED
    BY <2>3, <2>4, <2>5, <2>6, Zenon DEF TypeOK
<1>3. ResourcesOK /\ ConsumedAgree /\ CreatedAgree /\ NoncesDerived
  BY DEF Init, ResourcesOK, ConsumedAgree, CreatedAgree, NoncesDerived
<1>4. LoopOK /\ Consumes
  BY DEF Init, LoopOK, Consumes
<1>5. DeltaExact
  BY DEF Init, DeltaExact, ValueOf, Zero, Positive
<1>6. QED
  BY <1>1, <1>2, <1>3, <1>4, <1>5 DEF IInv

\* A step that leaves the leafs, the arrays and the sums alone.
LEMMA ArraysStay ==
  ASSUME IInv, UNCHANGED <<leafs, consumed, created>>
  PROVE  LeafsOK' /\ ResourcesOK' /\ ConsumedAgree' /\ CreatedAgree' /\ NoncesDerived'
<1>1. LeafsOK /\ ResourcesOK /\ ConsumedAgree /\ CreatedAgree /\ NoncesDerived
  BY DEF IInv
<1>2. /\ leafs' = leafs
      /\ consumed_data' = consumed_data /\ consumed_publics' = consumed_publics
      /\ created_resources' = created_resources /\ created_publics' = created_publics
  BY DEF consumed, created
<1>3. CircuitNullifiers' = CircuitNullifiers
  BY <1>2 DEF CircuitNullifiers
<1>4. QED
  BY <1>1, <1>2, <1>3
     DEF LeafsOK, ResourcesOK, ConsumedAgree, CreatedAgree, NoncesDerived

LEMMA StutterOK == IInv /\ UNCHANGED vars => IInv'
<1> SUFFICES ASSUME IInv, UNCHANGED vars PROVE IInv'
  OBVIOUS
<1>1. UNCHANGED <<leafs, consumed, created>>
  BY DEF vars, client
<1>2. LeafsOK' /\ ResourcesOK' /\ ConsumedAgree' /\ CreatedAgree' /\ NoncesDerived'
  BY <1>1, ArraysStay
<1>3. TypeOK' /\ LoopOK' /\ Consumes' /\ DeltaExact'
  BY DEF IInv, vars, client, consumed, created, sums, TypeOK, LoopOK, Consumes, DeltaExact
<1>4. QED
  BY <1>2, <1>3 DEF IInv

LEMMA EndOK ==
  ASSUME IInv, NEW outcome \in {"misused", "overflowed", "refused"}, End(outcome)
  PROVE  IInv'
<1>1. UNCHANGED <<leafs, consumed, created>>
  BY DEF End, client
<1>2. LeafsOK' /\ ResourcesOK' /\ ConsumedAgree' /\ CreatedAgree' /\ NoncesDerived'
  BY <1>1, ArraysStay
<1>3. TypeOK' /\ LoopOK' /\ Consumes' /\ DeltaExact'
  BY DEF IInv, End, client, consumed, created, sums, TypeOK, LoopOK, Consumes, DeltaExact
<1>4. QED
  BY <1>2, <1>3 DEF IInv
-----------------------------------------------------------------------------
(* Inputs and outputs. *)

LEMMA Shape ==
  ASSUME IInv
  PROVE  /\ IsSeq(consumed_data) /\ IsSeq(consumed_publics)
         /\ IsSeq(created_resources) /\ IsSeq(created_publics)
         /\ Len(consumed_data) \in 0..MaxConsumed /\ Len(consumed_publics) = Len(consumed_data)
         /\ Len(created_resources) \in 0..MaxCreated
         /\ Len(created_publics) = Len(created_resources)
         /\ MaxConsumed \in Nat /\ MaxCreated \in Nat
BY ResourcesAssumption, Zenon DEF IInv, TypeOK, IsSeq, ResourcesAssumption

\* An input: no output is there whose nonce it would change.
LEMMA PushInputOK ==
  ASSUME IInv, pc = "open", ~InputMisused,
         NEW r, NEW path, NEW root, ResourceOK(r),
         CircuitConsumed([resource |-> r, path |-> path])
           = [nullifier |-> Nullifier(r), logic_ref |-> r.logic_ref, root |-> root],
         PushInput(r, path, root)
  PROVE  IInv'
<1> DEFINE n == Len(consumed_data)
           c == [resource |-> r, path |-> path]
           p == [nullifier |-> Nullifier(r), logic_ref |-> r.logic_ref, root |-> root]
<1>1. created_resources = <<>> /\ n # MaxConsumed
  BY DEF InputMisused
<1>2. /\ consumed_data' = Append(consumed_data, c)
      /\ consumed_publics' = Append(consumed_publics, p)
      /\ UNCHANGED <<leafs, created_resources, created_publics, pc, at, delta_map, net, wrapped>>
  BY DEF PushInput, client, created, sums
<1>3. /\ IsSeq(consumed_data') /\ Len(consumed_data') = n + 1
      /\ \A i \in 1..n : consumed_data'[i] = consumed_data[i]
      /\ consumed_data'[n + 1] = c
  BY <1>2, Shape, AppendIsSeq
<1>4. /\ IsSeq(consumed_publics') /\ Len(consumed_publics') = n + 1
      /\ \A i \in 1..n : consumed_publics'[i] = consumed_publics[i]
      /\ consumed_publics'[n + 1] = p
  BY <1>2, Shape, AppendIsSeq
<1>5. n + 1 \in 0..MaxConsumed /\ n \in Nat
  BY <1>1, Shape
<1>6. TypeOK'
  <2>1. TypeOK
    BY DEF IInv
  <2>2. QED
    BY <2>1, <1>2, <1>3, <1>4, <1>5, Zenon DEF TypeOK, IsSeq
<1>7. ResourcesOK' /\ ConsumedAgree'
  <2>1. ResourcesOK /\ ConsumedAgree /\ c.resource = r
    BY DEF IInv
  <2>2. ASSUME NEW i \in 1..(n + 1)
        PROVE  /\ ResourceOK(consumed_data'[i].resource)
               /\ consumed_publics'[i] = CircuitConsumed(consumed_data'[i])
    <3>1. CASE i = n + 1
      BY <3>1, <2>1, <1>3, <1>4
    <3>2. CASE i # n + 1
      <4>1. i \in 1..n
        BY <3>2, <1>5
      <4>2. QED
        BY <4>1, <2>1, <1>3, <1>4 DEF ResourcesOK, ConsumedAgree
    <3>3. QED
      BY <3>1, <3>2
  <2>3. \A i \in 1..Len(created_resources)' : ResourceOK(created_resources'[i])
    BY <2>1, <1>2 DEF ResourcesOK
  <2>4. QED
    BY <2>2, <2>3, <1>3 DEF ResourcesOK, ConsumedAgree
<1>8. CreatedAgree' /\ NoncesDerived'
  BY <1>1, <1>2 DEF CreatedAgree, NoncesDerived
<1>9. LeafsOK' /\ DeltaExact' /\ LoopOK'
  BY <1>2 DEF IInv, LeafsOK, DeltaExact, LoopOK
<1>10. Consumes'
  BY <1>1, <1>2 DEF Consumes
<1>11. QED
  BY <1>6, <1>7, <1>8, <1>9, <1>10 DEF IInv

\* The nullifiers that an output's nonce is derived from are those the circuit
\* computes.
LEMMA NullifiersAgree ==
  ASSUME IInv
  PROVE  ConsumedNullifiers(consumed_publics) = CircuitNullifiers
<1>1. \A i \in 1..Len(consumed_data) : consumed_publics[i] = CircuitConsumed(consumed_data[i])
  BY DEF IInv, ConsumedAgree
<1>2. ASSUME NEW c
      PROVE  CircuitConsumed(c).nullifier = Nullifier(c.resource)
  BY DEF CircuitConsumed
<1>3. \A i \in 1..Len(consumed_data) :
        consumed_publics[i].nullifier = Nullifier(consumed_data[i].resource)
  BY <1>1, <1>2
<1>4. QED
  BY <1>3, Shape DEF ConsumedNullifiers, CircuitNullifiers

LEMMA PushOutputOK ==
  ASSUME IInv, pc = "open", ~OutputMisused,
         NEW out \in Outputs, PushOutput(WithNonce(out, CreatedNonce))
  PROVE  IInv'
<1> DEFINE n == Len(created_resources)
           r == WithNonce(out, CreatedNonce)
           p == CircuitCreated(r)
<1>1. n # MaxCreated
  BY DEF OutputMisused
<1>2. /\ created_resources' = Append(created_resources, r)
      /\ created_publics' = Append(created_publics, p)
      /\ UNCHANGED <<leafs, consumed_data, consumed_publics, pc, at, delta_map, net, wrapped>>
  BY DEF PushOutput, CircuitCreated, client, consumed, sums
<1> HIDE DEF r, p
<1>3. /\ IsSeq(created_resources') /\ Len(created_resources') = n + 1
      /\ \A i \in 1..n : created_resources'[i] = created_resources[i]
      /\ created_resources'[n + 1] = r
  BY <1>2, Shape, AppendIsSeq
<1>4. /\ IsSeq(created_publics') /\ Len(created_publics') = n + 1
      /\ \A i \in 1..n : created_publics'[i] = created_publics[i]
      /\ created_publics'[n + 1] = p
  BY <1>2, Shape, AppendIsSeq
<1>5. n + 1 \in 0..MaxCreated /\ n \in Nat
  BY <1>1, Shape
<1>6. TypeOK'
  <2>1. TypeOK
    BY DEF IInv
  <2>2. QED
    BY <2>1, <1>2, <1>3, <1>4, <1>5, Zenon DEF TypeOK, IsSeq
<1>7. /\ ResourceOK(r)
      /\ r.nonce = DeriveNonce(n + 1, CircuitNullifiers)
  <2>1. /\ out.logic_ref \in LogicRefs /\ out.label_ref \in LabelRefs
        /\ out.quantity \in Magnitudes
    BY TransactionBuilderAssumption DEF Outputs, TransactionBuilderAssumption
  <2>2. ResourceOK(r)
    BY <2>1 DEF r, WithNonce, ResourceOK, Kind, Kinds
  <2>3. CreatedNonce = DeriveNonce(n + 1, CircuitNullifiers)
    BY NullifiersAgree DEF CreatedNonce
  <2>4. QED
    BY <2>2, <2>3 DEF r, WithNonce
<1>8. CircuitNullifiers' = CircuitNullifiers
  BY <1>2 DEF CircuitNullifiers
<1>9. ResourcesOK' /\ CreatedAgree' /\ NoncesDerived'
  <2>1. ResourcesOK /\ CreatedAgree /\ NoncesDerived
    BY DEF IInv
  <2>2. ASSUME NEW i \in 1..(n + 1)
        PROVE  /\ ResourceOK(created_resources'[i])
               /\ created_publics'[i] = CircuitCreated(created_resources'[i])
               /\ created_resources'[i].nonce = DeriveNonce(i, CircuitNullifiers)
    <3>1. CASE i = n + 1
      BY <3>1, <1>3, <1>4, <1>7 DEF p
    <3>2. CASE i # n + 1
      <4>1. i \in 1..n
        BY <3>2, <1>5
      <4>2. QED
        BY <4>1, <2>1, <1>3, <1>4 DEF ResourcesOK, CreatedAgree, NoncesDerived
    <3>3. QED
      BY <3>1, <3>2
  <2>3. \A i \in 1..Len(consumed_data)' : ResourceOK(consumed_data'[i].resource)
    BY <2>1, <1>2 DEF ResourcesOK
  <2>4. QED
    BY <2>2, <2>3, <1>3, <1>8 DEF ResourcesOK, CreatedAgree, NoncesDerived
<1>10. LeafsOK' /\ ConsumedAgree' /\ DeltaExact' /\ LoopOK'
  BY <1>2 DEF IInv, LeafsOK, ConsumedAgree, DeltaExact, LoopOK
<1>11. Consumes'
  BY <1>2 DEF OutputMisused, Consumes
<1>12. QED
  BY <1>6, <1>9, <1>10, <1>11 DEF IInv
-----------------------------------------------------------------------------
(* build. *)

\* One round of a loop: the sum in sign and magnitude stays that of the integers,
\* or is marked as wrapped.
LEMMA AccumulateOK ==
  ASSUME IInv, NEW k \in Kinds, NEW amount \in SignMagnitudes, Accumulate(k, amount),
         \/ pc = "inputs" /\ at <= Len(consumed_data)
         \/ pc = "outputs" /\ at <= Len(created_resources)
  PROVE  IInv'
<1> DEFINE sum == Plus(delta_map[k], amount)
<1>1. CASE End("overflowed")
  BY <1>1, EndOK
<1>2. CASE ~End("overflowed")
  <2>1. /\ delta_map[k] \in SignedNats /\ amount \in SignedNats
        /\ delta_map \in [Kinds -> SignMagnitudes] /\ net \in [Kinds -> Int]
        /\ wrapped \in BOOLEAN
    BY SignMagnitudesAreSigned DEF IInv, TypeOK
  <2>2. sum \in SignedNats /\ ValueOf(sum) = ValueOf(delta_map[k]) + ValueOf(amount)
    BY <2>1, PlusAdds
  <2>3. ValueOf(amount) \in Int
    <3>1. amount.sign \in BOOLEAN /\ amount.magnitude \in Nat
      BY <2>1 DEF SignedNats
    <3>2. QED
      BY <3>1 DEF ValueOf
  <2> HIDE DEF sum
  <2>4. /\ at' = at + 1
        /\ UNCHANGED <<leafs, consumed, created, pc>>
        /\ net' = [net EXCEPT ![k] = @ + ValueOf(amount)]
        /\ \/ /\ Fits(sum) /\ delta_map' = [delta_map EXCEPT ![k] = sum]
              /\ wrapped' = wrapped
           \/ /\ delta_map' = [delta_map EXCEPT ![k] = Wrapped(sum)]
              /\ wrapped' = TRUE
    BY <1>2 DEF Accumulate, sum, client
  <2>5. delta_map' \in [Kinds -> SignMagnitudes] /\ wrapped' \in BOOLEAN
    BY <2>1, <2>2, <2>4, FitsOrWraps
  <2>6. net' \in [Kinds -> Int]
    BY <2>1, <2>3, <2>4
  <2>7. LeafsOK' /\ ResourcesOK' /\ ConsumedAgree' /\ CreatedAgree' /\ NoncesDerived'
    BY <2>4, ArraysStay
  <2>8. TypeOK' /\ LoopOK'
    <3>1. /\ consumed_data' = consumed_data /\ consumed_publics' = consumed_publics
          /\ created_resources' = created_resources /\ created_publics' = created_publics
          /\ pc' = pc /\ at' = at + 1
      BY <2>4 DEF consumed, created
    <3>2. TypeOK /\ at \in Nat \ {0}
      BY DEF IInv, TypeOK
    <3>3. at + 1 \in 1..(MaxConsumed + MaxCreated + 1)
      BY <3>2, Shape
    <3>4. TypeOK'
      BY <2>5, <2>6, <3>1, <3>2, <3>3, Zenon DEF TypeOK
    <3>5. LoopOK'
      BY <3>1, <3>2, Shape DEF LoopOK
    <3>6. QED
      BY <3>4, <3>5
  <2>9. DeltaExact'
    <3>1. SUFFICES ASSUME ~wrapped', NEW j \in Kinds
                   PROVE  ValueOf(delta_map'[j]) = net'[j]
      BY DEF DeltaExact
    <3>2. wrapped' = wrapped /\ delta_map' = [delta_map EXCEPT ![k] = sum]
      BY <2>4, <3>1
    <3>3. ValueOf(delta_map[j]) = net[j] /\ ValueOf(delta_map[k]) = net[k]
      BY <3>1, <3>2 DEF IInv, DeltaExact
    <3>4. CASE j = k
      BY <3>4, <3>2, <3>3, <2>1, <2>2, <2>4
    <3>5. CASE j # k
      BY <3>5, <3>2, <3>3, <2>1, <2>4
    <3>6. QED
      BY <3>4, <3>5
  <2>10. Consumes'
    BY <2>4 DEF IInv, Consumes, consumed, created
  <2>11. QED
    BY <2>7, <2>8, <2>9, <2>10 DEF IInv
<1>3. QED
  BY <1>1, <1>2

LEMMA NothingConsumed ==
  ASSUME IInv, consumed_data = <<>>
  PROVE  AllTags = <<>>
<1>1. created_resources = <<>>
  BY DEF IInv, Consumes
<1>2. Len(consumed_publics) = 0 /\ Len(created_publics) = 0
  BY <1>1, Shape
<1>3. ConsumedNullifiers(consumed_publics) = <<>> /\ CreatedCommitments(created_publics) = <<>>
  BY <1>2 DEF ConsumedNullifiers, CreatedCommitments
<1>4. QED
  BY <1>3 DEF AllTags

\* A step that only moves pc and at, and perhaps sets action_root or tx.
LEMMA ControlOK ==
  ASSUME IInv, UNCHANGED <<leafs, consumed, created, sums>>, consumed_data # <<>>,
         \/ pc' = "inputs" /\ at' = at /\ at = 1
         \/ pc' = "outputs" /\ at' = 1
         \/ pc' = "built" /\ at' = at
  PROVE  IInv'
<1>1. LeafsOK' /\ ResourcesOK' /\ ConsumedAgree' /\ CreatedAgree' /\ NoncesDerived'
  BY ArraysStay
<1>2. /\ consumed_data' = consumed_data /\ consumed_publics' = consumed_publics
      /\ created_resources' = created_resources /\ created_publics' = created_publics
      /\ delta_map' = delta_map /\ net' = net /\ wrapped' = wrapped
  BY DEF consumed, created, sums
<1>3. TypeOK'
  <2>1. TypeOK /\ 1 \in 1..(MaxConsumed + MaxCreated + 1)
    BY Shape DEF IInv
  <2>2. at' \in 1..(MaxConsumed + MaxCreated + 1)
    BY <2>1 DEF TypeOK
  <2>3. pc' \in {"open", "inputs", "outputs", "built", "misused", "overflowed", "refused"}
    OBVIOUS
  <2>4. QED
    BY <2>1, <2>2, <2>3, <1>2, Zenon DEF TypeOK
<1>4. LoopOK'
  BY <1>2, Shape DEF LoopOK
<1>5. DeltaExact' /\ Consumes'
  BY <1>2 DEF IInv, DeltaExact, Consumes
<1>6. QED
  BY <1>1, <1>3, <1>4, <1>5 DEF IInv

-----------------------------------------------------------------------------
(* Every step keeps the invariant. *)

LEMMA NextOK == IInv /\ Next => IInv'
<1> SUFFICES ASSUME IInv, Next PROVE IInv'
  OBVIOUS
<1>1. ASSUME NEW pos \in NotePositions, AddShieldedInput(pos) PROVE IInv'
  <2> DEFINE note == ResourceOf(leafs[pos + 1])
             path == Tree!Path(tree, pos)
             root == Tree!PathRoot(path, Commitment(note))
  <2>1. pc = "open" /\ AddInput(note, path, root)
    BY <1>1 DEF AddShieldedInput, AddInput
  <2>2. ~note.is_ephemeral /\ pos \in 0..(Len(leafs) - 1)
    BY DEF NotePositions
  <2>3. ResourceOK(note)
    <3>1. LeafsOK /\ Len(leafs) \in Nat
      BY LenProperties DEF IInv, LeafsOK, IsSeq
    <3>2. pos + 1 \in 1..Len(leafs)
      BY <2>2, <3>1
    <3>3. QED
      BY <3>1, <3>2 DEF LeafsOK, NoteOK, ResourceOK
  <2> HIDE DEF path, note
  <2>4. CircuitConsumed([resource |-> note, path |-> path])
          = [nullifier |-> Nullifier(note), logic_ref |-> note.logic_ref, root |-> root]
    BY <2>2 DEF CircuitConsumed
  <2> HIDE DEF root
  <2>5. CASE InputMisused /\ End("misused")
    BY <2>5, EndOK
  <2>6. CASE ~InputMisused /\ PushInput(note, path, root)
    BY <2>6, <2>1, <2>3, <2>4, PushInputOK
  <2>7. QED
    BY <2>1, <2>5, <2>6 DEF AddInput
<1>2. ASSUME NEW s \in FreshSeeds, NEW q \in Quantities, NEW k \in Kinds,
             AddTransparentInput(s, q, k)
      PROVE  IInv'
  <2> DEFINE r == TransparentInput(s, q, k).resource
  <2>1. pc = "open" /\ AddInput(r, <<>>, InitialRoot)
    BY <1>2 DEF AddTransparentInput, AddInput
  <2>2. r.is_ephemeral /\ ResourceOK(r)
    <3>1. q \in Magnitudes /\ k = <<k[1], k[2]>>
      BY TransactionBuilderAssumption DEF TransactionBuilderAssumption, Kinds
    <3>2. QED
      BY <3>1 DEF TransparentInput, ResourceOK, Kind
  <2> HIDE DEF r
  <2>3. CircuitConsumed([resource |-> r, path |-> <<>>])
          = [nullifier |-> Nullifier(r), logic_ref |-> r.logic_ref, root |-> InitialRoot]
    BY <2>2 DEF CircuitConsumed
  <2>4. CASE InputMisused /\ End("misused")
    BY <2>4, EndOK
  <2>5. CASE ~InputMisused /\ PushInput(r, <<>>, InitialRoot)
    BY <2>5, <2>1, <2>2, <2>3, PushInputOK
  <2>6. QED
    BY <2>1, <2>4, <2>5 DEF AddInput
<1>3. ASSUME NEW out \in Outputs, AddOutput(out) PROVE IInv'
  <2>1. CASE OutputMisused /\ End("misused")
    BY <2>1, EndOK
  <2>2. CASE ~OutputMisused /\ PushOutput(WithNonce(out, CreatedNonce))
    BY <2>2, <1>3, PushOutputOK DEF AddOutput
  <2>3. QED
    BY <1>3, <2>1, <2>2 DEF AddOutput
<1>4. ASSUME StartBuild PROVE IInv'
  <2>1. CASE End("misused")
    BY <2>1, EndOK
  <2>2. CASE ~End("misused")
    <3>1. pc = "open" /\ pc' = "inputs" /\ UNCHANGED <<leafs, consumed, created, at, sums>>
      BY <1>4, <2>2 DEF StartBuild, client
    <3>2. at = 1
      BY <3>1 DEF IInv, LoopOK
    <3>3. consumed_data # <<>>
      BY <1>4, <2>2, NothingConsumed DEF StartBuild
    <3>4. QED
      BY <3>1, <3>2, <3>3, ControlOK
  <2>3. QED
    BY <2>1, <2>2
<1>5. ASSUME ProveInput PROVE IInv'
  <2> DEFINE r == consumed_data[at].resource
  <2>1. pc = "inputs" /\ at <= Len(consumed_data) /\ Accumulate(Kind(r), Positive(r.quantity))
    BY <1>5 DEF ProveInput
  <2>2. at \in 1..Len(consumed_data)
    BY <2>1, Shape DEF IInv, TypeOK
  <2>3. ResourceOK(r)
    BY <2>2 DEF IInv, ResourcesOK
  <2>4. Kind(r) \in Kinds /\ Positive(r.quantity) \in SignMagnitudes
    BY <2>3, SignMagnitudesAreSigned DEF ResourceOK
  <2>5. QED
    BY <2>1, <2>4, AccumulateOK
<1>6. ASSUME StartOutputs PROVE IInv'
  BY <1>6, ControlOK DEF StartOutputs, client, IInv, Consumes
<1>7. ASSUME ProveOutput PROVE IInv'
  <2> DEFINE r == created_resources[at]
  <2>1. /\ pc = "outputs" /\ at <= Len(created_resources)
        /\ Accumulate(Kind(r), Negated(Positive(r.quantity)))
    BY <1>7 DEF ProveOutput
  <2>2. at \in 1..Len(created_resources)
    BY <2>1, Shape DEF IInv, TypeOK
  <2>3. ResourceOK(r)
    BY <2>2 DEF IInv, ResourcesOK
  <2>4. Kind(r) \in Kinds /\ Negated(Positive(r.quantity)) \in SignMagnitudes
    BY <2>3, SignMagnitudesAreSigned DEF ResourceOK
  <2>5. QED
    BY <2>1, <2>4, AccumulateOK
<1>8. ASSUME ProveCompliance PROVE IInv'
  <2>1. CASE End("refused")
    BY <2>1, EndOK
  <2>2. CASE ~End("refused")
    BY <1>8, <2>2, ControlOK DEF ProveCompliance, client, IInv, Consumes
  <2>3. QED
    BY <2>1, <2>2
<1>9. QED
  BY <1>1, <1>2, <1>3, <1>4, <1>5, <1>6, <1>7, <1>8 DEF Next

\* Every order of calls of the builder (client.rs:124, client.rs:731) keeps the invariant:
\* what is recorded, summed and proved agrees, step by step of build.
THEOREM Invariant == Spec => []IInv
<1>1. IInv /\ [Next]_vars => IInv'
  BY NextOK, StutterOK
<1>2. QED
  BY InitOK, <1>1, PTL DEF Spec
-----------------------------------------------------------------------------
(* What follows. *)

\* For every pool, depth of the tree, width of the sums and limit of the arrays,
\* the state of TransactionBuilder (client.rs:98) keeps its shape.
THEOREM TypeCorrect == Spec => []TypeOK
<1>1. IInv => TypeOK
  BY DEF IInv
<1>2. QED
  BY <1>1, Invariant, PTL

\* For every width of the magnitude, the sums that build keeps in sign and
\* magnitude (client.rs:769, 781; lib.rs:320, 342) are those of the integers
\* until one of them wraps.
THEOREM SumsExact == Spec => []DeltaExact
<1>1. IInv => DeltaExact
  BY DEF IInv
<1>2. QED
  BY <1>1, Invariant, PTL

\* The constraints of the circuit that what was recorded call by call could
\* break: the nonce of an output, derived from the nullifiers there were when it
\* was added (client.rs:465, 607), is the one derived from all of them
\* (compliance main.nr:217), and the public parts are those of the witness.
RecordedIsComputed ==
  /\ NoncesDerived
  /\ CircuitInstance.consumed_publics = consumed_publics
  /\ CircuitInstance.created_publics = created_publics

LEMMA RecordedOK == IInv => RecordedIsComputed
<1> SUFFICES ASSUME IInv PROVE RecordedIsComputed
  OBVIOUS
<1>1. NoncesDerived /\ ConsumedAgree /\ CreatedAgree
  BY DEF IInv
<1>2. /\ consumed_publics = [i \in 1..Len(consumed_data) |-> consumed_publics[i]]
      /\ created_publics = [i \in 1..Len(created_resources) |-> created_publics[i]]
  BY Shape, LenProperties DEF IsSeq
<1>3. /\ CircuitInstance.consumed_publics
           = [i \in 1..Len(consumed_data) |-> CircuitConsumed(consumed_data[i])]
      /\ CircuitInstance.created_publics
           = [i \in 1..Len(created_resources) |-> CircuitCreated(created_resources[i])]
  BY DEF CircuitInstance
<1>4. /\ \A i \in 1..Len(consumed_data) : consumed_publics[i] = CircuitConsumed(consumed_data[i])
      /\ \A i \in 1..Len(created_resources) :
           created_publics[i] = CircuitCreated(created_resources[i])
  BY <1>1 DEF ConsumedAgree, CreatedAgree
<1>5. QED
  BY <1>1, <1>2, <1>3, <1>4, Zenon DEF RecordedIsComputed

\* What push_input and push_output record of a resource is what the compliance
\* circuit computes of it.
THEOREM RecordedComputed == Spec => []RecordedIsComputed
BY Invariant, RecordedOK, PTL

\* The compliance instance commits to the balance of every kind in the integers,
\* whichever sign a zero has (client.rs:699).
DeltaCommitted == ~wrapped => ComplianceInstance.delta = net

LEMMA CommittedOK == IInv => DeltaCommitted
<1> SUFFICES ASSUME IInv, ~wrapped PROVE ComplianceInstance.delta = net
  BY DEF DeltaCommitted
<1>1. /\ delta_map \in [Kinds -> SignMagnitudes] /\ net \in [Kinds -> Int]
      /\ \A k \in Kinds : ValueOf(delta_map[k]) = net[k]
  BY DEF IInv, TypeOK, DeltaExact
<1>2. \A k \in Kinds :
        (IF AtLeast(delta_map[k], Zero)
         THEN delta_map[k].magnitude ELSE -delta_map[k].magnitude) = net[k]
  BY <1>1, ComparisonKeepsValue
<1>3. ComplianceInstance.delta
        = [k \in Kinds |-> IF AtLeast(delta_map[k], Zero)
                           THEN delta_map[k].magnitude ELSE -delta_map[k].magnitude]
  BY DEF ComplianceInstance
<1>4. net = [k \in Kinds |-> net[k]]
  BY <1>1
<1>5. QED
  BY <1>2, <1>3, <1>4, Zenon

\* The compliance instance commits to the balance of every kind (client.rs:699),
\* for any number of kinds and any width of the sums.
THEOREM DeltaIsCommitted == Spec => []DeltaCommitted
BY Invariant, CommittedOK, PTL

\* The sums of the circuit and of the builder are those of the integers.
SumsFit == CircuitSums.ok /\ CircuitInstance.delta = net /\ ~wrapped

OnlySumsRefuse ==
  pc = "outputs" /\ SumsFit => Constrained /\ CircuitInstance = ComplianceInstance

LEMMA OnlySumsOK == IInv => OnlySumsRefuse
<1>1. ASSUME IInv PROVE OnlySumsRefuse
  <2>1. SUFFICES ASSUME pc = "outputs", SumsFit
                 PROVE  Constrained /\ CircuitInstance = ComplianceInstance
    BY DEF OnlySumsRefuse
  <2>2. RecordedIsComputed /\ DeltaCommitted /\ consumed_data # <<>>
    BY <1>1, <2>1, RecordedOK, CommittedOK DEF IInv, Consumes
  <2>3. Constrained
    BY <2>1, <2>2 DEF Constrained, RecordedIsComputed, SumsFit
  <2>4. /\ CircuitInstance.consumed_publics = ComplianceInstance.consumed_publics
        /\ CircuitInstance.created_publics = ComplianceInstance.created_publics
        /\ CircuitInstance.delta = ComplianceInstance.delta
    BY <2>1, <2>2 DEF RecordedIsComputed, DeltaCommitted, SumsFit, ComplianceInstance
  <2>5. /\ CircuitInstance
             = [consumed_publics |-> CircuitInstance.consumed_publics,
                created_publics |-> CircuitInstance.created_publics,
                delta |-> CircuitInstance.delta]
        /\ ComplianceInstance
             = [consumed_publics |-> ComplianceInstance.consumed_publics,
                created_publics |-> ComplianceInstance.created_publics,
                delta |-> ComplianceInstance.delta]
    BY DEF CircuitInstance, ComplianceInstance
  <2>6. QED
    BY <2>3, <2>4, <2>5, Zenon
<1>2. QED
  BY <1>1

\* Once build runs, the circuit refuses for the sums alone: if its own fit and are
\* those of the integers, and none of the builder's wrapped, then its constraints
\* hold and the two instances are the same (client.rs:804).
THEOREM RefusedForSums == Spec => []OnlySumsRefuse
BY Invariant, OnlySumsOK, PTL

-----------------------------------------------------------------------------
(* The functions that CommitmentTree defines by recursion over heights. *)

\* The powers of two.
LEMMA TwoToDef ==
  /\ Tree!TwoTo[0] = 1
  /\ \A n \in Nat : Tree!TwoTo[n + 1] = 2 * Tree!TwoTo[n]
<1> DEFINE Upto(f, n) == f = [i \in 0..n |-> IF i = 0 THEN 1 ELSE 2 * f[i - 1]]
           A == {n \in Nat : \E f : Upto(f, n)}
           g == [n \in Nat |-> CHOOSE f : Upto(f, n)]
           h == [n \in Nat |-> g[n][n]]
<1>1. \A n \in Nat : \E f : Upto(f, n)
  <2>1. Upto([i \in 0..0 |-> 1], 0)
    OBVIOUS
  <2>2. ASSUME NEW n \in Nat, n \in A PROVE n + 1 \in A
    <3>1. PICK f : Upto(f, n)
      BY <2>2
    <3> DEFINE e == [i \in 0..(n + 1) |-> IF i = n + 1 THEN 2 * f[n] ELSE f[i]]
    <3>2. ASSUME NEW i \in 0..(n + 1)
          PROVE  e[i] = IF i = 0 THEN 1 ELSE 2 * e[i - 1]
      <4>1. CASE i = n + 1
        BY <4>1
      <4>2. CASE i # n + 1
        <5>1. i \in 0..n /\ f[i] = IF i = 0 THEN 1 ELSE 2 * f[i - 1]
          BY <3>1, <4>2
        <5>2. e[i] = f[i] /\ (i # 0 => e[i - 1] = f[i - 1])
          BY <4>2
        <5>3. QED
          BY <5>1, <5>2
      <4>3. QED
        BY <4>1, <4>2
    <3>3. Upto(e, n + 1)
      BY <3>2
    <3> HIDE DEF e
    <3>4. \E d : Upto(d, n + 1)
      BY <3>3, Zenon
    <3>5. n + 1 \in Nat
      OBVIOUS
    <3> HIDE DEF Upto
    <3>6. QED
      BY <3>4, <3>5
  <2>3. 0 \in A
    BY <2>1
  <2>4. \A n \in Nat : n \in A
    <3> HIDE DEF A
    <3>1. QED
      BY <2>2, <2>3, Induction
  <2>5. QED
    BY <2>4
<1>2. \A n \in Nat : Upto(g[n], n)
  BY <1>1
<1> HIDE DEF g
<1>3. ASSUME NEW n \in Nat
      PROVE  g[n][0] = 1 /\ \A i \in 1..n : g[n][i] = 2 * g[n][i - 1]
  <2> DEFINE f == g[n]
  <2>1. Upto(f, n)
    BY <1>2, Zenon
  <2> HIDE DEF f
  <2>2. f[0] = 1 /\ \A i \in 1..n : f[i] = 2 * f[i - 1]
    BY <2>1
  <2>3. QED
    BY <2>2, Zenon DEF f
<1>4. \A n \in Nat, m \in Nat : n <= m => g[m][n] = g[n][n]
  <2> DEFINE B == {i \in Nat : \A n \in Nat, m \in Nat : i <= n /\ n <= m => g[m][i] = g[n][i]}
  <2>1. 0 \in B
    BY <1>3
  <2>2. ASSUME NEW i \in Nat, i \in B PROVE i + 1 \in B
    <3>1. SUFFICES ASSUME NEW n \in Nat, NEW m \in Nat, i + 1 <= n, n <= m
                   PROVE  g[m][i + 1] = g[n][i + 1]
      OBVIOUS
    <3>2. g[m][i] = g[n][i]
      BY <2>2, <3>1
    <3>3. i + 1 \in 1..n /\ i + 1 \in 1..m /\ (i + 1) - 1 = i
      BY <3>1
    <3>4. g[m][i + 1] = 2 * g[m][i] /\ g[n][i + 1] = 2 * g[n][i]
      BY <1>3, <3>3
    <3>5. QED
      BY <3>2, <3>4
  <2>3. \A i \in Nat : i \in B
    <3> HIDE DEF B
    <3>1. QED
      BY <2>1, <2>2, Induction
  <2>4. QED
    BY <2>3
<1>5. ASSUME NEW n \in Nat PROVE h[n] = IF n = 0 THEN 1 ELSE 2 * h[n - 1]
  <2>1. CASE n = 0
    BY <1>3, <2>1
  <2>2. CASE n # 0
    <3>1. n \in 1..n /\ n - 1 \in Nat /\ n - 1 <= n
      BY <2>2
    <3>2. g[n][n] = 2 * g[n][n - 1] /\ g[n][n - 1] = g[n - 1][n - 1]
      BY <1>3, <1>4, <3>1
    <3>3. QED
      BY <2>2, <3>1, <3>2
  <2>3. QED
    BY <2>1, <2>2
<1>6. h = [n \in Nat |-> IF n = 0 THEN 1 ELSE 2 * h[n - 1]]
  BY <1>5
<1> HIDE DEF h
<1>7. Tree!TwoTo = [n \in Nat |-> IF n = 0 THEN 1 ELSE 2 * Tree!TwoTo[n - 1]]
  BY <1>6, Zenon DEF Tree!TwoTo
<1>8. \A n \in Nat : n + 1 \in Nat /\ n + 1 # 0 /\ (n + 1) - 1 = n
  OBVIOUS
<1>9. QED
  BY <1>7, <1>8

\* The roots of empty trees.
LEMMA EmptyRootDef ==
  /\ Tree!EmptyRoot[0] = Tree!EmptyLeaf
  /\ \A n \in Nat : Tree!EmptyRoot[n + 1] = Tree!Combine(Tree!EmptyRoot[n], Tree!EmptyRoot[n])
<1> DEFINE Upto(f, n) == f = [i \in 0..n |-> IF i = 0 THEN Tree!EmptyLeaf
                                             ELSE Tree!Combine(f[i - 1], f[i - 1])]
           A == {n \in Nat : \E f : Upto(f, n)}
           g == [n \in Nat |-> CHOOSE f : Upto(f, n)]
           h == [n \in Nat |-> g[n][n]]
<1>1. \A n \in Nat : \E f : Upto(f, n)
  <2>1. Upto([i \in 0..0 |-> Tree!EmptyLeaf], 0)
    OBVIOUS
  <2>2. ASSUME NEW n \in Nat, n \in A PROVE n + 1 \in A
    <3>1. PICK f : Upto(f, n)
      BY <2>2
    <3> DEFINE e == [i \in 0..(n + 1) |-> IF i = n + 1 THEN Tree!Combine(f[n], f[n]) ELSE f[i]]
    <3>2. ASSUME NEW i \in 0..(n + 1)
          PROVE  e[i] = IF i = 0 THEN Tree!EmptyLeaf ELSE Tree!Combine(e[i - 1], e[i - 1])
      <4>1. CASE i = n + 1
        BY <4>1
      <4>2. CASE i # n + 1
        <5>1. i \in 0..n /\ f[i] = IF i = 0 THEN Tree!EmptyLeaf
                                   ELSE Tree!Combine(f[i - 1], f[i - 1])
          BY <3>1, <4>2
        <5>2. e[i] = f[i] /\ (i # 0 => e[i - 1] = f[i - 1])
          BY <4>2
        <5>3. QED
          BY <5>1, <5>2
      <4>3. QED
        BY <4>1, <4>2
    <3>3. Upto(e, n + 1)
      BY <3>2
    <3> HIDE DEF e
    <3>4. \E d : Upto(d, n + 1)
      BY <3>3, Zenon
    <3>5. n + 1 \in Nat
      OBVIOUS
    <3> HIDE DEF Upto
    <3>6. QED
      BY <3>4, <3>5
  <2>3. 0 \in A
    BY <2>1
  <2>4. \A n \in Nat : n \in A
    <3> HIDE DEF A
    <3>1. QED
      BY <2>2, <2>3, Induction
  <2>5. QED
    BY <2>4
<1>2. \A n \in Nat : Upto(g[n], n)
  BY <1>1
<1> HIDE DEF g
<1>3. ASSUME NEW n \in Nat
      PROVE  g[n][0] = Tree!EmptyLeaf /\ \A i \in 1..n : g[n][i] = Tree!Combine(g[n][i - 1], g[n][i - 1])
  <2> DEFINE f == g[n]
  <2>1. Upto(f, n)
    BY <1>2, Zenon
  <2> HIDE DEF f
  <2>2. f[0] = Tree!EmptyLeaf /\ \A i \in 1..n : f[i] = Tree!Combine(f[i - 1], f[i - 1])
    BY <2>1
  <2>3. QED
    BY <2>2, Zenon DEF f
<1>4. \A n \in Nat, m \in Nat : n <= m => g[m][n] = g[n][n]
  <2> DEFINE B == {i \in Nat : \A n \in Nat, m \in Nat : i <= n /\ n <= m => g[m][i] = g[n][i]}
  <2>1. 0 \in B
    BY <1>3
  <2>2. ASSUME NEW i \in Nat, i \in B PROVE i + 1 \in B
    <3>1. SUFFICES ASSUME NEW n \in Nat, NEW m \in Nat, i + 1 <= n, n <= m
                   PROVE  g[m][i + 1] = g[n][i + 1]
      OBVIOUS
    <3>2. g[m][i] = g[n][i]
      BY <2>2, <3>1
    <3>3. i + 1 \in 1..n /\ i + 1 \in 1..m /\ (i + 1) - 1 = i
      BY <3>1
    <3>4. g[m][i + 1] = Tree!Combine(g[m][i], g[m][i]) /\ g[n][i + 1] = Tree!Combine(g[n][i], g[n][i])
      BY <1>3, <3>3
    <3>5. QED
      BY <3>2, <3>4
  <2>3. \A i \in Nat : i \in B
    <3> HIDE DEF B
    <3>1. QED
      BY <2>1, <2>2, Induction
  <2>4. QED
    BY <2>3
<1>5. ASSUME NEW n \in Nat PROVE h[n] = IF n = 0 THEN Tree!EmptyLeaf
                                        ELSE Tree!Combine(h[n - 1], h[n - 1])
  <2>1. CASE n = 0
    BY <1>3, <2>1
  <2>2. CASE n # 0
    <3>1. n \in 1..n /\ n - 1 \in Nat /\ n - 1 <= n
      BY <2>2
    <3>2. g[n][n] = Tree!Combine(g[n][n - 1], g[n][n - 1]) /\ g[n][n - 1] = g[n - 1][n - 1]
      BY <1>3, <1>4, <3>1
    <3>3. QED
      BY <2>2, <3>1, <3>2
  <2>3. QED
    BY <2>1, <2>2
<1>6. h = [n \in Nat |-> IF n = 0 THEN Tree!EmptyLeaf ELSE Tree!Combine(h[n - 1], h[n - 1])]
  BY <1>5
<1> HIDE DEF h
<1>7. Tree!EmptyRoot = [n \in Nat |-> IF n = 0 THEN Tree!EmptyLeaf
                                      ELSE Tree!Combine(Tree!EmptyRoot[n - 1], Tree!EmptyRoot[n - 1])]
  BY <1>6, Zenon DEF Tree!EmptyRoot
<1>8. \A n \in Nat : n + 1 \in Nat /\ n + 1 # 0 /\ (n + 1) - 1 = n
  OBVIOUS
<1>9. QED
  BY <1>7, <1>8

\* What complete has after each of its rounds.
Rows(depth, t, h) ==
  CHOOSE f : f = [i \in 0..depth |-> IF i <= h THEN t ELSE Tree!Row(f[i - 1], i - 1)]

\* The recursion of complete has a solution.
LEMMA RowsDef ==
  ASSUME NEW depth \in Nat, NEW t, NEW h \in Nat, NEW leafCount
  PROVE  /\ Tree!Complete(depth, t, h, leafCount)
              = [nodes |-> Rows(depth, t, h)[depth].nodes, leaf_count |-> leafCount, depth |-> depth]
         /\ \A i \in 0..depth : i <= h => Rows(depth, t, h)[i] = t
         /\ \A i \in 0..depth :
              i > h => Rows(depth, t, h)[i] = Tree!Row(Rows(depth, t, h)[i - 1], i - 1)
<1> DEFINE Upto(f, n) == f = [i \in 0..n |-> IF i <= h THEN t ELSE Tree!Row(f[i - 1], i - 1)]
           A == {n \in Nat : \E f : Upto(f, n)}
<1>1. 0 \in A
  <2>1. Upto([i \in 0..0 |-> t], 0)
    OBVIOUS
  <2>2. QED
    BY <2>1
<1>2. ASSUME NEW n \in Nat, n \in A PROVE n + 1 \in A
  <2>1. PICK f : Upto(f, n)
    BY <1>2
  <2> DEFINE e == [i \in 0..(n + 1) |->
                     IF i = n + 1 THEN IF n + 1 <= h THEN t ELSE Tree!Row(f[n], (n + 1) - 1)
                     ELSE f[i]]
  <2>2. ASSUME NEW i \in 0..(n + 1)
        PROVE  e[i] = IF i <= h THEN t ELSE Tree!Row(e[i - 1], i - 1)
    <3>1. CASE i = n + 1
      BY <3>1
    <3>2. CASE i # n + 1
      <4>1. i \in 0..n /\ f[i] = IF i <= h THEN t ELSE Tree!Row(f[i - 1], i - 1)
        BY <2>1, <3>2
      <4>2. e[i] = f[i] /\ (i # 0 => e[i - 1] = f[i - 1])
        BY <3>2
      <4>3. QED
        BY <4>1, <4>2
    <3>3. QED
      BY <3>1, <3>2
  <2>3. Upto(e, n + 1)
    BY <2>2
  <2> HIDE DEF e
  <2>4. \E d : Upto(d, n + 1)
    BY <2>3, Zenon
  <2>5. n + 1 \in Nat
    OBVIOUS
  <2> HIDE DEF Upto
  <2>6. QED
    BY <2>4, <2>5
<1>3. depth \in A
  <2> HIDE DEF A
  <2>1. QED
    BY <1>1, <1>2, Induction
<1>4. \E f : Upto(f, depth)
  BY <1>3, Zenon
<1>5. Upto(Rows(depth, t, h), depth)
  BY <1>4, Zenon DEF Rows
<1>6. Tree!Complete(depth, t, h, leafCount)
        = [nodes |-> Rows(depth, t, h)[depth].nodes, leaf_count |-> leafCount, depth |-> depth]
  BY Zenon DEF Tree!Complete, Rows
<1>7. \A i \in 0..depth :
        Rows(depth, t, h)[i] = IF i <= h THEN t ELSE Tree!Row(Rows(depth, t, h)[i - 1], i - 1)
  BY <1>5, Zenon
<1>8. QED
  BY <1>6, <1>7

\* What path has after each of its rounds.
Walk(tr, pos) ==
  CHOOSE f : f = [i \in 0..tr.depth |-> IF i = 0 THEN Tree!AtLeaf(tr, pos)
                                        ELSE Tree!PathStep(tr, f[i - 1], i - 1)]

\* The recursion of path has a solution.
LEMMA WalkDef ==
  ASSUME NEW tr, NEW pos, tr.depth \in Nat
  PROVE  /\ Tree!Path(tr, pos) = Walk(tr, pos)[tr.depth].path
         /\ Walk(tr, pos)[0] = Tree!AtLeaf(tr, pos)
         /\ \A i \in 1..tr.depth : Walk(tr, pos)[i] = Tree!PathStep(tr, Walk(tr, pos)[i - 1], i - 1)
<1> DEFINE Upto(f, n) == f = [i \in 0..n |-> IF i = 0 THEN Tree!AtLeaf(tr, pos)
                                             ELSE Tree!PathStep(tr, f[i - 1], i - 1)]
           A == {n \in Nat : \E f : Upto(f, n)}
<1>1. 0 \in A
  <2>1. Upto([i \in 0..0 |-> Tree!AtLeaf(tr, pos)], 0)
    OBVIOUS
  <2>2. QED
    BY <2>1
<1>2. ASSUME NEW n \in Nat, n \in A PROVE n + 1 \in A
  <2>1. PICK f : Upto(f, n)
    BY <1>2
  <2> DEFINE e == [i \in 0..(n + 1) |->
                     IF i = n + 1 THEN IF n + 1 <= 0 THEN Tree!AtLeaf(tr, pos)
                                       ELSE Tree!PathStep(tr, f[n], (n + 1) - 1)
                     ELSE f[i]]
  <2>2. ASSUME NEW i \in 0..(n + 1)
        PROVE  e[i] = IF i = 0 THEN Tree!AtLeaf(tr, pos) ELSE Tree!PathStep(tr, e[i - 1], i - 1)
    <3>1. CASE i = n + 1
      BY <3>1
    <3>2. CASE i # n + 1
      <4>1. i \in 0..n /\ f[i] = IF i = 0 THEN Tree!AtLeaf(tr, pos)
                                 ELSE Tree!PathStep(tr, f[i - 1], i - 1)
        BY <2>1, <3>2
      <4>2. e[i] = f[i] /\ (i # 0 => e[i - 1] = f[i - 1])
        BY <3>2
      <4>3. QED
        BY <4>1, <4>2
    <3>3. QED
      BY <3>1, <3>2
  <2>3. Upto(e, n + 1)
    BY <2>2
  <2> HIDE DEF e
  <2>4. \E d : Upto(d, n + 1)
    BY <2>3, Zenon
  <2>5. n + 1 \in Nat
    OBVIOUS
  <2> HIDE DEF Upto
  <2>6. QED
    BY <2>4, <2>5
<1>3. tr.depth \in A
  <2> HIDE DEF A
  <2>1. QED
    BY <1>1, <1>2, Induction
<1>4. \E f : Upto(f, tr.depth)
  BY <1>3, Zenon
<1>5. Upto(Walk(tr, pos), tr.depth)
  BY <1>4, Zenon DEF Walk
<1>6. Tree!Path(tr, pos) = Walk(tr, pos)[tr.depth].path
  BY Zenon DEF Tree!Path, Walk
<1>7. \A i \in 0..tr.depth :
        Walk(tr, pos)[i] = IF i = 0 THEN Tree!AtLeaf(tr, pos)
                           ELSE Tree!PathStep(tr, Walk(tr, pos)[i - 1], i - 1)
  BY <1>5, Zenon
<1>8. QED
  BY <1>6, <1>7

\* Where a path has led after each of its steps.
Folded(path, leaf) ==
  CHOOSE f : f = [i \in 0..Len(path) |-> IF i = 0 THEN leaf ELSE Tree!Parent(f[i - 1], path[i])]

\* The recursion of PathRoot has a solution.
LEMMA FoldedDef ==
  ASSUME NEW path, NEW leaf, Len(path) \in Nat
  PROVE  /\ Tree!PathRoot(path, leaf) = Folded(path, leaf)[Len(path)]
         /\ Folded(path, leaf)[0] = leaf
         /\ \A i \in 1..Len(path) : Folded(path, leaf)[i] = Tree!Parent(Folded(path, leaf)[i - 1], path[i])
<1> DEFINE Upto(f, n) == f = [i \in 0..n |-> IF i = 0 THEN leaf
                                             ELSE Tree!Parent(f[i - 1], path[i])]
           A == {n \in Nat : \E f : Upto(f, n)}
<1>1. 0 \in A
  <2>1. Upto([i \in 0..0 |-> leaf], 0)
    OBVIOUS
  <2>2. QED
    BY <2>1
<1>2. ASSUME NEW n \in Nat, n \in A PROVE n + 1 \in A
  <2>1. PICK f : Upto(f, n)
    BY <1>2
  <2> DEFINE e == [i \in 0..(n + 1) |->
                     IF i = n + 1 THEN IF n + 1 <= 0 THEN leaf
                                       ELSE Tree!Parent(f[n], path[(n + 1)])
                     ELSE f[i]]
  <2>2. ASSUME NEW i \in 0..(n + 1)
        PROVE  e[i] = IF i = 0 THEN leaf ELSE Tree!Parent(e[i - 1], path[i])
    <3>1. CASE i = n + 1
      BY <3>1
    <3>2. CASE i # n + 1
      <4>1. i \in 0..n /\ f[i] = IF i = 0 THEN leaf ELSE Tree!Parent(f[i - 1], path[i])
        BY <2>1, <3>2
      <4>2. e[i] = f[i] /\ (i # 0 => e[i - 1] = f[i - 1])
        BY <3>2
      <4>3. QED
        BY <4>1, <4>2
    <3>3. QED
      BY <3>1, <3>2
  <2>3. Upto(e, n + 1)
    BY <2>2
  <2> HIDE DEF e
  <2>4. \E d : Upto(d, n + 1)
    BY <2>3, Zenon
  <2>5. n + 1 \in Nat
    OBVIOUS
  <2> HIDE DEF Upto
  <2>6. QED
    BY <2>4, <2>5
<1>3. Len(path) \in A
  <2> HIDE DEF A
  <2>1. QED
    BY <1>1, <1>2, Induction
<1>4. \E f : Upto(f, Len(path))
  BY <1>3, Zenon
<1>5. Upto(Folded(path, leaf), Len(path))
  BY <1>4, Zenon DEF Folded
<1>6. Tree!PathRoot(path, leaf) = Folded(path, leaf)[Len(path)]
  BY Zenon DEF Tree!PathRoot, Folded
<1>7. \A i \in 0..Len(path) :
        Folded(path, leaf)[i] = IF i = 0 THEN leaf
                                ELSE Tree!Parent(Folded(path, leaf)[i - 1], path[i])
  BY <1>5, Zenon
<1>8. QED
  BY <1>6, <1>7

\* What the circuit has summed after each summand.
Circuit(items) ==
  CHOOSE f : f = [i \in 0..Len(items) |-> IF i = 0 THEN NoSums
                                          ELSE AccumulateKind(f[i - 1], items[i].kind, items[i].amount)]

\* The recursion of CircuitSums has a solution.
LEMMA CircuitDef ==
  ASSUME NEW items, Len(items) \in Nat
  PROVE  /\ items = Summands => CircuitSums = Circuit(items)[Len(items)]
         /\ Circuit(items)[0] = NoSums
         /\ \A i \in 1..Len(items) :
              Circuit(items)[i] = AccumulateKind(Circuit(items)[i - 1], items[i].kind, items[i].amount)
<1> DEFINE Upto(f, n) == f = [i \in 0..n |-> IF i = 0 THEN NoSums
                                             ELSE AccumulateKind(f[i - 1], items[i].kind, items[i].amount)]
           A == {n \in Nat : \E f : Upto(f, n)}
<1>1. 0 \in A
  <2>1. Upto([i \in 0..0 |-> NoSums], 0)
    OBVIOUS
  <2>2. QED
    BY <2>1
<1>2. ASSUME NEW n \in Nat, n \in A PROVE n + 1 \in A
  <2>1. PICK f : Upto(f, n)
    BY <1>2
  <2> DEFINE e == [i \in 0..(n + 1) |->
                     IF i = n + 1 THEN IF n + 1 <= 0 THEN NoSums
                                       ELSE AccumulateKind(f[n], items[(n + 1)].kind, items[(n + 1)].amount)
                     ELSE f[i]]
  <2>2. ASSUME NEW i \in 0..(n + 1)
        PROVE  e[i] = IF i = 0 THEN NoSums
                      ELSE AccumulateKind(e[i - 1], items[i].kind, items[i].amount)
    <3>1. CASE i = n + 1
      BY <3>1
    <3>2. CASE i # n + 1
      <4>1. i \in 0..n /\ f[i] = IF i = 0 THEN NoSums
                                 ELSE AccumulateKind(f[i - 1], items[i].kind, items[i].amount)
        BY <2>1, <3>2
      <4>2. e[i] = f[i] /\ (i # 0 => e[i - 1] = f[i - 1])
        BY <3>2
      <4>3. QED
        BY <4>1, <4>2
    <3>3. QED
      BY <3>1, <3>2
  <2>3. Upto(e, n + 1)
    BY <2>2
  <2> HIDE DEF e
  <2>4. \E d : Upto(d, n + 1)
    BY <2>3, Zenon
  <2>5. n + 1 \in Nat
    OBVIOUS
  <2> HIDE DEF Upto
  <2>6. QED
    BY <2>4, <2>5
<1>3. Len(items) \in A
  <2> HIDE DEF A
  <2>1. QED
    BY <1>1, <1>2, Induction
<1>4. \E f : Upto(f, Len(items))
  BY <1>3, Zenon
<1>5. Upto(Circuit(items), Len(items))
  BY <1>4, Zenon DEF Circuit
<1>6. items = Summands => CircuitSums = Circuit(items)[Len(items)]
  BY Zenon DEF CircuitSums, Circuit
<1>7. \A i \in 0..Len(items) :
        Circuit(items)[i]
          = IF i = 0 THEN NoSums
            ELSE AccumulateKind(Circuit(items)[i - 1], items[i].kind, items[i].amount)
  BY <1>5, Zenon
<1>8. QED
  BY <1>6, <1>7

-----------------------------------------------------------------------------
(* The rows of a tree (merkle.rs:241). *)

\* A vector whose last row is where start and width say.
IsRow(t) ==
  /\ IsSeq(t.nodes) /\ t.start \in Nat /\ t.width \in Nat
  /\ Len(t.nodes) = t.start + t.width

\* EvenUp rounds up.
LEMMA EvenUpIs ==
  ASSUME NEW w \in Nat
  PROVE  /\ Tree!EvenUp(w) \in Nat /\ Tree!EvenUp(w) = 2 * (Tree!EvenUp(w) \div 2)
         /\ Tree!EvenUp(w) \div 2 \in Nat
         /\ Tree!EvenUp(w) = IF w % 2 = 1 THEN w + 1 ELSE w
BY DEF Tree!EvenUp

\* A round at height h keeps the nodes there are, adds the padding if the row is
\* odd, and combines the nodes of the row two by two.
Grows(t, h, r) ==
  LET even == Tree!EvenUp(t.width)
  IN  /\ IsRow(r)
      /\ r.start = t.start + even
      /\ r.width = even \div 2
      /\ \A j \in 1..Len(t.nodes) : r.nodes[j] = t.nodes[j]
      /\ t.width % 2 = 1 => r.nodes[t.start + t.width + 1] = Tree!EmptyRoot[h]
      /\ \A j \in 1..r.width :
           r.nodes[r.start + j]
             = Tree!Combine(r.nodes[t.start + 2 * j - 1], r.nodes[t.start + 2 * j])

\* One round of complete keeps the nodes there are, pads the row and adds the one above.
LEMMA RowIs ==
  ASSUME NEW t, IsRow(t), NEW h \in Nat
  PROVE  Grows(t, h, Tree!Row(t, h))
<1> DEFINE a == t.start
           b == t.width
           n == t.nodes
           e == Tree!EmptyRoot[h]
           w == Tree!EvenUp(b)
           v == w \div 2
           padded == IF b % 2 = 1 THEN Append(n, e) ELSE n
           above == [j \in 1..v |-> Tree!Combine(padded[a + 2 * j - 1], padded[a + 2 * j])]
           ns == padded \o above
           r == Tree!Row(t, h)
<1>1. a \in Nat /\ b \in Nat /\ IsSeq(n) /\ Len(n) = a + b
  BY DEF IsRow
<1>2. r = [nodes |-> ns, start |-> a + w, width |-> v]
  BY Zenon DEF Tree!Row
<1>3. Grows(t, h, r) <=>
        /\ IsRow(r) /\ r.start = a + w /\ r.width = v
        /\ \A j \in 1..Len(n) : r.nodes[j] = n[j]
        /\ b % 2 = 1 => r.nodes[a + b + 1] = e
        /\ \A j \in 1..r.width :
             r.nodes[r.start + j] = Tree!Combine(r.nodes[a + 2 * j - 1], r.nodes[a + 2 * j])
  BY Zenon DEF Grows
<1> HIDE DEF a, b, n, e, r
<1>4. w \in Nat /\ w = 2 * v /\ v \in Nat /\ w = IF b % 2 = 1 THEN b + 1 ELSE b
  BY <1>1, EvenUpIs
<1> HIDE DEF w, v
<1>5. /\ IsSeq(padded) /\ Len(padded) = a + w
      /\ \A j \in 1..(a + b) : padded[j] = n[j]
      /\ b % 2 = 1 => padded[a + b + 1] = e
  <2>1. CASE b % 2 = 1
    <3>1. padded = Append(n, e) /\ w = b + 1
      BY <1>4, <2>1
    <3>2. QED
      BY <1>1, <3>1, AppendIsSeq
  <2>2. CASE b % 2 # 1
    <3>1. padded = n /\ w = b
      BY <1>4, <2>2
    <3>2. QED
      BY <1>1, <2>2, <3>1
  <2>3. QED
    BY <2>1, <2>2
<1>6. \A j \in 1..v : above[j] = Tree!Combine(padded[a + 2 * j - 1], padded[a + 2 * j])
  OBVIOUS
<1>7. IsSeq(above) /\ Len(above) = v
  BY <1>4, FunctionSeq
<1> HIDE DEF padded, above
<1>8. /\ IsSeq(ns) /\ Len(ns) = a + w + v
      /\ \A i \in 1..(a + w + v) : ns[i] = IF i <= a + w THEN padded[i] ELSE above[i - (a + w)]
  <2>1. /\ IsSeq(ns) /\ Len(ns) = Len(padded) + Len(above)
        /\ \A i \in 1..(Len(padded) + Len(above)) :
             ns[i] = IF i <= Len(padded) THEN padded[i] ELSE above[i - Len(padded)]
    BY <1>5, <1>7, ConcatIsSeq
  <2>2. QED
    BY <1>5, <1>7, <2>1
<1> HIDE DEF ns
<1>9. IsRow(r)
  BY <1>1, <1>2, <1>4, <1>8 DEF IsRow
<1>10. \A j \in 1..(a + w) : ns[j] = padded[j]
  BY <1>1, <1>4, <1>8
<1>11. ASSUME NEW j \in 1..v
       PROVE  ns[a + w + j] = Tree!Combine(ns[a + 2 * j - 1], ns[a + 2 * j])
  <2>1. /\ a + w + j \in 1..(a + w + v)
        /\ ~(a + w + j <= a + w) /\ a + w + j - (a + w) = j
        /\ a + 2 * j - 1 \in 1..(a + w) /\ a + 2 * j \in 1..(a + w)
    BY <1>1, <1>4
  <2>2. ns[a + w + j] = above[j]
    <3> DEFINE i == a + w + j
    <3>1. i \in 1..(a + w + v) /\ ~(i <= a + w) /\ i - (a + w) = j
      BY <1>1, <1>4
    <3> HIDE DEF i
    <3>2. ns[i] = above[i - (a + w)]
      BY <1>8, <3>1
    <3>3. QED
      BY <3>1, <3>2 DEF i
  <2>3. ns[a + 2 * j - 1] = padded[a + 2 * j - 1] /\ ns[a + 2 * j] = padded[a + 2 * j]
    BY <1>10, <2>1
  <2>4. QED
    BY <1>6, <2>2, <2>3
<1>12. \A j \in 1..Len(n) : ns[j] = n[j]
  BY <1>1, <1>4, <1>5, <1>10
<1>13. b % 2 = 1 => ns[a + b + 1] = e
  BY <1>1, <1>4, <1>5, <1>10
<1>14. r.nodes = ns /\ r.start = a + w /\ r.width = v
  BY <1>2
<1>15. Grows(t, h, r)
  BY <1>3, <1>9, <1>11, <1>12, <1>13, <1>14
<1>16. QED
  BY <1>15 DEF r

-----------------------------------------------------------------------------
(* The rows of new. *)

FirstRow(L) == [nodes |-> L, start |-> 0, width |-> Len(L)]
RowOf(depth, L, h) == Rows(depth, FirstRow(L), 0)[h]

\* Every round of complete is a row, grown from the one below.
LEMMA RowOfIs ==
  ASSUME NEW depth \in Nat, NEW L, IsSeq(L)
  PROVE  /\ Tree!New(depth, L) = [nodes |-> RowOf(depth, L, depth).nodes,
                                  leaf_count |-> Len(L), depth |-> depth]
         /\ RowOf(depth, L, 0) = FirstRow(L)
         /\ \A h \in 0..depth : IsRow(RowOf(depth, L, h))
         /\ \A h \in 0..depth :
              h < depth => RowOf(depth, L, h + 1) = Tree!Row(RowOf(depth, L, h), h)
<1> DEFINE S == {h \in Nat : h <= depth => IsRow(RowOf(depth, L, h))}
<1>1. Tree!New(depth, L) = [nodes |-> RowOf(depth, L, depth).nodes,
                            leaf_count |-> Len(L), depth |-> depth]
  BY RowsDef, 0 \in Nat DEF Tree!New, RowOf, FirstRow
<1>2. RowOf(depth, L, 0) = FirstRow(L)
  BY RowsDef, 0 \in 0..depth DEF RowOf
<1>3. ASSUME NEW h \in 0..depth, h < depth
      PROVE  RowOf(depth, L, h + 1) = Tree!Row(RowOf(depth, L, h), h)
  <2>1. h + 1 \in 0..depth /\ h + 1 > 0 /\ (h + 1) - 1 = h
    BY <1>3
  <2>2. QED
    BY <2>1, RowsDef DEF RowOf
<1>4. 0 \in S
  <2>1. Len(L) \in Nat
    BY IsSeqLength
  <2>2. IsRow(FirstRow(L))
    BY <2>1 DEF IsRow, FirstRow
  <2>3. QED
    BY <1>2, <2>2
<1>5. ASSUME NEW h \in Nat, h \in S PROVE h + 1 \in S
  <2>1. SUFFICES ASSUME h + 1 <= depth PROVE IsRow(RowOf(depth, L, h + 1))
    OBVIOUS
  <2>2. h \in 0..depth /\ h < depth /\ IsRow(RowOf(depth, L, h))
    BY <1>5, <2>1
  <2>3. QED
    BY <1>3, <2>2, RowIs DEF Grows
<1>6. \A h \in Nat : h \in S
  <2> HIDE DEF S
  <2>1. QED
    BY <1>4, <1>5, Induction
<1>7. QED
  BY <1>1, <1>2, <1>3, <1>6

\* Later rounds keep what a row has.
LEMMA RowsKeep ==
  ASSUME NEW depth \in Nat, NEW L, IsSeq(L), NEW h \in 0..depth, NEW m \in h..depth,
         NEW j \in 1..Len(RowOf(depth, L, h).nodes)
  PROVE  RowOf(depth, L, m).nodes[j] = RowOf(depth, L, h).nodes[j]
<1> DEFINE R(i) == RowOf(depth, L, i)
           S == {k \in Nat : h + k <= depth =>
                   j <= Len(R(h + k).nodes) /\ R(h + k).nodes[j] = R(h).nodes[j]}
<1>1. /\ \A i \in 0..depth : IsRow(R(i))
      /\ \A i \in 0..depth : i < depth => R(i + 1) = Tree!Row(R(i), i)
  BY RowOfIs
<1> HIDE DEF R
<1>2. 0 \in S
  <2>1. h + 0 = h /\ Len(R(h).nodes) \in Nat
    BY <1>1, IsSeqLength DEF IsRow
  <2>2. QED
    BY <2>1 DEF R
<1>3. ASSUME NEW k \in Nat, k \in S PROVE k + 1 \in S
  <2>1. SUFFICES ASSUME h + (k + 1) <= depth
                 PROVE  j <= Len(R(h + (k + 1)).nodes) /\ R(h + (k + 1)).nodes[j] = R(h).nodes[j]
    OBVIOUS
  <2> DEFINE i == h + k
  <2>2. /\ i \in 0..depth /\ i < depth /\ i \in Nat /\ h + (k + 1) = i + 1
        /\ j <= Len(R(i).nodes) /\ R(i).nodes[j] = R(h).nodes[j]
    BY <1>3, <2>1
  <2> HIDE DEF i
  <2>3. IsRow(R(i)) /\ Grows(R(i), i, R(i + 1))
    BY <1>1, <2>2, RowIs
  <2>4. j \in 1..Len(R(i).nodes)
    BY <2>2, <2>3, IsSeqLength DEF IsRow
  <2>5. R(i + 1).nodes[j] = R(i).nodes[j]
    BY <2>3, <2>4 DEF Grows
  <2>6. Len(R(i).nodes) <= Len(R(i + 1).nodes)
    <3>1. Tree!EvenUp(R(i).width) >= R(i).width
      <4> DEFINE w == R(i).width
      <4>1. w \in Nat
        BY <2>3 DEF IsRow
      <4> HIDE DEF w
      <4>2. Tree!EvenUp(w) >= w
        BY <4>1 DEF Tree!EvenUp
      <4>3. QED
        BY <4>2 DEF w
    <3>2. R(i + 1).start = R(i).start + Tree!EvenUp(R(i).width) /\ IsRow(R(i + 1))
      BY <2>3 DEF Grows
    <3>3. Tree!EvenUp(R(i).width) \in Nat
      BY <2>3, EvenUpIs DEF IsRow
    <3>4. QED
      <4>1. /\ R(i).start \in Nat /\ R(i).width \in Nat
            /\ Len(R(i).nodes) = R(i).start + R(i).width
            /\ R(i + 1).start \in Nat /\ R(i + 1).width \in Nat
            /\ Len(R(i + 1).nodes) = R(i + 1).start + R(i + 1).width
        BY <2>3, <3>2, Zenon DEF IsRow
      <4>2. \A a, b, c, d \in Nat : c >= b => a + b <= (a + c) + d
        OBVIOUS
      <4>3. R(i).start + R(i).width <= (R(i).start + Tree!EvenUp(R(i).width)) + R(i + 1).width
        BY <3>1, <3>3, <4>1, <4>2, Zenon
      <4>4. QED
        BY <3>2, <4>1, <4>3, Zenon
  <2>7. Len(R(i).nodes) \in Nat /\ Len(R(i + 1).nodes) \in Nat
    BY <2>3, IsSeqLength DEF IsRow, Grows
  <2>8. QED
    BY <2>2, <2>4, <2>5, <2>6, <2>7
<1>4. \A k \in Nat : k \in S
  <2> HIDE DEF S
  <2>1. QED
    BY <1>2, <1>3, Induction
<1>5. m - h \in Nat /\ h + (m - h) = m /\ h + (m - h) <= depth
  OBVIOUS
<1>6. QED
  BY <1>4, <1>5 DEF R

-----------------------------------------------------------------------------
(* The nodes of a tree: those in the vector, and empty ones to their right. *)

\* How many nodes of height h the vector has.
Held(depth, L, h) ==
  IF h < depth THEN Tree!EvenUp(RowOf(depth, L, h).width) ELSE RowOf(depth, L, h).width

TreeNode(depth, L, h, j) ==
  IF j < Held(depth, L, h)
  THEN RowOf(depth, L, depth).nodes[RowOf(depth, L, h).start + j + 1]
  ELSE Tree!EmptyRoot[h]

\* A row and what the vector holds of it.
LEMMA HeldIs ==
  ASSUME NEW depth \in Nat, NEW L, IsSeq(L), NEW h \in 0..depth
  PROVE  /\ IsRow(RowOf(depth, L, h))
         /\ Held(depth, L, h) \in Nat /\ Held(depth, L, h) >= RowOf(depth, L, h).width
         /\ h < depth => Grows(RowOf(depth, L, h), h, RowOf(depth, L, h + 1))
<1>1. IsRow(RowOf(depth, L, h)) /\ RowOf(depth, L, h).width \in Nat
  BY RowOfIs DEF IsRow
<1> DEFINE w == RowOf(depth, L, h).width
<1>2. w \in Nat
  BY <1>1
<1> HIDE DEF w
<1>3. Tree!EvenUp(w) \in Nat /\ Tree!EvenUp(w) >= w
  BY <1>2 DEF Tree!EvenUp
<1>4. Held(depth, L, h) = IF h < depth THEN Tree!EvenUp(w) ELSE w
  BY DEF Held, w
<1>5. Held(depth, L, h) \in Nat /\ Held(depth, L, h) >= w
  BY <1>2, <1>3, <1>4
<1>6. h < depth => Grows(RowOf(depth, L, h), h, RowOf(depth, L, h + 1))
  BY <1>1, RowOfIs, RowIs
<1>7. QED
  BY <1>1, <1>5, <1>6 DEF w

\* A node that a row has is where the row has it, also in the end.
LEMMA NodeInRow ==
  ASSUME NEW depth \in Nat, NEW L, IsSeq(L), NEW h \in 0..depth, NEW j \in Nat,
         j < RowOf(depth, L, h).width
  PROVE  TreeNode(depth, L, h, j) = RowOf(depth, L, h).nodes[RowOf(depth, L, h).start + j + 1]
<1> DEFINE r == RowOf(depth, L, h)
           k == r.start + j + 1
<1>1. IsRow(r) /\ j < Held(depth, L, h)
  BY HeldIs DEF IsRow
<1>2. k \in 1..Len(r.nodes)
  BY <1>1 DEF IsRow
<1>3. TreeNode(depth, L, h, j) = RowOf(depth, L, depth).nodes[k]
  BY <1>1 DEF TreeNode
<1> HIDE DEF k
<1>4. RowOf(depth, L, depth).nodes[k] = r.nodes[k]
  BY <1>2, RowsKeep
<1>5. QED
  BY <1>3, <1>4 DEF k

\* Right of a row there are empty nodes only, of which the first may be its padding.
LEMMA NodeBeyondRow ==
  ASSUME NEW depth \in Nat, NEW L, IsSeq(L), NEW h \in 0..depth, NEW j \in Nat,
         j >= RowOf(depth, L, h).width
  PROVE  TreeNode(depth, L, h, j) = Tree!EmptyRoot[h]
<1> DEFINE r == RowOf(depth, L, h)
           s == RowOf(depth, L, h + 1)
           w == r.width
<1>1. SUFFICES ASSUME j < Held(depth, L, h) PROVE TreeNode(depth, L, h, j) = Tree!EmptyRoot[h]
  BY DEF TreeNode
<1>2. IsRow(r) /\ w \in Nat /\ j >= w
  BY HeldIs DEF IsRow
<1>3. h < depth
  BY <1>1, <1>2 DEF Held
<1>4. Held(depth, L, h) = Tree!EvenUp(w)
  BY <1>3 DEF Held
<1>5. IsRow(s) /\ Grows(r, h, s) /\ h + 1 \in 0..depth
  <2>1. h + 1 \in 0..depth
    BY <1>3
  <2>2. QED
    BY <1>3, <2>1, HeldIs
<1> HIDE DEF w
<1>6. j = w /\ w % 2 = 1 /\ Tree!EvenUp(w) = w + 1
  BY <1>1, <1>2, <1>4 DEF Tree!EvenUp
<1>7. s.nodes[r.start + w + 1] = Tree!EmptyRoot[h] /\ s.start = r.start + Tree!EvenUp(w)
  BY <1>5, <1>6 DEF Grows, w
<1> DEFINE k == r.start + w + 1
<1>8. k \in 1..Len(s.nodes)
  <2> DEFINE a == r.start
             b == s.start
             v == s.width
  <2>1. a \in Nat /\ v \in Nat /\ Len(s.nodes) = b + v /\ b = a + (w + 1)
    BY <1>2, <1>5, <1>6, <1>7 DEF IsRow
  <2>2. k = a + w + 1
    OBVIOUS
  <2> HIDE DEF a, b, v, k
  <2>3. QED
    BY <1>2, <2>1, <2>2
<1>9. TreeNode(depth, L, h, j) = RowOf(depth, L, depth).nodes[k]
  BY <1>1, <1>6 DEF TreeNode
<1>10. s.nodes[k] = Tree!EmptyRoot[h]
  BY <1>7
<1> HIDE DEF k
<1>11. RowOf(depth, L, depth).nodes[k] = s.nodes[k]
  BY <1>5, <1>8, RowsKeep
<1>12. QED
  BY <1>9, <1>10, <1>11

\* The leafs, and empty ones behind them.
LEMMA LeafNodes ==
  ASSUME NEW depth \in Nat, NEW L, IsSeq(L), NEW j \in Nat
  PROVE  TreeNode(depth, L, 0, j) = IF j < Len(L) THEN L[j + 1] ELSE Tree!EmptyLeaf
<1>1. RowOf(depth, L, 0) = FirstRow(L) /\ 0 \in 0..depth /\ Len(L) \in Nat
  BY RowOfIs, IsSeqLength
<1>2. /\ RowOf(depth, L, 0).width = Len(L) /\ RowOf(depth, L, 0).start = 0
      /\ RowOf(depth, L, 0).nodes = L
  BY <1>1 DEF FirstRow
<1>3. CASE j < Len(L)
  BY <1>1, <1>2, <1>3, NodeInRow
<1>4. CASE ~(j < Len(L))
  <2>1. TreeNode(depth, L, 0, j) = Tree!EmptyRoot[0]
    BY <1>1, <1>2, <1>4, NodeBeyondRow
  <2>2. QED
    BY <1>4, <2>1, EmptyRootDef
<1>5. QED
  BY <1>3, <1>4

\* Every other node combines the two below it.
LEMMA NodeAbove ==
  ASSUME NEW depth \in Nat, NEW L, IsSeq(L), NEW h \in 0..depth, h < depth, NEW j \in Nat
  PROVE  TreeNode(depth, L, h + 1, j)
           = Tree!Combine(TreeNode(depth, L, h, 2 * j), TreeNode(depth, L, h, 2 * j + 1))
<1> DEFINE r == RowOf(depth, L, h)
           s == RowOf(depth, L, h + 1)
           w == r.width
           even == Tree!EvenUp(w)
           a == r.start
           b == s.start
           v == s.width
<1>1. IsRow(r) /\ IsRow(s) /\ Grows(r, h, s) /\ h + 1 \in 0..depth /\ Held(depth, L, h) = even
  <2>1. h + 1 \in 0..depth
    OBVIOUS
  <2>2. QED
    BY <2>1, HeldIs DEF Held
<1>2. /\ w \in Nat /\ a \in Nat /\ b \in Nat /\ v \in Nat
      /\ b = a + even /\ v = even \div 2 /\ Len(s.nodes) = b + v
  BY <1>1 DEF Grows, IsRow
<1>3. \A i \in 1..v : s.nodes[b + i] = Tree!Combine(s.nodes[a + 2 * i - 1], s.nodes[a + 2 * i])
  BY <1>1 DEF Grows
<1>4. /\ r.start = a /\ s.start = b /\ s.width = v /\ r.width = w
  OBVIOUS
<1> HIDE DEF w
<1>5. even \in Nat /\ even = 2 * v /\ even >= w
  <2>1. even \in Nat /\ even = 2 * (even \div 2)
    BY <1>2, EvenUpIs
  <2>2. even >= w
    BY <1>2 DEF Tree!EvenUp
  <2> HIDE DEF even
  <2>3. QED
    BY <1>2, <2>1, <2>2
<1> HIDE DEF even, a, b, v
<1>6. CASE j < v
  <2>1. TreeNode(depth, L, h + 1, j) = s.nodes[b + j + 1]
    BY <1>1, <1>4, <1>6, NodeInRow
  <2>2. s.nodes[b + (j + 1)] = Tree!Combine(s.nodes[a + 2 * (j + 1) - 1], s.nodes[a + 2 * (j + 1)])
    <3>1. j + 1 \in 1..v
      BY <1>2, <1>6
    <3>2. QED
      BY <1>3, <3>1
  <2>3. ASSUME NEW i \in Nat, i < even
        PROVE  TreeNode(depth, L, h, i) = s.nodes[a + i + 1]
    <3> DEFINE k == a + i + 1
    <3>1. k \in 1..Len(s.nodes)
      BY <1>2, <1>5, <2>3
    <3>2. TreeNode(depth, L, h, i) = RowOf(depth, L, depth).nodes[k]
      BY <1>1, <1>4, <2>3 DEF TreeNode
    <3> HIDE DEF k
    <3>3. RowOf(depth, L, depth).nodes[k] = s.nodes[k]
      BY <1>1, <3>1, RowsKeep
    <3>4. QED
      BY <3>2, <3>3 DEF k
  <2>4. /\ a + 2 * (j + 1) - 1 = a + 2 * j + 1
        /\ a + 2 * (j + 1) = a + (2 * j + 1) + 1
        /\ b + (j + 1) = b + j + 1
    BY <1>2
  <2>5. 2 * j \in Nat /\ 2 * j + 1 \in Nat /\ 2 * j < even /\ 2 * j + 1 < even
    BY <1>2, <1>5, <1>6
  <2>6. /\ TreeNode(depth, L, h, 2 * j) = s.nodes[a + 2 * j + 1]
        /\ TreeNode(depth, L, h, 2 * j + 1) = s.nodes[a + (2 * j + 1) + 1]
    BY <2>3, <2>5
  <2>7. QED
    BY <2>1, <2>2, <2>4, <2>6
<1>7. CASE ~(j < v)
  <2>1. TreeNode(depth, L, h + 1, j) = Tree!EmptyRoot[h + 1]
    BY <1>1, <1>2, <1>4, <1>7, NodeBeyondRow, SMTT(30)
  <2>2. 2 * j \in Nat /\ 2 * j + 1 \in Nat /\ 2 * j >= w /\ 2 * j + 1 >= w
    BY <1>2, <1>5, <1>7
  <2>3. /\ TreeNode(depth, L, h, 2 * j) = Tree!EmptyRoot[h]
        /\ TreeNode(depth, L, h, 2 * j + 1) = Tree!EmptyRoot[h]
    BY <1>4, <2>2, NodeBeyondRow
  <2>4. QED
    BY <2>1, <2>3, EmptyRootDef
<1>8. QED
  BY <1>6, <1>7

\* The powers of two are positive.
LEMMA TwoToNat == \A n \in Nat : Tree!TwoTo[n] \in Nat \ {0}
<1> DEFINE S == {n \in Nat : Tree!TwoTo[n] \in Nat \ {0}}
<1>1. 0 \in S
  BY TwoToDef
<1>2. ASSUME NEW n \in Nat, n \in S PROVE n + 1 \in S
  BY <1>2, TwoToDef
<1>3. \A n \in Nat : n \in S
  <2> HIDE DEF S
  <2>1. QED
    BY <1>1, <1>2, Induction
<1>4. QED
  BY <1>3

-----------------------------------------------------------------------------
(* The root. *)

HasRoom(depth, L) == IsSeq(L) /\ Len(L) <= Tree!TwoTo[depth]

\* A row is no wider than a full one, and is not empty unless the tree is.
LEMMA WidthIs ==
  ASSUME NEW depth \in Nat, NEW L, HasRoom(depth, L), NEW h \in 0..depth
  PROVE  /\ RowOf(depth, L, h).width <= Tree!TwoTo[depth - h]
         /\ IF Len(L) = 0 THEN RowOf(depth, L, h).width = 0 /\ RowOf(depth, L, h).start = 0
            ELSE RowOf(depth, L, h).width > 0
<1> DEFINE w(i) == RowOf(depth, L, i).width
           a(i) == RowOf(depth, L, i).start
           S == {i \in Nat : i <= depth =>
                   /\ w(i) <= Tree!TwoTo[depth - i]
                   /\ IF Len(L) = 0 THEN w(i) = 0 /\ a(i) = 0 ELSE w(i) > 0}
<1>1. IsSeq(L) /\ Len(L) \in Nat
  BY IsSeqLength DEF HasRoom
<1>2. 0 \in S
  <2>1. w(0) = Len(L) /\ a(0) = 0
    BY <1>1, RowOfIs DEF FirstRow
  <2>2. depth - 0 = depth
    OBVIOUS
  <2>3. QED
    BY <1>1, <2>1, <2>2 DEF HasRoom
<1>3. ASSUME NEW i \in Nat, i \in S PROVE i + 1 \in S
  <2>1. SUFFICES ASSUME i + 1 <= depth
                 PROVE  /\ w(i + 1) <= Tree!TwoTo[depth - (i + 1)]
                        /\ IF Len(L) = 0 THEN w(i + 1) = 0 /\ a(i + 1) = 0 ELSE w(i + 1) > 0
    OBVIOUS
  <2>2. i \in 0..depth /\ i < depth
    BY <2>1
  <2>3. Grows(RowOf(depth, L, i), i, RowOf(depth, L, i + 1)) /\ IsRow(RowOf(depth, L, i))
    BY <1>1, <2>2, HeldIs
  <2>4. w(i) \in Nat /\ a(i) \in Nat
        /\ a(i + 1) = a(i) + Tree!EvenUp(w(i)) /\ w(i + 1) = Tree!EvenUp(w(i)) \div 2
    BY <2>3 DEF Grows, IsRow
  <2>5. /\ w(i) <= Tree!TwoTo[depth - i]
        /\ IF Len(L) = 0 THEN w(i) = 0 /\ a(i) = 0 ELSE w(i) > 0
    BY <1>3, <2>2
  <2>6. depth - (i + 1) \in Nat /\ (depth - (i + 1)) + 1 = depth - i
    BY <2>1
  <2>7. Tree!TwoTo[depth - i] = 2 * Tree!TwoTo[depth - (i + 1)]
        /\ Tree!TwoTo[depth - (i + 1)] \in Nat
    BY <2>6, TwoToDef, TwoToNat
  <2> DEFINE m == Tree!TwoTo[depth - (i + 1)]
             e == Tree!EvenUp(w(i))
             v == e \div 2
  <2> HIDE DEF w, a
  <2>8. e \in Nat /\ e = 2 * v /\ v \in Nat /\ e <= w(i) + 1 /\ e >= w(i)
        /\ (w(i) = 0 => e = 0)
    BY <2>4, EvenUpIs DEF Tree!EvenUp
  <2>9. m \in Nat /\ w(i) <= 2 * m /\ w(i + 1) = v /\ a(i + 1) = a(i) + e
    BY <2>4, <2>5, <2>7
  <2> HIDE DEF m, e, v
  <2>10. v <= m
    BY <2>4, <2>8, <2>9
  <2>11. IF Len(L) = 0 THEN v = 0 /\ a(i) + e = 0 ELSE v > 0
    BY <2>4, <2>5, <2>8
  <2>12. QED
    BY <2>9, <2>10, <2>11 DEF m
<1>4. \A i \in Nat : i \in S
  <2> HIDE DEF S
  <2>1. QED
    BY <1>2, <1>3, Induction
<1>5. QED
  BY <1>4

\* The root of a tree is its only node of the height that is its depth.
LEMMA RootIs ==
  ASSUME NEW depth \in Nat, NEW L, HasRoom(depth, L)
  PROVE  Tree!RootOf(Tree!New(depth, L)) = TreeNode(depth, L, depth, 0)
<1> DEFINE r == RowOf(depth, L, depth)
<1>1. IsSeq(L) /\ depth \in 0..depth /\ Len(L) \in Nat /\ depth - depth = 0
  BY IsSeqLength DEF HasRoom
<1>2. IsRow(r) /\ Tree!New(depth, L).nodes = r.nodes /\ Tree!New(depth, L).depth = depth
  BY <1>1, RowOfIs
<1>3. /\ r.width \in Nat /\ r.width <= 1 /\ r.start \in Nat
      /\ IF Len(L) = 0 THEN r.width = 0 /\ r.start = 0 ELSE r.width > 0
  BY <1>1, <1>2, WidthIs, TwoToDef DEF IsRow
<1>4. IsSeq(r.nodes) /\ Len(r.nodes) = r.start + r.width
  BY <1>2 DEF IsRow
<1>5. CASE Len(L) = 0
  <2>1. r.nodes = <<>>
    <3>1. Len(r.nodes) = 0
      BY <1>3, <1>4, <1>5
    <3>2. QED
      BY <1>4, <3>1, EmptySeq DEF IsSeq
  <2>2. TreeNode(depth, L, depth, 0) = Tree!EmptyRoot[depth]
    BY <1>1, <1>3, <1>5, NodeBeyondRow
  <2>3. QED
    BY <1>2, <2>1, <2>2 DEF Tree!RootOf
<1>6. CASE Len(L) # 0
  <2>1. r.width = 1 /\ Len(r.nodes) = r.start + 1
    BY <1>3, <1>4, <1>6
  <2>2. r.nodes # <<>>
    BY <1>3, <2>1, EmptyIsSeq
  <2>3. TreeNode(depth, L, depth, 0) = r.nodes[r.start + 0 + 1]
    BY <1>1, <2>1, NodeInRow
  <2>4. Last(r.nodes) = r.nodes[r.start + 1]
    BY <2>1 DEF Last
  <2>5. r.start + 0 + 1 = r.start + 1
    BY <1>3
  <2> DEFINE t == Tree!New(depth, L)
  <2>6. t.nodes = r.nodes
    BY <1>2
  <2> HIDE DEF t, r
  <2>7. Tree!RootOf(t) = Last(r.nodes)
    BY <2>2, <2>6 DEF Tree!RootOf, Tree!Last, Last
  <2>8. QED
    BY <2>3, <2>4, <2>5, <2>7 DEF t
<1>7. QED
  BY <1>5, <1>6

-----------------------------------------------------------------------------
(* The path from a leaf (merkle.rs:294). *)

\* Half of a position is that of the node above it; the sibling is its other child.
LEMMA HalfOf ==
  ASSUME NEW p \in Nat
  PROVE  /\ p \div 2 \in Nat
         /\ p % 2 = 0 => p = 2 * (p \div 2) /\ p + 1 = 2 * (p \div 2) + 1
         /\ p % 2 # 0 => p = 2 * (p \div 2) + 1 /\ p - 1 = 2 * (p \div 2) /\ p % 2 = 1
         /\ \A n \in Nat : p < 2 * n => p \div 2 < n
OBVIOUS

\* s is where the loop of path stands at height h.
OnTheWay(depth, L, h, s) ==
  /\ IsSeq(s.path) /\ Len(s.path) = h
  /\ s.start = RowOf(depth, L, h).start /\ s.width = RowOf(depth, L, h).width
  /\ s.pos \in Nat /\ s.pos < Tree!TwoTo[depth - h]

\* The loop of path finds the rows where complete put them.
LEMMA WalkIs ==
  ASSUME NEW depth \in Nat, NEW L, HasRoom(depth, L), NEW pos \in Nat, pos < Tree!TwoTo[depth],
         NEW h \in 0..depth
  PROVE  OnTheWay(depth, L, h, Walk(Tree!New(depth, L), pos)[h])
<1> DEFINE t == Tree!New(depth, L)
           W(i) == Walk(t, pos)[i]
           Good(i) == /\ IsSeq(W(i).path) /\ Len(W(i).path) = i
                      /\ W(i).start = RowOf(depth, L, i).start
                      /\ W(i).width = RowOf(depth, L, i).width
                      /\ W(i).pos \in Nat /\ W(i).pos < Tree!TwoTo[depth - i]
           S == {i \in Nat : i <= depth => Good(i)}
<1>1. IsSeq(L) /\ Len(L) \in Nat
  BY IsSeqLength DEF HasRoom
<1>2. t.depth = depth /\ t.leaf_count = Len(L)
  BY <1>1, RowOfIs
<1>3. W(0) = Tree!AtLeaf(t, pos)
      /\ \A i \in 1..depth : W(i) = Tree!PathStep(t, W(i - 1), i - 1)
  <2> HIDE DEF t
  <2>1. QED
    BY <1>2, WalkDef
<1>4. 0 \in S
  <2>1. /\ W(0).path = <<>> /\ W(0).start = 0 /\ W(0).width = Len(L) /\ W(0).pos = pos
    BY <1>2, <1>3 DEF Tree!AtLeaf
  <2>2. RowOf(depth, L, 0).start = 0 /\ RowOf(depth, L, 0).width = Len(L)
    BY <1>1, RowOfIs DEF FirstRow
  <2>3. depth - 0 = depth
    OBVIOUS
  <2> HIDE DEF W
  <2>4. QED
    BY <2>1, <2>2, <2>3, EmptyIsSeq
<1>5. ASSUME NEW i \in Nat, i \in S PROVE i + 1 \in S
  <2>1. SUFFICES ASSUME i + 1 <= depth PROVE Good(i + 1)
    OBVIOUS
  <2>2. i \in 0..depth /\ i < depth /\ i + 1 \in 1..depth /\ (i + 1) - 1 = i
    BY <2>1
  <2>3. Good(i) /\ W(i + 1) = Tree!PathStep(t, W(i), i)
    BY <1>3, <1>5, <2>2
  <2> HIDE DEF W, t
  <2>4. /\ W(i + 1).path = Append(W(i).path, Tree!Sibling(t, i, W(i).start,
                                               Tree!EvenUp(W(i).width), W(i).pos))
        /\ W(i + 1).start = W(i).start + Tree!EvenUp(W(i).width)
        /\ W(i + 1).width = Tree!EvenUp(W(i).width) \div 2
        /\ W(i + 1).pos = W(i).pos \div 2
    BY <2>3 DEF Tree!PathStep
  <2>5. /\ RowOf(depth, L, i + 1).start
             = RowOf(depth, L, i).start + Tree!EvenUp(RowOf(depth, L, i).width)
        /\ RowOf(depth, L, i + 1).width = Tree!EvenUp(RowOf(depth, L, i).width) \div 2
    <3>1. Grows(RowOf(depth, L, i), i, RowOf(depth, L, i + 1))
      BY <1>1, <2>2, HeldIs
    <3>2. QED
      BY <3>1 DEF Grows
  <2>6. IsSeq(W(i + 1).path) /\ Len(W(i + 1).path) = i + 1
    <3> DEFINE q == W(i).path
    <3>1. IsSeq(q) /\ Len(q) = i
      BY <2>3
    <3> HIDE DEF q
    <3>2. \A e : IsSeq(Append(q, e)) /\ Len(Append(q, e)) = i + 1
      BY <3>1, AppendIsSeq
    <3>3. QED
      BY <2>4, <3>2 DEF q
  <2>7. depth - (i + 1) \in Nat /\ (depth - (i + 1)) + 1 = depth - i
    BY <2>1
  <2>8. /\ Tree!TwoTo[depth - i] = 2 * Tree!TwoTo[depth - (i + 1)]
        /\ Tree!TwoTo[depth - (i + 1)] \in Nat
    BY <2>7, TwoToDef, TwoToNat
  <2>9. W(i + 1).pos \in Nat /\ W(i + 1).pos < Tree!TwoTo[depth - (i + 1)]
    <3> DEFINE p == W(i).pos
               n == Tree!TwoTo[depth - (i + 1)]
    <3>1. p \in Nat /\ n \in Nat /\ p < 2 * n /\ W(i + 1).pos = p \div 2
      BY <2>3, <2>4, <2>8
    <3> HIDE DEF p, n
    <3>2. p \div 2 \in Nat /\ p \div 2 < n
      BY <3>1, HalfOf
    <3>3. QED
      BY <3>1, <3>2 DEF n
  <2>10. QED
    BY <2>3, <2>4, <2>5, <2>6, <2>9
<1>6. \A i \in Nat : i \in S
  <2> HIDE DEF S
  <2>1. QED
    BY <1>4, <1>5, Induction
<1>7. Good(h)
  <2> HIDE DEF Good
  <2>1. QED
    BY <1>6
<1>8. QED
  BY <1>7, Zenon DEF OnTheWay, W, t

\* What path finds beside the way at height h.
Beside(t, pos, h) ==
  LET s == Walk(t, pos)[h]
  IN  Tree!Sibling(t, h, s.start, Tree!EvenUp(s.width), s.pos)

\* The loop of path moves to the half of its position, and notes what is beside it.
PathFollows(depth, t, pos) ==
  /\ Len(Tree!Path(t, pos)) = depth
  /\ \A h \in 0..(depth - 1) : Tree!Path(t, pos)[h + 1] = Beside(t, pos, h)
  /\ Walk(t, pos)[0].pos = pos
  /\ \A h \in 0..(depth - 1) : Walk(t, pos)[h + 1].pos = Walk(t, pos)[h].pos \div 2

\* A path has one sibling for every height below the root.
LEMMA PathIs ==
  ASSUME NEW depth \in Nat, NEW L, HasRoom(depth, L), NEW pos \in Nat, pos < Tree!TwoTo[depth]
  PROVE  PathFollows(depth, Tree!New(depth, L), pos)
<1> DEFINE t == Tree!New(depth, L)
           W(i) == Walk(t, pos)[i]
           S == {i \in Nat : i <= depth =>
                   \A h \in 0..(depth - 1) : h < i => W(i).path[h + 1] = Beside(t, pos, h)}
<1>1. IsSeq(L) /\ t.depth = depth
  BY RowOfIs DEF HasRoom
<1>2. \A i \in 0..depth : IsSeq(W(i).path) /\ Len(W(i).path) = i
  <2>1. ASSUME NEW i \in 0..depth PROVE OnTheWay(depth, L, i, W(i))
    BY WalkIs
  <2> HIDE DEF W
  <2>2. QED
    BY <2>1 DEF OnTheWay
<1> HIDE DEF t
<1>3. /\ Tree!Path(t, pos) = W(depth).path
      /\ W(0) = Tree!AtLeaf(t, pos)
      /\ \A i \in 1..depth : W(i) = Tree!PathStep(t, W(i - 1), i - 1)
  BY <1>1, WalkDef
<1>4. \A h \in 0..(depth - 1) : W(h + 1) = Tree!PathStep(t, W(h), h)
  <2>1. \A h \in 0..(depth - 1) : h + 1 \in 1..depth /\ (h + 1) - 1 = h
    OBVIOUS
  <2> HIDE DEF W
  <2>2. QED
    BY <1>3, <2>1
<1>5. \A h \in 0..(depth - 1) :
        /\ W(h + 1).path = Append(W(h).path, Beside(t, pos, h))
        /\ W(h + 1).pos = W(h).pos \div 2
  <2>1. \A s, h : /\ Tree!PathStep(t, s, h).pos = s.pos \div 2
                 /\ Tree!PathStep(t, s, h).path
                      = Append(s.path, Tree!Sibling(t, h, s.start, Tree!EvenUp(s.width), s.pos))
    BY DEF Tree!PathStep
  <2>2. \A h : Beside(t, pos, h) = Tree!Sibling(t, h, W(h).start, Tree!EvenUp(W(h).width), W(h).pos)
    BY Zenon DEF Beside, W
  <2> HIDE DEF W
  <2>3. ASSUME NEW h \in 0..(depth - 1)
        PROVE  /\ W(h + 1).path = Append(W(h).path, Beside(t, pos, h))
               /\ W(h + 1).pos = W(h).pos \div 2
    <3>1. W(h + 1) = Tree!PathStep(t, W(h), h)
      BY <1>4
    <3>2. QED
      <4>1. /\ W(h + 1).pos = W(h).pos \div 2
            /\ W(h + 1).path
                 = Append(W(h).path, Tree!Sibling(t, h, W(h).start, Tree!EvenUp(W(h).width), W(h).pos))
        BY <2>1, <3>1, Zenon
      <4>2. QED
        BY <2>2, <4>1, Zenon
  <2>4. QED
    BY <2>3
<1>6. W(0).pos = pos
  BY <1>3 DEF Tree!AtLeaf
<1> HIDE DEF W
<1>7. 0 \in S
  OBVIOUS
<1>8. ASSUME NEW i \in Nat, i \in S PROVE i + 1 \in S
  <2>1. SUFFICES ASSUME i + 1 <= depth, NEW h \in 0..(depth - 1), h < i + 1
                 PROVE  W(i + 1).path[h + 1] = Beside(t, pos, h)
    OBVIOUS
  <2> DEFINE q == W(i).path
  <2>2. i \in 0..(depth - 1) /\ i \in 0..depth /\ IsSeq(q) /\ Len(q) = i
    BY <1>2, <2>1
  <2>3. W(i + 1).path = Append(q, Beside(t, pos, i))
    BY <1>5, <2>2
  <2>4. \A j \in 0..(depth - 1) : j < i => q[j + 1] = Beside(t, pos, j)
    BY <1>8, <2>1
  <2> HIDE DEF q
  <2>5. \A e : (\A j \in 1..i : Append(q, e)[j] = q[j]) /\ Append(q, e)[i + 1] = e
    BY <2>2, AppendIsSeq
  <2>6. CASE h = i
    BY <2>3, <2>5, <2>6
  <2>7. CASE h # i
    <3>1. h < i /\ h + 1 \in 1..i
      BY <2>1, <2>7
    <3>2. QED
      BY <2>3, <2>4, <2>5, <3>1
  <2>8. QED
    BY <2>6, <2>7
<1>9. \A i \in Nat : i \in S
  <2> HIDE DEF S
  <2>1. QED
    BY <1>7, <1>8, Induction
<1>10. \A h \in 0..(depth - 1) : W(depth).path[h + 1] = Beside(t, pos, h)
  BY <1>9
<1>11. Len(Tree!Path(t, pos)) = depth
  BY <1>2, <1>3
<1>12. Walk(t, pos)[0].pos = pos
      /\ \A h \in 0..(depth - 1) : Walk(t, pos)[h + 1].pos = Walk(t, pos)[h].pos \div 2
  BY <1>5, <1>6, Zenon DEF W
<1>13. \A h \in 0..(depth - 1) : Tree!Path(t, pos)[h + 1] = Beside(t, pos, h)
  BY <1>3, <1>10
<1>14. PathFollows(depth, t, pos)
  BY <1>11, <1>12, <1>13 DEF PathFollows
<1>15. QED
  BY <1>14 DEF t

\* One step up a path, from a node to the one above it.
LEMMA StepUp ==
  ASSUME NEW depth \in Nat, NEW L, HasRoom(depth, L), NEW pos \in Nat, pos < Tree!TwoTo[depth],
         NEW h \in 0..(depth - 1)
  PROVE  Tree!Parent(TreeNode(depth, L, h, Walk(Tree!New(depth, L), pos)[h].pos),
                     Beside(Tree!New(depth, L), pos, h))
           = TreeNode(depth, L, h + 1, Walk(Tree!New(depth, L), pos)[h].pos \div 2)
<1> DEFINE t == Tree!New(depth, L)
           s == Walk(t, pos)[h]
           p == s.pos
           q == IF p % 2 = 0 THEN p + 1 ELSE p - 1
           n(j) == TreeNode(depth, L, h, j)
<1>1. h \in 0..depth /\ h < depth /\ IsSeq(L)
  BY DEF HasRoom
<1>2. /\ p \in Nat /\ s.start = RowOf(depth, L, h).start
      /\ s.width = RowOf(depth, L, h).width
  BY <1>1, WalkIs, Zenon DEF OnTheWay
<1>3. t.nodes = RowOf(depth, L, depth).nodes
  BY <1>1, RowOfIs
<1>4. Beside(t, pos, h) = Tree!Sibling(t, h, s.start, Tree!EvenUp(s.width), p)
  BY Zenon DEF Beside
<1> HIDE DEF t, s, p
<1>5. Held(depth, L, h) = Tree!EvenUp(s.width)
  BY <1>1, <1>2 DEF Held
<1>6. Beside(t, pos, h).node = n(q) /\ Beside(t, pos, h).right = (p % 2 = 1)
  BY <1>2, <1>3, <1>4, <1>5 DEF Tree!Sibling, TreeNode
<1> DEFINE u == p \div 2
<1>7. TreeNode(depth, L, h + 1, u) = Tree!Combine(n(2 * u), n(2 * u + 1)) /\ u \in Nat
  <2>1. u \in Nat
    BY <1>2
  <2> HIDE DEF u
  <2>2. QED
    BY <1>1, <2>1, NodeAbove
<1>8. CASE p % 2 = 0
  <2>1. p = 2 * u /\ q = 2 * u + 1 /\ p % 2 # 1
    BY <1>2, <1>8
  <2> HIDE DEF u, q, n
  <2>2. Tree!Parent(n(p), Beside(t, pos, h)) = Tree!Combine(n(p), n(q))
    BY <1>6, <2>1 DEF Tree!Parent
  <2>3. QED
    BY <1>7, <2>1, <2>2 DEF n, u, p, s, t
<1>9. CASE p % 2 # 0
  <2>1. p = 2 * u + 1 /\ q = 2 * u /\ p % 2 = 1
    BY <1>2, <1>9
  <2> HIDE DEF u, q, n
  <2>2. Tree!Parent(n(p), Beside(t, pos, h)) = Tree!Combine(n(q), n(p))
    BY <1>6, <2>1 DEF Tree!Parent
  <2>3. QED
    BY <1>7, <2>1, <2>2 DEF n, u, p, s, t
<1>10. QED
  BY <1>8, <1>9

\* The path of every position, filled or not, leads to the root.
LEMMA PathOpens ==
  ASSUME NEW depth \in Nat, NEW L, HasRoom(depth, L), NEW pos \in Nat, pos < Tree!TwoTo[depth]
  PROVE  Tree!PathRoot(Tree!Path(Tree!New(depth, L), pos),
                       IF pos < Len(L) THEN L[pos + 1] ELSE Tree!EmptyLeaf)
           = Tree!RootOf(Tree!New(depth, L))
<1> DEFINE t == Tree!New(depth, L)
           path == Tree!Path(t, pos)
           leaf == IF pos < Len(L) THEN L[pos + 1] ELSE Tree!EmptyLeaf
           P(h) == Walk(t, pos)[h].pos
           F(h) == Folded(path, leaf)[h]
           N(h, j) == TreeNode(depth, L, h, j)
           S == {h \in Nat : h <= depth => F(h) = N(h, P(h))}
<1>1. IsSeq(L) /\ depth \in 0..depth /\ depth - depth = 0
  BY DEF HasRoom
<1>2. /\ Len(path) = depth
      /\ \A h \in 0..(depth - 1) : path[h + 1] = Beside(t, pos, h)
      /\ P(0) = pos
      /\ \A h \in 0..(depth - 1) : P(h + 1) = P(h) \div 2
  <2>1. PathFollows(depth, t, pos)
    BY PathIs
  <2>2. QED
    BY <2>1, Zenon DEF PathFollows, path, P
<1>3. N(0, pos) = leaf
  BY <1>1, LeafNodes
<1>4. \A h \in 0..(depth - 1) :
        Tree!Parent(N(h, P(h)), Beside(t, pos, h)) = N(h + 1, P(h) \div 2)
  BY StepUp, Zenon
<1>5. P(depth) \in Nat /\ P(depth) < Tree!TwoTo[depth - depth]
  BY <1>1, WalkIs, Zenon DEF OnTheWay
<1>6. Tree!RootOf(t) = N(depth, 0)
  BY RootIs
<1> HIDE DEF t, path, leaf, P, N
<1>7. /\ Tree!PathRoot(path, leaf) = F(depth)
      /\ F(0) = leaf
      /\ \A i \in 1..depth : F(i) = Tree!Parent(F(i - 1), path[i])
  BY <1>2, FoldedDef, SMTT(30)
<1> HIDE DEF F
<1>8. 0 \in S
  BY <1>2, <1>3, <1>7
<1>9. ASSUME NEW h \in Nat, h \in S PROVE h + 1 \in S
  <2>1. SUFFICES ASSUME h + 1 <= depth PROVE F(h + 1) = N(h + 1, P(h + 1))
    OBVIOUS
  <2>2. h \in 0..(depth - 1) /\ h + 1 \in 1..depth /\ (h + 1) - 1 = h /\ F(h) = N(h, P(h))
    BY <1>9, <2>1
  <2>3. F(h + 1) = Tree!Parent(F(h), path[h + 1])
    BY <1>7, <2>2
  <2>4. QED
    BY <1>2, <1>4, <2>2, <2>3
<1>10. \A h \in Nat : h \in S
  <2> HIDE DEF S
  <2>1. QED
    BY <1>8, <1>9, Induction
<1>11. P(depth) = 0
  BY <1>1, <1>5, TwoToDef
<1>12. QED
  BY <1>6, <1>7, <1>10, <1>11 DEF t, path, leaf

-----------------------------------------------------------------------------
(* The trees of a state. *)

\* The client's tree is the one over the commitments it found.
TreeOK == tree = Tree!New(TreeDepth, leafs) /\ HasRoom(TreeDepth, leafs)

\* What build computed first is what every logic proof of its result signs.
ActionOK ==
  /\ pc \in {"inputs", "outputs", "built"} => action_root = Tree!RootOf(ActionTree(AllTags))
  /\ pc = "built" =>
       \A j \in DOMAIN tx.logic_instances : tx.logic_instances[j].action_root = action_root

\* The root recorded with an input is that of the tree.
RootsOK ==
  \A i \in 1..Len(consumed_data) :
    CircuitConsumed(consumed_data[i]).root = Asked(consumed_data[i]).root

TreesInv == TreeOK /\ ActionOK /\ RootsOK

\* A client that has built nothing yet.
LEMMA TreesInit == Init => TreesInv
<1> SUFFICES ASSUME Init PROVE TreesInv
  OBVIOUS
<1>1. LeafsOK
  BY InitOK DEF IInv
<1>2. Len(leafs) <= Tree!TwoTo[TreeDepth]
  <2>1. PICK n \in 0..Len(PoolNotes) : leafs = SubSeq(PoolNotes, 1, n)
    BY DEF Init
  <2>2. PoolNotes \in Seq(ToSet(PoolNotes)) /\ Len(PoolNotes) <= Tree!TwoTo[TreeDepth]
        /\ TreeDepth \in Nat
    BY TransactionBuilderAssumption DEF TransactionBuilderAssumption
  <2>3. Len(PoolNotes) \in Nat
    BY <2>2, LenProperties
  <2>4. Len(leafs) = n
    BY <2>1, <2>2, <2>3, SubSeqProperties
  <2>5. QED
    BY <2>2, <2>3, <2>4, TwoToNat
<1>3. TreeOK
  BY <1>1, <1>2 DEF Init, TreeOK, HasRoom, LeafsOK
<1>4. ActionOK /\ RootsOK
  BY DEF Init, ActionOK, RootsOK
<1>5. QED
  BY <1>3, <1>4 DEF TreesInv

\* Every logic proof signs the root that build computed.
LEMMA InstancesSign ==
  ASSUME IInv, NEW j \in DOMAIN BuiltTransaction.logic_instances
  PROVE  BuiltTransaction.logic_instances[j].action_root = action_root
<1> DEFINE s == [i \in 1..Len(consumed_publics) |->
                   LogicInstance(consumed_publics[i].nullifier, TRUE)]
           t == [i \in 1..Len(created_publics) |->
                   LogicInstance(created_publics[i].commitment, FALSE)]
<1>1. BuiltTransaction.logic_instances = s \o t
  BY DEF BuiltTransaction
<1>2. /\ \A i \in 1..Len(consumed_publics) : s[i].action_root = action_root
      /\ \A i \in 1..Len(created_publics) : t[i].action_root = action_root
  <2>1. \A tag, is_consumed : LogicInstance(tag, is_consumed).action_root = action_root
    BY DEF LogicInstance
  <2>2. QED
    BY <2>1
<1>3. /\ IsSeq(s) /\ Len(s) = Len(consumed_publics) /\ Len(s) \in Nat
      /\ IsSeq(t) /\ Len(t) = Len(created_publics) /\ Len(t) \in Nat
  <2>1. Len(consumed_publics) \in Nat /\ Len(created_publics) \in Nat
    BY Shape, IsSeqLength
  <2>2. /\ s = [i \in 1..Len(consumed_publics) |-> s[i]]
        /\ t = [i \in 1..Len(created_publics) |-> t[i]]
    OBVIOUS
  <2> HIDE DEF s, t
  <2>3. QED
    BY <2>1, <2>2, FunctionSeq
<1> HIDE DEF s, t
<1>4. DOMAIN (s \o t) = 1..(Len(s) + Len(t))
      /\ \A i \in 1..(Len(s) + Len(t)) : (s \o t)[i] = IF i <= Len(s) THEN s[i]
                                                       ELSE t[i - Len(s)]
  BY <1>3, ConcatIsSeq, IsSeqLength
<1>5. CASE j <= Len(s)
  BY <1>1, <1>2, <1>3, <1>4, <1>5
<1>6. CASE ~(j <= Len(s))
  <2>1. j - Len(s) \in 1..Len(t)
    BY <1>1, <1>3, <1>4, <1>6
  <2>2. QED
    BY <1>1, <1>2, <1>3, <1>4, <1>6, <2>1
<1>7. QED
  BY <1>5, <1>6

\* Two powers of two enclose every positive number.
LEMMA Log2FloorIs ==
  ASSUME NEW n \in Nat \ {0}
  PROVE  /\ Log2Floor(n) \in Nat
         /\ Tree!TwoTo[Log2Floor(n)] <= n /\ n < Tree!TwoTo[Log2Floor(n) + 1]
<1> DEFINE P(m, k) == Tree!TwoTo[k] <= m /\ m < Tree!TwoTo[k + 1]
           S == {m \in Nat : m > 0 => \E k \in 0..m : P(m, k)}
<1>1. 0 \in S
  OBVIOUS
<1>2. ASSUME NEW m \in Nat, m \in S PROVE m + 1 \in S
  <2>1. SUFFICES \E k \in 0..(m + 1) : P(m + 1, k)
    OBVIOUS
  <2>2. CASE m = 0
    <3>1. Tree!TwoTo[0] = 1 /\ Tree!TwoTo[0 + 1] = 2 * Tree!TwoTo[0]
      BY TwoToDef
    <3>2. P(m + 1, 0) /\ 0 \in 0..(m + 1)
      BY <2>2, <3>1
    <3>3. QED
      BY <3>2
  <2>3. CASE m > 0
    <3>1. PICK k \in 0..m : P(m, k)
      BY <1>2, <2>3
    <3>2. k \in Nat /\ k + 1 \in Nat /\ k + 1 + 1 \in Nat
      OBVIOUS
    <3>3. /\ Tree!TwoTo[k] \in Nat /\ Tree!TwoTo[k + 1] \in Nat \ {0}
          /\ Tree!TwoTo[k + 1 + 1] = 2 * Tree!TwoTo[k + 1]
      BY <3>2, TwoToDef, TwoToNat
    <3> DEFINE a == Tree!TwoTo[k]
               b == Tree!TwoTo[k + 1]
               c == Tree!TwoTo[k + 1 + 1]
    <3>4. a \in Nat /\ b \in Nat \ {0} /\ c = 2 * b /\ a <= m /\ m < b
      BY <3>1, <3>3
    <3> HIDE DEF a, b, c
    <3>5. CASE m + 1 < b
      <4>1. a <= m + 1 /\ m + 1 < b
        BY <3>4, <3>5
      <4>2. P(m + 1, k) /\ k \in 0..(m + 1)
        BY <4>1 DEF a, b
      <4>3. QED
        BY <4>2
    <3>6. CASE ~(m + 1 < b)
      <4>1. b <= m + 1 /\ m + 1 < c
        BY <3>4, <3>6
      <4>2. P(m + 1, k + 1) /\ k + 1 \in 0..(m + 1)
        BY <4>1 DEF b, c
      <4>3. QED
        BY <4>2
    <3>7. QED
      BY <3>5, <3>6
  <2>4. QED
    BY <2>2, <2>3
<1>3. \A m \in Nat : m \in S
  <2> HIDE DEF S
  <2>1. QED
    BY <1>1, <1>2, Induction
<1>4. \E k \in 0..n : P(n, k)
  BY <1>3
<1> HIDE DEF P
<1>5. Log2Floor(n) = CHOOSE k \in 0..n : P(n, k)
  BY Zenon DEF Log2Floor, P
<1>6. Log2Floor(n) \in 0..n /\ P(n, Log2Floor(n))
  BY <1>4, <1>5
<1>7. QED
  BY <1>6 DEF P

\* The depth leaves a leaf for every tag.
LEMMA ActionTreeHasRoom ==
  ASSUME NEW tags, IsSeq(tags), tags # <<>>
  PROVE  /\ ActionTreeDepth(Len(tags)) \in Nat
         /\ HasRoom(ActionTreeDepth(Len(tags)), tags)
<1> DEFINE n == Len(tags)
<1>1. n \in Nat \ {0}
  BY TailIsSeq
<1>2. CASE n = 1
  BY <1>2, TwoToDef DEF ActionTreeDepth, HasRoom
<1>3. CASE n # 1
  <2> DEFINE k == Log2Floor(n - 1)
             b == Tree!TwoTo[k + 1]
  <2>1. n - 1 \in Nat \ {0}
    BY <1>1, <1>3
  <2> HIDE DEF n
  <2>2. k \in Nat /\ n - 1 < b
    BY <2>1, Log2FloorIs
  <2>3. b \in Nat
    BY <2>2, TwoToNat
  <2>4. ActionTreeDepth(n) = k + 1
    BY <1>3 DEF ActionTreeDepth
  <2> HIDE DEF b, k
  <2>5. n <= b /\ k + 1 \in Nat
    BY <1>1, <2>2, <2>3
  <2>6. QED
    BY <2>4, <2>5 DEF HasRoom, n, b
<1>4. QED
  BY <1>2, <1>3

\* The tags of an action.
LEMMA AllTagsIsSeq ==
  ASSUME IInv
  PROVE  /\ IsSeq(AllTags) /\ Len(AllTags) = Len(consumed_data) + Len(created_resources)
         /\ (consumed_data # <<>> => AllTags # <<>>)
<1> DEFINE s == ConsumedNullifiers(consumed_publics)
           t == CreatedCommitments(created_publics)
<1>1. /\ s = [i \in 1..Len(consumed_publics) |-> s[i]]
      /\ t = [i \in 1..Len(created_publics) |-> t[i]]
  BY DEF ConsumedNullifiers, CreatedCommitments
<1>2. /\ Len(consumed_publics) = Len(consumed_data) /\ Len(consumed_data) \in Nat
      /\ Len(created_publics) = Len(created_resources) /\ Len(created_resources) \in Nat
  BY Shape
<1> HIDE DEF s, t
<1>3. /\ IsSeq(s) /\ Len(s) = Len(consumed_data)
      /\ IsSeq(t) /\ Len(t) = Len(created_resources)
  BY <1>1, <1>2, FunctionSeq
<1>4. IsSeq(AllTags) /\ Len(AllTags) = Len(consumed_data) + Len(created_resources)
  BY <1>3, ConcatIsSeq DEF AllTags, s, t
<1>5. ASSUME consumed_data # <<>> PROVE AllTags # <<>>
  <2>1. Len(consumed_data) > 0
    BY <1>5, Shape, TailIsSeq
  <2>2. Len(AllTags) # 0
    BY <1>2, <1>4, <2>1
  <2>3. QED
    BY <2>2, EmptyIsSeq
<1>6. QED
  BY <1>4, <1>5

\* The part of a step that leaves the action and the inputs alone.
LEMMA TreesStay ==
  ASSUME TreesInv, UNCHANGED <<client, consumed, created>>,
         \/ pc' \notin {"inputs", "outputs", "built"}
         \/ pc' = pc /\ action_root' = action_root /\ tx' = tx
         \/ pc' \in {"inputs", "outputs"} /\ pc \in {"inputs", "outputs"}
              /\ action_root' = action_root
  PROVE  TreesInv'
<1>1. /\ leafs' = leafs /\ tree' = tree /\ consumed_data' = consumed_data
      /\ consumed_publics' = consumed_publics /\ created_publics' = created_publics
  BY DEF client, consumed, created
<1>2. TreeOK /\ ActionOK /\ RootsOK
  BY DEF TreesInv
<1>3. AllTags' = AllTags
  BY <1>1 DEF AllTags
<1>4. TreeOK' /\ RootsOK'
  BY <1>1, <1>2 DEF TreeOK, RootsOK, Asked
<1>5. ActionOK'
  BY <1>2, <1>3 DEF ActionOK
<1>6. QED
  BY <1>4, <1>5 DEF TreesInv

\* An input records the root of the tree that gave its path.
LEMMA TreesPushInput ==
  ASSUME IInv, TreesInv, pc = "open", NEW r, NEW path, NEW root, PushInput(r, path, root),
         CircuitConsumed([resource |-> r, path |-> path]).root
           = Asked([resource |-> r, path |-> path]).root
  PROVE  TreesInv'
<1> DEFINE n == Len(consumed_data)
           c == [resource |-> r, path |-> path]
<1>1. /\ consumed_data' = Append(consumed_data, c)
      /\ leafs' = leafs /\ tree' = tree /\ pc' = pc
  BY DEF PushInput, client
<1>2. TreeOK /\ RootsOK /\ IsSeq(consumed_data)
  BY Shape DEF TreesInv
<1>3. \A d : Asked(d)' = Asked(d)
  BY <1>1 DEF Asked
<1>4. CircuitConsumed(c).root = Asked(c).root
  OBVIOUS
<1> HIDE DEF c
<1>5. /\ Len(consumed_data') = n + 1 /\ n \in Nat
      /\ \A i \in 1..n : consumed_data'[i] = consumed_data[i]
      /\ consumed_data'[n + 1] = c
  BY <1>1, <1>2, AppendIsSeq, IsSeqLength
<1>6. ASSUME NEW i \in 1..(n + 1)
      PROVE  CircuitConsumed(consumed_data'[i]).root = Asked(consumed_data'[i]).root
  <2>1. CASE i = n + 1
    BY <1>4, <1>5, <2>1
  <2>2. CASE i # n + 1
    <3>1. i \in 1..n
      BY <1>5, <2>2
    <3>2. QED
      BY <1>2, <1>5, <3>1 DEF RootsOK
  <2>3. QED
    BY <2>1, <2>2
<1>7. RootsOK'
  BY <1>1, <1>5, <1>6 DEF RootsOK, Asked
<1>8. TreeOK' /\ ActionOK'
  BY <1>1, <1>2 DEF TreeOK, ActionOK
<1>9. QED
  BY <1>7, <1>8 DEF TreesInv

\* Every step keeps the trees.
LEMMA TreesNext == IInv /\ TreesInv /\ [Next]_vars => TreesInv'
<1> SUFFICES ASSUME IInv, TreesInv, [Next]_vars PROVE TreesInv'
  OBVIOUS
<1>0. ASSUME NEW outcome \in {"misused", "overflowed", "refused"}, End(outcome) PROVE TreesInv'
  BY <1>0, TreesStay DEF End
<1>1. ASSUME NEW pos \in NotePositions, AddShieldedInput(pos) PROVE TreesInv'
  <2> DEFINE note == ResourceOf(leafs[pos + 1])
             path == Tree!Path(tree, pos)
             root == Tree!PathRoot(path, Commitment(note))
  <2>1. pc = "open" /\ AddInput(note, path, root)
    BY <1>1 DEF AddShieldedInput, AddInput
  <2>2. ~note.is_ephemeral /\ pos \in 0..(Len(leafs) - 1)
    BY DEF NotePositions
  <2>3. LeafsOK /\ Len(leafs) \in Nat /\ TreeOK /\ TreeDepth \in Nat
    BY LenProperties, TransactionBuilderAssumption
       DEF IInv, LeafsOK, IsSeq, TreesInv, TransactionBuilderAssumption
  <2>4. Commitment(note) = leafs[pos + 1]
    BY <2>2, <2>3 DEF LeafsOK, NoteOK
  <2>5. pos \in Nat /\ pos < Tree!TwoTo[TreeDepth] /\ pos < Len(leafs)
    BY <2>2, <2>3, TwoToNat DEF TreeOK, HasRoom
  <2>6. root = Tree!RootOf(tree)
    BY <2>3, <2>4, <2>5, PathOpens DEF TreeOK
  <2> HIDE DEF path, note
  <2>7. /\ CircuitConsumed([resource |-> note, path |-> path]).root = root
        /\ Asked([resource |-> note, path |-> path]).root = Tree!RootOf(tree)
    BY <2>2 DEF CircuitConsumed, Asked
  <2> HIDE DEF root
  <2>8. CASE End("misused")
    BY <1>0, <2>8
  <2>9. CASE PushInput(note, path, root)
    BY <2>1, <2>6, <2>7, <2>9, TreesPushInput
  <2>10. QED
    BY <2>1, <2>8, <2>9 DEF AddInput
<1>2. ASSUME NEW s \in FreshSeeds, NEW q \in Quantities, NEW k \in Kinds,
             AddTransparentInput(s, q, k)
      PROVE  TreesInv'
  <2> DEFINE r == TransparentInput(s, q, k).resource
  <2>1. pc = "open" /\ AddInput(r, <<>>, InitialRoot)
    BY <1>2 DEF AddTransparentInput, AddInput
  <2>2. r.is_ephemeral
    BY DEF TransparentInput
  <2> HIDE DEF r
  <2>3. CircuitConsumed([resource |-> r, path |-> <<>>]).root
          = Asked([resource |-> r, path |-> <<>>]).root
    BY <2>2 DEF CircuitConsumed, Asked
  <2>4. CASE End("misused")
    BY <1>0, <2>4
  <2>5. CASE PushInput(r, <<>>, InitialRoot)
    BY <2>1, <2>3, <2>5, TreesPushInput
  <2>6. QED
    BY <2>1, <2>4, <2>5 DEF AddInput
<1>3. ASSUME NEW out \in Outputs, AddOutput(out) PROVE TreesInv'
  <2>1. CASE End("misused")
    BY <1>0, <2>1
  <2>2. ASSUME NEW r, PushOutput(r), pc = "open" PROVE TreesInv'
    <3>1. /\ leafs' = leafs /\ tree' = tree /\ pc' = pc /\ consumed_data' = consumed_data
      BY <2>2 DEF PushOutput, client, consumed
    <3>2. TreeOK' /\ ActionOK' /\ RootsOK'
      BY <2>2, <3>1 DEF TreesInv, TreeOK, ActionOK, RootsOK, Asked
    <3>3. QED
      BY <3>2 DEF TreesInv
  <2>3. QED
    BY <1>3, <2>1, <2>2 DEF AddOutput
<1>4. ASSUME StartBuild PROVE TreesInv'
  <2>1. CASE End("misused")
    BY <1>0, <2>1
  <2>2. CASE ~End("misused")
    <3>1. /\ action_root' = Tree!RootOf(ActionTree(AllTags)) /\ pc' = "inputs"
          /\ UNCHANGED <<client, consumed, created>>
      BY <1>4, <2>2 DEF StartBuild
    <3>2. AllTags' = AllTags
      BY <3>1 DEF AllTags, consumed, created
    <3>3. TreeOK' /\ RootsOK'
      BY <3>1 DEF TreesInv, TreeOK, RootsOK, Asked, client, consumed
    <3>4. ActionOK'
      BY <3>1, <3>2 DEF ActionOK
    <3>5. QED
      BY <3>3, <3>4 DEF TreesInv
  <2>3. QED
    BY <2>1, <2>2
<1>5. ASSUME NEW k, NEW amount, Accumulate(k, amount), pc \in {"inputs", "outputs"}
      PROVE  TreesInv'
  <2>1. CASE End("overflowed")
    BY <1>0, <2>1
  <2>2. CASE ~End("overflowed")
    <3>1. UNCHANGED <<client, consumed, created>> /\ pc' = pc /\ action_root' = action_root
          /\ tx' = tx
      BY <1>5, <2>2 DEF Accumulate
    <3>2. QED
      BY <3>1, TreesStay
  <2>3. QED
    BY <2>1, <2>2
<1>6. ASSUME ProveInput PROVE TreesInv'
  BY <1>5, <1>6 DEF ProveInput
<1>7. ASSUME StartOutputs PROVE TreesInv'
  BY <1>7, TreesStay DEF StartOutputs
<1>8. ASSUME ProveOutput PROVE TreesInv'
  BY <1>5, <1>8 DEF ProveOutput
<1>9. ASSUME ProveCompliance PROVE TreesInv'
  <2>1. CASE End("refused")
    BY <1>0, <2>1
  <2>2. CASE ~End("refused")
    <3>1. /\ pc = "outputs" /\ pc' = "built" /\ tx' = BuiltTransaction
          /\ UNCHANGED <<client, consumed, created, action_root>>
      BY <1>9, <2>2 DEF ProveCompliance
    <3>2. AllTags' = AllTags
      BY <3>1 DEF AllTags, consumed, created
    <3>3. TreeOK' /\ RootsOK'
      BY <3>1 DEF TreesInv, TreeOK, RootsOK, Asked, client, consumed
    <3>4. action_root' = Tree!RootOf(ActionTree(AllTags))
      BY <3>1 DEF TreesInv, ActionOK
    <3>5. \A j \in DOMAIN BuiltTransaction.logic_instances :
            BuiltTransaction.logic_instances[j].action_root = action_root
      BY InstancesSign
    <3>6. ActionOK'
      BY <3>1, <3>2, <3>4, <3>5 DEF ActionOK
    <3>7. QED
      BY <3>3, <3>6 DEF TreesInv
  <2>3. QED
    BY <2>1, <2>2
<1>10. CASE UNCHANGED vars
  BY <1>10, TreesStay DEF vars
<1>11. QED
  BY <1>1, <1>2, <1>3, <1>4, <1>6, <1>7, <1>8, <1>9, <1>10 DEF Next

\* The client's tree is the one over the commitments it found, every input
\* records its root, and every logic proof of what is built signs the root of the
\* tree over all tags (client.rs:744, merkle.rs:55).
THEOREM TreesInvariant == Spec => []TreesInv
<1>1. QED
  BY TreesInit, TreesNext, Invariant, PTL DEF Spec

\* For every depth, every number of commitments that fits it and every
\* position, filled or not, the path that path (merkle.rs:294) collects leads
\* to the root of the tree that new (merkle.rs:55) builds.
THEOREM EveryPathOpens == Spec => []PathsOpen
<1>1. ASSUME TreesInv PROVE PathsOpen
  <2>1. TreeOK /\ TreeDepth \in Nat
    BY <1>1, TransactionBuilderAssumption DEF TreesInv, TransactionBuilderAssumption
  <2>2. Tree!TwoTo[TreeDepth] \in Nat
    BY <2>1, TwoToNat
  <2>3. ASSUME NEW pos \in 0..(Tree!TwoTo[TreeDepth] - 1)
        PROVE  Tree!PathRoot(Tree!Path(tree, pos),
                             IF pos < Len(leafs) THEN leafs[pos + 1] ELSE Tree!EmptyLeaf)
                 = Tree!RootOf(tree)
    <3>1. pos \in Nat /\ pos < Tree!TwoTo[TreeDepth]
      BY <2>2
    <3>2. QED
      BY <2>1, <3>1, PathOpens DEF TreeOK
  <2>4. QED
    BY <2>3 DEF PathsOpen
<1>2. QED
  BY <1>1, TreesInvariant, PTL

\* For every number of tags, each has a path to the action root in the tree of
\* the depth that build computes (client.rs:744), and that root is the one that
\* every logic proof of the transaction signs.
THEOREM EveryTagHasAPath == Spec => []EveryTagInActionTree
<1>1. ASSUME IInv, TreesInv PROVE EveryTagInActionTree
  <2>1. SUFFICES ASSUME pc = "built", NEW i \in DOMAIN AllTags,
                        NEW j \in DOMAIN tx.logic_instances
                 PROVE  Tree!PathRoot(Tree!Path(ActionTree(AllTags), i - 1), AllTags[i])
                          = tx.logic_instances[j].action_root
    BY DEF EveryTagInActionTree
  <2>2. IsSeq(AllTags) /\ AllTags # <<>>
    BY <1>1, <2>1, AllTagsIsSeq DEF IInv, Consumes
  <2>3. i \in 1..Len(AllTags) /\ Len(AllTags) \in Nat
    BY <2>2, IsSeqLength
  <2> DEFINE depth == ActionTreeDepth(Len(AllTags))
  <2>4. depth \in Nat /\ HasRoom(depth, AllTags)
    BY <2>2, ActionTreeHasRoom
  <2>5. ActionTree(AllTags) = Tree!New(depth, AllTags)
    BY DEF ActionTree
  <2>6. Tree!TwoTo[depth] \in Nat
    BY <2>4, TwoToNat
  <2> HIDE DEF depth
  <2>7. i - 1 \in Nat /\ i - 1 < Tree!TwoTo[depth] /\ i - 1 < Len(AllTags) /\ (i - 1) + 1 = i
    BY <2>3, <2>4, <2>6 DEF HasRoom
  <2>8. Tree!PathRoot(Tree!Path(Tree!New(depth, AllTags), i - 1), AllTags[(i - 1) + 1])
          = Tree!RootOf(Tree!New(depth, AllTags))
    BY <2>4, <2>7, PathOpens
  <2>9. Tree!RootOf(ActionTree(AllTags)) = tx.logic_instances[j].action_root
    BY <1>1, <2>1 DEF TreesInv, ActionOK
  <2>10. QED
    BY <2>5, <2>7, <2>8, <2>9
<1>2. QED
  BY <1>1, Invariant, TreesInvariant, PTL

-----------------------------------------------------------------------------
(* The sums that the builder and the circuit take. *)

\* What the consumed resources, what the created ones and what all of them add
\* to the sum of kind k.
InAmounts(k) == [i \in 1..Len(consumed_data) |->
                   Amount(Nullifier(consumed_data[i].resource), k)]
OutAmounts(k) == [i \in 1..Len(created_resources) |->
                    Amount(Commitment(created_resources[i]), k)]
Amounts(k) == [i \in 1..Len(Summands) |->
                 IF Summands[i].kind = k THEN ValueOf(Summands[i].amount) ELSE 0]

InSummand(c) == [kind |-> Kind(c.resource), amount |-> Positive(c.resource.quantity)]
OutSummand(r) == [kind |-> Kind(r), amount |-> Negated(Positive(r.quantity))]

\* The summands are those of the inputs, then those of the outputs.
LEMMA SummandsAre ==
  ASSUME IInv
  PROVE  /\ IsSeq(Summands) /\ Len(Summands) = Len(consumed_data) + Len(created_resources)
         /\ Len(Summands) \in Nat
         /\ \A i \in 1..Len(consumed_data) : Summands[i] = InSummand(consumed_data[i])
         /\ \A i \in 1..Len(created_resources) :
              Summands[Len(consumed_data) + i] = OutSummand(created_resources[i])
         /\ \A i \in 1..Len(Summands) :
              Summands[i].kind \in Kinds /\ Summands[i].amount \in SignMagnitudes
<1> DEFINE s == [i \in 1..Len(consumed_data) |-> InSummand(consumed_data[i])]
           t == [i \in 1..Len(created_resources) |-> OutSummand(created_resources[i])]
           c == Len(consumed_data)
           n == Len(created_resources)
<1>1. Summands = s \o t
  BY DEF Summands, InSummand, OutSummand
<1>2. c \in Nat /\ n \in Nat
  BY Shape
<1>3. s = [i \in 1..c |-> s[i]] /\ t = [i \in 1..n |-> t[i]]
  OBVIOUS
<1>4. (\A i \in 1..c : s[i] = InSummand(consumed_data[i]))
      /\ (\A i \in 1..n : t[i] = OutSummand(created_resources[i]))
  OBVIOUS
<1> HIDE DEF s, t
<1>5. IsSeq(s) /\ Len(s) = c /\ IsSeq(t) /\ Len(t) = n
  BY <1>2, <1>3, FunctionSeq
<1>6. /\ IsSeq(Summands) /\ Len(Summands) = c + n
      /\ \A i \in 1..(c + n) : Summands[i] = IF i <= c THEN s[i] ELSE t[i - c]
  <2>1. /\ IsSeq(s \o t) /\ Len(s \o t) = Len(s) + Len(t)
        /\ \A i \in 1..(Len(s) + Len(t)) :
             (s \o t)[i] = IF i <= Len(s) THEN s[i] ELSE t[i - Len(s)]
    BY <1>5, ConcatIsSeq
  <2>2. Len(s) = c /\ Len(t) = n
    BY <1>5
  <2> HIDE DEF c, n
  <2>3. QED
    BY <1>1, <2>1, <2>2
<1>7. \A i \in 1..c : Summands[i] = InSummand(consumed_data[i])
  BY <1>2, <1>4, <1>6
<1>8. \A i \in 1..n : c + i \in 1..(c + n) /\ ~(c + i <= c) /\ (c + i) - c = i
  BY <1>2
<1>9. \A i \in 1..n : Summands[c + i] = OutSummand(created_resources[i])
  BY <1>4, <1>6, <1>8
<1> HIDE DEF c, n
<1>10. ASSUME NEW i \in 1..(c + n)
       PROVE  Summands[i].kind \in Kinds /\ Summands[i].amount \in SignMagnitudes
  <2>1. CASE i <= c
    <3>1. i \in 1..c
      BY <1>2, <2>1
    <3>2. ResourceOK(consumed_data[i].resource) /\ Summands[i] = InSummand(consumed_data[i])
      BY <1>7, <3>1 DEF IInv, ResourcesOK, c
    <3>3. QED
      BY <3>2, SignMagnitudesAreSigned DEF ResourceOK, InSummand
  <2>2. CASE ~(i <= c)
    <3>1. i - c \in 1..n /\ c + (i - c) = i
      BY <1>2, <2>2
    <3>2. ResourceOK(created_resources[i - c])
          /\ Summands[i] = OutSummand(created_resources[i - c])
      BY <1>9, <3>1 DEF IInv, ResourcesOK, n
    <3>3. QED
      BY <3>2, SignMagnitudesAreSigned DEF ResourceOK, OutSummand
  <2>3. QED
    BY <2>1, <2>2
<1>11. QED
  BY <1>2, <1>6, <1>7, <1>9, <1>10 DEF c, n

\* What the summands add to the sum of a kind.
LEMMA AmountsAre ==
  ASSUME IInv, NEW k
  PROVE  /\ IsCounts(InAmounts(k)) /\ Len(InAmounts(k)) = Len(consumed_data)
         /\ IsCounts(OutAmounts(k)) /\ Len(OutAmounts(k)) = Len(created_resources)
         /\ IsNumbers(Amounts(k)) /\ Len(Amounts(k)) = Len(Summands)
         /\ \A i \in 1..Len(consumed_data) : Amounts(k)[i] = InAmounts(k)[i]
         /\ \A i \in 1..Len(created_resources) :
              Amounts(k)[Len(consumed_data) + i] = -OutAmounts(k)[i]
<1> DEFINE c == Len(consumed_data)
           n == Len(created_resources)
           s == InAmounts(k)
           t == OutAmounts(k)
           a == Amounts(k)
           m == Len(Summands)
<1>1. c \in Nat /\ n \in Nat /\ m = c + n /\ m \in Nat
  BY Shape, SummandsAre
<1>2. /\ \A i \in 1..c : s[i] = Amount(Nullifier(consumed_data[i].resource), k)
      /\ \A i \in 1..n : t[i] = Amount(Commitment(created_resources[i]), k)
      /\ \A i \in 1..m : a[i] = IF Summands[i].kind = k THEN ValueOf(Summands[i].amount) ELSE 0
  BY DEF InAmounts, OutAmounts, Amounts
<1>3. s = [i \in 1..c |-> s[i]] /\ t = [i \in 1..n |-> t[i]] /\ a = [i \in 1..m |-> a[i]]
  BY DEF InAmounts, OutAmounts, Amounts
<1> HIDE DEF s, t, a
<1>4. IsSeq(s) /\ Len(s) = c /\ IsSeq(t) /\ Len(t) = n /\ IsSeq(a) /\ Len(a) = m
  BY <1>1, <1>3, FunctionSeq
<1>5. \A r : Amount(Nullifier(r), k) = (IF Kind(r) = k THEN r.quantity ELSE 0)
             /\ Amount(Commitment(r), k) = (IF Kind(r) = k THEN r.quantity ELSE 0)
  BY DEF Amount, Nullifier, Commitment, ResourceOf
<1>6. Magnitudes \subseteq Nat
  BY SignMagnitudeAssumption DEF SignMagnitudeAssumption, Magnitudes
<1>7. ASSUME NEW i \in 1..c PROVE s[i] \in Nat /\ a[i] = s[i]
  <2> DEFINE r == consumed_data[i].resource
             q == r.quantity
  <2>1. ResourceOK(r) /\ Summands[i] = InSummand(consumed_data[i])
    BY SummandsAre DEF IInv, ResourcesOK
  <2>2. Summands[i].kind = Kind(r) /\ Summands[i].amount = Positive(q)
    BY <2>1 DEF InSummand
  <2>3. q \in Magnitudes /\ ValueOf(Positive(q)) = q /\ q \in Nat
    BY <1>6, <2>1, SignMagnitudesAreSigned DEF ResourceOK
  <2>4. i \in 1..m
    BY <1>1
  <2>5. s[i] = IF Kind(r) = k THEN q ELSE 0
    BY <1>2, <1>5
  <2>6. a[i] = IF Kind(r) = k THEN q ELSE 0
    BY <1>2, <2>2, <2>3, <2>4
  <2>7. QED
    BY <2>3, <2>5, <2>6
<1>8. ASSUME NEW i \in 1..n PROVE t[i] \in Nat /\ a[c + i] = -t[i]
  <2> DEFINE r == created_resources[i]
             q == r.quantity
  <2>1. ResourceOK(r) /\ Summands[c + i] = OutSummand(created_resources[i])
    BY SummandsAre DEF IInv, ResourcesOK
  <2>2. Summands[c + i].kind = Kind(r) /\ Summands[c + i].amount = Negated(Positive(q))
    BY <2>1 DEF OutSummand
  <2>3. q \in Magnitudes /\ ValueOf(Negated(Positive(q))) = -q /\ q \in Nat
    BY <1>6, <2>1, SignMagnitudesAreSigned DEF ResourceOK
  <2>4. c + i \in 1..m
    BY <1>1
  <2>5. t[i] = IF Kind(r) = k THEN q ELSE 0
    BY <1>2, <1>5
  <2>6. a[c + i] = IF Kind(r) = k THEN -q ELSE 0
    BY <1>2, <2>2, <2>3, <2>4
  <2>7. QED
    BY <2>3, <2>5, <2>6
<1>9. ASSUME NEW i \in 1..m PROVE a[i] \in Int
  <2>1. CASE i <= c
    <3>1. i \in 1..c
      BY <1>1, <2>1
    <3>2. QED
      BY <1>7, <3>1
  <2>2. CASE ~(i <= c)
    <3> DEFINE j == i - c
    <3>1. j \in 1..n /\ c + j = i
      BY <1>1, <2>2
    <3> HIDE DEF j
    <3>2. t[j] \in Nat /\ a[c + j] = -t[j]
      BY <1>8, <3>1
    <3>3. QED
      BY <3>1, <3>2
  <2>3. QED
    BY <2>1, <2>2
<1>10. QED
  BY <1>4, <1>7, <1>8, <1>9 DEF IsCounts, IsNumbers, s, t, a

\* The consumed resources add to a sum, and then the created ones take away.
LEMMA PartialSums ==
  ASSUME IInv, NEW k
  PROVE  /\ \A m \in 0..Len(consumed_data) : Partial(Amounts(k))[m] = Partial(InAmounts(k))[m]
         /\ \A m \in 0..Len(created_resources) :
              Partial(Amounts(k))[Len(consumed_data) + m]
                = Total(InAmounts(k)) - Partial(OutAmounts(k))[m]
<1> DEFINE c == Len(consumed_data)
           n == Len(created_resources)
           s == InAmounts(k)
           t == OutAmounts(k)
           a == Amounts(k)
           P == Partial(a)
           PI == Partial(s)
           PO == Partial(t)
           S == {m \in Nat : m <= c => P[m] = PI[m]}
           T == {m \in Nat : m <= n => P[c + m] = PI[c] - PO[m]}
<1>1. /\ IsCounts(s) /\ Len(s) = c /\ IsCounts(t) /\ Len(t) = n
      /\ IsNumbers(a) /\ Len(a) = c + n /\ c \in Nat /\ n \in Nat
      /\ \A i \in 1..c : a[i] = s[i]
      /\ \A i \in 1..n : a[c + i] = -t[i]
  BY AmountsAre, SummandsAre, Shape
<1> HIDE DEF s, t, a
<1>2. /\ P[0] = 0 /\ \A i \in 1..(c + n) : P[i] = P[i - 1] + a[i]
      /\ PI[0] = 0 /\ \A i \in 1..c : PI[i] = PI[i - 1] + s[i]
      /\ PO[0] = 0 /\ \A i \in 1..n : PO[i] = PO[i - 1] + t[i]
      /\ Total(s) = PI[c]
  BY <1>1, PartialDef, SMTT(30)
<1>3. /\ \A m \in 0..c : PI[m] \in Nat
      /\ \A m \in 0..n : PO[m] \in Nat
      /\ \A m \in 1..n : t[m] \in Nat
  BY <1>1, PartialGrows DEF IsCounts
<1> HIDE DEF P, PI, PO
<1>4. \A m \in Nat : m \in S
  <2>1. 0 \in S
    BY <1>2
  <2>2. ASSUME NEW m \in Nat, m \in S PROVE m + 1 \in S
    <3>1. SUFFICES ASSUME m + 1 <= c PROVE P[m + 1] = PI[m + 1]
      OBVIOUS
    <3>2. m + 1 \in 1..c /\ m + 1 \in 1..(c + n) /\ (m + 1) - 1 = m /\ P[m] = PI[m]
      BY <1>1, <2>2, <3>1
    <3>3. P[m + 1] = P[m] + a[m + 1] /\ PI[m + 1] = PI[m] + s[m + 1] /\ a[m + 1] = s[m + 1]
      BY <1>1, <1>2, <3>2
    <3>4. QED
      BY <3>2, <3>3
  <2> HIDE DEF S
  <2>3. QED
    BY <2>1, <2>2, Induction
<1>5. P[c] = PI[c]
  BY <1>1, <1>4
<1>6. \A m \in Nat : m \in T
  <2>1. 0 \in T
    <3>1. c + 0 = c /\ PI[c] - 0 = PI[c]
      BY <1>1, <1>3
    <3>2. QED
      BY <1>2, <1>5, <3>1
  <2>2. ASSUME NEW m \in Nat, m \in T PROVE m + 1 \in T
    <3>1. SUFFICES ASSUME m + 1 <= n PROVE P[c + (m + 1)] = PI[c] - PO[m + 1]
      OBVIOUS
    <3>2. /\ m + 1 \in 1..n /\ c + (m + 1) \in 1..(c + n) /\ m \in 0..n /\ c \in 0..c
          /\ (m + 1) - 1 = m /\ (c + (m + 1)) - 1 = c + m
          /\ P[c + m] = PI[c] - PO[m]
      BY <1>1, <2>2, <3>1
    <3>3. /\ P[c + (m + 1)] = P[c + m] + a[c + (m + 1)]
          /\ PO[m + 1] = PO[m] + t[m + 1]
          /\ a[c + (m + 1)] = -t[m + 1]
      BY <1>1, <1>2, <3>2
    <3>4. PI[c] \in Nat /\ PO[m] \in Nat /\ t[m + 1] \in Nat
      BY <1>3, <3>2
    <3>5. QED
      BY <3>2, <3>3, <3>4
  <2> HIDE DEF T
  <2>3. QED
    BY <2>1, <2>2, Induction
<1>7. \A m \in 0..c : P[m] = PI[m]
  BY <1>1, <1>4
<1>8. \A m \in 0..n : P[c + m] = Total(s) - PO[m]
  BY <1>1, <1>2, <1>6
<1>9. QED
  BY <1>7, <1>8 DEF P, PI, PO, s, t, a

InRange(v) == -MaxMagnitude <= v /\ v <= MaxMagnitude

\* Every sum taken on the way can be written down.
Small(n) == \A k \in Kinds : \A m \in 0..n : InRange(Partial(Amounts(k))[m])

AllSmall == Small(Len(Summands))

\* The sums the contract speaks of are those of the resources.
LEMMA ContractSums ==
  ASSUME IInv, NEW k
  PROVE  /\ Contract!InOf(k) = Total(InAmounts(k))
         /\ Contract!OutOf(k) = Total(OutAmounts(k))
<1> DEFINE c == Len(consumed_data)
           n == Len(created_resources)
           nfs == [i \in DOMAIN [j \in DOMAIN consumed_data |-> Asked(consumed_data[j])] |->
                     Nullifier([j \in DOMAIN consumed_data |-> Asked(consumed_data[j])][i].resource)]
           cms == [i \in DOMAIN [j \in DOMAIN created_resources |-> WithoutNonce(created_resources[j])] |->
                     Commitment([j \in DOMAIN created_resources |-> WithoutNonce(created_resources[j])][i])]
<1>1. DOMAIN consumed_data = 1..c /\ DOMAIN created_resources = 1..n
  BY Shape, IsSeqLength
<1>2. /\ \A x : Asked(x).resource = x.resource
      /\ \A r : Amount(Commitment(WithoutNonce(r)), k) = Amount(Commitment(r), k)
  BY DEF Asked, Amount, Commitment, WithoutNonce, ResourceOf, Kind
<1>3. [i \in DOMAIN nfs |-> Amount(nfs[i], k)] = InAmounts(k)
  BY <1>1, <1>2 DEF InAmounts
<1>4. [i \in DOMAIN cms |-> Amount(cms[i], k)] = OutAmounts(k)
  BY <1>1, <1>2 DEF OutAmounts
<1>5. /\ Contract!InOf(k) = Total([i \in DOMAIN nfs |-> Amount(nfs[i], k)])
      /\ Contract!OutOf(k) = Total([i \in DOMAIN cms |-> Amount(cms[i], k)])
  BY Zenon DEF Contract!InOf, Contract!OutOf, Contract!QuantityOf, Contract!Total, Total,
       Contract!Nullifier, Nullifier, Contract!Commitment, Commitment, Contract!Amount, Amount,
       Contract!Kind, Kind, Contract!ResourceOf, ResourceOf
<1>6. QED
  BY <1>3, <1>4, <1>5

\* The contract lets a builder give up exactly when a sum on the way is too large.
LEMMA OverflowsIs ==
  ASSUME IInv
  PROVE  Contract!Overflows <=> ~AllSmall
<1> DEFINE c == Len(consumed_data)
           n == Len(created_resources)
           P(k) == Partial(Amounts(k))
           I(k) == Total(InAmounts(k))
           O(k) == Total(OutAmounts(k))
           M == MaxMagnitude
<1>1. c \in Nat /\ n \in Nat /\ Len(Summands) = c + n /\ M \in Nat
  BY Shape, SummandsAre, SignMagnitudeAssumption DEF SignMagnitudeAssumption
<1>2. Contract!Overflows <=> \E k \in Kinds : I(k) > M \/ O(k) - I(k) > M
  BY ContractSums DEF Contract!Overflows, Contract!Kinds, Kinds
<1>3. ASSUME NEW k \in Kinds
      PROVE  (I(k) > M \/ O(k) - I(k) > M) <=> \E m \in 0..(c + n) : ~InRange(P(k)[m])
  <2> DEFINE x == I(k)
             y == O(k)
  <2>1. /\ IsCounts(InAmounts(k)) /\ Len(InAmounts(k)) = c
        /\ IsCounts(OutAmounts(k)) /\ Len(OutAmounts(k)) = n
    BY AmountsAre
  <2>2. x \in Nat /\ y \in Nat
    BY <2>1, TotalNat
  <2>3. ASSUME NEW m \in 0..c
        PROVE  P(k)[m] \in Nat /\ P(k)[m] <= x
    BY <2>1, PartialGrows, PartialSums
  <2>4. ASSUME NEW m \in 0..n
        PROVE  P(k)[c + m] \in Int /\ P(k)[c + m] <= x /\ x - y <= P(k)[c + m]
    <3> DEFINE z == Partial(OutAmounts(k))[m]
    <3>1. z \in Nat /\ z <= y
      BY <2>1, PartialGrows
    <3>2. P(k)[c + m] = x - z
      BY PartialSums
    <3> HIDE DEF x, y, z
    <3>3. QED
      BY <2>2, <3>1, <3>2
  <2>5. P(k)[c] = x
    <3>1. c \in 0..Len(InAmounts(k)) /\ c \in 0..c /\ Len(InAmounts(k)) \in Nat
      BY <1>1, <2>1
    <3>2. P(k)[c] = Partial(InAmounts(k))[c]
      BY <3>1, PartialSums
    <3>3. QED
      BY <2>1, <3>1, <3>2, PartialDef
  <2>6. P(k)[c + n] = x - y
    <3>1. n \in 0..n /\ Len(OutAmounts(k)) \in Nat
      BY <1>1, <2>1
    <3>2. P(k)[c + n] = x - Partial(OutAmounts(k))[n]
      BY <3>1, PartialSums
    <3>3. QED
      BY <2>1, <3>1, <3>2, PartialDef
  <2> HIDE DEF x, y, P, c, n, M
  <2>7. ASSUME x > M \/ y - x > M PROVE \E m \in 0..(c + n) : ~InRange(P(k)[m])
    <3>1. CASE x > M
      <4>1. c \in 0..(c + n) /\ ~InRange(P(k)[c])
        BY <1>1, <2>2, <2>5, <3>1 DEF InRange, M
      <4>2. QED
        BY <4>1
    <3>2. CASE y - x > M
      <4>1. c + n \in 0..(c + n) /\ ~InRange(P(k)[c + n])
        BY <1>1, <2>2, <2>6, <3>2 DEF InRange, M
      <4>2. QED
        BY <4>1
    <3>3. QED
      BY <2>7, <3>1, <3>2
  <2>8. ASSUME NEW m \in 0..(c + n), ~InRange(P(k)[m]) PROVE x > M \/ y - x > M
    <3>1. CASE m <= c
      <4>1. m \in 0..c
        BY <1>1, <3>1
      <4>2. P(k)[m] \in Nat /\ P(k)[m] <= x
        BY <2>3, <4>1
      <4>3. QED
        BY <1>1, <2>2, <2>8, <4>2 DEF InRange, M
    <3>2. CASE ~(m <= c)
      <4> DEFINE j == m - c
      <4>1. j \in 0..n /\ c + j = m
        BY <1>1, <3>2
      <4> HIDE DEF j
      <4>2. P(k)[c + j] \in Int /\ P(k)[c + j] <= x /\ x - y <= P(k)[c + j]
        BY <2>4, <4>1
      <4>3. P(k)[m] \in Int /\ P(k)[m] <= x /\ x - y <= P(k)[m]
        BY <4>1, <4>2
      <4>4. QED
        BY <1>1, <2>2, <2>8, <4>3 DEF InRange, M
    <3>3. QED
      BY <3>1, <3>2
  <2>9. QED
    BY <2>7, <2>8 DEF x, y
<1> HIDE DEF P, I, O, c, n, M
<1>4. ~AllSmall <=> \E k \in Kinds : \E m \in 0..(c + n) : ~InRange(P(k)[m])
  BY <1>1 DEF AllSmall, Small, P
<1>5. QED
  BY <1>2, <1>3, <1>4

\* How many summands the loops of build have added.
Summed == IF pc = "inputs" THEN at - 1 ELSE Len(consumed_data) + at - 1

\* The history variable net is the sum of the first summands; a sum that left
\* its width is one that the contract calls too large.
SumsOK ==
  /\ pc = "open" => ~wrapped /\ \A k \in Kinds : net[k] = 0
  /\ pc \in {"inputs", "outputs"} =>
       /\ \A k \in Kinds : net[k] = Partial(Amounts(k))[Summed]
       /\ wrapped => ~AllSmall

\* A created resource is what was asked for, with a nonce.
OutputsOK ==
  \A i \in 1..Len(created_resources) :
    /\ created_resources[i]
         = WithNonce(WithoutNonce(created_resources[i]), created_resources[i].nonce)
    /\ WithoutNonce(created_resources[i]) \in Outputs

SumsInv == SumsOK /\ OutputsOK

\* A sum fits when it is within the range of a magnitude.
LEMMA FitsIs ==
  ASSUME NEW a \in SignedNats
  PROVE  Fits(a) <=> InRange(ValueOf(a))
<1>1. a.sign \in BOOLEAN /\ a.magnitude \in Nat /\ MaxMagnitude \in Nat
  BY SignMagnitudeAssumption DEF SignedNats, SignMagnitudeAssumption
<1>2. CASE a.sign
  BY <1>1, <1>2 DEF Fits, InRange, ValueOf, Magnitudes
<1>3. CASE ~a.sign
  BY <1>1, <1>3 DEF Fits, InRange, ValueOf, Magnitudes
<1>4. QED
  BY <1>2, <1>3

\* The next summand of a loop.
LEMMA NextPartial ==
  ASSUME IInv, NEW i \in 1..Len(Summands), NEW k
  PROVE  /\ Partial(Amounts(k))[i] = Partial(Amounts(k))[i - 1] + Amounts(k)[i]
         /\ Partial(Amounts(k))[i] \in Int /\ Partial(Amounts(k))[i - 1] \in Int
         /\ Amounts(k)[i] = IF Summands[i].kind = k THEN ValueOf(Summands[i].amount) ELSE 0
         /\ Amounts(k)[i] \in Int
<1>1. IsNumbers(Amounts(k)) /\ Len(Amounts(k)) = Len(Summands) /\ Len(Summands) \in Nat
  BY AmountsAre, SummandsAre
<1>2. i \in 0..Len(Summands) /\ i - 1 \in 0..Len(Summands)
  BY <1>1
<1>3. Partial(Amounts(k))[i] \in Int /\ Partial(Amounts(k))[i - 1] \in Int
  BY <1>1, <1>2, PartialInt
<1>4. Partial(Amounts(k))[i] = Partial(Amounts(k))[i - 1] + Amounts(k)[i]
  BY <1>1, PartialDef
<1>5. Amounts(k)[i] = IF Summands[i].kind = k THEN ValueOf(Summands[i].amount) ELSE 0
  BY DEF Amounts
<1>6. Amounts(k)[i] \in Int
  BY <1>1 DEF IsNumbers
<1>7. QED
  BY <1>3, <1>4, <1>5, <1>6

\* A sum that does not fit is one of those on the way.
LEMMA UnfitIsLarge ==
  ASSUME IInv, SumsInv, pc \in {"inputs", "outputs"},
         Summed + 1 \in 1..Len(Summands), NEW k \in Kinds,
         k = Summands[Summed + 1].kind,
         ~Fits(Plus(delta_map[k], Summands[Summed + 1].amount))
  PROVE  ~AllSmall
<1> DEFINE j == Summed + 1
           a == Summands[j].amount
           d == delta_map[k]
           P == Partial(Amounts(k))
<1>1. CASE wrapped
  BY <1>1 DEF SumsInv, SumsOK
<1>2. CASE ~wrapped
  <2>1. d \in SignedNats /\ ValueOf(d) = net[k]
    BY <1>2, SignMagnitudesAreSigned DEF IInv, TypeOK, DeltaExact
  <2>2. a \in SignedNats
    BY SummandsAre, SignMagnitudesAreSigned
  <2>3. net[k] = P[Summed]
    BY DEF SumsInv, SumsOK
  <2>4. j - 1 = Summed /\ j \in 0..Len(Summands)
    <3>1. Summed \in Int
      BY Shape DEF Summed, IInv, TypeOK
    <3>2. QED
      BY <3>1, SummandsAre
  <2>5. P[j] = P[Summed] + ValueOf(a)
    BY <2>4, NextPartial
  <2>6. ~InRange(ValueOf(Plus(d, a)))
    BY <2>1, <2>2, PlusAdds, FitsIs
  <2>7. ValueOf(Plus(d, a)) = P[j]
    BY <2>1, <2>2, <2>3, <2>5, PlusAdds
  <2>8. ~InRange(P[j])
    BY <2>6, <2>7
  <2> HIDE DEF P, j
  <2>9. QED
    BY <2>4, <2>8 DEF AllSmall, Small, P
<1>3. QED
  BY <1>1, <1>2

\* Before anything is added.
LEMMA SumsInit == Init => SumsInv
<1> SUFFICES ASSUME Init PROVE SumsInv
  OBVIOUS
<1>1. SumsOK
  BY DEF Init, SumsOK
<1>2. Len(created_resources) = 0
  BY EmptyIsSeq DEF Init
<1>3. OutputsOK
  BY <1>2 DEF OutputsOK
<1>4. QED
  BY <1>1, <1>3 DEF SumsInv

\* Steps that leave the resources alone.
LEMMA SameResources ==
  ASSUME UNCHANGED <<consumed, created>>
  PROVE  /\ Summands' = Summands /\ AllSmall' = AllSmall
         /\ \A k : Amounts(k)' = Amounts(k)
         /\ OutputsOK' = OutputsOK
<1>1. consumed_data' = consumed_data /\ created_resources' = created_resources
  BY DEF consumed, created
<1>2. Summands' = Summands
  BY <1>1 DEF Summands
<1>3. \A k : Amounts(k)' = Amounts(k)
  BY <1>2 DEF Amounts
<1>4. AllSmall' = AllSmall
  BY <1>2, <1>3 DEF AllSmall, Small
<1>5. OutputsOK' = OutputsOK
  BY <1>1 DEF OutputsOK
<1>6. QED
  BY <1>2, <1>3, <1>4, <1>5

\* A round of either loop adds the next summand.
LEMMA SumsAccumulate ==
  ASSUME IInv, SumsInv, pc \in {"inputs", "outputs"},
         Summed + 1 \in 1..Len(Summands),
         Accumulate(Summands[Summed + 1].kind, Summands[Summed + 1].amount)
  PROVE  SumsInv'
<1> DEFINE j == Summed + 1
           k == Summands[j].kind
           a == Summands[j].amount
<1>1. k \in Kinds /\ a \in SignMagnitudes
  BY SummandsAre
<1>2. CASE End("overflowed")
  BY <1>2, SameResources DEF End, SumsInv, SumsOK
<1>3. CASE ~End("overflowed")
  <2>1. /\ UNCHANGED <<consumed, created>> /\ pc' = pc /\ at' = at + 1
        /\ net' = [net EXCEPT ![k] = @ + ValueOf(a)]
        /\ wrapped' = wrapped \/ ~Fits(Plus(delta_map[k], a))
    BY <1>3 DEF Accumulate
  <2>2. wrapped' => ~AllSmall
    BY <1>1, <2>1, UnfitIsLarge DEF SumsInv, SumsOK
  <2>3. Summed' = j /\ j - 1 = Summed
    <3>1. at \in Int /\ Len(consumed_data) \in Int
      BY Shape DEF IInv, TypeOK
    <3>2. QED
      BY <2>1, <3>1 DEF Summed, consumed
  <2>4. ASSUME NEW l \in Kinds PROVE net'[l] = Partial(Amounts(l))[j]
    <3>1. /\ Partial(Amounts(l))[j] = Partial(Amounts(l))[Summed] + Amounts(l)[j]
          /\ Amounts(l)[j] = IF k = l THEN ValueOf(a) ELSE 0
          /\ Partial(Amounts(l))[Summed] \in Int
      BY <2>3, NextPartial
    <3>2. net[l] = Partial(Amounts(l))[Summed] /\ net \in [Kinds -> Int]
      BY DEF SumsInv, SumsOK, IInv, TypeOK
    <3>3. net'[l] = IF l = k THEN net[l] + ValueOf(a) ELSE net[l]
      BY <2>1, <3>2
    <3> HIDE DEF k, a, j
    <3>4. QED
      BY <3>1, <3>2, <3>3
  <2>5. SumsOK'
    <3>1. \A l \in Kinds : net'[l] = Partial(Amounts(l))'[Summed']
      BY <2>1, <2>3, <2>4, SameResources
    <3>2. wrapped' => ~AllSmall'
      BY <2>1, <2>2, SameResources
    <3>3. QED
      BY <2>1, <3>1, <3>2 DEF SumsOK
  <2>6. QED
    BY <2>1, <2>5, SameResources DEF SumsInv
<1>4. QED
  BY <1>2, <1>3

\* A round of either loop adds the next summand.
LEMMA InputRound ==
  ASSUME IInv, ProveInput
  PROVE  /\ pc = "inputs" /\ Summed + 1 \in 1..Len(Summands)
         /\ Accumulate(Summands[Summed + 1].kind, Summands[Summed + 1].amount)
<1>1. /\ pc = "inputs" /\ at <= Len(consumed_data)
      /\ Accumulate(Kind(consumed_data[at].resource), Positive(consumed_data[at].resource.quantity))
  BY DEF ProveInput
<1>2. at \in 1..Len(consumed_data) /\ Len(consumed_data) \in Nat /\ Len(created_resources) \in Nat
  BY <1>1, Shape DEF IInv, TypeOK
<1>3. Summed + 1 = at
  BY <1>1, <1>2 DEF Summed
<1>4. Summands[at] = InSummand(consumed_data[at]) /\ at \in 1..Len(Summands)
  BY <1>2, SummandsAre
<1>5. QED
  BY <1>1, <1>3, <1>4 DEF InSummand

\* A round of the second loop.
LEMMA OutputRound ==
  ASSUME IInv, ProveOutput
  PROVE  /\ pc = "outputs" /\ Summed + 1 \in 1..Len(Summands)
         /\ Accumulate(Summands[Summed + 1].kind, Summands[Summed + 1].amount)
<1> DEFINE r == created_resources[at]
           c == Len(consumed_data)
<1>1. /\ pc = "outputs" /\ at <= Len(created_resources)
      /\ Accumulate(Kind(r), Negated(Positive(r.quantity)))
  BY DEF ProveOutput
<1>2. at \in 1..Len(created_resources) /\ c \in Nat /\ Len(created_resources) \in Nat
  BY <1>1, Shape DEF IInv, TypeOK
<1>3. Summed + 1 = c + at
  BY <1>1, <1>2 DEF Summed
<1>4. Summands[c + at] = OutSummand(r)
  BY <1>2, SummandsAre
<1>5. c + at \in 1..Len(Summands)
  BY <1>2, SummandsAre
<1>6. QED
  BY <1>1, <1>3, <1>4, <1>5 DEF OutSummand

\* A step that leaves the sums alone.
LEMMA SumsStay ==
  ASSUME SumsInv, UNCHANGED <<consumed, created>>, UNCHANGED <<net, wrapped>>,
         \/ pc' = pc /\ at' = at
         \/ pc' \notin {"open", "inputs", "outputs"}
  PROVE  SumsInv'
<1>1. SumsOK /\ OutputsOK
  BY DEF SumsInv
<1>2. OutputsOK' /\ AllSmall' = AllSmall /\ \A k : Amounts(k)' = Amounts(k)
  BY <1>1, SameResources
<1>3. consumed_data' = consumed_data
  BY DEF consumed
<1>4. SumsOK'
  <2>1. CASE pc' = pc /\ at' = at
    <3>1. Summed' = Summed
      BY <1>3, <2>1 DEF Summed
    <3>2. QED
      BY <1>1, <1>2, <2>1, <3>1 DEF SumsOK
  <2>2. CASE pc' \notin {"open", "inputs", "outputs"}
    BY <2>2 DEF SumsOK
  <2>3. QED
    BY <2>1, <2>2
<1>5. QED
  BY <1>2, <1>4 DEF SumsInv

\* What is asked for does not hold a nonce.
LEMMA WithoutWith ==
  ASSUME NEW out \in Outputs, NEW nonce
  PROVE  WithoutNonce(WithNonce(out, nonce)) = out /\ WithNonce(out, nonce).nonce = nonce
<1>1. out = [owner |-> out.owner, logic_ref |-> out.logic_ref, label_ref |-> out.label_ref,
             quantity |-> out.quantity, is_ephemeral |-> out.is_ephemeral]
  BY DEF Outputs
<1>2. WithoutNonce(WithNonce(out, nonce))
        = [owner |-> out.owner, logic_ref |-> out.logic_ref, label_ref |-> out.label_ref,
           quantity |-> out.quantity, is_ephemeral |-> out.is_ephemeral]
  BY DEF WithoutNonce, WithNonce
<1>3. QED
  BY <1>1, <1>2 DEF WithNonce

\* An output is recorded as it was asked for.
LEMMA SumsPushOutput ==
  ASSUME IInv, SumsInv, pc = "open", NEW out \in Outputs, NEW nonce,
         PushOutput(WithNonce(out, nonce))
  PROVE  SumsInv'
<1> DEFINE n == Len(created_resources)
           r == WithNonce(out, nonce)
<1>1. created_resources' = Append(created_resources, r) /\ UNCHANGED <<pc, net, wrapped>>
  BY DEF PushOutput, sums
<1>2. r = WithNonce(WithoutNonce(r), r.nonce) /\ WithoutNonce(r) \in Outputs
  BY WithoutWith
<1> HIDE DEF r
<1>3. /\ Len(created_resources') = n + 1 /\ n \in Nat
      /\ \A i \in 1..n : created_resources'[i] = created_resources[i]
      /\ created_resources'[n + 1] = r
  BY <1>1, Shape, AppendIsSeq, IsSeqLength
<1>4. ASSUME NEW i \in 1..(n + 1)
      PROVE  /\ created_resources'[i]
                  = WithNonce(WithoutNonce(created_resources'[i]), created_resources'[i].nonce)
             /\ WithoutNonce(created_resources'[i]) \in Outputs
  <2>1. CASE i = n + 1
    BY <1>2, <1>3, <2>1
  <2>2. CASE i # n + 1
    <3>1. i \in 1..n
      BY <1>3, <2>2
    <3>2. QED
      BY <1>3, <3>1 DEF SumsInv, OutputsOK
  <2>3. QED
    BY <2>1, <2>2
<1>5. OutputsOK'
  BY <1>3, <1>4 DEF OutputsOK
<1>6. SumsOK'
  BY <1>1 DEF SumsInv, SumsOK
<1>7. QED
  BY <1>5, <1>6 DEF SumsInv

\* Every step keeps the sums.
LEMMA SumsNext == IInv /\ SumsInv /\ [Next]_vars => SumsInv'
<1> SUFFICES ASSUME IInv, SumsInv, [Next]_vars PROVE SumsInv'
  OBVIOUS
<1>0. ASSUME NEW outcome \in {"misused", "overflowed", "refused"}, End(outcome) PROVE SumsInv'
  BY <1>0, SumsStay DEF End, sums
<1>1. ASSUME NEW r, NEW path, NEW root, AddInput(r, path, root) PROVE SumsInv'
  <2>1. CASE End("misused")
    BY <1>0, <2>1
  <2>2. CASE PushInput(r, path, root)
    <3>1. pc = "open" /\ UNCHANGED <<created, pc, net, wrapped>>
      BY <1>1, <2>2 DEF AddInput, PushInput, sums
    <3>2. SumsOK' /\ OutputsOK'
      BY <3>1 DEF SumsInv, SumsOK, OutputsOK, created
    <3>3. QED
      BY <3>2 DEF SumsInv
  <2>3. QED
    BY <1>1, <2>1, <2>2 DEF AddInput
<1>2. ASSUME NEW pos \in NotePositions, AddShieldedInput(pos) PROVE SumsInv'
  BY <1>1, <1>2 DEF AddShieldedInput
<1>3. ASSUME NEW s \in FreshSeeds, NEW q \in Quantities, NEW k \in Kinds,
             AddTransparentInput(s, q, k)
      PROVE  SumsInv'
  BY <1>1, <1>3 DEF AddTransparentInput
<1>4. ASSUME NEW out \in Outputs, AddOutput(out) PROVE SumsInv'
  <2>1. CASE End("misused")
    BY <1>0, <2>1
  <2>2. CASE PushOutput(WithNonce(out, CreatedNonce))
    BY <1>4, <2>2, SumsPushOutput DEF AddOutput
  <2>3. QED
    BY <1>4, <2>1, <2>2 DEF AddOutput
<1>5. ASSUME StartBuild PROVE SumsInv'
  <2>1. CASE End("misused")
    BY <1>0, <2>1
  <2>2. CASE ~End("misused")
    <3>1. pc = "open" /\ pc' = "inputs" /\ UNCHANGED <<consumed, created, at, net, wrapped>>
      BY <1>5, <2>2 DEF StartBuild, sums
    <3>2. at = 1 /\ Summed' = 0
      BY <3>1 DEF IInv, LoopOK, Summed
    <3>3. \A k : Partial(Amounts(k))[0] = 0
      BY AmountsAre, SummandsAre, PartialDef
    <3>4. \A k \in Kinds : net'[k] = Partial(Amounts(k))'[Summed']
      BY <3>1, <3>2, <3>3, SameResources DEF SumsInv, SumsOK
    <3>5. ~wrapped'
      BY <3>1 DEF SumsInv, SumsOK
    <3>6. SumsOK'
      BY <3>1, <3>4, <3>5 DEF SumsOK
    <3>7. QED
      BY <3>1, <3>6, SameResources DEF SumsInv
  <2>3. QED
    BY <2>1, <2>2
<1>6. ASSUME ProveInput PROVE SumsInv'
  BY <1>6, InputRound, SumsAccumulate
<1>7. ASSUME StartOutputs PROVE SumsInv'
  <2>1. /\ pc = "inputs" /\ at > Len(consumed_data) /\ pc' = "outputs" /\ at' = 1
        /\ UNCHANGED <<consumed, created, net, wrapped>>
    BY <1>7 DEF StartOutputs, sums
  <2>2. at = Len(consumed_data) + 1 /\ Len(consumed_data) \in Nat
    BY <2>1, Shape DEF IInv, LoopOK, TypeOK
  <2>3. Summed' = Summed
    BY <2>1, <2>2 DEF Summed, consumed
  <2>4. \A k \in Kinds : net'[k] = Partial(Amounts(k))'[Summed']
    BY <2>1, <2>3, SameResources DEF SumsInv, SumsOK
  <2>5. wrapped' => ~AllSmall'
    BY <2>1, SameResources DEF SumsInv, SumsOK
  <2>6. SumsOK'
    BY <2>1, <2>4, <2>5 DEF SumsOK
  <2>7. QED
    BY <2>1, <2>6, SameResources DEF SumsInv
<1>8. ASSUME ProveOutput PROVE SumsInv'
  BY <1>8, OutputRound, SumsAccumulate
<1>9. ASSUME ProveCompliance PROVE SumsInv'
  <2>1. CASE End("refused")
    BY <1>0, <2>1
  <2>2. CASE ~End("refused")
    BY <1>9, <2>2, SumsStay DEF ProveCompliance, sums
  <2>3. QED
    BY <2>1, <2>2
<1>10. CASE UNCHANGED vars
  BY <1>10, SumsStay DEF vars, sums
<1>11. QED
  BY <1>2, <1>3, <1>4, <1>5, <1>6, <1>7, <1>8, <1>9, <1>10 DEF Next

-----------------------------------------------------------------------------
(* The sums of the circuit. *)

\* What the circuit has after i summands: the sums in the integers, whether or
\* not its constraints held so far, which they did if all sums could be written.
IsAcc(i, A) ==
  /\ A.ok \in BOOLEAN
  /\ IsFiniteSet(DOMAIN A.sums) /\ Cardinality(DOMAIN A.sums) <= i
  /\ \A k \in DOMAIN A.sums : A.sums[k] \in SignedNats
  /\ \A k \in Kinds :
       Partial(Amounts(k))[i] = IF k \in DOMAIN A.sums THEN ValueOf(A.sums[k]) ELSE 0
  /\ A.ok <=> Small(i)

\* Whether the sums are small after one summand more.
LEMMA SmallNext ==
  ASSUME IInv, NEW i \in 1..Len(Summands), NEW k, k = Summands[i].kind
  PROVE  /\ Small(i) <=> Small(i - 1) /\ InRange(Partial(Amounts(k))[i])
         /\ \A l \in Kinds : l # k => Partial(Amounts(l))[i] = Partial(Amounts(l))[i - 1]
         /\ Partial(Amounts(k))[i] = Partial(Amounts(k))[i - 1] + ValueOf(Summands[i].amount)
         /\ k \in Kinds
<1> DEFINE P(l, m) == Partial(Amounts(l))[m]
<1>1. i \in Nat /\ k \in Kinds
  BY SummandsAre
<1>2. P(k, i) = P(k, i - 1) + ValueOf(Summands[i].amount)
  BY NextPartial
<1>3. ASSUME NEW l \in Kinds, l # k PROVE P(l, i) = P(l, i - 1)
  <2> DEFINE x == P(l, i - 1)
             y == Amounts(l)[i]
  <2>1. P(l, i) = x + y /\ y = 0 /\ x \in Int
    BY <1>3, NextPartial
  <2> HIDE DEF x, y
  <2>2. P(l, i) = x
    BY <2>1
  <2>3. QED
    BY <2>2 DEF x
<1> HIDE DEF P
<1>4. Small(i) <=> \A l \in Kinds : \A m \in 0..i : InRange(P(l, m))
  BY DEF Small, P
<1>5. Small(i - 1) <=> \A l \in Kinds : \A m \in 0..(i - 1) : InRange(P(l, m))
  BY DEF Small, P
<1>6. \A m \in 0..i : m \in 0..(i - 1) \/ m = i
  BY <1>1
<1>7. 0..(i - 1) \subseteq 0..i /\ i \in 0..i /\ i - 1 \in 0..(i - 1)
  BY <1>1
<1>8. Small(i) <=> Small(i - 1) /\ InRange(P(k, i))
  <2>1. ASSUME Small(i) PROVE Small(i - 1) /\ InRange(P(k, i))
    BY <1>1, <1>4, <1>5, <1>7, <2>1
  <2>2. ASSUME Small(i - 1), InRange(P(k, i)) PROVE Small(i)
    <3>1. ASSUME NEW l \in Kinds, NEW m \in 0..i PROVE InRange(P(l, m))
      <4>1. CASE m \in 0..(i - 1)
        BY <1>5, <2>2, <4>1
      <4>2. CASE m = i /\ l = k
        BY <2>2, <4>2
      <4>3. CASE m = i /\ l # k
        <5>1. InRange(P(l, i - 1)) /\ P(l, i) = P(l, i - 1)
          BY <1>3, <1>5, <1>7, <2>2, <4>3
        <5>2. QED
          BY <4>3, <5>1
      <4>4. QED
        BY <1>6, <4>1, <4>2, <4>3
    <3>2. QED
      BY <1>4, <3>1
  <2>3. QED
    BY <2>1, <2>2
<1>9. QED
  BY <1>1, <1>2, <1>3, <1>8 DEF P

\* The circuit adds to a kind it has met.
LEMMA AccKnown ==
  ASSUME IInv, NEW i \in 1..Len(Summands), NEW A, IsAcc(i - 1, A),
         NEW k, k = Summands[i].kind, k \in DOMAIN A.sums
  PROVE  IsAcc(i, AccumulateKind(A, k, Summands[i].amount))
<1> DEFINE a == Summands[i].amount
           sum == Plus(A.sums[k], a)
           N == AccumulateKind(A, k, a)
           B == A.ok /\ Fits(sum)
           D == DOMAIN A.sums
<1>1. i \in Nat /\ k \in Kinds /\ a \in SignedNats
  BY SummandsAre, SignMagnitudesAreSigned
<1>2. sum \in SignedNats /\ ValueOf(sum) = ValueOf(A.sums[k]) + ValueOf(a)
  BY <1>1, PlusAdds DEF IsAcc
<1> HIDE DEF a, sum
<1>3. N = [ok |-> B, sums |-> [A.sums EXCEPT ![k] = sum]]
  BY DEF AccumulateKind, sum
<1>4. B \in BOOLEAN
  OBVIOUS
<1> HIDE DEF B
<1>5. N.ok = B /\ N.sums = [A.sums EXCEPT ![k] = sum]
  BY <1>3
<1> HIDE DEF N
<1>6. /\ DOMAIN N.sums = D
      /\ \A l \in D : N.sums[l] = IF l = k THEN sum ELSE A.sums[l]
  BY <1>5
<1>7. /\ IsFiniteSet(D) /\ Cardinality(D) <= i - 1 /\ Cardinality(D) \in Nat
      /\ \A l \in D : A.sums[l] \in SignedNats
  BY FS_CardinalityType DEF IsAcc
<1>8. Partial(Amounts(k))[i] = ValueOf(sum)
  BY <1>1, <1>2, SmallNext DEF IsAcc, a
<1>9. ASSUME NEW l \in Kinds
      PROVE  Partial(Amounts(l))[i] = IF l \in D THEN ValueOf(N.sums[l]) ELSE 0
  <2>1. CASE l = k
    BY <1>6, <1>8, <2>1
  <2>2. CASE l # k
    <3>1. Partial(Amounts(l))[i - 1] = IF l \in D THEN ValueOf(A.sums[l]) ELSE 0
      BY DEF IsAcc
    <3>2. Partial(Amounts(l))[i] = Partial(Amounts(l))[i - 1]
      BY <2>2, SmallNext
    <3>3. QED
      BY <1>6, <2>2, <3>1, <3>2
  <2>3. QED
    BY <2>1, <2>2
<1>10. B <=> Small(i)
  <2>1. Fits(sum) <=> InRange(Partial(Amounts(k))[i])
    BY <1>2, <1>8, FitsIs
  <2>2. A.ok <=> Small(i - 1)
    BY DEF IsAcc
  <2>3. Small(i) <=> Small(i - 1) /\ InRange(Partial(Amounts(k))[i])
    BY SmallNext
  <2>4. QED
    BY <2>1, <2>2, <2>3, Zenon DEF B
<1>11. N.ok \in BOOLEAN /\ (N.ok <=> Small(i))
  BY <1>4, <1>5, <1>10, Zenon
<1>12. (\A l \in DOMAIN N.sums : N.sums[l] \in SignedNats) /\ Cardinality(DOMAIN N.sums) <= i
  BY <1>1, <1>2, <1>6, <1>7
<1>13. IsAcc(i, N)
  BY <1>6, <1>7, <1>9, <1>11, <1>12, Zenon DEF IsAcc
<1>14. QED
  BY <1>13 DEF N, a

\* The circuit adds a kind it has not met.
LEMMA AccNew ==
  ASSUME IInv, NEW i \in 1..Len(Summands), NEW A, IsAcc(i - 1, A),
         NEW k, k = Summands[i].kind, k \notin DOMAIN A.sums
  PROVE  IsAcc(i, AccumulateKind(A, k, Summands[i].amount))
<1> DEFINE a == Summands[i].amount
           N == AccumulateKind(A, k, a)
           D == DOMAIN A.sums
           B == A.ok /\ Cardinality(D) < MaxKinds
<1>1. i \in Nat /\ k \in Kinds /\ a \in SignMagnitudes /\ a \in SignedNats
  BY SummandsAre, SignMagnitudesAreSigned
<1> HIDE DEF a
<1>3. N = [ok |-> B, sums |-> WithEntry(A.sums, k, a)]
  BY DEF AccumulateKind
<1>4. B \in BOOLEAN
  OBVIOUS
<1> HIDE DEF B
<1>5. N.ok = B /\ N.sums = WithEntry(A.sums, k, a)
  BY <1>3
<1> HIDE DEF N
<1>6. /\ DOMAIN N.sums = D \cup {k}
      /\ \A l \in D \cup {k} : N.sums[l] = IF l = k THEN a ELSE A.sums[l]
  BY <1>5 DEF WithEntry
<1>7. /\ IsFiniteSet(D) /\ Cardinality(D) <= i - 1 /\ Cardinality(D) \in Nat
      /\ \A l \in D : A.sums[l] \in SignedNats
  BY FS_CardinalityType DEF IsAcc
<1>8. Partial(Amounts(k))[i] = ValueOf(a)
  <2>1. Partial(Amounts(k))[i - 1] = 0
    BY <1>1 DEF IsAcc
  <2>2. Partial(Amounts(k))[i] = Partial(Amounts(k))[i - 1] + ValueOf(a)
    BY SmallNext DEF a
  <2>3. ValueOf(a) \in Int
    BY <1>1 DEF ValueOf, SignedNats
  <2>4. QED
    BY <2>1, <2>2, <2>3
<1>9. ASSUME NEW l \in Kinds
      PROVE  Partial(Amounts(l))[i] = IF l \in D \cup {k} THEN ValueOf(N.sums[l]) ELSE 0
  <2>1. CASE l = k
    BY <1>6, <1>8, <2>1
  <2>2. CASE l # k
    <3>1. Partial(Amounts(l))[i - 1] = IF l \in D THEN ValueOf(A.sums[l]) ELSE 0
      BY DEF IsAcc
    <3>2. Partial(Amounts(l))[i] = Partial(Amounts(l))[i - 1]
      BY <2>2, SmallNext
    <3>3. QED
      BY <1>6, <2>2, <3>1, <3>2
  <2>3. QED
    BY <2>1, <2>2
<1>10. B <=> Small(i)
  <2>1. InRange(Partial(Amounts(k))[i])
    <3>1. Fits(a)
      BY <1>1 DEF SignMagnitudes, Fits
    <3>2. QED
      BY <1>1, <1>8, <3>1, FitsIs
  <2>2. A.ok <=> Small(i - 1)
    BY DEF IsAcc
  <2>3. Small(i) <=> Small(i - 1) /\ InRange(Partial(Amounts(k))[i])
    BY SmallNext
  <2>4. Cardinality(D) < MaxKinds
    <3>1. i \in 1..(Len(consumed_data) + Len(created_resources))
          /\ Len(consumed_data) \in 0..MaxConsumed /\ Len(created_resources) \in 0..MaxCreated
          /\ MaxConsumed \in Nat /\ MaxCreated \in Nat
      BY SummandsAre, Shape
    <3>2. QED
      BY <1>7, <3>1 DEF MaxKinds
  <2>5. QED
    BY <2>1, <2>2, <2>3, <2>4, Zenon DEF B
<1>11. N.ok \in BOOLEAN /\ (N.ok <=> Small(i))
  BY <1>4, <1>5, <1>10, Zenon
<1>12. IsFiniteSet(DOMAIN N.sums) /\ Cardinality(DOMAIN N.sums) <= i
  <2>1. IsFiniteSet(D \cup {k}) /\ Cardinality(D \cup {k}) = Cardinality(D) + 1
    BY <1>7, FS_AddElement
  <2>2. QED
    BY <1>1, <1>6, <1>7, <2>1
<1>13. \A l \in DOMAIN N.sums : N.sums[l] \in SignedNats
  BY <1>1, <1>6, <1>7
<1>14. IsAcc(i, N)
  BY <1>6, <1>9, <1>11, <1>12, <1>13, Zenon DEF IsAcc
<1>15. QED
  BY <1>14 DEF N, a

\* The circuit's constraints on the sums hold exactly if none is too large, and
\* its sums are those of the integers.
LEMMA CircuitIs ==
  ASSUME IInv
  PROVE  IsAcc(Len(Summands), CircuitSums)
<1> DEFINE n == Len(Summands)
           C(i) == Circuit(Summands)[i]
           S == {i \in Nat : i <= n => IsAcc(i, C(i))}
<1>1. n \in Nat
  BY SummandsAre
<1>2. /\ CircuitSums = C(n) /\ C(0) = NoSums
      /\ \A i \in 1..n : C(i) = AccumulateKind(C(i - 1), Summands[i].kind, Summands[i].amount)
  BY <1>1, CircuitDef
<1> HIDE DEF C
<1>3. IsAcc(0, NoSums)
  <2>1. DOMAIN NoSums.sums = {}
    BY DEF NoSums
  <2>2. IsFiniteSet({}) /\ Cardinality({}) = 0
    BY FS_EmptySet
  <2>3. ASSUME NEW k PROVE Partial(Amounts(k))[0] = 0
    BY AmountsAre, SummandsAre, PartialDef
  <2>4. Small(0)
    <3>1. \A m \in 0..0 : m = 0
      OBVIOUS
    <3>2. InRange(0)
      BY SignMagnitudeAssumption DEF SignMagnitudeAssumption, InRange
    <3>3. ASSUME NEW k \in Kinds, NEW m \in 0..0 PROVE InRange(Partial(Amounts(k))[m])
      BY <2>3, <3>1, <3>2
    <3>4. QED
      BY <3>3 DEF Small
  <2>5. NoSums.ok = TRUE
    BY DEF NoSums
  <2>6. Cardinality(DOMAIN NoSums.sums) <= 0
    BY <2>1, <2>2
  <2>7. QED
    BY <2>1, <2>2, <2>3, <2>4, <2>5, <2>6, Zenon DEF IsAcc
<1>4. 0 \in S
  BY <1>2, <1>3
<1>5. ASSUME NEW i \in Nat, i \in S PROVE i + 1 \in S
  <2>1. SUFFICES ASSUME i + 1 <= n PROVE IsAcc(i + 1, C(i + 1))
    OBVIOUS
  <2>2. i + 1 \in 1..n /\ (i + 1) - 1 = i /\ IsAcc(i, C(i))
    BY <1>1, <1>5, <2>1
  <2>3. C(i + 1) = AccumulateKind(C(i), Summands[i + 1].kind, Summands[i + 1].amount)
    BY <1>2, <2>2
  <2> DEFINE j == i + 1
             k == Summands[j].kind
  <2>4. IsAcc(j - 1, C(i)) /\ j \in 1..Len(Summands)
    BY <2>2
  <2> HIDE DEF j
  <2>5. IsAcc(j, AccumulateKind(C(i), k, Summands[j].amount))
    BY <2>4, AccKnown, AccNew
  <2>6. QED
    BY <2>3, <2>5 DEF j
<1>6. \A i \in Nat : i \in S
  <2> HIDE DEF S
  <2>1. QED
    BY <1>4, <1>5, Induction
<1>7. QED
  BY <1>1, <1>2, <1>6

-----------------------------------------------------------------------------
(* The builder implements its contract. *)

Ins == [i \in DOMAIN consumed_data |-> Asked(consumed_data[i])]
Outs == [i \in DOMAIN created_resources |-> WithoutNonce(created_resources[i])]

AllInv == IInv /\ TreesInv /\ SumsInv

ContractStep == [Contract!Next]_<<Ins, Outs, Outcome>>

\* The contract sees the requests one by one.
LEMMA AskedIs ==
  ASSUME IInv
  PROVE  /\ IsSeq(Ins) /\ Len(Ins) = Len(consumed_data)
         /\ Ins = [i \in 1..Len(consumed_data) |-> Asked(consumed_data[i])]
         /\ IsSeq(Outs) /\ Len(Outs) = Len(created_resources)
         /\ Outs = [i \in 1..Len(created_resources) |-> WithoutNonce(created_resources[i])]
         /\ (consumed_data = <<>> <=> Ins = <<>>)
         /\ (created_resources = <<>> <=> Outs = <<>>)
<1> DEFINE c == Len(consumed_data)
           n == Len(created_resources)
<1>1. c \in Nat /\ n \in Nat /\ DOMAIN consumed_data = 1..c /\ DOMAIN created_resources = 1..n
  BY Shape, IsSeqLength
<1>2. /\ Ins = [i \in 1..c |-> Ins[i]] /\ Outs = [i \in 1..n |-> Outs[i]]
  BY <1>1 DEF Ins, Outs
<1>3. IsSeq(Ins) /\ Len(Ins) = c /\ IsSeq(Outs) /\ Len(Outs) = n
  BY <1>1, <1>2, FunctionSeq
<1>4. \A s : IsSeq(s) => (s = <<>> <=> Len(s) = 0)
  BY EmptyIsSeq, EmptySeq DEF IsSeq
<1>5. QED
  BY <1>1, <1>3, <1>4, Shape DEF Ins, Outs

\* What a caller sees before the outcome is known, and after a panic.
LEMMA OutcomeIs ==
  /\ pc \in {"open", "inputs", "outputs"} => Outcome = <<"none">>
  /\ pc = "misused" => Outcome = <<"misused">>
  /\ pc \in {"overflowed", "refused"} => Outcome = <<"overflowed">>
  /\ pc = "built" => Outcome = <<"built", PublicPart(tx), tx.opens>>
BY DEF Outcome

\* A misuse is one for the contract.
LEMMA StepMisuse ==
  ASSUME IInv, End("misused"),
         \/ pc = "open" /\ (InputMisused \/ OutputMisused)
         \/ pc = "open" /\ consumed_data = <<>>
         \/ pc = "built"
  PROVE  Contract!Misuse
<1>1. Outcome' = <<"misused">>
  BY DEF End, Outcome
<1>2. Ins' = Ins /\ Outs' = Outs
  BY DEF End, Ins, Outs, Asked, client, consumed, created
<1>3. Outcome[1] \in {"none", "built"} /\ (pc = "built" => Outcome[1] = "built")
  BY OutcomeIs
<1>4. Outs # <<>> \/ Len(Ins) \in {0, MaxConsumed} \/ Outcome[1] = "built"
  <2>1. CASE pc = "built"
    BY <1>3, <2>1
  <2>2. CASE created_resources # <<>>
    BY <2>2, AskedIs
  <2>3. CASE consumed_data = <<>>
    BY <2>3, AskedIs, EmptyIsSeq
  <2>4. CASE Len(consumed_data) = MaxConsumed
    BY <2>4, AskedIs
  <2>5. CASE Len(created_resources) = MaxCreated
    <3>1. created_resources # <<>>
      BY <2>5, EmptyIsSeq, ResourcesAssumption DEF ResourcesAssumption
    <3>2. QED
      BY <2>2, <3>1
  <2>6. QED
    BY <2>1, <2>2, <2>3, <2>4, <2>5 DEF InputMisused, OutputMisused
<1>5. QED
  BY <1>1, <1>2, <1>3, <1>4 DEF Contract!Misuse, Ins, Outs

\* push_input adds a request.
LEMMA StepInput ==
  ASSUME IInv, pc = "open", ~InputMisused, NEW r, NEW path, NEW root, PushInput(r, path, root)
  PROVE  Contract!AddInput
<1> DEFINE n == Len(consumed_data)
           c == [resource |-> r, path |-> path]
<1>1. /\ consumed_data' = Append(consumed_data, c)
      /\ UNCHANGED <<leafs, tree, created_resources, pc>>
  BY DEF PushInput, client, created
<1> HIDE DEF c
<1>2. /\ IsSeq(consumed_data') /\ Len(consumed_data') = n + 1 /\ n \in Nat
      /\ \A i \in 1..n : consumed_data'[i] = consumed_data[i]
  BY <1>1, Shape, AppendIsSeq, IsSeqLength
<1>3. DOMAIN consumed_data' = 1..(n + 1)
  BY <1>2, IsSeqLength
<1> DEFINE t == [i \in 1..(n + 1) |-> Asked(consumed_data'[i])]
<1>4. Ins' = t
  BY <1>1, <1>3 DEF Ins, Asked
<1>5. t = [i \in 1..(n + 1) |-> t[i]] /\ n + 1 \in Nat
  BY <1>2
<1>6. \A i \in 1..n : t[i] = Ins[i]
  <2>1. \A i \in 1..n : i \in 1..(n + 1)
    BY <1>2
  <2>2. Ins = [i \in 1..n |-> Asked(consumed_data[i])]
    BY AskedIs
  <2>3. QED
    BY <1>2, <2>1, <2>2
<1> HIDE DEF t
<1>7. IsSeq(t) /\ Len(t) = n + 1
  BY <1>5, FunctionSeq
<1>8. t # <<>> /\ t = Append(Ins, Last(t))
  BY <1>6, <1>7, AskedIs, IsAppend
<1>9. Outs = <<>> /\ Len(Ins) < MaxConsumed
  BY AskedIs, Shape DEF InputMisused
<1>10. Outcome = <<"none">> /\ Outcome' = <<"none">> /\ Outs' = Outs
  BY <1>1, OutcomeIs DEF Outcome, Outs
<1>11. Ins' # <<>> /\ Ins' = Append(Ins, Last(Ins'))
  BY <1>4, <1>8
<1>12. QED
  BY <1>9, <1>10, <1>11 DEF Contract!AddInput, Contract!Last, Last, Ins, Outs

\* push_output adds a request.
LEMMA StepOutput ==
  ASSUME IInv, pc = "open", ~OutputMisused, NEW out \in Outputs, NEW nonce,
         PushOutput(WithNonce(out, nonce))
  PROVE  Contract!AddOutput
<1> DEFINE n == Len(created_resources)
           r == WithNonce(out, nonce)
<1>1. /\ created_resources' = Append(created_resources, r)
      /\ UNCHANGED <<leafs, tree, consumed_data, pc>>
  BY DEF PushOutput, client, consumed
<1>2. WithoutNonce(r) = out
  BY WithoutWith
<1> HIDE DEF r
<1>3. /\ IsSeq(created_resources') /\ Len(created_resources') = n + 1 /\ n \in Nat
      /\ \A i \in 1..n : created_resources'[i] = created_resources[i]
      /\ created_resources'[n + 1] = r
  BY <1>1, Shape, AppendIsSeq, IsSeqLength
<1>4. DOMAIN created_resources' = 1..(n + 1)
  BY <1>3, IsSeqLength
<1> DEFINE t == [i \in 1..(n + 1) |-> WithoutNonce(created_resources'[i])]
<1>5. Outs' = t
  BY <1>4 DEF Outs
<1>6. t = [i \in 1..(n + 1) |-> t[i]] /\ n + 1 \in Nat
  BY <1>3
<1>7. t[n + 1] = out /\ \A i \in 1..n : t[i] = Outs[i]
  <2>1. n + 1 \in 1..(n + 1) /\ \A i \in 1..n : i \in 1..(n + 1)
    BY <1>3
  <2>2. Outs = [i \in 1..n |-> WithoutNonce(created_resources[i])]
    BY AskedIs
  <2>3. QED
    BY <1>2, <1>3, <2>1, <2>2
<1> HIDE DEF t
<1>8. IsSeq(t) /\ Len(t) = n + 1
  BY <1>6, FunctionSeq
<1>9. t # <<>> /\ t = Append(Outs, Last(t)) /\ Last(t) = out
  BY <1>7, <1>8, AskedIs, IsAppend
<1>10. Ins # <<>> /\ Len(Outs) < MaxCreated
  BY AskedIs, Shape DEF OutputMisused
<1>11. Outcome = <<"none">> /\ Outcome' = <<"none">> /\ Ins' = Ins
  BY <1>1, OutcomeIs DEF Outcome, Ins, Asked
<1>12. /\ Outs' # <<>> /\ Outs' = Append(Outs, Last(Outs'))
       /\ Last(Outs') \in Contract!Outputs
  BY <1>5, <1>9 DEF Contract!Outputs, Outputs
<1>13. QED
  BY <1>10, <1>11, <1>12 DEF Contract!AddOutput, Contract!Last, Last, Ins, Outs

\* A sum that does not fit.
LEMMA StepOverflow ==
  ASSUME IInv, ~AllSmall, NEW outcome \in {"overflowed", "refused"}, End(outcome),
         pc \in {"inputs", "outputs"}
  PROVE  Contract!Overflow
<1>1. Outcome = <<"none">> /\ Outcome' = <<"overflowed">>
  BY OutcomeIs DEF End, Outcome
<1>2. Ins' = Ins /\ Outs' = Outs
  BY DEF End, Ins, Outs, Asked, client, consumed, created
<1>3. Contract!Overflows
  BY OverflowsIs
<1>4. QED
  BY <1>1, <1>2, <1>3 DEF Contract!Overflow, Ins, Outs

\* The contract does not see the steps in between.
LEMMA StepSilent ==
  ASSUME UNCHANGED <<client, consumed_data, created_resources, tx>>,
         \/ pc' = pc
         \/ pc \in {"open", "inputs", "outputs"} /\ pc' \in {"open", "inputs", "outputs"}
  PROVE  UNCHANGED <<Ins, Outs, Outcome>>
<1>1. Ins' = Ins /\ Outs' = Outs
  BY DEF Ins, Outs, Asked, client
<1>2. Outcome' = Outcome
  BY DEF Outcome, PublicPart, ConsumedNullifiers, CreatedCommitments
<1>3. QED
  BY <1>1, <1>2

\* The public part of a built transaction is the transaction that was asked for.
LEMMA BuiltTags ==
  ASSUME AllInv
  PROVE  /\ ConsumedNullifiers(consumed_publics)
              = [i \in 1..Len(Ins) |-> Nullifier(Ins[i].resource)]
         /\ [i \in DOMAIN consumed_publics |-> consumed_publics[i].root]
              = [i \in 1..Len(Ins) |-> Ins[i].root]
         /\ CreatedCommitments(created_publics)
              = CreatedTags(Outs, ConsumedNullifiers(consumed_publics))
<1> DEFINE c == Len(consumed_data)
           n == Len(created_resources)
           nfs == ConsumedNullifiers(consumed_publics)
<1>1. /\ IInv /\ c \in Nat /\ n \in Nat
      /\ Len(consumed_publics) = c /\ Len(created_publics) = n
      /\ DOMAIN consumed_publics = 1..c
      /\ Len(Ins) = c /\ Len(Outs) = n
      /\ \A i \in 1..c : Ins[i] = Asked(consumed_data[i])
      /\ \A i \in 1..n : Outs[i] = WithoutNonce(created_resources[i])
  BY Shape, AskedIs, IsSeqLength DEF AllInv
<1>2. nfs = CircuitNullifiers
  BY <1>1, NullifiersAgree
<1>3. \A i \in 1..c : Ins[i].resource = consumed_data[i].resource
  <2>1. \A d : Asked(d).resource = d.resource
    BY DEF Asked
  <2>2. QED
    BY <1>1, <2>1
<1>4. nfs = [i \in 1..Len(Ins) |-> Nullifier(Ins[i].resource)]
  BY <1>1, <1>2, <1>3 DEF CircuitNullifiers
<1>5. \A i \in 1..c : consumed_publics[i].root = Ins[i].root
  BY <1>1 DEF IInv, ConsumedAgree, AllInv, TreesInv, RootsOK
<1>6. [i \in DOMAIN consumed_publics |-> consumed_publics[i].root]
        = [i \in 1..Len(Ins) |-> Ins[i].root]
  BY <1>1, <1>5
<1> HIDE DEF nfs
<1>7. ASSUME NEW i \in 1..n
      PROVE  created_publics[i].commitment = Commitment(WithNonce(Outs[i], DeriveNonce(i, nfs)))
  <2>1. created_publics[i] = CircuitCreated(created_resources[i])
    BY <1>1 DEF IInv, CreatedAgree
  <2>2. created_resources[i].nonce = DeriveNonce(i, nfs)
    BY <1>1, <1>2 DEF IInv, NoncesDerived
  <2>3. created_resources[i]
          = WithNonce(WithoutNonce(created_resources[i]), created_resources[i].nonce)
    BY DEF AllInv, SumsInv, OutputsOK
  <2>4. created_publics[i].commitment = Commitment(created_resources[i])
    BY <2>1 DEF CircuitCreated
  <2>5. QED
    BY <1>1, <2>2, <2>3, <2>4
<1>8. CreatedCommitments(created_publics) = CreatedTags(Outs, nfs)
  BY <1>1, <1>7 DEF CreatedCommitments, CreatedTags
<1>9. QED
  BY <1>4, <1>6, <1>8 DEF nfs

\* The logic proofs of what is built.
LEMMA BuiltInstances ==
  ASSUME AllInv
  PROVE  [i \in DOMAIN BuiltTransaction.logic_instances |->
            [tag |-> BuiltTransaction.logic_instances[i].tag,
             is_consumed |-> BuiltTransaction.logic_instances[i].is_consumed]]
           = LogicInstances(ConsumedNullifiers(consumed_publics),
                            CreatedCommitments(created_publics))
<1> DEFINE c == Len(consumed_publics)
           n == Len(created_publics)
           nfs == ConsumedNullifiers(consumed_publics)
           cms == CreatedCommitments(created_publics)
           s == [i \in 1..c |-> LogicInstance(consumed_publics[i].nullifier, TRUE)]
           t == [i \in 1..n |-> LogicInstance(created_publics[i].commitment, FALSE)]
           u == ConsumedInstances(nfs)
           v == CreatedInstances(cms)
           short(l) == [tag |-> l.tag, is_consumed |-> l.is_consumed]
           r == [i \in DOMAIN (s \o t) |-> short((s \o t)[i])]
<1>1. c \in Nat /\ n \in Nat
  BY Shape DEF AllInv
<1>2. nfs = [i \in 1..c |-> nfs[i]] /\ cms = [i \in 1..n |-> cms[i]]
      /\ (\A i \in 1..c : nfs[i] = consumed_publics[i].nullifier)
      /\ (\A i \in 1..n : cms[i] = created_publics[i].commitment)
  BY DEF ConsumedNullifiers, CreatedCommitments
<1> HIDE DEF nfs, cms
<1>3. IsSeq(nfs) /\ Len(nfs) = c /\ IsSeq(cms) /\ Len(cms) = n
  BY <1>1, <1>2, FunctionSeq
<1>4. \A tag, b : short(LogicInstance(tag, b)) = [tag |-> tag, is_consumed |-> b]
  BY DEF LogicInstance
<1>5. /\ u = [i \in 1..c |-> u[i]] /\ v = [i \in 1..n |-> v[i]]
      /\ s = [i \in 1..c |-> s[i]] /\ t = [i \in 1..n |-> t[i]]
  BY <1>3 DEF ConsumedInstances, CreatedInstances
<1>6. /\ \A i \in 1..c : u[i] = [tag |-> nfs[i], is_consumed |-> TRUE]
      /\ \A i \in 1..n : v[i] = [tag |-> cms[i], is_consumed |-> FALSE]
  BY <1>3 DEF ConsumedInstances, CreatedInstances
<1>7. /\ \A i \in 1..c : short(s[i]) = [tag |-> nfs[i], is_consumed |-> TRUE]
      /\ \A i \in 1..n : short(t[i]) = [tag |-> cms[i], is_consumed |-> FALSE]
  <2> HIDE DEF short
  <2>1. \A i \in 1..c : s[i] = LogicInstance(nfs[i], TRUE)
    BY <1>2
  <2>2. \A i \in 1..n : t[i] = LogicInstance(cms[i], FALSE)
    BY <1>2
  <2>3. QED
    BY <1>4, <2>1, <2>2, Zenon
<1>8. BuiltTransaction.logic_instances = s \o t
  BY DEF BuiltTransaction
<1> HIDE DEF short, s, t, u, v
<1>9. IsSeq(s) /\ Len(s) = c /\ IsSeq(t) /\ Len(t) = n /\ IsSeq(u) /\ Len(u) = c
      /\ IsSeq(v) /\ Len(v) = n
  BY <1>1, <1>5, FunctionSeq
<1> DEFINE w == s \o t
<1>10. /\ DOMAIN w = 1..(c + n)
       /\ \A i \in 1..(c + n) : w[i] = IF i <= c THEN s[i] ELSE t[i - c]
  <2>1. /\ IsSeq(w) /\ Len(w) = Len(s) + Len(t)
        /\ \A i \in 1..(Len(s) + Len(t)) : w[i] = IF i <= Len(s) THEN s[i] ELSE t[i - Len(s)]
    BY <1>9, ConcatIsSeq
  <2>2. DOMAIN w = 1..(Len(s) + Len(t))
    BY <2>1, IsSeqLength
  <2> HIDE DEF w, c, n
  <2>3. QED
    BY <1>9, <2>1, <2>2
<1> HIDE DEF w
<1>11. r = [i \in 1..(c + n) |-> short(w[i])]
  BY <1>10 DEF r, w
<1> HIDE DEF r
<1>12. r = [i \in 1..(c + n) |-> r[i]] /\ c + n \in Nat
       /\ \A i \in 1..(c + n) : r[i] = short(w[i])
  BY <1>1, <1>11
<1>13. IsSeq(r) /\ Len(r) = c + n
  BY <1>12, FunctionSeq
<1>14. \A i \in 1..c : r[i] = u[i]
  <2> TAKE i \in 1..c
  <2>1. i \in 1..(c + n) /\ i <= c
    BY <1>1
  <2>2. r[i] = short(s[i])
    BY <1>10, <1>12, <2>1
  <2>3. QED
    BY <1>6, <1>7, <2>2, Zenon
<1>15. \A i \in 1..n : r[c + i] = v[i]
  <2> TAKE i \in 1..n
  <2>1. c + i \in 1..(c + n) /\ ~(c + i <= c) /\ (c + i) - c = i
    BY <1>1
  <2>2. r[c + i] = short(t[i])
    BY <1>10, <1>12, <2>1
  <2>3. QED
    BY <1>6, <1>7, <2>2, Zenon
<1>16. r = u \o v
  <2> HIDE DEF c, n
  <2>1. /\ IsSeq(u) /\ IsSeq(v) /\ IsSeq(r) /\ Len(r) = Len(u) + Len(v)
        /\ \A i \in 1..Len(u) : r[i] = u[i]
        /\ \A i \in 1..Len(v) : r[Len(u) + i] = v[i]
    BY <1>9, <1>13, <1>14, <1>15
  <2>2. QED
    BY <2>1, ConcatIs
<1>17. QED
  BY <1>8, <1>16, Zenon DEF r, short, u, v, nfs, cms, LogicInstances

\* What is built is what the contract says it should be.
LEMMA BuiltIsTransaction ==
  ASSUME AllInv
  PROVE  PublicPart(BuiltTransaction) = Transaction(Ins, Outs)
<1> DEFINE nfs == ConsumedNullifiers(consumed_publics)
           b == BuiltTransaction
<1>1. /\ b.compliance_instance.consumed_publics = consumed_publics
      /\ b.compliance_instance.created_publics = created_publics
  BY DEF BuiltTransaction, ComplianceInstance
<1> HIDE DEF b
<1>2. PublicPart(b)
        = [nullifiers |-> nfs,
           roots |-> [i \in DOMAIN consumed_publics |-> consumed_publics[i].root],
           commitments |-> CreatedCommitments(created_publics),
           logic_instances |->
             [i \in DOMAIN b.logic_instances |->
                [tag |-> b.logic_instances[i].tag,
                 is_consumed |-> b.logic_instances[i].is_consumed]]]
  BY <1>1, Zenon DEF PublicPart
<1>3. Transaction(Ins, Outs)
        = [nullifiers |-> nfs,
           roots |-> [i \in 1..Len(Ins) |-> Ins[i].root],
           commitments |-> CreatedTags(Outs, nfs),
           logic_instances |-> LogicInstances(nfs, CreatedTags(Outs, nfs))]
  BY BuiltTags, Zenon DEF Transaction
<1>4. QED
  BY <1>2, <1>3, BuiltTags, BuiltInstances, Zenon DEF b

\* When the loops of build are done.
LEMMA AllSummed ==
  ASSUME AllInv, pc = "outputs", at > Len(created_resources), NEW k \in Kinds
  PROVE  /\ net[k] = Partial(Amounts(k))[Len(Summands)]
         /\ net[k] = Total(InAmounts(k)) - Total(OutAmounts(k))
<1> DEFINE c == Len(consumed_data)
           n == Len(created_resources)
<1>1. IInv /\ c \in Nat /\ n \in Nat /\ at = n + 1 /\ Len(Summands) = c + n
  BY Shape, SummandsAre DEF AllInv, IInv, LoopOK, TypeOK
<1>2. Summed = c + n
  BY <1>1 DEF Summed
<1>3. net[k] = Partial(Amounts(k))[c + n]
  BY <1>2 DEF AllInv, SumsInv, SumsOK
<1>4. n \in 0..n /\ Len(OutAmounts(k)) = n
  BY <1>1, AmountsAre
<1>5. Partial(Amounts(k))[c + n] = Total(InAmounts(k)) - Partial(OutAmounts(k))[n]
  BY <1>1, <1>4, PartialSums
<1>6. Total(OutAmounts(k)) = Partial(OutAmounts(k))[n]
  BY <1>1, <1>4, PartialDef
<1>7. QED
  BY <1>1, <1>3, <1>5, <1>6

\* The signature opens exactly the balanced.
LEMMA OpensBalanced ==
  ASSUME AllInv, pc = "outputs", at > Len(created_resources), ~wrapped
  PROVE  Opens(ComplianceInstance) <=> Balanced(Transaction(Ins, Outs))
<1> DEFINE t == Transaction(Ins, Outs)
           c == Len(consumed_data)
           n == Len(created_resources)
<1>1. IInv /\ c \in Nat /\ n \in Nat /\ Len(created_publics) = n
  BY Shape DEF AllInv
<1>2. t.nullifiers = CircuitNullifiers
  <2>1. t.nullifiers = [i \in 1..Len(Ins) |-> Nullifier(Ins[i].resource)]
    BY DEF Transaction
  <2>2. QED
    BY <1>1, <2>1, BuiltTags, NullifiersAgree
<1>3. t.commitments = CreatedCommitments(created_publics)
  <2>1. t.commitments
          = CreatedTags(Outs, [i \in 1..Len(Ins) |-> Nullifier(Ins[i].resource)])
    BY DEF Transaction
  <2>2. QED
    BY <2>1, BuiltTags
<1>4. CreatedCommitments(created_publics) = [i \in 1..n |-> Commitment(created_resources[i])]
  <2>1. \A i \in 1..n : created_publics[i] = CircuitCreated(created_resources[i])
    BY <1>1 DEF IInv, CreatedAgree
  <2>2. \A r : CircuitCreated(r).commitment = Commitment(r)
    BY DEF CircuitCreated
  <2>3. \A i \in 1..n : created_publics[i].commitment = Commitment(created_resources[i])
    BY <2>1, <2>2
  <2>4. QED
    BY <1>1, <2>3 DEF CreatedCommitments
<1> HIDE DEF t
<1>5. ASSUME NEW k \in Kinds PROVE Delta(t, k) = net[k]
  <2>1. [i \in DOMAIN CircuitNullifiers |-> Amount(CircuitNullifiers[i], k)] = InAmounts(k)
    BY DEF CircuitNullifiers, InAmounts
  <2> DEFINE cms == [i \in 1..n |-> Commitment(created_resources[i])]
  <2>2. [i \in DOMAIN cms |-> Amount(cms[i], k)] = OutAmounts(k)
    BY DEF OutAmounts
  <2> HIDE DEF cms
  <2>3. QuantityOf(t.nullifiers, k) = Total(InAmounts(k))
    BY <1>2, <2>1, Zenon DEF QuantityOf
  <2>4. QuantityOf(t.commitments, k) = Total(OutAmounts(k))
    BY <1>3, <1>4, <2>2, Zenon DEF QuantityOf, cms
  <2>5. QED
    BY <2>3, <2>4, AllSummed DEF Delta
<1>6. ComplianceInstance.delta = net
  BY <1>1, CommittedOK DEF DeltaCommitted
<1>7. Opens(ComplianceInstance) <=> \A k \in Kinds : net[k] = 0
  BY <1>6, Zenon DEF Opens
<1>8. Balanced(t) <=> \A k \in Kinds : net[k] = 0
  BY <1>5 DEF Balanced
<1>9. QED
  BY <1>7, <1>8 DEF t

\* The circuit agrees exactly when no sum on the way was too large.
LEMMA AgreesIfSmall ==
  ASSUME AllInv, pc = "outputs", at > Len(created_resources)
  PROVE  /\ AllSmall => ~wrapped /\ Constrained /\ CircuitInstance = ComplianceInstance
         /\ ~AllSmall => ~Constrained
<1>1. IInv /\ IsAcc(Len(Summands), CircuitSums)
  BY CircuitIs DEF AllInv
<1>2. CircuitSums.ok <=> AllSmall
  BY <1>1 DEF IsAcc, AllSmall
<1>3. ASSUME AllSmall PROVE ~wrapped /\ Constrained /\ CircuitInstance = ComplianceInstance
  <2>1. ~wrapped
    BY <1>3 DEF AllInv, SumsInv, SumsOK
  <2> DEFINE A == CircuitSums
             d(k) == IF k \in DOMAIN A.sums THEN ValueOf(A.sums[k]) ELSE 0
  <2>2. CircuitInstance.delta = [k \in Kinds |-> d(k)]
    BY DEF CircuitInstance
  <2>3. \A k \in Kinds : d(k) = net[k]
    BY <1>1, AllSummed DEF IsAcc
  <2>4. net = [k \in Kinds |-> net[k]]
    BY <1>1 DEF IInv, TypeOK
  <2> HIDE DEF d
  <2>5. CircuitInstance.delta = net
    BY <2>2, <2>3, <2>4
  <2>6. SumsFit
    BY <1>2, <1>3, <2>1, <2>5 DEF SumsFit
  <2>7. QED
    BY <1>1, <2>1, <2>6, OnlySumsOK DEF OnlySumsRefuse
<1>4. ASSUME ~AllSmall PROVE ~Constrained
  BY <1>2, <1>4 DEF Constrained
<1>5. QED
  BY <1>3, <1>4

\* The last step of build.
LEMMA StepBuilt ==
  ASSUME AllInv, ProveCompliance
  PROVE  Contract!Build \/ Contract!Overflow
<1>1. /\ pc = "outputs" /\ at > Len(created_resources)
      /\ IInv /\ consumed_data # <<>>
  BY DEF ProveCompliance, AllInv, IInv, Consumes
<1>2. CASE AllSmall
  <2>1. ~wrapped /\ Constrained /\ CircuitInstance = ComplianceInstance
    BY <1>1, <1>2, AgreesIfSmall
  <2>2. /\ pc' = "built" /\ tx' = BuiltTransaction
        /\ UNCHANGED <<leafs, tree, consumed_data, created_resources>>
    BY <2>1 DEF ProveCompliance, client, consumed, created
  <2>3. Ins' = Ins /\ Outs' = Outs
    BY <2>2 DEF Ins, Outs, Asked
  <2> DEFINE t == Transaction(Ins, Outs)
  <2>4. BuiltTransaction.opens = Opens(ComplianceInstance)
    BY DEF BuiltTransaction
  <2>5. Opens(ComplianceInstance) = Balanced(t)
    <3>1. Opens(ComplianceInstance) <=> Balanced(t)
      BY <1>1, <2>1, OpensBalanced
    <3>2. Opens(ComplianceInstance) \in BOOLEAN /\ Balanced(t) \in BOOLEAN
      BY DEF Opens, Balanced
    <3>3. QED
      BY <3>1, <3>2
  <2>6. Outcome' = <<"built", PublicPart(tx)', (tx').opens>>
    BY <2>2, Zenon DEF Outcome
  <2>7. PublicPart(tx)' = PublicPart(BuiltTransaction)
    BY <2>2 DEF PublicPart, ConsumedNullifiers, CreatedCommitments
  <2>8. Outcome' = <<"built", t, Balanced(t)>>
    BY <2>2, <2>4, <2>5, <2>6, <2>7, BuiltIsTransaction, Zenon
  <2>9. Contract!Transaction(Ins, Outs) = t
    BY Zenon DEF Contract!Transaction, Transaction, Contract!CreatedTags, CreatedTags,
         Contract!WithNonce, WithNonce, Contract!DeriveNonce, DeriveNonce,
         Contract!Commitment, Commitment, Contract!Nullifier, Nullifier,
         Contract!LogicInstances, LogicInstances,
         Contract!ConsumedInstances, ConsumedInstances,
         Contract!CreatedInstances, CreatedInstances
  <2>10. \A x : Contract!Balanced(x) = Balanced(x)
    BY Zenon DEF Contract!Balanced, Balanced, Contract!Delta, Delta,
         Contract!QuantityOf, QuantityOf, Contract!Total, Total, Contract!Amount, Amount,
         Contract!Kind, Kind, Contract!Kinds, Kinds, Contract!ResourceOf, ResourceOf
  <2>11. Outcome = <<"none">> /\ Ins # <<>> /\ ~Contract!Overflows
    BY <1>1, <1>2, OutcomeIs, AskedIs, OverflowsIs
  <2>12. Contract!Build
    BY <2>3, <2>8, <2>9, <2>10, <2>11, Zenon DEF Contract!Build, Ins, Outs
  <2>13. QED
    BY <2>12
<1>3. CASE ~AllSmall
  <2>1. End("refused")
    BY <1>1, <1>3, AgreesIfSmall DEF ProveCompliance
  <2>2. QED
    BY <1>1, <1>3, <2>1, StepOverflow
<1>4. QED
  BY <1>2, <1>3

\* A round of the loops of build.
LEMMA StepAccumulate ==
  ASSUME AllInv, pc \in {"inputs", "outputs"},
         Summed + 1 \in 1..Len(Summands),
         Accumulate(Summands[Summed + 1].kind, Summands[Summed + 1].amount)
  PROVE  ContractStep
<1> DEFINE k == Summands[Summed + 1].kind
           sum == Plus(delta_map[k], Summands[Summed + 1].amount)
<1>1. IInv /\ SumsInv /\ k \in Kinds
  BY SummandsAre DEF AllInv
<1>2. CASE ~Fits(sum) /\ End("overflowed")
  <2>1. ~AllSmall
    BY <1>1, <1>2, UnfitIsLarge
  <2>2. Contract!Overflow
    BY <1>1, <1>2, <2>1, StepOverflow
  <2>3. QED
    BY <2>2 DEF ContractStep, Contract!Next
<1>3. CASE ~(~Fits(sum) /\ End("overflowed"))
  <2>1. UNCHANGED <<client, consumed, created, pc, tx>>
    BY <1>3 DEF Accumulate
  <2>2. UNCHANGED <<client, consumed_data, created_resources, tx>> /\ pc' = pc
    BY <2>1 DEF consumed, created
  <2>3. UNCHANGED <<Ins, Outs, Outcome>>
    BY <2>2, StepSilent
  <2>4. QED
    BY <2>3 DEF ContractStep
<1>4. QED
  BY <1>2, <1>3

\* Every step of the builder is one of its contract, or a stutter.
LEMMA ContractNext == AllInv /\ [Next]_vars => ContractStep
<1> SUFFICES ASSUME AllInv, [Next]_vars PROVE ContractStep
  OBVIOUS
<1>0. IInv
  BY DEF AllInv
<1>1. ASSUME NEW r, NEW path, NEW root, AddInput(r, path, root) PROVE ContractStep
  <2>1. CASE InputMisused /\ End("misused")
    <3>1. Contract!Misuse
      BY <1>0, <1>1, <2>1, StepMisuse DEF AddInput
    <3>2. QED
      BY <3>1 DEF ContractStep, Contract!Next
  <2>2. CASE ~InputMisused /\ PushInput(r, path, root)
    <3>1. Contract!AddInput
      BY <1>0, <1>1, <2>2, StepInput DEF AddInput
    <3>2. QED
      BY <3>1 DEF ContractStep, Contract!Next
  <2>3. QED
    BY <1>1, <2>1, <2>2 DEF AddInput
<1>2. ASSUME NEW pos \in NotePositions, AddShieldedInput(pos) PROVE ContractStep
  BY <1>1, <1>2 DEF AddShieldedInput
<1>3. ASSUME NEW s \in FreshSeeds, NEW q \in Quantities, NEW k \in Kinds,
             AddTransparentInput(s, q, k)
      PROVE  ContractStep
  BY <1>1, <1>3 DEF AddTransparentInput
<1>4. ASSUME NEW out \in Outputs, AddOutput(out) PROVE ContractStep
  <2>1. CASE OutputMisused /\ End("misused")
    <3>1. Contract!Misuse
      BY <1>0, <1>4, <2>1, StepMisuse DEF AddOutput
    <3>2. QED
      BY <3>1 DEF ContractStep, Contract!Next
  <2>2. CASE ~OutputMisused /\ PushOutput(WithNonce(out, CreatedNonce))
    <3>1. Contract!AddOutput
      BY <1>0, <1>4, <2>2, StepOutput DEF AddOutput
    <3>2. QED
      BY <3>1 DEF ContractStep, Contract!Next
  <2>3. QED
    BY <1>4, <2>1, <2>2 DEF AddOutput
<1>5. ASSUME StartBuild PROVE ContractStep
  <2>1. CASE End("misused")
    <3>1. pc = "built" \/ (pc = "open" /\ AllTags = <<>>)
      BY <1>5, <2>1 DEF StartBuild, End
    <3>2. AllTags = <<>> => consumed_data = <<>>
      BY <1>0, AllTagsIsSeq
    <3>3. Contract!Misuse
      BY <1>0, <2>1, <3>1, <3>2, StepMisuse
    <3>4. QED
      BY <3>3 DEF ContractStep, Contract!Next
  <2>2. CASE ~End("misused")
    <3>1. pc = "open" /\ pc' = "inputs" /\ UNCHANGED <<client, consumed, created, tx>>
      BY <1>5, <2>2 DEF StartBuild
    <3>2. UNCHANGED <<Ins, Outs, Outcome>>
      BY <3>1, StepSilent DEF consumed, created
    <3>3. QED
      BY <3>2 DEF ContractStep
  <2>3. QED
    BY <2>1, <2>2
<1>6. ASSUME ProveInput PROVE ContractStep
  BY <1>0, <1>6, InputRound, StepAccumulate
<1>7. ASSUME StartOutputs PROVE ContractStep
  <2>1. UNCHANGED <<Ins, Outs, Outcome>>
    BY <1>7, StepSilent DEF StartOutputs, consumed, created
  <2>2. QED
    BY <2>1 DEF ContractStep
<1>8. ASSUME ProveOutput PROVE ContractStep
  BY <1>0, <1>8, OutputRound, StepAccumulate
<1>9. ASSUME ProveCompliance PROVE ContractStep
  BY <1>9, StepBuilt DEF ContractStep, Contract!Next
<1>10. CASE UNCHANGED vars
  <2>1. UNCHANGED <<Ins, Outs, Outcome>>
    BY <1>10, StepSilent DEF vars, client, consumed, created
  <2>2. QED
    BY <2>1 DEF ContractStep
<1>11. QED
  BY <1>2, <1>3, <1>4, <1>5, <1>6, <1>7, <1>8, <1>9, <1>10 DEF Next

\* For every pool, depth of the tree, width of the sums and limit of the arrays,
\* TransactionBuilder implements its contract: what it builds is exactly what was
\* asked, signed so that it opens if and only if it balances, and it gives up only
\* for a misuse, or for a sum that cannot be written down (client.rs:98-945).
THEOREM ImplementsContract == Spec => KeepsContract
<1>1. Init => AllInv /\ Contract!Init
  <2>1. ASSUME Init PROVE Contract!Init
    <3>1. consumed_data = <<>> /\ created_resources = <<>> /\ pc = "open"
      BY <2>1 DEF Init
    <3>2. Ins = <<>> /\ Outs = <<>>
      BY <2>1, InitOK, <3>1, AskedIs
    <3>3. QED
      BY <3>1, <3>2, OutcomeIs DEF Contract!Init, Ins, Outs
  <2>2. QED
    BY <2>1, InitOK, TreesInit, SumsInit DEF AllInv
<1>2. AllInv /\ [Next]_vars => AllInv' /\ [Contract!Next]_<<Ins, Outs, Outcome>>
  <2>1. AllInv /\ [Next]_vars => AllInv'
    BY NextOK, StutterOK, TreesNext, SumsNext DEF AllInv
  <2>2. QED
    BY <2>1, ContractNext DEF ContractStep
<1>3. QED
  BY <1>1, <1>2, PTL DEF Spec, KeepsContract, Contract!Spec, Ins, Outs

-----------------------------------------------------------------------------
(* The tokens of a label. *)

\* What the resources of any of the kinds C sum to.
InKinds(C) == [i \in 1..Len(consumed_data) |->
                 IF Kind(consumed_data[i].resource) \in C
                 THEN consumed_data[i].resource.quantity ELSE 0]
OutKinds(C) == [i \in 1..Len(created_resources) |->
                  IF Kind(created_resources[i]) \in C THEN created_resources[i].quantity ELSE 0]

\* They are counts, one for each resource.
LEMMA KindsAre ==
  ASSUME IInv, NEW C
  PROVE  /\ IsCounts(InKinds(C)) /\ Len(InKinds(C)) = Len(consumed_data)
         /\ IsCounts(OutKinds(C)) /\ Len(OutKinds(C)) = Len(created_resources)
<1> DEFINE c == Len(consumed_data)
           n == Len(created_resources)
           s == InKinds(C)
           t == OutKinds(C)
<1>1. c \in Nat /\ n \in Nat
  BY Shape
<1>2. Magnitudes \subseteq Nat
  BY SignMagnitudeAssumption DEF SignMagnitudeAssumption, Magnitudes
<1>3. \A i \in 1..c : s[i] \in Nat
  BY <1>2 DEF InKinds, IInv, ResourcesOK, ResourceOK
<1>4. \A i \in 1..n : t[i] \in Nat
  BY <1>2 DEF OutKinds, IInv, ResourcesOK, ResourceOK
<1>5. s = [i \in 1..c |-> s[i]] /\ t = [i \in 1..n |-> t[i]]
  BY DEF InKinds, OutKinds
<1> HIDE DEF s, t
<1>6. IsSeq(s) /\ Len(s) = c /\ IsSeq(t) /\ Len(t) = n
  BY <1>1, <1>5, FunctionSeq
<1>7. QED
  BY <1>3, <1>4, <1>6 DEF IsCounts, s, t

\* One kind more adds what its resources sum to.
LEMMA KindsAdd ==
  ASSUME IInv, NEW C, NEW k, k \notin C
  PROVE  /\ Total(InKinds(C \cup {k})) = Total(InKinds(C)) + Total(InAmounts(k))
         /\ Total(OutKinds(C \cup {k})) = Total(OutKinds(C)) + Total(OutAmounts(k))
<1> DEFINE c == Len(consumed_data)
           n == Len(created_resources)
           D == C \cup {k}
<1>1. c \in Nat /\ n \in Nat
  BY Shape
<1>2. \A r : Amount(Nullifier(r), k) = (IF Kind(r) = k THEN r.quantity ELSE 0)
             /\ Amount(Commitment(r), k) = (IF Kind(r) = k THEN r.quantity ELSE 0)
  BY DEF Amount, Nullifier, Commitment, ResourceOf
<1>3. /\ IsCounts(InKinds(C)) /\ Len(InKinds(C)) = c /\ IsCounts(InKinds(D)) /\ Len(InKinds(D)) = c
      /\ IsCounts(OutKinds(C)) /\ Len(OutKinds(C)) = n
      /\ IsCounts(OutKinds(D)) /\ Len(OutKinds(D)) = n
      /\ IsCounts(InAmounts(k)) /\ Len(InAmounts(k)) = c
      /\ IsCounts(OutAmounts(k)) /\ Len(OutAmounts(k)) = n
  BY KindsAre, AmountsAre
<1>4. \A i \in 1..c : /\ InKinds(C)[i] \in Nat /\ InAmounts(k)[i] \in Nat
                      /\ InKinds(D)[i] = InKinds(C)[i] + InAmounts(k)[i]
  <2> TAKE i \in 1..c
  <2> DEFINE r == consumed_data[i].resource
  <2>1. /\ InKinds(C)[i] = (IF Kind(r) \in C THEN r.quantity ELSE 0)
        /\ InKinds(D)[i] = (IF Kind(r) \in D THEN r.quantity ELSE 0)
        /\ InAmounts(k)[i] = (IF Kind(r) = k THEN r.quantity ELSE 0)
    BY <1>2 DEF InKinds, InAmounts
  <2>2. InKinds(C)[i] \in Nat /\ InAmounts(k)[i] \in Nat /\ InKinds(D)[i] \in Nat
    BY <1>3 DEF IsCounts
  <2> HIDE DEF r
  <2>3. QED
    BY <2>1, <2>2
<1>5. \A i \in 1..n : /\ OutKinds(C)[i] \in Nat /\ OutAmounts(k)[i] \in Nat
                      /\ OutKinds(D)[i] = OutKinds(C)[i] + OutAmounts(k)[i]
  <2> TAKE i \in 1..n
  <2> DEFINE r == created_resources[i]
  <2>1. /\ OutKinds(C)[i] = (IF Kind(r) \in C THEN r.quantity ELSE 0)
        /\ OutKinds(D)[i] = (IF Kind(r) \in D THEN r.quantity ELSE 0)
        /\ OutAmounts(k)[i] = (IF Kind(r) = k THEN r.quantity ELSE 0)
    BY <1>2 DEF OutKinds, OutAmounts
  <2>2. OutKinds(C)[i] \in Nat /\ OutAmounts(k)[i] \in Nat /\ OutKinds(D)[i] \in Nat
    BY <1>3 DEF IsCounts
  <2> HIDE DEF r
  <2>3. QED
    BY <2>1, <2>2
<1>6. Total(InKinds(D)) = Total(InKinds(C)) + Total(InAmounts(k))
  <2>1. IsNumbers(InKinds(D)) /\ IsNumbers(InKinds(C)) /\ IsNumbers(InAmounts(k))
    BY <1>3, CountsAreNumbers
  <2>2. /\ Len(InKinds(C)) = Len(InKinds(D)) /\ Len(InAmounts(k)) = Len(InKinds(D))
        /\ \A i \in 1..Len(InKinds(D)) : InKinds(D)[i] = InKinds(C)[i] + InAmounts(k)[i]
    BY <1>3, <1>4
  <2> HIDE DEF D
  <2>3. QED
    BY <2>1, <2>2, TotalPlus
<1>7. Total(OutKinds(D)) = Total(OutKinds(C)) + Total(OutAmounts(k))
  <2>1. IsNumbers(OutKinds(D)) /\ IsNumbers(OutKinds(C)) /\ IsNumbers(OutAmounts(k))
    BY <1>3, CountsAreNumbers
  <2>2. /\ Len(OutKinds(C)) = Len(OutKinds(D)) /\ Len(OutAmounts(k)) = Len(OutKinds(D))
        /\ \A i \in 1..Len(OutKinds(D)) : OutKinds(D)[i] = OutKinds(C)[i] + OutAmounts(k)[i]
    BY <1>3, <1>5
  <2> HIDE DEF D
  <2>3. QED
    BY <2>1, <2>2, TotalPlus
<1>8. QED
  BY <1>6, <1>7

\* Where every kind balances, so does every set of kinds, however many logics
\* share a label.
LEMMA KindsBalance ==
  ASSUME IInv, \A k \in Kinds : Total(InAmounts(k)) = Total(OutAmounts(k)), NEW C
  PROVE  Total(InKinds(C)) = Total(OutKinds(C))
<1> DEFINE m == Len(Summands)
           Met(j) == {k \in C : \E i \in 1..j : Summands[i].kind = k}
           S == {j \in Nat : j <= m => Total(InKinds(Met(j))) = Total(OutKinds(Met(j)))}
<1>1. m \in Nat /\ \A i \in 1..m : Summands[i].kind \in Kinds
  BY SummandsAre
<1>2. 0 \in S
  <2>1. Met(0) = {}
    OBVIOUS
  <2> HIDE DEF Met
  <2>2. IsCounts(InKinds({})) /\ IsCounts(OutKinds({}))
    BY KindsAre
  <2>3. /\ \A i \in 1..Len(InKinds({})) : InKinds({})[i] = 0
        /\ \A i \in 1..Len(OutKinds({})) : OutKinds({})[i] = 0
    BY KindsAre DEF InKinds, OutKinds
  <2>4. Total(InKinds({})) = 0 /\ Total(OutKinds({})) = 0
    BY <2>2, <2>3, CountsAreNumbers, TotalZero
  <2>5. QED
    BY <2>1, <2>4
<1>3. ASSUME NEW j \in Nat, j \in S PROVE j + 1 \in S
  <2>1. SUFFICES ASSUME j + 1 <= m
                 PROVE  Total(InKinds(Met(j + 1))) = Total(OutKinds(Met(j + 1)))
    OBVIOUS
  <2> DEFINE k == Summands[j + 1].kind
  <2>2. j + 1 \in 1..m /\ j <= m /\ k \in Kinds
    BY <1>1, <2>1
  <2>3. Total(InKinds(Met(j))) = Total(OutKinds(Met(j)))
    BY <1>3, <2>2
  <2>4. Total(InAmounts(k)) = Total(OutAmounts(k))
    BY <2>2
  <2>5. \A i : i \in 1..(j + 1) <=> i \in 1..j \/ i = j + 1
    OBVIOUS
  <2>6. CASE k \in Met(j) \/ k \notin C
    <3>1. Met(j + 1) = Met(j)
      BY <2>5, <2>6
    <3>2. QED
      BY <2>3, <3>1
  <2>7. CASE k \notin Met(j) /\ k \in C
    <3>1. Met(j + 1) = Met(j) \cup {k}
      BY <2>5, <2>7
    <3> HIDE DEF Met
    <3>2. /\ Total(InKinds(Met(j) \cup {k})) = Total(InKinds(Met(j))) + Total(InAmounts(k))
          /\ Total(OutKinds(Met(j) \cup {k})) = Total(OutKinds(Met(j))) + Total(OutAmounts(k))
      BY <2>7, KindsAdd
    <3>3. QED
      BY <2>3, <2>4, <3>1, <3>2
  <2>8. QED
    BY <2>6, <2>7
<1>4. m \in S
  <2> HIDE DEF S
  <2>1. QED
    BY <1>1, <1>2, <1>3, Induction
<1>5. Total(InKinds(Met(m))) = Total(OutKinds(Met(m)))
  BY <1>1, <1>4
<1>6. InKinds(Met(m)) = InKinds(C)
  <2>1. ASSUME NEW i \in 1..Len(consumed_data)
        PROVE  Kind(consumed_data[i].resource) \in C => Kind(consumed_data[i].resource) \in Met(m)
    <3>1. Summands[i].kind = Kind(consumed_data[i].resource)
      <4>1. Summands[i] = InSummand(consumed_data[i])
        BY SummandsAre
      <4>2. QED
        BY <4>1 DEF InSummand
    <3>2. i \in 1..m
      BY SummandsAre, Shape
    <3>3. QED
      BY <3>1, <3>2
  <2>2. QED
    BY <2>1 DEF InKinds
<1>7. OutKinds(Met(m)) = OutKinds(C)
  <2>1. ASSUME NEW i \in 1..Len(created_resources)
        PROVE  Kind(created_resources[i]) \in C => Kind(created_resources[i]) \in Met(m)
    <3>1. Summands[Len(consumed_data) + i].kind = Kind(created_resources[i])
      <4>1. Summands[Len(consumed_data) + i] = OutSummand(created_resources[i])
        BY SummandsAre
      <4>2. QED
        BY <4>1 DEF OutSummand
    <3>2. Len(consumed_data) + i \in 1..m
      BY SummandsAre, Shape
    <3>3. QED
      BY <3>1, <3>2
  <2>2. QED
    BY <2>1 DEF OutKinds
<1>8. QED
  BY <1>5, <1>6, <1>7

-----------------------------------------------------------------------------
(* What is built moves tokens as its notes do. *)

\* What was built stays as it is, and every kind of it balances if it opens.
TxOK ==
  pc = "built" =>
    /\ tx.logic_instances = BuiltTransaction.logic_instances
    /\ tx.opens => \A k \in Kinds : Total(InAmounts(k)) = Total(OutAmounts(k))

\* The last step of build, where the sums did not wrap.
LEMMA BuiltBalances ==
  ASSUME AllInv, pc = "outputs", at > Len(created_resources),
         Constrained, CircuitInstance = ComplianceInstance, BuiltTransaction.opens,
         NEW k \in Kinds
  PROVE  Total(InAmounts(k)) = Total(OutAmounts(k))
<1>1. AllSmall /\ ~wrapped
  BY AgreesIfSmall
<1>2. ComplianceInstance.delta = net
  BY <1>1, CommittedOK DEF DeltaCommitted, AllInv
<1>3. Opens(ComplianceInstance)
  BY DEF BuiltTransaction
<1>4. net[k] = 0
  BY <1>2, <1>3, Zenon DEF Opens
<1>5. net[k] = Total(InAmounts(k)) - Total(OutAmounts(k))
  BY AllSummed
<1>6. Total(InAmounts(k)) \in Int /\ Total(OutAmounts(k)) \in Int
  BY AmountsAre, CountsAreNumbers, TotalInt DEF AllInv
<1>7. QED
  BY <1>4, <1>5, <1>6

\* Every step keeps what was built.
LEMMA TxNext == AllInv /\ TxOK /\ [Next]_vars => TxOK'
<1> SUFFICES ASSUME AllInv, TxOK, [Next]_vars, pc' = "built"
             PROVE  /\ tx'.logic_instances = BuiltTransaction'.logic_instances
                    /\ tx'.opens => \A k \in Kinds :
                                      (Total(InAmounts(k)) = Total(OutAmounts(k)))'
  BY DEF TxOK
<1>1. \A outcome \in {"misused", "overflowed", "refused"} : ~End(outcome)
  BY DEF End
<1>2. ASSUME NEW r, NEW path, NEW root, pc = "open" PROVE ~AddInput(r, path, root)
  BY <1>1, <1>2 DEF AddInput, PushInput
<1>3. ASSUME NEW out, pc = "open" PROVE ~AddOutput(out)
  BY <1>1, <1>3 DEF AddOutput, PushOutput
<1>4. ASSUME NEW k, NEW amount, pc \in {"inputs", "outputs"} PROVE ~Accumulate(k, amount)
  BY <1>1, <1>4 DEF Accumulate
<1>5. CASE ProveCompliance
  <2>1. /\ pc = "outputs" /\ at > Len(created_resources)
        /\ Constrained /\ CircuitInstance = ComplianceInstance /\ tx' = BuiltTransaction
        /\ UNCHANGED <<client, consumed, created, at, action_root, sums>>
    BY <1>1, <1>5 DEF ProveCompliance
  <2>2. /\ consumed_data' = consumed_data /\ created_resources' = created_resources
        /\ consumed_publics' = consumed_publics /\ created_publics' = created_publics
        /\ action_root' = action_root
    BY <2>1 DEF consumed, created
  <2>3. BuiltTransaction'.logic_instances = BuiltTransaction.logic_instances
    BY <2>2 DEF BuiltTransaction, LogicInstance, Payload
  <2>4. \A k : InAmounts(k)' = InAmounts(k) /\ OutAmounts(k)' = OutAmounts(k)
    BY <2>2 DEF InAmounts, OutAmounts
  <2>5. \A k : /\ Total(InAmounts(k))' = Total(InAmounts(k))
               /\ Total(OutAmounts(k))' = Total(OutAmounts(k))
    BY <2>4 DEF Total
  <2>6. QED
    BY <2>1, <2>3, <2>5, BuiltBalances
<1>6. CASE UNCHANGED vars
  <2>1. /\ consumed_data' = consumed_data /\ created_resources' = created_resources
        /\ consumed_publics' = consumed_publics /\ created_publics' = created_publics
        /\ action_root' = action_root /\ pc = "built" /\ tx' = tx
    BY <1>6, SMTT(30) DEF vars, consumed, created
  <2>2. BuiltTransaction'.logic_instances = BuiltTransaction.logic_instances
    BY <2>1 DEF BuiltTransaction, LogicInstance, Payload
  <2>3. \A k : InAmounts(k)' = InAmounts(k) /\ OutAmounts(k)' = OutAmounts(k)
    BY <2>1 DEF InAmounts, OutAmounts
  <2>4. \A k : /\ Total(InAmounts(k))' = Total(InAmounts(k))
               /\ Total(OutAmounts(k))' = Total(OutAmounts(k))
    BY <2>3 DEF Total
  <2>5. QED
    BY <2>1, <2>2, <2>4 DEF TxOK
<1>7. CASE StartBuild
  BY <1>1, <1>7 DEF StartBuild
<1>8. CASE StartOutputs
  BY <1>8 DEF StartOutputs
<1>9. CASE ProveInput
  BY <1>4, <1>9 DEF ProveInput
<1>10. CASE ProveOutput
  BY <1>4, <1>10 DEF ProveOutput
<1>11. ASSUME NEW pos \in NotePositions, AddShieldedInput(pos) PROVE FALSE
  BY <1>2, <1>11 DEF AddShieldedInput, AddInput
<1>12. ASSUME NEW s \in FreshSeeds, NEW q \in Quantities, NEW k \in Kinds,
              AddTransparentInput(s, q, k)
       PROVE  FALSE
  BY <1>2, <1>12 DEF AddTransparentInput, AddInput
<1>13. ASSUME NEW out \in Outputs, AddOutput(out) PROVE FALSE
  BY <1>3, <1>13 DEF AddOutput
<1>14. QED
  BY <1>5, <1>6, <1>7, <1>8, <1>9, <1>10, <1>11, <1>12, <1>13 DEF Next

\* What the payload for a tag moves.
Payment(tag, is_consumed, call, token) ==
  LET p == Payload(ResourceOf(tag), is_consumed)
  IN  IF p.call = call /\ p.token = token THEN p.quantity ELSE 0

InPayments(call, token) ==
  [i \in 1..Len(consumed_publics) |-> Payment(consumed_publics[i].nullifier, TRUE, call, token)]
OutPayments(call, token) ==
  [i \in 1..Len(created_publics) |-> Payment(created_publics[i].commitment, FALSE, call, token)]

\* An ephemeral resource wraps when consumed and unwraps when created.
LEMMA PaymentIs ==
  ASSUME NEW r, NEW token
  PROVE  /\ Payment(Nullifier(r), TRUE, "wrap", token)
              = IF r.is_ephemeral /\ r.label_ref = token THEN r.quantity ELSE 0
         /\ Payment(Commitment(r), FALSE, "wrap", token) = 0
         /\ Payment(Nullifier(r), TRUE, "unwrap", token) = 0
         /\ Payment(Commitment(r), FALSE, "unwrap", token)
              = IF r.is_ephemeral /\ r.label_ref = token THEN r.quantity ELSE 0
<1>1. ResourceOf(Nullifier(r)) = r /\ ResourceOf(Commitment(r)) = r
  BY DEF ResourceOf, Nullifier, Commitment
<1>2. CASE r.is_ephemeral
  <2>1. /\ Payload(r, TRUE).call = "wrap" /\ Payload(r, TRUE).token = r.label_ref
        /\ Payload(r, TRUE).quantity = r.quantity
        /\ Payload(r, FALSE).call = "unwrap" /\ Payload(r, FALSE).token = r.label_ref
        /\ Payload(r, FALSE).quantity = r.quantity
    BY <1>2 DEF Payload
  <2>2. QED
    BY <1>1, <1>2, <2>1 DEF Payment
<1>3. CASE ~r.is_ephemeral
  <2>1. Payload(r, TRUE).call = "none" /\ Payload(r, FALSE).call = "none"
    BY <1>3 DEF Payload
  <2>2. QED
    BY <1>1, <1>3, <2>1 DEF Payment
<1>4. QED
  BY <1>2, <1>3

\* The payments of a transaction are those of its consumed and its created tags.
LEMMA PaymentsMoved ==
  ASSUME AllInv, TxOK, pc = "built", NEW call, NEW token,
         IsCounts(InPayments(call, token)), IsCounts(OutPayments(call, token))
  PROVE  Moved(call, token)
           = Total(InPayments(call, token)) + Total(OutPayments(call, token))
<1> DEFINE c == Len(consumed_publics)
           n == Len(created_publics)
           s == [i \in 1..c |-> LogicInstance(consumed_publics[i].nullifier, TRUE)]
           t == [i \in 1..n |-> LogicInstance(created_publics[i].commitment, FALSE)]
           u == InPayments(call, token)
           v == OutPayments(call, token)
           value(l) == IF l.external_payload.call = call /\ l.external_payload.token = token
                       THEN l.external_payload.quantity ELSE 0
           w == tx.logic_instances
           r == [i \in DOMAIN w |-> value(w[i])]
<1>1. c \in Nat /\ n \in Nat
  BY Shape DEF AllInv
<1>2. /\ u = [i \in 1..c |-> u[i]] /\ v = [i \in 1..n |-> v[i]]
      /\ s = [i \in 1..c |-> s[i]] /\ t = [i \in 1..n |-> t[i]]
  BY DEF InPayments, OutPayments
<1>3. \A tag, b : value(LogicInstance(tag, b)) = Payment(tag, b, call, token)
  BY DEF LogicInstance, Payment
<1>4. /\ \A i \in 1..c : value(s[i]) = u[i]
      /\ \A i \in 1..n : value(t[i]) = v[i]
  <2> HIDE DEF value
  <2>1. \A i \in 1..c : s[i] = LogicInstance(consumed_publics[i].nullifier, TRUE)
    OBVIOUS
  <2>2. \A i \in 1..n : t[i] = LogicInstance(created_publics[i].commitment, FALSE)
    OBVIOUS
  <2>3. \A i \in 1..c : u[i] = Payment(consumed_publics[i].nullifier, TRUE, call, token)
    BY DEF InPayments
  <2>4. \A i \in 1..n : v[i] = Payment(created_publics[i].commitment, FALSE, call, token)
    BY DEF OutPayments
  <2> HIDE DEF s, t, u, v
  <2>5. QED
    BY <1>3, <2>1, <2>2, <2>3, <2>4, Zenon
<1>5. w = s \o t
  BY DEF BuiltTransaction, TxOK
<1>6. Moved(call, token) = Total(r)
  BY Zenon DEF Moved
<1> HIDE DEF value, s, t, u, v, w
<1>7. IsSeq(s) /\ Len(s) = c /\ IsSeq(t) /\ Len(t) = n /\ IsSeq(u) /\ Len(u) = c
      /\ IsSeq(v) /\ Len(v) = n
  BY <1>1, <1>2, FunctionSeq
<1>8. /\ DOMAIN w = 1..(c + n)
      /\ \A i \in 1..(c + n) : w[i] = IF i <= c THEN s[i] ELSE t[i - c]
  <2>1. /\ IsSeq(w) /\ Len(w) = Len(s) + Len(t)
        /\ \A i \in 1..(Len(s) + Len(t)) : w[i] = IF i <= Len(s) THEN s[i] ELSE t[i - Len(s)]
    BY <1>5, <1>7, ConcatIsSeq
  <2>2. DOMAIN w = 1..(Len(s) + Len(t))
    BY <2>1, IsSeqLength
  <2> HIDE DEF c, n
  <2>3. QED
    BY <1>7, <2>1, <2>2
<1>9. r = [i \in 1..(c + n) |-> value(w[i])]
  BY <1>8
<1> HIDE DEF r
<1>10. r = [i \in 1..(c + n) |-> r[i]] /\ c + n \in Nat
       /\ \A i \in 1..(c + n) : r[i] = value(w[i])
  BY <1>1, <1>9
<1>11. IsSeq(r) /\ Len(r) = c + n
  BY <1>10, FunctionSeq
<1>12. \A i \in 1..c : r[i] = u[i]
  <2> TAKE i \in 1..c
  <2>1. i \in 1..(c + n) /\ i <= c
    BY <1>1
  <2>2. r[i] = value(s[i])
    BY <1>8, <1>10, <2>1
  <2>3. QED
    BY <1>4, <2>2, Zenon
<1>13. \A i \in 1..n : r[c + i] = v[i]
  <2> TAKE i \in 1..n
  <2>1. c + i \in 1..(c + n) /\ ~(c + i <= c) /\ (c + i) - c = i
    BY <1>1
  <2>2. r[c + i] = value(t[i])
    BY <1>8, <1>10, <2>1
  <2>3. QED
    BY <1>4, <2>2, Zenon
<1>14. r = u \o v
  <2> HIDE DEF c, n
  <2>1. /\ IsSeq(u) /\ IsSeq(v) /\ IsSeq(r) /\ Len(r) = Len(u) + Len(v)
        /\ \A i \in 1..Len(u) : r[i] = u[i]
        /\ \A i \in 1..Len(v) : r[Len(u) + i] = v[i]
    BY <1>7, <1>11, <1>12, <1>13
  <2>2. QED
    BY <2>1, ConcatIs
<1>15. IsNumbers(u) /\ IsNumbers(v)
  BY CountsAreNumbers DEF u, v
<1>16. Total(r) = Total(u) + Total(v)
  BY <1>14, <1>15, TotalConcat
<1>17. Moved(call, token) = Total(u) + Total(v)
  BY <1>6, <1>16
<1>18. QED
  BY <1>17 DEF u, v

\* What the consumed resources wrap, and what the created ones unwrap, is what
\* those of the label sum to, less the notes among them.
LEMMA LabelSplits ==
  ASSUME AllInv, TxOK, pc = "built", NEW token \in LabelRefs
  PROVE  LET C == {k \in Kinds : k[2] = token}
         IN  /\ Moved("wrap", token) \in Int /\ Moved("unwrap", token) \in Int
             /\ NotesOf(ConsumedNullifiers(consumed_publics), token) \in Int
             /\ NotesOf(CreatedCommitments(created_publics), token) \in Int
             /\ Total(InKinds(C)) = Moved("wrap", token)
                                      + NotesOf(ConsumedNullifiers(consumed_publics), token)
             /\ Total(OutKinds(C)) = Moved("unwrap", token)
                                       + NotesOf(CreatedCommitments(created_publics), token)
<1> DEFINE c == Len(consumed_data)
           n == Len(created_resources)
           C == {k \in Kinds : k[2] = token}
           nfs == ConsumedNullifiers(consumed_publics)
           cms == CreatedCommitments(created_publics)
           a == InPayments("wrap", token)
           b == OutPayments("wrap", token)
           d == InPayments("unwrap", token)
           e == OutPayments("unwrap", token)
           f == InKinds(C)
           g == OutKinds(C)
           kept(r) == IF ~r.is_ephemeral /\ r.label_ref = token THEN r.quantity ELSE 0
           paid(r) == IF r.is_ephemeral /\ r.label_ref = token THEN r.quantity ELSE 0
           s == [i \in DOMAIN nfs |-> kept(ResourceOf(nfs[i]))]
           t == [i \in DOMAIN cms |-> kept(ResourceOf(cms[i]))]
<1>1. /\ IInv /\ c \in Nat /\ n \in Nat /\ Len(consumed_publics) = c /\ Len(created_publics) = n
  BY Shape DEF AllInv
<1>2. \A i \in 1..c : consumed_publics[i].nullifier = Nullifier(consumed_data[i].resource)
  <2>1. \A i \in 1..c : consumed_publics[i] = CircuitConsumed(consumed_data[i])
    BY <1>1 DEF IInv, ConsumedAgree
  <2>2. \A x : CircuitConsumed(x).nullifier = Nullifier(x.resource)
    BY DEF CircuitConsumed
  <2>3. QED
    BY <2>1, <2>2
<1>3. \A i \in 1..n : created_publics[i].commitment = Commitment(created_resources[i])
  <2>1. \A i \in 1..n : created_publics[i] = CircuitCreated(created_resources[i])
    BY <1>1 DEF IInv, CreatedAgree
  <2>2. \A r : CircuitCreated(r).commitment = Commitment(r)
    BY DEF CircuitCreated
  <2>3. QED
    BY <2>1, <2>2
<1>4. \A r : ResourceOf(Nullifier(r)) = r /\ ResourceOf(Commitment(r)) = r
  BY DEF ResourceOf, Nullifier, Commitment
<1>5. Magnitudes \subseteq Nat
  BY SignMagnitudeAssumption DEF SignMagnitudeAssumption, Magnitudes
<1>6. /\ \A i \in 1..c : ResourceOK(consumed_data[i].resource)
      /\ \A i \in 1..n : ResourceOK(created_resources[i])
  BY <1>1 DEF IInv, ResourcesOK
<1>7. ASSUME NEW r, ResourceOK(r)
      PROVE  /\ kept(r) \in Nat /\ paid(r) \in Nat
             /\ (IF Kind(r) \in C THEN r.quantity ELSE 0) = paid(r) + kept(r)
  <2>1. r.quantity \in Nat /\ Kind(r) \in Kinds
    BY <1>5, <1>7 DEF ResourceOK
  <2>2. Kind(r) \in C <=> r.label_ref = token
    BY <2>1 DEF Kind
  <2> HIDE DEF C
  <2>3. QED
    BY <2>1, <2>2
<1>8. /\ a = [i \in 1..c |-> Payment(consumed_publics[i].nullifier, TRUE, "wrap", token)]
      /\ d = [i \in 1..c |-> Payment(consumed_publics[i].nullifier, TRUE, "unwrap", token)]
      /\ b = [i \in 1..n |-> Payment(created_publics[i].commitment, FALSE, "wrap", token)]
      /\ e = [i \in 1..n |-> Payment(created_publics[i].commitment, FALSE, "unwrap", token)]
  BY <1>1 DEF InPayments, OutPayments
<1>9. /\ f = [i \in 1..c |-> f[i]] /\ g = [i \in 1..n |-> g[i]]
      /\ \A i \in 1..c : f[i] = IF Kind(consumed_data[i].resource) \in C
                                THEN consumed_data[i].resource.quantity ELSE 0
      /\ \A i \in 1..n : g[i] = IF Kind(created_resources[i]) \in C
                                THEN created_resources[i].quantity ELSE 0
  BY DEF InKinds, OutKinds
<1>10. /\ DOMAIN nfs = 1..c /\ \A i \in 1..c : nfs[i] = consumed_publics[i].nullifier
       /\ DOMAIN cms = 1..n /\ \A i \in 1..n : cms[i] = created_publics[i].commitment
  BY <1>1 DEF ConsumedNullifiers, CreatedCommitments
<1>11. NotesOf(nfs, token) = Total(s) /\ NotesOf(cms, token) = Total(t)
  BY Zenon DEF NotesOf
<1> HIDE DEF a, b, d, e, f, g, nfs, cms, C
<1>12. s = [i \in 1..c |-> s[i]] /\ t = [i \in 1..n |-> t[i]]
  BY <1>10
<1>13. \A i \in 1..c : s[i] = kept(consumed_data[i].resource)
  <2> TAKE i \in 1..c
  <2>1. s[i] = kept(ResourceOf(nfs[i]))
    BY <1>10
  <2>2. ResourceOf(nfs[i]) = consumed_data[i].resource
    BY <1>2, <1>4, <1>10
  <2> HIDE DEF kept, s
  <2>3. QED
    BY <2>1, <2>2, Zenon
<1>14. \A i \in 1..n : t[i] = kept(created_resources[i])
  <2> TAKE i \in 1..n
  <2>1. t[i] = kept(ResourceOf(cms[i]))
    BY <1>10
  <2>2. ResourceOf(cms[i]) = created_resources[i]
    BY <1>3, <1>4, <1>10
  <2> HIDE DEF kept, t
  <2>3. QED
    BY <2>1, <2>2, Zenon
<1> HIDE DEF s, t
<1>15. \A i \in 1..c : a[i] = paid(consumed_data[i].resource) /\ d[i] = 0
  <2> TAKE i \in 1..c
  <2>1. /\ a[i] = Payment(Nullifier(consumed_data[i].resource), TRUE, "wrap", token)
        /\ d[i] = Payment(Nullifier(consumed_data[i].resource), TRUE, "unwrap", token)
    BY <1>2, <1>8
  <2>2. /\ Payment(Nullifier(consumed_data[i].resource), TRUE, "wrap", token)
             = paid(consumed_data[i].resource)
        /\ Payment(Nullifier(consumed_data[i].resource), TRUE, "unwrap", token) = 0
    BY PaymentIs
  <2> HIDE DEF paid
  <2>3. QED
    BY <2>1, <2>2, Zenon
<1>16. \A i \in 1..n : b[i] = 0 /\ e[i] = paid(created_resources[i])
  <2> TAKE i \in 1..n
  <2>1. /\ b[i] = Payment(Commitment(created_resources[i]), FALSE, "wrap", token)
        /\ e[i] = Payment(Commitment(created_resources[i]), FALSE, "unwrap", token)
    BY <1>3, <1>8
  <2>2. /\ Payment(Commitment(created_resources[i]), FALSE, "wrap", token) = 0
        /\ Payment(Commitment(created_resources[i]), FALSE, "unwrap", token)
             = paid(created_resources[i])
    BY PaymentIs
  <2> HIDE DEF paid
  <2>3. QED
    BY <2>1, <2>2, Zenon
<1>17. \A i \in 1..c : s[i] \in Nat /\ a[i] \in Nat /\ d[i] \in Nat /\ f[i] = a[i] + s[i]
  <2> TAKE i \in 1..c
  <2> DEFINE r == consumed_data[i].resource
  <2>1. ResourceOK(r) /\ s[i] = kept(r) /\ a[i] = paid(r) /\ d[i] = 0
        /\ f[i] = IF Kind(r) \in C THEN r.quantity ELSE 0
    BY <1>6, <1>9, <1>13, <1>15
  <2> HIDE DEF r, kept, paid
  <2>2. QED
    BY <1>7, <2>1
<1>18. \A i \in 1..n : t[i] \in Nat /\ e[i] \in Nat /\ b[i] \in Nat /\ g[i] = e[i] + t[i]
  <2> TAKE i \in 1..n
  <2> DEFINE r == created_resources[i]
  <2>1. ResourceOK(r) /\ t[i] = kept(r) /\ e[i] = paid(r) /\ b[i] = 0
        /\ g[i] = IF Kind(r) \in C THEN r.quantity ELSE 0
    BY <1>6, <1>9, <1>14, <1>16
  <2> HIDE DEF r, kept, paid
  <2>2. QED
    BY <1>7, <2>1
<1>19. /\ a = [i \in 1..c |-> a[i]] /\ d = [i \in 1..c |-> d[i]]
       /\ b = [i \in 1..n |-> b[i]] /\ e = [i \in 1..n |-> e[i]]
  BY <1>8
<1>20. /\ IsCounts(a) /\ Len(a) = c /\ IsCounts(d) /\ Len(d) = c
       /\ IsCounts(s) /\ Len(s) = c
  BY <1>1, <1>12, <1>17, <1>19, FunctionSeq DEF IsCounts
<1>21. /\ IsCounts(b) /\ Len(b) = n /\ IsCounts(e) /\ Len(e) = n
       /\ IsCounts(t) /\ Len(t) = n
  BY <1>1, <1>12, <1>18, <1>19, FunctionSeq DEF IsCounts
<1>22. IsCounts(f) /\ Len(f) = c /\ IsCounts(g) /\ Len(g) = n
  BY <1>1, KindsAre DEF f, g
<1>23. /\ IsNumbers(a) /\ IsNumbers(b) /\ IsNumbers(d) /\ IsNumbers(e)
       /\ IsNumbers(f) /\ IsNumbers(g) /\ IsNumbers(s) /\ IsNumbers(t)
  BY <1>20, <1>21, <1>22, CountsAreNumbers
<1>24. /\ Total(a) \in Int /\ Total(b) \in Int /\ Total(d) \in Int /\ Total(e) \in Int
       /\ Total(s) \in Int /\ Total(t) \in Int
  BY <1>23, TotalInt
<1>25. Total(b) = 0 /\ Total(d) = 0
  BY <1>15, <1>16, <1>20, <1>21, <1>23, TotalZero
<1>26. Total(f) = Total(a) + Total(s) /\ Total(g) = Total(e) + Total(t)
  BY <1>17, <1>18, <1>20, <1>21, <1>22, <1>23, TotalPlus
<1>27. Moved("wrap", token) = Total(a) + Total(b)
  BY <1>20, <1>21, PaymentsMoved DEF a, b
<1>28. Moved("unwrap", token) = Total(d) + Total(e)
  BY <1>20, <1>21, PaymentsMoved DEF d, e
<1>29. /\ Moved("wrap", token) \in Int /\ Moved("unwrap", token) \in Int
       /\ NotesOf(nfs, token) \in Int /\ NotesOf(cms, token) \in Int
       /\ Total(f) = Moved("wrap", token) + NotesOf(nfs, token)
       /\ Total(g) = Moved("unwrap", token) + NotesOf(cms, token)
  BY <1>11, <1>24, <1>25, <1>26, <1>27, <1>28
<1>30. QED
  BY <1>29 DEF f, g, nfs, cms, C

\* For every pool, limit of the arrays and width of the sums, the payloads of a
\* transaction that opens wrap of every token what its notes gain, and unwrap
\* what they lose: the forwarder (client.rs:349, client.rs:652) pays out no token
\* that no note gave up, since every kind balances and a label is the sum of its
\* kinds, however many logics share it.
THEOREM TokensBackNotesHolds == Spec => []TokensBackNotes
<1>1. Init => AllInv /\ TxOK
  <2>1. Init => TxOK
    BY DEF Init, TxOK
  <2>2. QED
    BY <2>1, InitOK, TreesInit, SumsInit DEF AllInv
<1>2. AllInv /\ TxOK /\ [Next]_vars => AllInv' /\ TxOK'
  BY NextOK, StutterOK, TreesNext, SumsNext, TxNext DEF AllInv
<1>3. AllInv /\ TxOK => TokensBackNotes
  <2>1. SUFFICES ASSUME AllInv, TxOK, pc = "built", tx.opens, NEW token \in LabelRefs
                 PROVE  Moved("wrap", token) - Moved("unwrap", token)
                          = NotesOf(CreatedCommitments(created_publics), token)
                            - NotesOf(ConsumedNullifiers(consumed_publics), token)
    BY DEF TokensBackNotes
  <2> DEFINE C == {k \in Kinds : k[2] = token}
  <2>2. Total(InKinds(C)) = Total(OutKinds(C))
    BY <2>1, KindsBalance DEF TxOK, AllInv
  <2>3. QED
    BY <2>1, <2>2, LabelSplits
<1>4. QED
  BY <1>1, <1>2, <1>3, PTL DEF Spec

-----------------------------------------------------------------------------
(* Merging the trees of consecutive pieces (merkle.rs:176). *)

\* The rows of two trees with as many leafs are in the same places, whatever the
\* depths of the trees.
LEMMA SameShape ==
  ASSUME NEW c \in Nat, NEW d \in Nat, NEW K, NEW L, IsSeq(K), IsSeq(L), Len(K) = Len(L),
         NEW h \in 0..c, h \in 0..d
  PROVE  /\ RowOf(c, K, h).width = RowOf(d, L, h).width
         /\ RowOf(c, K, h).start = RowOf(d, L, h).start
<1> DEFINE S == {i \in Nat : i <= c /\ i <= d =>
                   /\ RowOf(c, K, i).width = RowOf(d, L, i).width
                   /\ RowOf(c, K, i).start = RowOf(d, L, i).start}
<1>1. 0 \in S
  BY RowOfIs, SMTT(30) DEF FirstRow
<1>2. ASSUME NEW i \in Nat, i \in S PROVE i + 1 \in S
  <2>1. SUFFICES ASSUME i + 1 <= c, i + 1 <= d
                 PROVE  /\ RowOf(c, K, i + 1).width = RowOf(d, L, i + 1).width
                        /\ RowOf(c, K, i + 1).start = RowOf(d, L, i + 1).start
    OBVIOUS
  <2>2. i \in 0..c /\ i \in 0..d /\ i < c /\ i < d
    BY <2>1
  <2>3. /\ Grows(RowOf(c, K, i), i, RowOf(c, K, i + 1))
        /\ Grows(RowOf(d, L, i), i, RowOf(d, L, i + 1))
    BY <2>2, HeldIs
  <2>4. /\ RowOf(c, K, i).width = RowOf(d, L, i).width
        /\ RowOf(c, K, i).start = RowOf(d, L, i).start
    BY <1>2, <2>2
  <2>5. QED
    BY <2>3, <2>4 DEF Grows
<1>3. \A i \in Nat : i \in S
  <2> HIDE DEF S
  <2>1. QED
    BY <1>1, <1>2, Induction
<1>4. QED
  BY <1>3

\* What the vector holds of a row is part of it, also in the end.
LEMMA HeldFits ==
  ASSUME NEW depth \in Nat, NEW L, IsSeq(L), NEW h \in 0..depth
  PROVE  RowOf(depth, L, h).start + Held(depth, L, h) <= Len(RowOf(depth, L, depth).nodes)
<1> DEFINE R(i) == RowOf(depth, L, i)
           S == {k \in Nat : h + k <= depth /\ (h + k = depth \/ k > 0) =>
                   R(h).start + Held(depth, L, h) <= Len(R(h + k).nodes)}
<1>1. ASSUME NEW i \in 0..depth
      PROVE  /\ R(i).start \in Nat /\ R(i).width \in Nat /\ Len(R(i).nodes) = R(i).start + R(i).width
             /\ i < depth => /\ R(i + 1).start = R(i).start + Tree!EvenUp(R(i).width)
                             /\ R(i + 1).width = Tree!EvenUp(R(i).width) \div 2
                             /\ R(i + 1).width \in Nat
                             /\ R(i + 1).start \in Nat
                             /\ Len(R(i + 1).nodes) = R(i + 1).start + R(i + 1).width
                             /\ Tree!EvenUp(R(i).width) \in Nat
                             /\ Tree!EvenUp(R(i).width) >= R(i).width
  <2>1. /\ IsRow(R(i))
        /\ i < depth => Grows(R(i), i, R(i + 1))
    BY HeldIs
  <2>2. i < depth => IsRow(R(i + 1))
    BY <2>1 DEF Grows
  <2>3. R(i).width \in Nat
    BY <2>1 DEF IsRow
  <2>4. Tree!EvenUp(R(i).width) \in Nat /\ Tree!EvenUp(R(i).width) >= R(i).width
    <3> DEFINE w == R(i).width
    <3>1. w \in Nat
      BY <2>3
    <3> HIDE DEF w
    <3>2. Tree!EvenUp(w) \in Nat /\ Tree!EvenUp(w) >= w
      BY <3>1 DEF Tree!EvenUp
    <3>3. QED
      BY <3>2 DEF w
  <2>5. QED
    BY <2>1, <2>2, <2>4 DEF IsRow, Grows
<1>2. h = depth => Held(depth, L, h) = R(h).width
  BY DEF Held
<1>3. h < depth => Held(depth, L, h) = Tree!EvenUp(R(h).width)
  BY DEF Held
<1>4. CASE h = depth
  BY <1>1, <1>2, <1>4
<1>5. CASE h < depth
  <2> DEFINE T == {k \in Nat : h + 1 + k <= depth =>
                     R(h).start + Held(depth, L, h) <= Len(R(h + 1 + k).nodes)}
  <2> HIDE DEF R
  <2>1. 0 \in T
    <3>1. h + 1 + 0 = h + 1 /\ h \in 0..depth
      OBVIOUS
    <3>2. QED
      BY <1>1, <1>3, <1>5, <3>1
  <2>2. ASSUME NEW k \in Nat, k \in T PROVE k + 1 \in T
    <3>1. SUFFICES ASSUME h + 1 + (k + 1) <= depth
                   PROVE  R(h).start + Held(depth, L, h) <= Len(R(h + 1 + (k + 1)).nodes)
      OBVIOUS
    <3> DEFINE i == h + 1 + k
    <3>2. i \in 0..depth /\ i < depth /\ h + 1 + (k + 1) = i + 1
      BY <3>1
    <3>3. R(h).start + Held(depth, L, h) <= Len(R(i).nodes)
      BY <2>2, <3>2
    <3>4. R(h).start \in Nat /\ Held(depth, L, h) \in Nat
      BY <1>1, HeldIs
    <3> HIDE DEF i
    <3>5. /\ R(i).start \in Nat /\ R(i).width \in Nat /\ Len(R(i).nodes) = R(i).start + R(i).width
          /\ R(i + 1).start = R(i).start + Tree!EvenUp(R(i).width)
          /\ R(i + 1).width \in Nat
          /\ Len(R(i + 1).nodes) = R(i + 1).start + R(i + 1).width
          /\ Tree!EvenUp(R(i).width) \in Nat
          /\ Tree!EvenUp(R(i).width) >= R(i).width
      BY <1>1, <3>2
    <3>6. Len(R(i).nodes) <= Len(R(i + 1).nodes)
      BY <3>5
    <3>7. R(h).start + Held(depth, L, h) <= Len(R(i + 1).nodes)
      BY <3>3, <3>4, <3>5, <3>6, SMTT(30)
    <3>8. QED
      BY <3>2, <3>7
  <2>3. \A k \in Nat : k \in T
    <3> HIDE DEF T
    <3>1. QED
      BY <2>1, <2>2, Induction
  <2>4. depth - (h + 1) \in Nat /\ h + 1 + (depth - (h + 1)) = depth
    BY <1>5
  <2> DEFINE m == depth - (h + 1)
  <2>5. m \in Nat /\ h + 1 + m = depth
    BY <2>4
  <2> HIDE DEF m
  <2>6. R(h).start + Held(depth, L, h) <= Len(R(h + 1 + m).nodes)
    <3>1. m \in T
      <4> HIDE DEF T
      <4>1. QED
        BY <2>3, <2>5
    <3>2. h + 1 + m <= depth
      BY <2>5
    <3>3. QED
      BY <3>1, <3>2
  <2>7. R(h).start + Held(depth, L, h) <= Len(R(depth).nodes)
    BY <2>5, <2>6
  <2>8. QED
    BY <2>7 DEF R
<1>6. QED
  BY <1>4, <1>5

-----------------------------------------------------------------------------
(* The pieces of the leafs, and the nodes of their trees. *)

\* A product grows with its first factor.
LEMMA TimesMonotonic ==
  ASSUME NEW a \in Nat, NEW b \in Nat, NEW c \in Nat, a <= b
  PROVE  a * c \in Nat /\ b * c \in Nat /\ a * c <= b * c
<1>1. PICK m \in Nat : b = a + m
  <2>1. b - a \in Nat /\ b = a + (b - a)
    OBVIOUS
  <2>2. QED
    BY <2>1
<1>2. b * c = a * c + m * c /\ m * c \in Nat /\ a * c \in Nat /\ b * c \in Nat
  BY <1>1
<1>3. QED
  BY <1>2

Size(e) == Tree!TwoTo[e]

IsCut(d, e, n) ==
  /\ TreeDepth \in Nat /\ e \in 0..TreeDepth /\ d \in e..TreeDepth /\ IsSeq(leafs)
  /\ n \in Cuts(Size(e))

\* A piece is full unless it is the last, which ends where the leafs end.
LEMMA PieceIs ==
  ASSUME NEW d, NEW e, NEW n, IsCut(d, e, n), NEW k \in 1..n
  PROVE  LET p == Piece(k, n, Size(e))
             a == (k - 1) * Size(e)
         IN  /\ IsSeq(p) /\ a \in Nat /\ Len(p) \in Nat /\ Size(e) \in Nat /\ a + Len(p) <= Len(leafs)
             /\ Len(p) <= Size(e)
             /\ k < n => Len(p) = Size(e)
             /\ k = n => a + Len(p) = Len(leafs)
             /\ \A j \in 1..Len(p) : p[j] = leafs[a + j]
<1> DEFINE s == Size(e)
           a == (k - 1) * s
           p == Piece(k, n, s)
<1>1. /\ n \in Nat \ {0} /\ Len(leafs) \in Nat /\ s \in Nat
      /\ (n - 1) * s <= Len(leafs) /\ Len(leafs) <= n * s
  <2>1. Len(leafs) \in Nat /\ s \in Nat
    BY TwoToNat, IsSeqLength DEF IsCut, Size
  <2>2. n \in 1..(Len(leafs) + 1) /\ Len(leafs) \in ((n - 1) * s)..(n * s)
    BY DEF IsCut, Cuts
  <2> HIDE DEF s
  <2>3. QED
    BY <2>1, <2>2
<1>2. IsSeq(leafs)
  BY DEF IsCut
<1> DEFINE b == IF k = n THEN Len(leafs) - a ELSE s
<1>3. a \in Nat /\ b \in Nat /\ a + b <= Len(leafs) /\ b <= s
      /\ (IF k = n THEN Len(leafs) ELSE k * s) = a + b
  <2> HIDE DEF s
  <2>1. k - 1 \in Nat /\ k \in Nat /\ n - 1 \in Nat /\ k - 1 <= n - 1
    BY <1>1
  <2>2. a \in Nat /\ a <= (n - 1) * s
    BY <1>1, <2>1, TimesMonotonic
  <2>3. k * s = a + s /\ n * s = (n - 1) * s + s
    BY <1>1, <2>1
  <2>4. CASE k = n
    BY <1>1, <2>2, <2>3, <2>4
  <2>5. CASE k # n
    <3>1. k <= n - 1
      BY <1>1, <2>5
    <3>2. k * s <= (n - 1) * s
      BY <1>1, <2>1, <3>1, TimesMonotonic
    <3> DEFINE x == k * s
               y == (n - 1) * s
    <3> HIDE DEF x, y, a
    <3>3. QED
      BY <1>1, <2>2, <2>3, <2>5, <3>2 DEF x, y
  <2>6. QED
    BY <2>4, <2>5
<1>4. p = SubSeq(leafs, a + 1, a + b)
  BY <1>3 DEF Piece
<1> HIDE DEF p, a, b
<1>5. IsSeq(p) /\ Len(p) = b /\ \A j \in 1..b : p[j] = leafs[a + j]
  BY <1>2, <1>3, <1>4, PartIs
<1>6. (k = n => b = Len(leafs) - a) /\ (k # n => b = s)
  BY DEF b
<1>7. (k = n => a + Len(p) = Len(leafs)) /\ (k < n => Len(p) = s)
  <2> HIDE DEF s
  <2>1. QED
    BY <1>1, <1>3, <1>5, <1>6
<1>8. IsSeq(p) /\ Len(p) \in Nat /\ a + Len(p) <= Len(leafs) /\ Len(p) <= s
      /\ \A j \in 1..Len(p) : p[j] = leafs[a + j]
  BY <1>3, <1>5
<1>9. QED
  BY <1>1, <1>3, <1>7, <1>8 DEF p, a

\* A node of the tree of a piece is a node of the tree.
LEMMA PieceNodes ==
  ASSUME NEW d, NEW e, NEW n, IsCut(d, e, n), NEW k \in 1..n, NEW h \in 0..e,
         NEW j \in Nat, j < Size(e - h)
  PROVE  TreeNode(d, Piece(k, n, Size(e)), h, j)
           = TreeNode(TreeDepth, leafs, h, (k - 1) * Size(e - h) + j)
<1> DEFINE p == Piece(k, n, Size(e))
           S == {i \in Nat : i <= e =>
                   \A x \in Nat : x < Size(e - i) =>
                     TreeNode(d, p, i, x)
                       = TreeNode(TreeDepth, leafs, i, (k - 1) * Size(e - i) + x)}
<1>0. /\ e \in Nat /\ d \in Nat /\ TreeDepth \in Nat /\ e <= d /\ e <= TreeDepth
      /\ IsSeq(leafs) /\ Len(leafs) \in Nat
  BY IsSeqLength DEF IsCut
<1>1. 0 \in S
  <2> DEFINE s == Size(e)
             a == (k - 1) * s
  <2>1. /\ IsSeq(p) /\ a \in Nat /\ Len(p) \in Nat /\ s \in Nat /\ a + Len(p) <= Len(leafs)
        /\ Len(p) <= s /\ (k < n => Len(p) = s)
        /\ k = n => a + Len(p) = Len(leafs)
        /\ \A i \in 1..Len(p) : p[i] = leafs[a + i]
    BY PieceIs
  <2>2. n \in Nat
    BY DEF IsCut, Cuts
  <2> HIDE DEF p, a, s
  <2>3. ASSUME NEW x \in Nat, x < s
        PROVE  TreeNode(d, p, 0, x) = TreeNode(TreeDepth, leafs, 0, a + x)
    <3>1. TreeNode(d, p, 0, x) = IF x < Len(p) THEN p[x + 1] ELSE Tree!EmptyLeaf
      BY <1>0, <2>1, LeafNodes
    <3>2. a + x \in Nat
      BY <2>1
    <3>3. TreeNode(TreeDepth, leafs, 0, a + x)
            = IF a + x < Len(leafs) THEN leafs[a + x + 1] ELSE Tree!EmptyLeaf
      BY <1>0, <3>2, LeafNodes
    <3>4. x < Len(p) <=> a + x < Len(leafs)
      BY <1>0, <2>1, <2>2, <2>3
    <3>5. x < Len(p) => p[x + 1] = leafs[a + x + 1]
      <4>1. SUFFICES ASSUME x < Len(p) PROVE p[x + 1] = leafs[a + x + 1]
        OBVIOUS
      <4>2. x + 1 \in 1..Len(p) /\ a + (x + 1) = a + x + 1
        BY <2>1, <4>1
      <4>3. QED
        BY <2>1, <4>2
    <3>6. QED
      BY <3>1, <3>3, <3>4, <3>5
  <2>4. e - 0 = e
    BY <1>0
  <2>5. QED
    BY <2>3, <2>4 DEF a, s
<1>2. ASSUME NEW i \in Nat, i \in S PROVE i + 1 \in S
  <2>1. SUFFICES ASSUME i + 1 <= e, NEW x \in Nat, x < Size(e - (i + 1))
                 PROVE  TreeNode(d, p, i + 1, x)
                          = TreeNode(TreeDepth, leafs, i + 1, (k - 1) * Size(e - (i + 1)) + x)
    OBVIOUS
  <2> DEFINE s == Size(e - (i + 1))
             c == (k - 1) * s
  <2>2. e - (i + 1) \in Nat /\ (e - (i + 1)) + 1 = e - i
    BY <1>0, <2>1
  <2>3. Size(e - i) = 2 * s /\ s \in Nat
    BY <2>2, TwoToDef, TwoToNat DEF Size
  <2>4. k - 1 \in Nat
    OBVIOUS
  <2> HIDE DEF s
  <2>5. c \in Nat /\ (k - 1) * (2 * s) = 2 * c
    BY <2>3, <2>4
  <2>6. x < s
    BY <2>1 DEF s
  <2>7. /\ 2 * x \in Nat /\ 2 * x + 1 \in Nat /\ 2 * x < 2 * s /\ 2 * x + 1 < 2 * s
        /\ 2 * c + 2 * x = 2 * (c + x) /\ 2 * c + (2 * x + 1) = 2 * (c + x) + 1 /\ c + x \in Nat
    BY <2>3, <2>5, <2>6
  <2>8. i \in 0..d /\ i < d /\ i \in 0..TreeDepth /\ i < TreeDepth /\ i <= e
    BY <1>0, <2>1
  <2>9. IsSeq(p)
    BY PieceIs
  <2> HIDE DEF c, p
  <2>10. \A y \in Nat : y < 2 * s =>
           TreeNode(d, p, i, y) = TreeNode(TreeDepth, leafs, i, 2 * c + y)
    BY <1>2, <2>3, <2>5, <2>8
  <2>11. /\ TreeNode(d, p, i, 2 * x) = TreeNode(TreeDepth, leafs, i, 2 * (c + x))
         /\ TreeNode(d, p, i, 2 * x + 1) = TreeNode(TreeDepth, leafs, i, 2 * (c + x) + 1)
    BY <2>7, <2>10
  <2>12. TreeNode(d, p, i + 1, x)
           = Tree!Combine(TreeNode(d, p, i, 2 * x), TreeNode(d, p, i, 2 * x + 1))
    BY <1>0, <2>8, <2>9, NodeAbove
  <2>13. TreeNode(TreeDepth, leafs, i + 1, c + x)
           = Tree!Combine(TreeNode(TreeDepth, leafs, i, 2 * (c + x)),
                          TreeNode(TreeDepth, leafs, i, 2 * (c + x) + 1))
    BY <1>0, <2>7, <2>8, NodeAbove
  <2>14. QED
    BY <2>11, <2>12, <2>13 DEF c, s
<1>3. \A i \in Nat : i \in S
  <2> HIDE DEF S
  <2>1. QED
    BY <1>1, <1>2, Induction
<1>4. QED
  BY <1>3

\* Half of an even row, and of one that is an even number wider.
LEMMA HalfRow ==
  ASSUME NEW s \in Nat
  PROVE  /\ Tree!EvenUp(2 * s) = 2 * s /\ (2 * s) \div 2 = s
         /\ \A w \in Nat : Tree!EvenUp(2 * s + w) = 2 * s + Tree!EvenUp(w)
         /\ \A w \in Nat : (2 * s + Tree!EvenUp(w)) \div 2 = s + (Tree!EvenUp(w) \div 2)
         /\ \A w \in Nat : w <= 2 * s => Tree!EvenUp(w) <= 2 * s
<1>1. (2 * s) % 2 = 0 /\ (2 * s) \div 2 = s
  OBVIOUS
<1>2. \A w \in Nat : (2 * s + w) % 2 = w % 2
  OBVIOUS
<1>3. ASSUME NEW w \in Nat
      PROVE  Tree!EvenUp(w) = w + (w % 2) /\ Tree!EvenUp(2 * s + w) = (2 * s + w) + ((2 * s + w) % 2)
  BY DEF Tree!EvenUp
<1>4. Tree!EvenUp(2 * s) = 2 * s
  BY <1>1 DEF Tree!EvenUp
<1>5. \A w \in Nat : Tree!EvenUp(2 * s + w) = 2 * s + Tree!EvenUp(w)
  BY <1>2, <1>3
<1>6. ASSUME NEW w \in Nat
      PROVE  (2 * s + Tree!EvenUp(w)) \div 2 = s + (Tree!EvenUp(w) \div 2)
  <2>1. Tree!EvenUp(w) \in Nat
    BY EvenUpIs
  <2> DEFINE v == Tree!EvenUp(w)
  <2> HIDE DEF v
  <2>2. (2 * s + v) \div 2 = s + (v \div 2)
    BY <2>1 DEF v
  <2>3. QED
    BY <2>2 DEF v
<1>7. ASSUME NEW w \in Nat, w <= 2 * s PROVE Tree!EvenUp(w) <= 2 * s
  BY <1>7 DEF Tree!EvenUp
<1>8. QED
  BY <1>1, <1>4, <1>5, <1>6, <1>7

\* A cut, in numbers.
LEMMA CutIs ==
  ASSUME NEW d, NEW e, NEW n, IsCut(d, e, n)
  PROVE  /\ e \in Nat /\ d \in Nat /\ TreeDepth \in Nat /\ e <= d /\ e <= TreeDepth /\ d <= TreeDepth
         /\ IsSeq(leafs) /\ Len(leafs) \in Nat /\ n \in Nat \ {0} /\ n \in 1..n
         /\ \A k \in 1..n : IsSeq(Piece(k, n, Size(e)))
<1>1. \A k \in 1..n : IsSeq(Piece(k, n, Size(e)))
  BY PieceIs
<1>2. n \in 1..(Len(leafs) + 1)
  BY DEF IsCut, Cuts
<1>3. QED
  BY <1>1, <1>2, IsSeqLength DEF IsCut

\* The rows of a full piece are full.
LEMMA FullRows ==
  ASSUME NEW d, NEW e, NEW n, IsCut(d, e, n), NEW k \in 1..n, k < n, NEW h \in 0..e
  PROVE  /\ RowOf(d, Piece(k, n, Size(e)), h).width = Size(e - h)
         /\ RowOf(d, Piece(k, n, Size(e)), h).start = RowOf(d, Piece(1, n, Size(e)), h).start
<1> DEFINE p == Piece(k, n, Size(e))
           q == Piece(1, n, Size(e))
           S == {i \in Nat : i <= e => RowOf(d, p, i).width = Size(e - i)}
<1>0. /\ e \in Nat /\ d \in Nat /\ e <= d /\ n \in Nat
  BY CutIs
<1>1. 1 \in 1..n /\ 1 < n
  BY <1>0
<1>2. IsSeq(p) /\ IsSeq(q) /\ Len(p) = Size(e) /\ Len(q) = Size(e)
  BY <1>1, PieceIs
<1> HIDE DEF p, q
<1>3. 0 \in S
  <2>0. RowOf(d, p, 0) = FirstRow(p)
    BY <1>0, <1>2, RowOfIs
  <2>1. RowOf(d, p, 0).width = Len(p) /\ e - 0 = e
    BY <1>0, <2>0 DEF FirstRow
  <2>2. QED
    BY <1>2, <2>1
<1>4. ASSUME NEW i \in Nat, i \in S PROVE i + 1 \in S
  <2>1. SUFFICES ASSUME i + 1 <= e PROVE RowOf(d, p, i + 1).width = Size(e - (i + 1))
    OBVIOUS
  <2>2. i \in 0..d /\ i < d /\ i <= e
    BY <1>0, <2>1
  <2>3. RowOf(d, p, i).width = Size(e - i)
    BY <1>4, <2>2
  <2>4. RowOf(d, p, i + 1).width = Tree!EvenUp(RowOf(d, p, i).width) \div 2
    <3>1. Grows(RowOf(d, p, i), i, RowOf(d, p, i + 1))
      BY <1>0, <1>2, <2>2, HeldIs
    <3>2. QED
      BY <3>1, Zenon DEF Grows
  <2>5. e - (i + 1) \in Nat /\ (e - (i + 1)) + 1 = e - i
    BY <1>0, <2>1
  <2>6. Size(e - i) = 2 * Size(e - (i + 1)) /\ Size(e - (i + 1)) \in Nat
    BY <2>5, TwoToDef, TwoToNat DEF Size
  <2>7. QED
    BY <2>3, <2>4, <2>6, HalfRow
<1>5. \A i \in Nat : i \in S
  <2> HIDE DEF S
  <2>1. QED
    BY <1>3, <1>4, Induction
<1>6. RowOf(d, p, h).width = Size(e - h)
  BY <1>5
<1>7. h \in 0..d
  BY <1>0
<1>8. RowOf(d, p, h).start = RowOf(d, q, h).start
  BY <1>0, <1>2, <1>7, SameShape
<1>9. QED
  BY <1>6, <1>8 DEF p, q

\* A row of the last piece is no wider than that of a full one.
LEMMA LastRows ==
  ASSUME NEW d, NEW e, NEW n, IsCut(d, e, n), NEW h \in 0..e
  PROVE  RowOf(d, Piece(n, n, Size(e)), h).width <= Size(e - h)
<1> DEFINE p == Piece(n, n, Size(e))
<1>1. /\ e \in Nat /\ d \in Nat /\ e <= d /\ n \in 1..n
  BY CutIs
<1>2. IsSeq(p) /\ Len(p) <= Size(e)
  BY <1>1, PieceIs
<1> HIDE DEF p
<1>3. HasRoom(e, p)
  BY <1>2 DEF HasRoom, Size
<1>4. RowOf(e, p, h).width <= Size(e - h)
  BY <1>1, <1>3, WidthIs DEF Size
<1>5. h \in 0..d
  BY <1>1
<1>6. RowOf(e, p, h).width = RowOf(d, p, h).width
  BY <1>1, <1>2, <1>5, SameShape
<1>7. QED
  BY <1>4, <1>6 DEF p

\* A row of the tree is as wide as those of its pieces.
LEMMA CutRows ==
  ASSUME NEW d, NEW e, NEW n, IsCut(d, e, n), NEW h \in 0..e
  PROVE  /\ (n - 1) * Size(e - h) \in Nat
         /\ RowOf(TreeDepth, leafs, h).width
              = (n - 1) * Size(e - h) + RowOf(d, Piece(n, n, Size(e)), h).width
<1> DEFINE p == Piece(n, n, Size(e))
           S == {i \in Nat : i <= e =>
                   /\ (n - 1) * Size(e - i) \in Nat
                   /\ RowOf(TreeDepth, leafs, i).width
                        = (n - 1) * Size(e - i) + RowOf(d, p, i).width}
<1>0. /\ e \in Nat /\ d \in Nat /\ TreeDepth \in Nat /\ e <= d /\ e <= TreeDepth
      /\ IsSeq(leafs) /\ Len(leafs) \in Nat /\ n \in Nat \ {0} /\ n \in 1..n
  BY CutIs
<1>1. IsSeq(p) /\ (n - 1) * Size(e) \in Nat /\ (n - 1) * Size(e) + Len(p) = Len(leafs)
  BY <1>0, PieceIs
<1> HIDE DEF p
<1>2. 0 \in S
  <2>0. RowOf(d, p, 0) = FirstRow(p) /\ RowOf(TreeDepth, leafs, 0) = FirstRow(leafs)
    BY <1>0, <1>1, RowOfIs
  <2>1. RowOf(d, p, 0).width = Len(p) /\ RowOf(TreeDepth, leafs, 0).width = Len(leafs) /\ e - 0 = e
    BY <1>0, <2>0 DEF FirstRow
  <2>2. QED
    BY <1>1, <2>1
<1>3. ASSUME NEW i \in Nat, i \in S PROVE i + 1 \in S
  <2>1. SUFFICES ASSUME i + 1 <= e
                 PROVE  /\ (n - 1) * Size(e - (i + 1)) \in Nat
                        /\ RowOf(TreeDepth, leafs, i + 1).width
                             = (n - 1) * Size(e - (i + 1)) + RowOf(d, p, i + 1).width
    OBVIOUS
  <2>2. i \in 0..d /\ i < d /\ i \in 0..TreeDepth /\ i < TreeDepth /\ i <= e
    BY <1>0, <2>1
  <2> DEFINE s == Size(e - (i + 1))
             c == (n - 1) * s
             w == RowOf(d, p, i).width
  <2>3. e - (i + 1) \in Nat /\ (e - (i + 1)) + 1 = e - i
    BY <1>0, <2>1
  <2>4. Size(e - i) = 2 * s /\ s \in Nat
    BY <2>3, TwoToDef, TwoToNat DEF Size
  <2>5. c \in Nat /\ (n - 1) * Size(e - i) = 2 * c
    <3>1. n - 1 \in Nat
      BY <1>0
    <3> HIDE DEF s
    <3>2. QED
      BY <2>4, <3>1
  <2>6. RowOf(TreeDepth, leafs, i).width = (n - 1) * Size(e - i) + w
    BY <1>3, <2>2
  <2>7. w \in Nat
    BY <1>0, <1>1, <2>2, HeldIs DEF IsRow
  <2>8. RowOf(d, p, i + 1).width = Tree!EvenUp(w) \div 2
    BY <1>0, <1>1, <2>2, HeldIs DEF Grows
  <2>9. RowOf(TreeDepth, leafs, i + 1).width
          = Tree!EvenUp(RowOf(TreeDepth, leafs, i).width) \div 2
    <3>1. Grows(RowOf(TreeDepth, leafs, i), i, RowOf(TreeDepth, leafs, i + 1))
      BY <1>0, <2>2, HeldIs
    <3>2. QED
      BY <3>1 DEF Grows
  <2> HIDE DEF c, w
  <2>10. RowOf(TreeDepth, leafs, i).width = 2 * c + w
    BY <2>5, <2>6
  <2>11. Tree!EvenUp(2 * c + w) = 2 * c + Tree!EvenUp(w)
         /\ (2 * c + Tree!EvenUp(w)) \div 2 = c + (Tree!EvenUp(w) \div 2)
    BY <2>5, <2>7, HalfRow
  <2>12. RowOf(TreeDepth, leafs, i + 1).width = c + RowOf(d, p, i + 1).width
    BY <2>8, <2>9, <2>10, <2>11
  <2>13. QED
    BY <2>5, <2>12 DEF c
<1>4. \A i \in Nat : i \in S
  <2> HIDE DEF S
  <2>1. QED
    BY <1>2, <1>3, Induction
<1>5. QED
  BY <1>4 DEF p

-----------------------------------------------------------------------------
(* The rounds of merge. *)

Rounds(subtrees, start, levels) ==
  CHOOSE f : f = [i \in 0..levels |->
                    Tree!MergedRow(subtrees, IF i = 0 THEN start ELSE Tree!RowAbove(f[i - 1]))]

\* The recursion of merge has a solution.
LEMMA RoundsDef ==
  ASSUME NEW subtrees, NEW start, NEW levels \in Nat
  PROVE  /\ Rounds(subtrees, start, levels)[0] = Tree!MergedRow(subtrees, start)
         /\ \A i \in 0..levels : i > 0 =>
              Rounds(subtrees, start, levels)[i]
                = Tree!MergedRow(subtrees, Tree!RowAbove(Rounds(subtrees, start, levels)[i - 1]))
<1> DEFINE Of(m) == Tree!MergedRow(subtrees, m)
           Up(m) == Tree!RowAbove(m)
           Upto(f, n) == f = [i \in 0..n |-> Of(IF i = 0 THEN start ELSE Up(f[i - 1]))]
           A == {n \in Nat : \E f : Upto(f, n)}
<1>0. Rounds(subtrees, start, levels) = CHOOSE f : Upto(f, levels)
  BY Zenon DEF Rounds
<1> HIDE DEF Of, Up
<1>1. 0 \in A
  <2>1. Upto([i \in 0..0 |-> Of(start)], 0)
    OBVIOUS
  <2>2. QED
    BY <2>1
<1>2. ASSUME NEW n \in Nat, n \in A PROVE n + 1 \in A
  <2>1. PICK f : Upto(f, n)
    BY <1>2
  <2> DEFINE e == [i \in 0..(n + 1) |-> IF i = n + 1 THEN Of(Up(f[n])) ELSE f[i]]
  <2>2. ASSUME NEW i \in 0..(n + 1)
        PROVE  e[i] = Of(IF i = 0 THEN start ELSE Up(e[i - 1]))
    <3>1. CASE i = n + 1
      <4>1. i # 0 /\ i - 1 = n /\ e[i - 1] = f[n]
        BY <3>1
      <4>2. e[i] = Of(Up(f[n]))
        BY <3>1
      <4>3. QED
        BY <4>1, <4>2
    <3>2. CASE i # n + 1
      <4>0. i \in 0..n
        BY <3>2
      <4>1. f[i] = Of(IF i = 0 THEN start ELSE Up(f[i - 1]))
        BY <2>1, <4>0, Zenon
      <4>2. e[i] = f[i] /\ (i # 0 => e[i - 1] = f[i - 1])
        BY <3>2
      <4>3. QED
        BY <4>1, <4>2
    <3>3. QED
      BY <3>1, <3>2
  <2>3. Upto(e, n + 1)
    BY <2>2
  <2> HIDE DEF e
  <2>4. \E d : Upto(d, n + 1)
    BY <2>3, Zenon
  <2>5. n + 1 \in Nat
    OBVIOUS
  <2> HIDE DEF Upto
  <2>6. QED
    BY <2>4, <2>5
<1>3. levels \in A
  <2> HIDE DEF A
  <2>1. QED
    BY <1>1, <1>2, Induction
<1>4. \E f : Upto(f, levels)
  BY <1>3, Zenon
<1> DEFINE r == Rounds(subtrees, start, levels)
<1>5. Upto(r, levels)
  BY <1>0, <1>4, Zenon
<1> HIDE DEF r
<1>6. \A i \in 0..levels : r[i] = Of(IF i = 0 THEN start ELSE Up(r[i - 1]))
  BY <1>5, Zenon
<1>7. 0 \in 0..levels
  OBVIOUS
<1>8. QED
  BY <1>6, <1>7 DEF r, Of, Up

\* What merge has of a tree, before and after it takes a row.
Taken(nodes, fs, fw, ls, lw, s, w) ==
  [nodes |-> nodes, first_start |-> fs, first_width |-> fw,
   last_start |-> ls, last_width |-> lw, start |-> s, width |-> w]

IsTaken(m) ==
  m = Taken(m.nodes, m.first_start, m.first_width, m.last_start, m.last_width, m.start, m.width)

\* The rows of the full trees that a round takes.
FullRowsOf(subtrees, m) ==
  [i \in 1..(Len(subtrees) - 1) |->
     SubSeq(subtrees[i].nodes, m.first_start + 1, m.first_start + m.first_width)]

\* The operators on sequences that CommitmentTree uses are those used here.
LEMMA TreeSequences ==
  /\ \A ss : Tree!FlattenSeq(ss) = FlattenSeq(ss)
  /\ \A s : Tree!Last(s) = s[Len(s)]
<1>1. \A ss : Tree!FlattenSeq(ss) = FlattenSeq(ss)
  BY Zenon DEF Tree!FlattenSeq, FlattenSeq
<1>2. \A s : Tree!Last(s) = s[Len(s)]
  BY DEF Tree!Last
<1>3. QED
  BY <1>1, <1>2

\* One round of merge appends the rows of the full trees, then the last tree's.
LEMMA MergedRowIs ==
  ASSUME NEW subtrees, NEW m, IsTaken(m)
  PROVE  LET l == m.last_width + Tree!LastPadding(m)
         IN  Tree!MergedRow(subtrees, m)
               = Taken((m.nodes \o Tree!FlattenSeq(FullRowsOf(subtrees, m)))
                         \o SubSeq(Tree!Last(subtrees).nodes, m.last_start + 1, m.last_start + l),
                       m.first_start, m.first_width, m.last_start, l, m.start,
                       m.width + Tree!LastPadding(m))
<1> DEFINE pad == Tree!LastPadding(m)
           l == m.last_width + pad
           rows == Tree!FlattenSeq(FullRowsOf(subtrees, m))
           end == SubSeq(Tree!Last(subtrees).nodes, m.last_start + 1, m.last_start + l)
<1>1. Tree!MergedRow(subtrees, m)
        = [m EXCEPT !.last_width = l, !.width = @ + pad, !.nodes = (@ \o rows) \o end]
  BY Zenon DEF Tree!MergedRow, FullRowsOf
<1> HIDE DEF pad, l, rows, end
<1>2. PICK nodes, fs, fw, ls, lw, s, w : m = Taken(nodes, fs, fw, ls, lw, s, w)
  BY DEF IsTaken
<1>3. /\ m.nodes = nodes /\ m.first_start = fs /\ m.first_width = fw /\ m.last_start = ls
      /\ m.last_width = lw /\ m.start = s /\ m.width = w
  BY <1>2 DEF Taken
<1> DEFINE m1 == [m EXCEPT !.last_width = l]
           m2 == [m1 EXCEPT !.width = w + pad]
           m3 == [m2 EXCEPT !.nodes = (nodes \o rows) \o end]
<1>4. [m EXCEPT !.last_width = l, !.width = @ + pad, !.nodes = (@ \o rows) \o end]
        = [m EXCEPT !.last_width = l, !.width = m.width + pad,
                    !.nodes = (m.nodes \o rows) \o end]
  OBVIOUS
<1>5. [m EXCEPT !.last_width = l, !.width = w + pad, !.nodes = (nodes \o rows) \o end] = m3
  OBVIOUS
<1>6. m1 = Taken(nodes, fs, fw, ls, l, s, w)
  BY <1>2 DEF Taken
<1>7. m2 = Taken(nodes, fs, fw, ls, l, s, w + pad)
  <2> HIDE DEF m1
  <2>1. QED
    BY <1>6 DEF Taken
<1>8. m3 = Taken((nodes \o rows) \o end, fs, fw, ls, l, s, w + pad)
  <2> DEFINE n == (nodes \o rows) \o end
             v == w + pad
  <2> HIDE DEF m2, n, v
  <2>1. m2 = Taken(nodes, fs, fw, ls, l, s, v)
    BY <1>7 DEF v
  <2>2. [m2 EXCEPT !.nodes = n] = Taken(n, fs, fw, ls, l, s, v)
    BY <2>1 DEF Taken
  <2>3. QED
    BY <2>2 DEF n, v
<1> HIDE DEF m3
<1>9. [m EXCEPT !.last_width = l, !.width = m.width + pad, !.nodes = (m.nodes \o rows) \o end] = m3
  BY <1>3, <1>5
<1>10. Tree!MergedRow(subtrees, m)
         = Taken((m.nodes \o rows) \o end, m.first_start, m.first_width, m.last_start, l, m.start,
                 m.width + pad)
  BY <1>1, <1>3, <1>4, <1>8, <1>9
<1>11. QED
  BY <1>10 DEF l, rows, end, pad

\* Between two rounds every position moves on by a width and every width halves.
LEMMA RowAboveIs ==
  ASSUME NEW nodes, NEW fs, NEW fw, NEW ls, NEW lw, NEW s, NEW w
  PROVE  Tree!RowAbove(Taken(nodes, fs, fw, ls, lw, s, w))
           = Taken(nodes, fs + fw, fw \div 2, ls + lw, lw \div 2, s + w, w \div 2)
<1> DEFINE m == Taken(nodes, fs, fw, ls, lw, s, w)
           m1 == [m EXCEPT !.first_start = fs + fw]
           m2 == [m1 EXCEPT !.first_width = fw \div 2]
           m3 == [m2 EXCEPT !.last_start = ls + lw]
           m4 == [m3 EXCEPT !.last_width = lw \div 2]
           m5 == [m4 EXCEPT !.start = s + w]
           m6 == [m5 EXCEPT !.width = w \div 2]
<1>1. /\ m.nodes = nodes /\ m.first_start = fs /\ m.first_width = fw /\ m.last_start = ls
      /\ m.last_width = lw /\ m.start = s /\ m.width = w
  BY DEF Taken
<1>2. m1 = Taken(nodes, fs + fw, fw, ls, lw, s, w)
  BY DEF Taken
<1>3. m2 = Taken(nodes, fs + fw, fw \div 2, ls, lw, s, w)
  <2> HIDE DEF m1
  <2>1. QED
    BY <1>2 DEF Taken
<1>4. m3 = Taken(nodes, fs + fw, fw \div 2, ls + lw, lw, s, w)
  <2> HIDE DEF m2
  <2>1. QED
    BY <1>3 DEF Taken
<1>5. m4 = Taken(nodes, fs + fw, fw \div 2, ls + lw, lw \div 2, s, w)
  <2> HIDE DEF m3
  <2>1. QED
    BY <1>4 DEF Taken
<1>6. m5 = Taken(nodes, fs + fw, fw \div 2, ls + lw, lw \div 2, s + w, w)
  <2> HIDE DEF m4
  <2>1. QED
    BY <1>5 DEF Taken
<1>7. m6 = Taken(nodes, fs + fw, fw \div 2, ls + lw, lw \div 2, s + w, w \div 2)
  <2> HIDE DEF m5
  <2>1. QED
    BY <1>6 DEF Taken
<1>8. Tree!RowAbove(m)
        = [m EXCEPT !.first_start = @ + m.first_width, !.first_width = @ \div 2,
                    !.last_start = @ + m.last_width, !.last_width = @ \div 2,
                    !.start = @ + m.width, !.width = @ \div 2]
  BY Zenon DEF Tree!RowAbove
<1>9. [m EXCEPT !.first_start = @ + m.first_width, !.first_width = @ \div 2,
                !.last_start = @ + m.last_width, !.last_width = @ \div 2,
                !.start = @ + m.width, !.width = @ \div 2]
        = [m EXCEPT !.first_start = m.first_start + m.first_width,
                    !.first_width = m.first_width \div 2,
                    !.last_start = m.last_start + m.last_width, !.last_width = m.last_width \div 2,
                    !.start = m.start + m.width, !.width = m.width \div 2]
  <2> HIDE DEF m
  <2>1. QED
    OBVIOUS
<1>10. [m EXCEPT !.first_start = fs + fw, !.first_width = fw \div 2,
                 !.last_start = ls + lw, !.last_width = lw \div 2,
                 !.start = s + w, !.width = w \div 2] = m6
  <2> HIDE DEF m
  <2>1. QED
    OBVIOUS
<1> HIDE DEF m6
<1>11. Tree!RowAbove(m) = m6
  <2> HIDE DEF m
  <2>1. QED
    BY <1>1, <1>8, <1>9, <1>10
<1>12. QED
  BY <1>7, <1>11

-----------------------------------------------------------------------------
(* What merge has after each of its rounds. *)

Pieces(d, e, n) == [i \in 1..n |-> Tree!New(d, Piece(i, n, Size(e)))]

AllNodes == RowOf(TreeDepth, leafs, TreeDepth).nodes

\* The row of height h of a full piece, of the last, and of the tree.
FullStart(d, e, n, h) == RowOf(d, Piece(1, n, Size(e)), h).start
LastRow(d, e, n, h) == RowOf(d, Piece(n, n, Size(e)), h)
WholeRow(h) == RowOf(TreeDepth, leafs, h)

LastHeld(d, e, n, h) ==
  IF h < e THEN Tree!EvenUp(LastRow(d, e, n, h).width) ELSE LastRow(d, e, n, h).width

Before(d, e, n, h) ==
  Taken(SubSeq(AllNodes, 1, WholeRow(h).start), FullStart(d, e, n, h), Size(e - h),
        LastRow(d, e, n, h).start, LastRow(d, e, n, h).width,
        WholeRow(h).start, (n - 1) * Size(e - h) + LastRow(d, e, n, h).width)

After(d, e, n, h) ==
  LET width == (n - 1) * Size(e - h) + LastHeld(d, e, n, h)
  IN  Taken(SubSeq(AllNodes, 1, WholeRow(h).start + width), FullStart(d, e, n, h), Size(e - h),
            LastRow(d, e, n, h).start, LastHeld(d, e, n, h), WholeRow(h).start, width)

\* The row of height h, in numbers.
LEMMA RowNumbers ==
  ASSUME NEW d, NEW e, NEW n, IsCut(d, e, n), n > 1, NEW h \in 0..e
  PROVE  LET c == (n - 1) * Size(e - h)
             lw == LastHeld(d, e, n, h)
         IN  /\ WholeRow(h).start \in Nat /\ WholeRow(h).width = c + LastRow(d, e, n, h).width
             /\ c \in Nat /\ Size(e - h) \in Nat /\ lw \in Nat
             /\ LastRow(d, e, n, h).width \in Nat /\ LastRow(d, e, n, h).start \in Nat
             /\ FullStart(d, e, n, h) \in Nat
             /\ lw <= Size(e - h)
             /\ lw <= Held(d, Piece(n, n, Size(e)), h)
             /\ c + lw <= Held(TreeDepth, leafs, h)
             /\ WholeRow(h).start + (c + lw) <= Len(AllNodes)
             /\ h < e => c + lw = Tree!EvenUp(WholeRow(h).width)
             /\ LastRow(d, e, n, h).start + lw <= Len(RowOf(d, Piece(n, n, Size(e)), d).nodes)
<1> DEFINE p == Piece(n, n, Size(e))
           q == Piece(1, n, Size(e))
           c == (n - 1) * Size(e - h)
           w == LastRow(d, e, n, h).width
           W == WholeRow(h).width
           lw == LastHeld(d, e, n, h)
           s == Size(e - h)
<1>1. /\ e \in Nat /\ d \in Nat /\ TreeDepth \in Nat /\ e <= d /\ e <= TreeDepth
      /\ IsSeq(leafs) /\ n \in Nat \ {0} /\ n \in 1..n /\ 1 \in 1..n
      /\ IsSeq(p) /\ IsSeq(q)
  BY CutIs
<1>2. h \in 0..d /\ h \in 0..TreeDepth /\ e - h \in Nat
  BY <1>1
<1>3. IsRow(LastRow(d, e, n, h)) /\ IsRow(WholeRow(h)) /\ IsRow(RowOf(d, q, h))
  BY <1>1, <1>2, HeldIs DEF LastRow, WholeRow
<1>4. /\ w \in Nat /\ W \in Nat /\ LastRow(d, e, n, h).start \in Nat /\ WholeRow(h).start \in Nat
      /\ FullStart(d, e, n, h) \in Nat
  BY <1>3 DEF IsRow, FullStart
<1>5. c \in Nat /\ W = c + w
  BY CutRows DEF WholeRow, LastRow
<1>6. w <= s /\ s \in Nat
  BY <1>2, LastRows, TwoToNat DEF LastRow, Size
<1>7. LastRow(d, e, n, h).start + Held(d, p, h) <= Len(RowOf(d, p, d).nodes)
  BY <1>1, <1>2, HeldFits DEF LastRow
<1>8. WholeRow(h).start + Held(TreeDepth, leafs, h) <= Len(AllNodes)
  BY <1>1, <1>2, HeldFits DEF WholeRow, AllNodes
<1>9. /\ lw \in Nat /\ lw <= s /\ lw <= Held(d, p, h) /\ c + lw <= Held(TreeDepth, leafs, h)
      /\ h < e => c + lw = Tree!EvenUp(W)
  <2>1. CASE h < e
    <3>1. e - (h + 1) \in Nat /\ (e - (h + 1)) + 1 = e - h
      BY <1>1, <2>1
    <3> DEFINE x == Size(e - (h + 1))
    <3>2. s = 2 * x /\ x \in Nat
      BY <3>1, TwoToDef, TwoToNat DEF Size
    <3> DEFINE y == (n - 1) * x
    <3>3. c = 2 * y /\ y \in Nat
      <4>1. n - 1 \in Nat
        BY <1>1
      <4>2. c = (n - 1) * (2 * x)
        BY <3>2
      <4> HIDE DEF x, s, c
      <4>3. QED
        BY <3>2, <4>1, <4>2
    <3> HIDE DEF w, W, c, s, x, y
    <3>4. lw = Tree!EvenUp(w)
      BY <2>1 DEF LastHeld, w
    <3>5. Tree!EvenUp(w) \in Nat /\ Tree!EvenUp(w) <= s
      BY <1>4, <1>6, <3>2, HalfRow, EvenUpIs
    <3>6. Tree!EvenUp(W) = c + Tree!EvenUp(w)
      BY <1>4, <1>5, <3>3, HalfRow
    <3>7. Held(d, p, h) = Tree!EvenUp(w) /\ Held(TreeDepth, leafs, h) = Tree!EvenUp(W)
      <4>1. h < d /\ h < TreeDepth
        BY <1>1, <2>1
      <4>2. QED
        BY <4>1 DEF Held, w, W, LastRow, WholeRow
    <3> HIDE DEF lw
    <3>8. c + lw \in Nat
      BY <1>5, <3>4, <3>5
    <3>9. QED
      BY <3>4, <3>5, <3>6, <3>7, <3>8
  <2>2. CASE ~(h < e)
    <3>1. lw = w
      BY <2>2 DEF LastHeld
    <3>2. Held(d, p, h) >= w /\ Held(TreeDepth, leafs, h) >= W
          /\ Held(d, p, h) \in Nat /\ Held(TreeDepth, leafs, h) \in Nat
      BY <1>1, <1>2, HeldIs DEF LastRow, WholeRow
    <3> HIDE DEF w, W, c, s, lw
    <3>3. QED
      BY <1>4, <1>5, <1>6, <2>2, <3>1, <3>2
  <2>3. QED
    BY <2>1, <2>2
<1>10. Held(d, p, h) \in Nat /\ Held(TreeDepth, leafs, h) \in Nat
  BY <1>1, <1>2, HeldIs
<1>11. Len(RowOf(d, p, d).nodes) \in Nat /\ Len(AllNodes) \in Nat
  <2>1. d \in 0..d /\ TreeDepth \in 0..TreeDepth
    BY <1>1
  <2>2. IsRow(RowOf(d, p, d)) /\ IsRow(RowOf(TreeDepth, leafs, TreeDepth))
    BY <1>1, <2>1, HeldIs
  <2>3. QED
    BY <2>2, IsSeqLength DEF IsRow, AllNodes
<1> DEFINE u == LastRow(d, e, n, h).start
           v == WholeRow(h).start
           a == Held(d, p, h)
           b == Held(TreeDepth, leafs, h)
           f == Len(RowOf(d, p, d).nodes)
           g == Len(AllNodes)
<1>12. v + (c + lw) <= g /\ u + lw <= f
  <2>1. u \in Nat /\ v \in Nat /\ a \in Nat /\ b \in Nat /\ f \in Nat /\ g \in Nat
        /\ u + a <= f /\ v + b <= g /\ lw <= a /\ c + lw <= b /\ lw \in Nat /\ c \in Nat
    BY <1>4, <1>5, <1>7, <1>8, <1>9, <1>10, <1>11
  <2> HIDE DEF u, v, a, b, f, g, c, lw
  <2>2. QED
    BY <2>1
<1>13. QED
  BY <1>4, <1>5, <1>6, <1>9, <1>12

\* The trees of the pieces, and what merge reads of them.
LEMMA PiecesAre ==
  ASSUME NEW d, NEW e, NEW n, IsCut(d, e, n)
  PROVE  /\ Len(Pieces(d, e, n)) = n
         /\ \A k \in 1..n : Pieces(d, e, n)[k] = Tree!New(d, Piece(k, n, Size(e)))
         /\ \A k \in 1..n :
              /\ Pieces(d, e, n)[k].nodes = RowOf(d, Piece(k, n, Size(e)), d).nodes
              /\ Pieces(d, e, n)[k].leaf_count = Len(Piece(k, n, Size(e)))
<1>1. n \in Nat /\ d \in Nat
  BY CutIs
<1>2. PICK f : f = Pieces(d, e, n)
  OBVIOUS
<1>3. f = [k \in 1..n |-> f[k]] /\ \A k \in 1..n : f[k] = Tree!New(d, Piece(k, n, Size(e)))
  BY <1>2 DEF Pieces
<1>4. Len(f) = n
  BY <1>1, <1>3, FunctionSeq
<1>5. ASSUME NEW k \in 1..n
      PROVE  /\ f[k].nodes = RowOf(d, Piece(k, n, Size(e)), d).nodes
             /\ f[k].leaf_count = Len(Piece(k, n, Size(e)))
  <2> DEFINE p == Piece(k, n, Size(e))
  <2>1. IsSeq(p)
    BY CutIs
  <2> HIDE DEF p
  <2>2. Tree!New(d, p) = [nodes |-> RowOf(d, p, d).nodes, leaf_count |-> Len(p), depth |-> d]
    BY <1>1, <2>1, RowOfIs
  <2>3. f[k] = Tree!New(d, p)
    BY <1>3 DEF p
  <2>4. f[k].nodes = RowOf(d, p, d).nodes /\ f[k].leaf_count = Len(p)
    BY <2>2, <2>3
  <2>5. QED
    BY <2>4 DEF p
<1>6. QED
  BY <1>2, <1>3, <1>4, <1>5

\* A node of the tree, where the vector holds it.
LEMMA WholeNodes ==
  ASSUME NEW h \in 0..TreeDepth, NEW j \in Nat, j < Held(TreeDepth, leafs, h)
  PROVE  TreeNode(TreeDepth, leafs, h, j) = AllNodes[WholeRow(h).start + j + 1]
BY DEF TreeNode, AllNodes, WholeRow

\* What a round takes of a full tree, and of the last.
FullTake(d, e, n, h, k) ==
  SubSeq(Pieces(d, e, n)[k].nodes, FullStart(d, e, n, h) + 1, FullStart(d, e, n, h) + Size(e - h))

LastTake(d, e, n, h) ==
  SubSeq(Pieces(d, e, n)[n].nodes, LastRow(d, e, n, h).start + 1,
         LastRow(d, e, n, h).start + LastHeld(d, e, n, h))

\* What a round takes of a full tree is a part of the row.
LEMMA FullPart ==
  ASSUME NEW d, NEW e, NEW n, IsCut(d, e, n), n > 1, NEW h \in 0..e, NEW k \in 1..(n - 1)
  PROVE  /\ IsSeq(FullTake(d, e, n, h, k)) /\ Len(FullTake(d, e, n, h, k)) = Size(e - h)
         /\ \A j \in 1..Size(e - h) :
              FullTake(d, e, n, h, k)[j]
                = AllNodes[WholeRow(h).start + ((k - 1) * Size(e - h) + j)]
<1> DEFINE p == Piece(k, n, Size(e))
           s == Size(e - h)
           ns == RowOf(d, p, d).nodes
           fs == FullStart(d, e, n, h)
           f == SubSeq(Pieces(d, e, n)[k].nodes, fs + 1, fs + s)
           b == (k - 1) * s
           c == (n - 1) * s
<1>1. /\ e \in Nat /\ d \in Nat /\ TreeDepth \in Nat /\ e <= d /\ e <= TreeDepth
      /\ n \in Nat /\ k \in 1..n /\ k < n /\ h \in 0..d /\ h \in 0..TreeDepth /\ d \in 0..d
  BY CutIs
<1>2. IsSeq(p)
  BY <1>1, CutIs
<1>3. RowOf(d, p, h).width = s /\ RowOf(d, p, h).start = fs
  BY <1>1, FullRows DEF FullStart
<1>4. /\ s \in Nat /\ fs \in Nat /\ WholeRow(h).start \in Nat
      /\ c \in Nat /\ LastHeld(d, e, n, h) \in Nat
      /\ c + LastHeld(d, e, n, h) <= Held(TreeDepth, leafs, h)
  BY RowNumbers
<1>5. Held(TreeDepth, leafs, h) \in Nat /\ c <= Held(TreeDepth, leafs, h)
  <2>1. Held(TreeDepth, leafs, h) \in Nat
    BY <1>1, CutIs, HeldIs
  <2> HIDE DEF c
  <2>2. QED
    BY <1>4, <2>1
<1>6. Pieces(d, e, n)[k].nodes = ns
  BY <1>1, PiecesAre
<1>7. Held(d, p, h) >= s /\ Held(d, p, h) \in Nat /\ fs + Held(d, p, h) <= Len(ns) /\ IsSeq(ns)
      /\ Len(ns) \in Nat
  <2>1. Held(d, p, h) >= s /\ Held(d, p, h) \in Nat
    BY <1>1, <1>2, <1>3, HeldIs
  <2>2. fs + Held(d, p, h) <= Len(ns)
    BY <1>1, <1>2, <1>3, HeldFits
  <2>3. IsSeq(ns)
    BY <1>1, <1>2, HeldIs DEF IsRow
  <2>4. QED
    BY <2>1, <2>2, <2>3, IsSeqLength
<1>8. b \in Nat /\ b + s <= c
  <2>1. k - 1 \in Nat /\ n - 1 \in Nat /\ k \in Nat /\ k <= n - 1
    BY <1>1
  <2> HIDE DEF s
  <2>2. k * s <= (n - 1) * s /\ k * s = b + s /\ b \in Nat
    BY <1>4, <2>1, TimesMonotonic
  <2>3. QED
    BY <2>2
<1> HIDE DEF fs, ns, s, b, c
<1>9. IsSeq(SubSeq(ns, fs + 1, fs + s)) /\ Len(SubSeq(ns, fs + 1, fs + s)) = s
      /\ \A j \in 1..s : SubSeq(ns, fs + 1, fs + s)[j] = ns[fs + j]
  <2>1. fs + s <= Len(ns)
    BY <1>4, <1>7
  <2>2. QED
    BY <1>4, <1>7, <2>1, PartIs
<1>10. IsSeq(f) /\ Len(f) = s /\ \A j \in 1..s : f[j] = ns[fs + j]
  BY <1>6, <1>9
<1>11. ASSUME NEW j \in 1..s PROVE ns[fs + j] = AllNodes[WholeRow(h).start + (b + j)]
  <2> DEFINE i == j - 1
  <2>1. i \in Nat /\ i < s /\ i + 1 = j /\ i < Held(d, p, h)
    BY <1>4, <1>7
  <2>2. TreeNode(d, p, h, i) = ns[fs + j]
    <3>1. TreeNode(d, p, h, i) = RowOf(d, p, d).nodes[RowOf(d, p, h).start + i + 1]
      BY <2>1 DEF TreeNode
    <3>2. RowOf(d, p, h).start + i + 1 = fs + j
      BY <1>3, <1>4, <2>1
    <3>3. QED
      BY <3>1, <3>2 DEF ns
  <2>3. TreeNode(d, p, h, i) = TreeNode(TreeDepth, leafs, h, b + i)
    BY <1>1, <2>1, PieceNodes DEF s, b
  <2>4. b + i \in Nat /\ b + i < Held(TreeDepth, leafs, h)
    BY <1>4, <1>5, <1>8, <2>1
  <2>5. TreeNode(TreeDepth, leafs, h, b + i) = AllNodes[WholeRow(h).start + (b + i) + 1]
    BY <1>1, <2>4, WholeNodes
  <2>6. WholeRow(h).start + (b + i) + 1 = WholeRow(h).start + (b + j)
    BY <1>4, <1>8, <2>1
  <2>7. QED
    BY <2>2, <2>3, <2>5, <2>6
<1>12. QED
  BY <1>10, <1>11 DEF s, fs, b, FullTake

\* And what it takes of the last tree is the rest of it.
LEMMA LastPart ==
  ASSUME NEW d, NEW e, NEW n, IsCut(d, e, n), n > 1, NEW h \in 0..e
  PROVE  /\ IsSeq(LastTake(d, e, n, h)) /\ Len(LastTake(d, e, n, h)) = LastHeld(d, e, n, h)
         /\ \A j \in 1..LastHeld(d, e, n, h) :
              LastTake(d, e, n, h)[j]
                = AllNodes[WholeRow(h).start + ((n - 1) * Size(e - h) + j)]
<1> DEFINE p == Piece(n, n, Size(e))
           s == Size(e - h)
           w == LastHeld(d, e, n, h)
           ns == RowOf(d, p, d).nodes
           u == LastRow(d, e, n, h).start
           f == SubSeq(Pieces(d, e, n)[n].nodes, u + 1, u + w)
           c == (n - 1) * s
<1>1. /\ e \in Nat /\ d \in Nat /\ TreeDepth \in Nat /\ e <= d /\ e <= TreeDepth
      /\ n \in Nat /\ n \in 1..n /\ h \in 0..d /\ h \in 0..TreeDepth /\ d \in 0..d
  BY CutIs
<1>2. IsSeq(p)
  BY <1>1, CutIs
<1>3. /\ s \in Nat /\ u \in Nat /\ WholeRow(h).start \in Nat /\ c \in Nat /\ w \in Nat /\ w <= s
      /\ c + w <= Held(TreeDepth, leafs, h) /\ w <= Held(d, p, h) /\ u + w <= Len(ns)
  BY RowNumbers
<1>4. /\ Pieces(d, e, n)[n].nodes = ns /\ Held(TreeDepth, leafs, h) \in Nat
      /\ Held(d, p, h) \in Nat /\ IsSeq(ns)
  <2>1. Pieces(d, e, n)[n].nodes = ns
    BY <1>1, PiecesAre
  <2>2. Held(TreeDepth, leafs, h) \in Nat /\ Held(d, p, h) \in Nat
    BY <1>1, <1>2, CutIs, HeldIs
  <2>3. IsSeq(ns)
    BY <1>1, <1>2, HeldIs DEF IsRow
  <2>4. QED
    BY <2>1, <2>2, <2>3
<1>5. RowOf(d, p, h).start = u
  BY DEF LastRow
<1> HIDE DEF u, ns, s, c, w
<1>6. IsSeq(SubSeq(ns, u + 1, u + w)) /\ Len(SubSeq(ns, u + 1, u + w)) = w
      /\ \A j \in 1..w : SubSeq(ns, u + 1, u + w)[j] = ns[u + j]
  <2>1. IsSeq(ns) /\ u \in Nat /\ w \in Nat /\ u + w <= Len(ns)
    BY <1>3, <1>4
  <2>2. QED
    BY <2>1, PartIs
<1>7. IsSeq(f) /\ Len(f) = w /\ \A j \in 1..w : f[j] = ns[u + j]
  BY <1>4, <1>6
<1>8. ASSUME NEW j \in 1..w PROVE ns[u + j] = AllNodes[WholeRow(h).start + (c + j)]
  <2> DEFINE i == j - 1
  <2>1. i \in Nat /\ i < s /\ i + 1 = j /\ i < Held(d, p, h)
    BY <1>3, <1>4
  <2>2. TreeNode(d, p, h, i) = ns[u + j]
    <3>1. TreeNode(d, p, h, i) = RowOf(d, p, d).nodes[RowOf(d, p, h).start + i + 1]
      BY <2>1 DEF TreeNode
    <3>2. RowOf(d, p, h).start + i + 1 = u + j
      BY <1>3, <1>5, <2>1
    <3>3. QED
      BY <3>1, <3>2 DEF ns
  <2>3. TreeNode(d, p, h, i) = TreeNode(TreeDepth, leafs, h, c + i)
    BY <1>1, <2>1, PieceNodes DEF s, c
  <2>4. c + i \in Nat /\ c + i < Held(TreeDepth, leafs, h)
    BY <1>3, <1>4, <2>1
  <2>5. TreeNode(TreeDepth, leafs, h, c + i) = AllNodes[WholeRow(h).start + (c + i) + 1]
    BY <1>1, <2>4, WholeNodes
  <2>6. WholeRow(h).start + (c + i) + 1 = WholeRow(h).start + (c + j)
    BY <1>3, <2>1
  <2>7. QED
    BY <2>2, <2>3, <2>5, <2>6
<1>9. QED
  BY <1>7, <1>8 DEF u, w, c, s, LastTake

\* A round takes the row it is at.
LEMMA RoundTakes ==
  ASSUME NEW d, NEW e, NEW n, IsCut(d, e, n), n > 1, NEW h \in 0..e
  PROVE  Tree!MergedRow(Pieces(d, e, n), Before(d, e, n, h)) = After(d, e, n, h)
<1> DEFINE ps == Pieces(d, e, n)
           m == Before(d, e, n, h)
           s == Size(e - h)
           c == (n - 1) * s
           w == LastRow(d, e, n, h).width
           lw == LastHeld(d, e, n, h)
           u == LastRow(d, e, n, h).start
           fs == FullStart(d, e, n, h)
           a == WholeRow(h).start
           A == SubSeq(AllNodes, 1, a)
           F == FullRowsOf(ps, m)
           t == LastTake(d, e, n, h)
<1>1. /\ a \in Nat /\ c \in Nat /\ s \in Nat /\ lw \in Nat /\ w \in Nat /\ u \in Nat /\ fs \in Nat
      /\ a + (c + lw) <= Len(AllNodes)
  BY RowNumbers
<1>2. e \in Nat /\ n \in Nat \ {0} /\ n \in 1..n /\ TreeDepth \in Nat
  BY CutIs
<1>3. m = Taken(A, fs, s, u, w, a, c + w)
  BY DEF Before
<1>4. IsSeq(AllNodes) /\ Len(AllNodes) \in Nat
  <2>1. TreeDepth \in 0..TreeDepth /\ IsSeq(leafs)
    BY <1>2, CutIs
  <2>2. IsRow(RowOf(TreeDepth, leafs, TreeDepth))
    BY <1>2, <2>1, HeldIs
  <2>3. QED
    BY <2>2, IsSeqLength DEF IsRow, AllNodes
<1> HIDE DEF m, A, a, fs, u, c, s, w, lw
<1>5. /\ m.nodes = A /\ m.first_start = fs /\ m.first_width = s /\ m.last_start = u
      /\ m.last_width = w /\ m.start = a /\ m.width = c + w /\ IsTaken(m)
  BY <1>3 DEF Taken, IsTaken
<1>6. w + Tree!LastPadding(m) = lw /\ Tree!LastPadding(m) \in Nat
  <2>1. Tree!LastPadding(m) = IF s > 1 THEN w % 2 ELSE 0
    BY <1>5 DEF Tree!LastPadding
  <2>2. CASE h < e
    <3>1. e - (h + 1) \in Nat /\ (e - (h + 1)) + 1 = e - h
      BY <1>2, <2>2
    <3>2. s = 2 * Size(e - (h + 1)) /\ Size(e - (h + 1)) \in Nat \ {0}
      BY <3>1, TwoToDef, TwoToNat DEF Size, s
    <3>3. s > 1
      BY <3>2
    <3>4. lw = Tree!EvenUp(w)
      BY <2>2 DEF lw, w, LastHeld
    <3>5. QED
      BY <1>1, <2>1, <3>3, <3>4 DEF Tree!EvenUp
  <2>3. CASE ~(h < e)
    <3>1. e - h = 0
      BY <1>2, <2>3
    <3>2. s = 1
      BY <3>1, TwoToDef DEF Size, s
    <3>3. lw = w
      BY <2>3 DEF lw, w, LastHeld
    <3>4. QED
      BY <1>1, <2>1, <3>2, <3>3
  <2>4. QED
    BY <2>2, <2>3
<1>7. Len(ps) = n
  BY PiecesAre
<1>8. F = [k \in 1..(n - 1) |-> F[k]]
      /\ \A k \in 1..(n - 1) : F[k] = SubSeq(ps[k].nodes, fs + 1, fs + s)
  BY <1>5, <1>7 DEF FullRowsOf
<1> HIDE DEF F, ps
<1>9. \A k \in 1..(n - 1) :
        /\ IsSeq(F[k]) /\ Len(F[k]) = s
        /\ \A j \in 1..s : F[k][j] = AllNodes[a + ((k - 1) * s + j)]
  <2>1. ASSUME NEW k \in 1..(n - 1)
        PROVE  /\ IsSeq(F[k]) /\ Len(F[k]) = s
               /\ \A j \in 1..s : F[k][j] = AllNodes[a + ((k - 1) * s + j)]
    <3>1. PICK f : f = FullTake(d, e, n, h, k)
      OBVIOUS
    <3>2. /\ IsSeq(f) /\ Len(f) = s
          /\ \A j \in 1..s : f[j] = AllNodes[a + ((k - 1) * s + j)]
      BY <3>1, FullPart DEF s, a
    <3>3. F[k] = f
      BY <1>8, <3>1, Zenon DEF FullTake, ps, fs, s
    <3>4. QED
      BY <3>2, <3>3
  <2>2. QED
    BY <2>1
<1> DEFINE r == FlattenSeq(F)
<1>10. /\ IsSeq(r) /\ Len(r) = c
       /\ \A x \in 1..c : r[x] = AllNodes[a + x]
  <2>1. n - 1 \in Nat /\ \A k \in 1..(n - 1) : IsSeq(F[k]) /\ Len(F[k]) = s
    BY <1>2, <1>9
  <2>2. /\ IsSeq(r) /\ Len(r) = (n - 1) * s
        /\ \A x \in 1..((n - 1) * s) :
             \E k \in 1..(n - 1), j \in 1..s : x = (k - 1) * s + j /\ r[x] = F[k][j]
    <3>1. AreRows(F, n - 1, s)
      BY <1>8, <2>1 DEF AreRows
    <3>2. HasRows(r, F, n - 1, s)
      BY <1>1, <2>1, <3>1, FlattenRows DEF r
    <3>3. QED
      BY <3>2, Zenon DEF HasRows
  <2>3. c = (n - 1) * s
    BY DEF c
  <2>4. ASSUME NEW x \in 1..c PROVE r[x] = AllNodes[a + x]
    <3>1. PICK k \in 1..(n - 1), j \in 1..s : x = (k - 1) * s + j /\ r[x] = F[k][j]
      BY <2>2, <2>3
    <3>2. F[k][j] = AllNodes[a + ((k - 1) * s + j)]
      BY <1>9
    <3>3. QED
      BY <3>1, <3>2
  <2>5. QED
    BY <2>2, <2>3, <2>4
<1> HIDE DEF r
<1>11. /\ IsSeq(t) /\ Len(t) = lw
       /\ \A x \in 1..lw : t[x] = AllNodes[a + (c + x)]
  BY LastPart DEF lw, a, c, s
<1> HIDE DEF t
<1> DEFINE B == SubSeq(AllNodes, 1, a + c)
           C == SubSeq(AllNodes, 1, a + (c + lw))
<1>12. /\ IsSeq(A) /\ Len(A) = a /\ \A x \in 1..a : A[x] = AllNodes[x]
       /\ IsSeq(B) /\ Len(B) = a + c /\ \A x \in 1..(a + c) : B[x] = AllNodes[x]
       /\ IsSeq(C) /\ Len(C) = a + (c + lw) /\ \A x \in 1..(a + (c + lw)) : C[x] = AllNodes[x]
  <2>1. ASSUME NEW b \in Nat, b <= Len(AllNodes)
        PROVE  /\ IsSeq(SubSeq(AllNodes, 1, b)) /\ Len(SubSeq(AllNodes, 1, b)) = b
               /\ \A x \in 1..b : SubSeq(AllNodes, 1, b)[x] = AllNodes[x]
    <3>1. /\ IsSeq(SubSeq(AllNodes, 0 + 1, 0 + b)) /\ Len(SubSeq(AllNodes, 0 + 1, 0 + b)) = b
          /\ \A x \in 1..b : SubSeq(AllNodes, 0 + 1, 0 + b)[x] = AllNodes[0 + x]
      BY <1>4, <2>1, PartIs, 0 \in Nat, 0 + b = b
    <3>2. 0 + 1 = 1 /\ 0 + b = b /\ \A x \in 1..b : 0 + x = x
      OBVIOUS
    <3>3. QED
      BY <3>1, <3>2
  <2>2. /\ a \in Nat /\ a <= Len(AllNodes) /\ a + c \in Nat /\ a + c <= Len(AllNodes)
        /\ a + (c + lw) \in Nat /\ a + (c + lw) <= Len(AllNodes)
    BY <1>1, <1>4
  <2>3. QED
    BY <2>1, <2>2 DEF A
<1> HIDE DEF B, C
<1>13. B = A \o r
  <2>1. /\ IsSeq(A) /\ IsSeq(B) /\ IsSeq(r)
        /\ Len(B) = Len(A) + Len(r) /\ \A x \in 1..Len(A) : B[x] = A[x]
    <3>1. \A x \in 1..a : B[x] = A[x]
      BY <1>1, <1>12
    <3>2. Len(B) = Len(A) + Len(r) /\ Len(A) = a
      BY <1>10, <1>12
    <3>3. QED
      BY <1>10, <1>12, <3>1, <3>2
  <2>2. \A x \in 1..Len(r) : B[Len(A) + x] = r[x]
    BY <1>1, <1>10, <1>12
  <2>3. Continues(B, A, r)
    BY <2>1, <2>2 DEF Continues
  <2>4. QED
    BY <2>3, ContinuesIs
<1>14. C = B \o t
  <2>1. /\ IsSeq(B) /\ IsSeq(C) /\ IsSeq(t)
        /\ Len(C) = Len(B) + Len(t) /\ \A x \in 1..Len(B) : C[x] = B[x]
    BY <1>1, <1>11, <1>12
  <2>2. ASSUME NEW x \in 1..Len(t) PROVE C[Len(B) + x] = t[x]
    <3>1. x \in 1..lw /\ Len(B) + x = a + (c + x) /\ a + (c + x) \in 1..(a + (c + lw))
      BY <1>1, <1>11, <1>12
    <3>2. QED
      BY <1>11, <1>12, <3>1
  <2>3. Continues(C, B, t)
    BY <2>1, <2>2 DEF Continues
  <2>4. QED
    BY <2>3, ContinuesIs
<1>15. Tree!MergedRow(ps, m)
         = Taken((A \o Tree!FlattenSeq(F)) \o SubSeq(Tree!Last(ps).nodes, u + 1, u + lw),
                 fs, s, u, lw, a, (c + w) + Tree!LastPadding(m))
  BY <1>5, <1>6, MergedRowIs DEF F
<1>16. Tree!FlattenSeq(F) = r /\ SubSeq(Tree!Last(ps).nodes, u + 1, u + lw) = t
  <2>1. Tree!FlattenSeq(F) = r
    BY TreeSequences DEF r
  <2>2. Tree!Last(ps) = ps[n]
    BY <1>7, TreeSequences
  <2>3. QED
    BY <2>1, <2>2, Zenon DEF t, LastTake, ps, u, lw
<1>17. (c + w) + Tree!LastPadding(m) = c + lw
  BY <1>1, <1>6
<1>18. Tree!MergedRow(ps, m) = Taken(C, fs, s, u, lw, a, c + lw)
  BY <1>13, <1>14, <1>15, <1>16, <1>17
<1>19. QED
  BY <1>18, Zenon DEF ps, m, After, C, fs, s, u, lw, a, c

\* Then it goes to the row above.
LEMMA RoundClimbs ==
  ASSUME NEW d, NEW e, NEW n, IsCut(d, e, n), n > 1, NEW h \in 0..e, h < e
  PROVE  Tree!RowAbove(After(d, e, n, h)) = Before(d, e, n, h + 1)
<1> DEFINE p == Piece(n, n, Size(e))
           q == Piece(1, n, Size(e))
           s == Size(e - h)
           x == Size(e - (h + 1))
           c == (n - 1) * s
           w == LastRow(d, e, n, h).width
           W == WholeRow(h).width
           lw == LastHeld(d, e, n, h)
           u == LastRow(d, e, n, h).start
           fs == FullStart(d, e, n, h)
           a == WholeRow(h).start
<1>1. /\ a \in Nat /\ c \in Nat /\ s \in Nat /\ lw \in Nat /\ w \in Nat /\ u \in Nat /\ fs \in Nat
      /\ c + lw = Tree!EvenUp(W)
  BY RowNumbers
<1>2. /\ e \in Nat /\ d \in Nat /\ TreeDepth \in Nat /\ e <= d /\ e <= TreeDepth
      /\ IsSeq(leafs) /\ n \in Nat \ {0} /\ n \in 1..n /\ 1 \in 1..n
      /\ IsSeq(p) /\ IsSeq(q)
  BY CutIs
<1>3. /\ h \in 0..d /\ h < d /\ h \in 0..TreeDepth /\ h < TreeDepth /\ h + 1 \in 0..e
      /\ e - (h + 1) \in Nat /\ (e - (h + 1)) + 1 = e - h
  BY <1>2
<1>4. s = 2 * x /\ x \in Nat
  BY <1>3, TwoToDef, TwoToNat DEF Size
<1>5. /\ Grows(LastRow(d, e, n, h), h, LastRow(d, e, n, h + 1))
      /\ Grows(WholeRow(h), h, WholeRow(h + 1))
      /\ Grows(RowOf(d, q, h), h, RowOf(d, q, h + 1))
  BY <1>2, <1>3, HeldIs DEF LastRow, WholeRow
<1>6. lw = Tree!EvenUp(w)
  BY DEF LastHeld
<1>7. RowOf(d, q, h).width = s
  BY <1>2, FullRows
<1>8. /\ u + lw = LastRow(d, e, n, h + 1).start
      /\ lw \div 2 = LastRow(d, e, n, h + 1).width
      /\ a + (c + lw) = WholeRow(h + 1).start
      /\ (c + lw) \div 2 = WholeRow(h + 1).width
  BY <1>1, <1>5, <1>6 DEF Grows
<1>9. fs + s = FullStart(d, e, n, h + 1)
  <2>1. Tree!EvenUp(s) = s
    BY <1>4, HalfRow
  <2>2. QED
    BY <1>5, <1>7, <2>1 DEF Grows, FullStart
<1>10. s \div 2 = x
  BY <1>4, HalfRow
<1>11. WholeRow(h + 1).width = (n - 1) * x + LastRow(d, e, n, h + 1).width
  BY <1>3, CutRows DEF WholeRow, LastRow
<1> DEFINE C == SubSeq(AllNodes, 1, a + (c + lw))
<1>12. After(d, e, n, h) = Taken(C, fs, s, u, lw, a, c + lw)
  BY Zenon DEF After
<1> HIDE DEF C, fs, s, u, lw, a, c, x
<1>13. Tree!RowAbove(After(d, e, n, h))
         = Taken(C, fs + s, s \div 2, u + lw, lw \div 2, a + (c + lw), (c + lw) \div 2)
  BY <1>12, RowAboveIs
<1>14. C = SubSeq(AllNodes, 1, WholeRow(h + 1).start)
  BY <1>8 DEF C
<1>15. Tree!RowAbove(After(d, e, n, h))
         = Taken(SubSeq(AllNodes, 1, WholeRow(h + 1).start), FullStart(d, e, n, h + 1), x,
                 LastRow(d, e, n, h + 1).start, LastRow(d, e, n, h + 1).width,
                 WholeRow(h + 1).start, (n - 1) * x + LastRow(d, e, n, h + 1).width)
  BY <1>8, <1>9, <1>10, <1>11, <1>13, <1>14
<1>16. QED
  BY <1>15, Zenon DEF Before, x

\* The powers of two grow, so that a size has one height.
LEMMA Log2Is ==
  ASSUME NEW e \in Nat
  PROVE  Tree!Log2(Size(e)) = e
<1> DEFINE S == {k \in Nat : k <= Size(k) /\ \A i \in 0..k : i < k => Size(i) < Size(k)}
<1>1. Size(0) = 1 /\ \A k \in Nat : Size(k) \in Nat \ {0} /\ Size(k + 1) = 2 * Size(k)
  BY TwoToDef, TwoToNat DEF Size
<1>2. 0 \in S
  BY <1>1
<1>3. ASSUME NEW k \in Nat, k \in S PROVE k + 1 \in S
  <2>1. k <= Size(k) /\ Size(k) \in Nat \ {0} /\ Size(k + 1) = 2 * Size(k)
    BY <1>1, <1>3
  <2>2. k + 1 <= Size(k + 1)
    BY <2>1
  <2>3. ASSUME NEW i \in 0..(k + 1), i < k + 1 PROVE Size(i) < Size(k + 1)
    <3>1. Size(i) \in Nat /\ i \in 0..k
      BY <1>1, <2>3
    <3>2. Size(i) <= Size(k)
      <4>1. CASE i < k
        <5>1. Size(i) < Size(k)
          BY <1>3, <3>1, <4>1
        <5>2. QED
          BY <2>1, <3>1, <5>1
      <4>2. CASE ~(i < k)
        <5>1. i = k
          BY <3>1, <4>2
        <5>2. QED
          BY <2>1, <5>1
      <4>3. QED
        BY <4>1, <4>2
    <3>3. QED
      BY <2>1, <3>1, <3>2
  <2>4. QED
    BY <2>2, <2>3
<1>4. \A k \in Nat : k \in S
  <2> HIDE DEF S
  <2>1. QED
    BY <1>2, <1>3, Induction
<1>5. e \in 0..Size(e) /\ Tree!TwoTo[e] = Size(e)
  BY <1>1, <1>4 DEF Size
<1>6. ASSUME NEW k \in 0..Size(e), Size(k) = Size(e) PROVE k = e
  <2>1. k \in Nat /\ Size(k) \in Nat /\ Size(e) \in Nat
    BY <1>1
  <2>2. ~(k < e) /\ ~(e < k)
    BY <1>4, <1>6, <2>1
  <2>3. QED
    BY <2>1, <2>2
<1>7. \A k \in 0..Size(e) : Tree!TwoTo[k] = Size(e) <=> k = e
  BY <1>5, <1>6 DEF Size
<1>8. QED
  BY <1>5, <1>7 DEF Tree!Log2

\* What merge starts its rounds with.
StartOf(subtrees) ==
  LET size == subtrees[1].leaf_count
      last == subtrees[Len(subtrees)].leaf_count
  IN  Taken(<<>>, 0, size, 0, last, 0, (Len(subtrees) - 1) * size + last)

TopOf(subtrees) ==
  LET levels == Tree!Log2(subtrees[1].leaf_count)
  IN  Rounds(subtrees, StartOf(subtrees), levels)[levels]

\* merge completes what its last round leaves.
LEMMA MergeIs ==
  ASSUME NEW depth, NEW subtrees, subtrees # <<>>, Len(subtrees) # 1
  PROVE  Tree!Merge(depth, subtrees)
           = Tree!Complete(depth, [nodes |-> TopOf(subtrees).nodes, start |-> TopOf(subtrees).start,
                                   width |-> TopOf(subtrees).width],
                           Tree!Log2(subtrees[1].leaf_count),
                           (Len(subtrees) - 1) * subtrees[1].leaf_count
                             + subtrees[Len(subtrees)].leaf_count)
<1>1. Tree!Last(subtrees) = subtrees[Len(subtrees)]
  BY TreeSequences
<1>2. QED
  BY <1>1, Zenon DEF Tree!Merge, TopOf, StartOf, Rounds, Taken

\* It starts with the leafs' row.
LEMMA StartIs ==
  ASSUME NEW d, NEW e, NEW n, IsCut(d, e, n), n > 1
  PROVE  /\ StartOf(Pieces(d, e, n)) = Before(d, e, n, 0)
         /\ Pieces(d, e, n)[1].leaf_count = Size(e)
         /\ (n - 1) * Size(e) + Pieces(d, e, n)[n].leaf_count = Len(leafs)
<1> DEFINE ps == Pieces(d, e, n)
           p == Piece(n, n, Size(e))
           q == Piece(1, n, Size(e))
<1>1. /\ e \in Nat /\ d \in Nat /\ TreeDepth \in Nat /\ IsSeq(leafs)
      /\ n \in Nat \ {0} /\ n \in 1..n /\ 1 \in 1..n /\ 1 < n /\ IsSeq(p) /\ IsSeq(q)
  BY CutIs
<1>2. Len(q) = Size(e) /\ (n - 1) * Size(e) + Len(p) = Len(leafs)
  <2>1. Len(q) = Size(e)
    BY <1>1, PieceIs
  <2>2. (n - 1) * Size(e) + Len(p) = Len(leafs)
    BY <1>1, PieceIs
  <2>3. QED
    BY <2>1, <2>2
<1>3. /\ Len(ps) = n /\ ps[1].leaf_count = Len(q) /\ ps[n].leaf_count = Len(p)
  BY <1>1, PiecesAre
<1>4. RowOf(d, q, 0) = FirstRow(q) /\ RowOf(d, p, 0) = FirstRow(p) /\ WholeRow(0) = FirstRow(leafs)
  BY <1>1, RowOfIs DEF WholeRow
<1>5. /\ FullStart(d, e, n, 0) = 0 /\ LastRow(d, e, n, 0).start = 0
      /\ LastRow(d, e, n, 0).width = Len(p) /\ WholeRow(0).start = 0 /\ e - 0 = e
  BY <1>1, <1>4 DEF FullStart, LastRow, FirstRow
<1>6. SubSeq(AllNodes, 1, 0) = <<>>
  BY SMT
<1> HIDE DEF ps, p, q
<1>7. StartOf(ps) = Taken(<<>>, 0, Size(e), 0, Len(p), 0, (n - 1) * Size(e) + Len(p))
  BY <1>2, <1>3 DEF StartOf
<1>8. Before(d, e, n, 0) = Taken(<<>>, 0, Size(e), 0, Len(p), 0, (n - 1) * Size(e) + Len(p))
  BY <1>5, <1>6, Zenon DEF Before
<1>9. QED
  BY <1>2, <1>3, <1>7, <1>8 DEF ps

\* Round by round it takes the rows of the tree.
LEMMA RoundsAre ==
  ASSUME NEW d, NEW e, NEW n, IsCut(d, e, n), n > 1
  PROVE  TopOf(Pieces(d, e, n)) = After(d, e, n, e)
<1> DEFINE ps == Pieces(d, e, n)
           r == Rounds(ps, Before(d, e, n, 0), e)
           S == {h \in Nat : h <= e => r[h] = After(d, e, n, h)}
<1>1. e \in Nat
  BY CutIs
<1>2. TopOf(ps) = r[e]
  <2>1. Tree!Log2(ps[1].leaf_count) = e /\ StartOf(ps) = Before(d, e, n, 0)
    BY <1>1, StartIs, Log2Is
  <2> HIDE DEF ps
  <2>2. QED
    BY <2>1 DEF TopOf
<1> HIDE DEF r
<1>3. /\ r[0] = Tree!MergedRow(ps, Before(d, e, n, 0))
      /\ \A i \in 0..e : i > 0 => r[i] = Tree!MergedRow(ps, Tree!RowAbove(r[i - 1]))
  BY <1>1, RoundsDef DEF r
<1>4. 0 \in S
  <2>1. 0 \in 0..e
    BY <1>1
  <2>2. QED
    BY <1>3, <2>1, RoundTakes
<1>5. ASSUME NEW h \in Nat, h \in S PROVE h + 1 \in S
  <2>1. SUFFICES ASSUME h + 1 <= e PROVE r[h + 1] = After(d, e, n, h + 1)
    OBVIOUS
  <2>2. h \in 0..e /\ h < e /\ h + 1 \in 0..e /\ h + 1 > 0 /\ (h + 1) - 1 = h
    BY <1>1, <2>1
  <2>3. r[h] = After(d, e, n, h)
    BY <1>5, <2>2
  <2>4. r[h + 1] = Tree!MergedRow(ps, Tree!RowAbove(r[h]))
    BY <1>3, <2>2
  <2>5. Tree!RowAbove(After(d, e, n, h)) = Before(d, e, n, h + 1)
    BY <2>2, RoundClimbs
  <2>6. Tree!MergedRow(ps, Before(d, e, n, h + 1)) = After(d, e, n, h + 1)
    BY <2>2, RoundTakes
  <2> HIDE DEF ps
  <2>7. QED
    BY <2>3, <2>4, <2>5, <2>6
<1>6. \A h \in Nat : h \in S
  <2> HIDE DEF S
  <2>1. QED
    BY <1>4, <1>5, Induction
<1>7. QED
  BY <1>1, <1>2, <1>6

\* A row is the record of its parts.
LEMMA RowRecord ==
  ASSUME NEW depth \in Nat, NEW L, IsSeq(L), NEW h \in 0..depth
  PROVE  RowOf(depth, L, h) = [nodes |-> RowOf(depth, L, h).nodes,
                               start |-> RowOf(depth, L, h).start,
                               width |-> RowOf(depth, L, h).width]
<1>1. CASE h = 0
  <2>1. RowOf(depth, L, h) = FirstRow(L)
    BY <1>1, RowOfIs, SMTT(30)
  <2>2. QED
    BY <2>1 DEF FirstRow
<1>2. CASE h # 0
  <2>1. h - 1 \in 0..depth /\ h - 1 < depth /\ (h - 1) + 1 = h
    BY <1>2
  <2>2. RowOf(depth, L, h) = Tree!Row(RowOf(depth, L, h - 1), h - 1)
    BY <2>1, RowOfIs
  <2>3. QED
    BY <2>2 DEF Tree!Row
<1>3. QED
  BY <1>1, <1>2

\* After the last round it has the row at the roots of the full pieces.
LEMMA TopIs ==
  ASSUME NEW d, NEW e, NEW n, IsCut(d, e, n), n > 1
  PROVE  WholeRow(e) = [nodes |-> After(d, e, n, e).nodes, start |-> After(d, e, n, e).start,
                        width |-> After(d, e, n, e).width]
<1> DEFINE R == WholeRow(e)
           a == R.start
           w == R.width
           b == a + w
           m == SubSeq(AllNodes, 1, b)
<1>1. /\ e \in Nat /\ TreeDepth \in Nat /\ e \in 0..e /\ e \in 0..TreeDepth
      /\ TreeDepth \in e..TreeDepth /\ TreeDepth \in 0..TreeDepth /\ IsSeq(leafs)
  BY CutIs
<1>2. LastHeld(d, e, n, e) = LastRow(d, e, n, e).width
  BY <1>1 DEF LastHeld
<1>3. /\ a \in Nat /\ w = (n - 1) * Size(e - e) + LastHeld(d, e, n, e)
      /\ a + ((n - 1) * Size(e - e) + LastHeld(d, e, n, e)) <= Len(AllNodes)
  BY <1>1, <1>2, RowNumbers
<1>4. IsRow(R) /\ IsRow(WholeRow(TreeDepth))
  BY <1>1, HeldIs DEF WholeRow
<1>5. IsSeq(R.nodes) /\ Len(R.nodes) = b /\ b \in Nat /\ IsSeq(AllNodes) /\ b <= Len(AllNodes)
  BY <1>3, <1>4 DEF IsRow, AllNodes, WholeRow
<1>6. IsSeq(m) /\ Len(m) = b /\ \A j \in 1..b : m[j] = AllNodes[j]
  <2>1. ASSUME NEW c \in Nat, c <= Len(AllNodes)
        PROVE  /\ IsSeq(SubSeq(AllNodes, 1, c)) /\ Len(SubSeq(AllNodes, 1, c)) = c
               /\ \A j \in 1..c : SubSeq(AllNodes, 1, c)[j] = AllNodes[j]
    <3>1. /\ IsSeq(SubSeq(AllNodes, 0 + 1, 0 + c)) /\ Len(SubSeq(AllNodes, 0 + 1, 0 + c)) = c
          /\ \A j \in 1..c : SubSeq(AllNodes, 0 + 1, 0 + c)[j] = AllNodes[0 + j]
      BY <1>5, <2>1, PartIs, 0 \in Nat, 0 + c = c
    <3>2. 0 + 1 = 1 /\ 0 + c = c /\ \A j \in 1..c : 0 + j = j
      OBVIOUS
    <3>3. QED
      BY <3>1, <3>2
  <2> HIDE DEF b
  <2>2. QED
    BY <1>5, <2>1
<1>7. \A j \in 1..b : AllNodes[j] = R.nodes[j]
  BY <1>1, <1>5, RowsKeep DEF AllNodes, WholeRow
<1> HIDE DEF b, m
<1>8. m = R.nodes
  <2>1. DOMAIN m = 1..b /\ DOMAIN R.nodes = 1..b
    BY <1>5, <1>6, IsSeqLength
  <2>2. QED
    BY <1>5, <1>6, <1>7, <2>1, SameSeq
<1>9. After(d, e, n, e).nodes = m /\ After(d, e, n, e).start = a /\ After(d, e, n, e).width = w
  BY <1>3, Zenon DEF After, Taken, m, b
<1>10. R = [nodes |-> R.nodes, start |-> R.start, width |-> R.width]
  BY <1>1, RowRecord DEF WholeRow
<1> HIDE DEF R, a, w
<1>11. QED
  BY <1>8, <1>9, <1>10 DEF R, a, w

\* complete, started at a row of new, ends as new does.
LEMMA CompleteFrom ==
  ASSUME NEW depth \in Nat, NEW L, IsSeq(L), NEW e \in 0..depth
  PROVE  Tree!Complete(depth, RowOf(depth, L, e), e, Len(L)) = Tree!New(depth, L)
<1> DEFINE t == RowOf(depth, L, e)
           r == Rows(depth, t, e)
<1> HIDE DEF t, r
<1>1. /\ Tree!Complete(depth, t, e, Len(L))
           = [nodes |-> r[depth].nodes, leaf_count |-> Len(L), depth |-> depth]
      /\ r[e] = t
      /\ \A i \in 0..depth : i > e => r[i] = Tree!Row(r[i - 1], i - 1)
  <2>1. e \in Nat /\ e <= e
    OBVIOUS
  <2>2. PICK n : n = Len(L)
    OBVIOUS
  <2>3. ASSUME NEW u
        PROVE  Tree!Complete(depth, u, e, n)
                 = [nodes |-> Rows(depth, u, e)[depth].nodes, leaf_count |-> n, depth |-> depth]
    BY <2>1, RowsDef
  <2>4. ASSUME NEW u
        PROVE  \A i \in 0..depth : i <= e => Rows(depth, u, e)[i] = u
    BY <2>1, RowsDef
  <2>5. ASSUME NEW u
        PROVE  \A i \in 0..depth :
                 i > e => Rows(depth, u, e)[i] = Tree!Row(Rows(depth, u, e)[i - 1], i - 1)
    BY <2>1, RowsDef
  <2>6. Tree!Complete(depth, t, e, n) = [nodes |-> r[depth].nodes, leaf_count |-> n, depth |-> depth]
    BY <2>3, Zenon DEF r
  <2>7. r[e] = t
    BY <2>1, <2>4, Zenon DEF r
  <2>8. \A i \in 0..depth : i > e => r[i] = Tree!Row(r[i - 1], i - 1)
    BY <2>5, Zenon DEF r
  <2>9. QED
    BY <2>2, <2>6, <2>7, <2>8, Zenon
<1> DEFINE S == {k \in Nat : e + k <= depth => r[e + k] = RowOf(depth, L, e + k)}
<1>2. 0 \in S
  BY <1>1 DEF t
<1>3. ASSUME NEW k \in Nat, k \in S PROVE k + 1 \in S
  <2>1. SUFFICES ASSUME e + (k + 1) <= depth PROVE r[e + (k + 1)] = RowOf(depth, L, e + (k + 1))
    OBVIOUS
  <2> DEFINE i == e + k
  <2>2. /\ i \in 0..depth /\ i < depth /\ i + 1 \in 0..depth /\ i + 1 > e /\ (i + 1) - 1 = i
        /\ e + (k + 1) = i + 1 /\ r[i] = RowOf(depth, L, i)
    BY <1>3, <2>1
  <2> HIDE DEF i
  <2>3. r[i + 1] = Tree!Row(r[i], i)
    BY <1>1, <2>2
  <2>4. RowOf(depth, L, i + 1) = Tree!Row(RowOf(depth, L, i), i)
    BY <2>2, RowOfIs
  <2>5. QED
    BY <2>2, <2>3, <2>4
<1>4. \A k \in Nat : k \in S
  <2> HIDE DEF S
  <2>1. QED
    BY <1>2, <1>3, Induction
<1>5. r[depth] = RowOf(depth, L, depth)
  <2>1. depth - e \in Nat /\ e + (depth - e) = depth
    OBVIOUS
  <2>2. QED
    BY <1>4, <2>1
<1>6. Tree!New(depth, L)
        = [nodes |-> RowOf(depth, L, depth).nodes, leaf_count |-> Len(L), depth |-> depth]
  BY RowOfIs
<1>7. QED
  BY <1>1, <1>5, <1>6 DEF t

\* Merging the trees of the pieces makes the tree of them all.
LEMMA MergeOfPieces ==
  ASSUME NEW d, NEW e, NEW n, IsCut(d, e, n), n > 1 \/ d = TreeDepth
  PROVE  Tree!Merge(TreeDepth, Pieces(d, e, n)) = Tree!New(TreeDepth, leafs)
<1> DEFINE ps == Pieces(d, e, n)
<1>1. /\ e \in Nat /\ TreeDepth \in Nat /\ e \in 0..TreeDepth /\ n \in Nat \ {0} /\ IsSeq(leafs)
      /\ n \in 1..n /\ Len(leafs) \in Nat
  BY CutIs
<1>2. Len(ps) = n
  BY PiecesAre
<1> HIDE DEF ps
<1>3. ps # <<>>
  BY <1>1, <1>2
<1>4. CASE n > 1
  <2>1. Len(ps) # 1
    BY <1>1, <1>2, <1>4
  <2>2. ps[1].leaf_count = Size(e) /\ (n - 1) * Size(e) + ps[n].leaf_count = Len(leafs)
    BY <1>4, StartIs DEF ps
  <2>3. Tree!Log2(Size(e)) = e
    BY <1>1, Log2Is
  <2>4. TopOf(ps) = After(d, e, n, e)
    BY <1>4, RoundsAre DEF ps
  <2>5. WholeRow(e) = [nodes |-> After(d, e, n, e).nodes, start |-> After(d, e, n, e).start,
                       width |-> After(d, e, n, e).width]
    BY <1>4, TopIs
  <2>6. Tree!Merge(TreeDepth, ps)
          = Tree!Complete(TreeDepth, [nodes |-> TopOf(ps).nodes, start |-> TopOf(ps).start,
                                      width |-> TopOf(ps).width],
                          Tree!Log2(ps[1].leaf_count),
                          (Len(ps) - 1) * ps[1].leaf_count + ps[Len(ps)].leaf_count)
    BY <1>3, <2>1, MergeIs
  <2>7. Tree!Merge(TreeDepth, ps) = Tree!Complete(TreeDepth, WholeRow(e), e, Len(leafs))
    BY <1>2, <2>2, <2>3, <2>4, <2>5, <2>6
  <2>8. QED
    BY <1>1, <2>7, CompleteFrom DEF WholeRow, ps
<1>5. CASE ~(n > 1)
  <2>1. n = 1 /\ d = TreeDepth
    BY <1>1, <1>5
  <2>2. ps[1] = Tree!New(d, Piece(1, n, Size(e)))
    BY <1>1, <2>1, PiecesAre DEF ps
  <2>3. Piece(1, n, Size(e)) = leafs
    <3> DEFINE p == Piece(1, n, Size(e))
    <3>1. Size(e) \in Nat
      BY <1>1, TwoToNat DEF Size
    <3>2. IsSeq(p) /\ (1 - 1) * Size(e) + Len(p) = Len(leafs)
          /\ \A j \in 1..Len(p) : p[j] = leafs[(1 - 1) * Size(e) + j]
      BY <1>1, <2>1, PieceIs
    <3> HIDE DEF p
    <3>3. Len(p) \in Nat /\ (1 - 1) * Size(e) = 0
      BY <3>1, <3>2, IsSeqLength
    <3>4. Len(p) = Len(leafs) /\ \A j \in 1..Len(p) : p[j] = leafs[j]
      BY <1>1, <3>2, <3>3
    <3>5. p = leafs
      BY <1>1, <3>2, <3>4, SameSeq
    <3>6. QED
      BY <3>5 DEF p
  <2>4. Tree!Merge(TreeDepth, ps) = ps[1]
    BY <1>2, <1>3, <2>1 DEF Tree!Merge
  <2>5. QED
    BY <2>1, <2>2, <2>3, <2>4 DEF ps
<1>6. QED
  BY <1>4, <1>5

\* For every depth, every number of commitments that fits it, every power of two
\* and every way to cut the commitments in pieces of that size, the tree that
\* merge (merkle.rs:176) makes of the trees of the pieces is, node for node, the
\* one that new (merkle.rs:55) builds of all commitments.
THEOREM MergeRebuildsHolds == Spec => []MergeRebuilds
<1>1. ASSUME TreesInv PROVE MergeRebuilds
  <2>1. tree = Tree!New(TreeDepth, leafs) /\ IsSeq(leafs) /\ TreeDepth \in Nat
    BY <1>1, TransactionBuilderAssumption
       DEF TreesInv, TreeOK, HasRoom, TransactionBuilderAssumption
  <2>2. ASSUME NEW e \in 0..TreeDepth, NEW n \in Cuts(Tree!TwoTo[e]), NEW depth \in e..TreeDepth,
               n > 1 \/ depth = TreeDepth
        PROVE  Tree!Merge(TreeDepth,
                          [i \in 1..n |-> Tree!New(depth, Piece(i, n, Tree!TwoTo[e]))]) = tree
    <3>1. IsCut(depth, e, n)
      BY <2>1, <2>2 DEF IsCut, Size
    <3>2. Tree!Merge(TreeDepth, Pieces(depth, e, n)) = tree
      BY <2>1, <2>2, <3>1, MergeOfPieces
    <3>3. QED
      BY <3>2, Zenon DEF Pieces, Size
  <2>3. QED
    BY <2>2, Zenon DEF MergeRebuilds
<1>2. QED
  BY <1>1, TreesInvariant, PTL
=============================================================================
