--------------------- MODULE ThreadedAggregator_proofs ---------------------
(***************************************************************************)
(* Proof that ThreadedAggregator implements AggregatorContract, for any    *)
(* number and any sizes of batches and any length of the channels: a batch *)
(* is in one place at a time, so it is answered at most once, under its    *)
(* own id and with its own root, also if the worker dies. The size of the  *)
(* outer aggregator is what is in flight, and no result is forgotten.      *)
(***************************************************************************)
EXTENDS ThreadedAggregator, SequenceLemmas

-----------------------------------------------------------------------------
(* The inductive invariant: where a batch may be, and what is known of it    *)
(* there.                                                                    *)

\* The batches that the worker has taken over and not answered.
Working == {batch_aliases[i] : i \in DOMAIN batch_aliases}

Asked ==
  /\ IsSeq(asked) /\ Len(asked) <= MaxBatches
  /\ \A id \in DOMAIN asked : \E n \in Sizes : asked[id] = Leaves(id, n)
  /\ DOMAIN given \subseteq DOMAIN asked

RequestsOK ==
  /\ Listed(requests)
  /\ \A r \in ToSet(requests) :
       /\ Bears(r) <=> r.type = "PushInternalProofs"
       /\ Bears(r) => r.id \in DOMAIN asked /\ r.proofs = BatchOf(asked[r.id])

\* The worker's ids and those of the caller correspond one to one.
AliasesOK ==
  /\ next_inner_id \in Nat
  /\ \A i \in DOMAIN batch_aliases :
       i \in Nat /\ i < next_inner_id /\ batch_aliases[i] \in DOMAIN asked
  /\ \A i, j \in DOMAIN batch_aliases : batch_aliases[i] = batch_aliases[j] => i = j

InnerOK ==
  /\ Listed(internal_queue) /\ Listed(completed_proofs)
  /\ \A b \in ToSet(internal_queue) :
       /\ Bears(b) /\ b.id \in DOMAIN batch_aliases
       /\ b.proofs = BatchOf(asked[batch_aliases[b.id]])
  /\ \A c \in ToSet(completed_proofs) :
       /\ Bears(c) /\ c.id \in DOMAIN batch_aliases
       /\ c.node = asked[batch_aliases[c.id]]
  /\ Ids(internal_queue) \cap Ids(completed_proofs) = {}

ResponsesOK ==
  /\ Listed(responses)
  /\ \A r \in ToSet(responses) :
       /\ Bears(r) <=> r.type = "RecursiveProof"
       /\ Bears(r) => r.id \in DOMAIN asked /\ r.node = asked[r.id]

AnswersOK ==
  /\ Listed(recursive_proofs)
  /\ \A r \in ToSet(recursive_proofs) :
       Bears(r) /\ r.id \in DOMAIN asked /\ r.node = asked[r.id]

\* A batch is in one place at most.
OnePlace ==
  /\ Ids(requests) \cap (Working \cup Ids(responses) \cup Ids(recursive_proofs) \cup DOMAIN given)
       = {}
  /\ Working \cap (Ids(responses) \cup Ids(recursive_proofs) \cup DOMAIN given) = {}
  /\ Ids(responses) \cap (Ids(recursive_proofs) \cup DOMAIN given) = {}
  /\ Ids(recursive_proofs) \cap DOMAIN given = {}

IInv == Asked /\ RequestsOK /\ AliasesOK /\ InnerOK /\ ResponsesOK /\ AnswersOK /\ OnePlace

ContractStep == [Contract!Next]_<<asked, given>>

-----------------------------------------------------------------------------
(* What the sizes add up to, and what a size of zero tells. *)

\* The proofs that the worker took over and has not reported yet.
Unreported == IF worker \in {"report", "size"} THEN internal_proofs_pushed ELSE 0

InTransit == InFlight(requests) + InFlight(responses) + Unreported

SizesOK ==
  /\ parent \in {"ready", "syncing", "joining", "gone", "panicked", "drop_panicked"}
  /\ worker \in {"recv", "report", "size", "exited", "dead"}
  /\ outer_pending_queue_size \in Nat /\ inner_pending_queue_size \in Nat
  /\ internal_proofs_pushed \in Nat
  /\ \A r \in ToSet(requests) : r.type # "PendingQueueSize"
  /\ \A r \in ToSet(responses) :
       /\ r.type # "PushInternalProofs"
       /\ r.type = "PendingQueueSize" => r.delta \in Nat /\ r.size \in Nat
  /\ outer_pending_queue_size >= InTransit
  /\ parent # "panicked" => outer_pending_queue_size = InTransit

\* No batch is nowhere, except one that was pushed to a worker that was gone.
Somewhere ==
  parent # "panicked" =>
    DOMAIN asked \subseteq
      Ids(requests) \cup Working \cup Ids(responses) \cup Ids(recursive_proofs) \cup DOMAIN given

\* What the worker has taken over is in a queue of the inner aggregator, and its
\* results are sent before anything else happens.
WorkerOK ==
  /\ worker \in {"recv", "size", "exited"} => completed_proofs = <<>>
  /\ worker # "dead" => DOMAIN batch_aliases \subseteq Ids(internal_queue) \cup Ids(completed_proofs)

Reports(r) == r.type = "PendingQueueSize"

\* The worker reported an empty queue: as its k-th response from now, or in the
\* last one received.
ReportsEmpty(k) ==
  \/ k = 0 /\ inner_pending_queue_size = 0
  \/ k \in DOMAIN responses /\ Reports(responses[k]) /\ responses[k].size = 0

\* It took over nothing after that.
NothingTaken(k) ==
  /\ Unreported = 0
  /\ \A j \in DOMAIN responses : j > k /\ Reports(responses[j]) => responses[j].delta = 0

EmptyMeansDone ==
  \A k \in 0..Len(responses) :
    ReportsEmpty(k) /\ NothingTaken(k) =>
      Working = {} /\ \A j \in DOMAIN responses : j > k => ~Bears(responses[j])

SInv == SizesOK /\ Somewhere /\ WorkerOK /\ EmptyMeansDone

-----------------------------------------------------------------------------
(* Steps. *)

LEMMA InitOK == Init => IInv /\ Contract!Init
<1> SUFFICES ASSUME Init PROVE IInv /\ Contract!Init
  OBVIOUS
<1>1. Working = {} /\ DOMAIN given = {} /\ DOMAIN asked = {} /\ Len(asked) = 0
  BY DEF Init, Working
<1>2. QED
  BY <1>1, EmptyIds, ThreadedAssumption DEF Init, IInv, Asked, Listed, RequestsOK, AliasesOK,
     InnerOK, ResponsesOK, AnswersOK, OnePlace, Contract!Init, ThreadedAssumption

\* Nothing moves.
LEMMA QuietOK ==
  ASSUME IInv,
         UNCHANGED <<caller, recursive_proofs, requests, responses, batch_aliases, inner>>
  PROVE  IInv' /\ ContractStep
BY DEF caller, inner, IInv, Asked, Listed, RequestsOK, AliasesOK, InnerOK, ResponsesOK,
   AnswersOK, OnePlace, Working, ContractStep

\* A request without a batch, or none because the worker is gone.
LEMMA TellOK ==
  ASSUME IInv, NEW e, ~Bears(e), e.type # "PushInternalProofs",
         requests' = Append(requests, e) \/ UNCHANGED requests,
         UNCHANGED <<caller, recursive_proofs, responses, batch_aliases, inner>>
  PROVE  IInv' /\ ContractStep
<1>1. CASE UNCHANGED requests
  BY <1>1, QuietOK
<1>2. CASE requests' = Append(requests, e)
  <2>1. Listed(requests)' /\ ToSet(requests') = ToSet(requests) \cup {e}
        /\ Ids(requests)' = Ids(requests)
    BY <1>2, AppendIds DEF IInv, RequestsOK, Listed
  <2>2. RequestsOK'
    BY <2>1 DEF IInv, RequestsOK, caller
  <2>3. QED
    BY <2>1, <2>2 DEF caller, inner, IInv, Asked, Listed, AliasesOK, InnerOK, ResponsesOK,
       AnswersOK, OnePlace, Working, ContractStep
<1>3. QED
  BY <1>1, <1>2

\* A response without an answer.
LEMMA ReportOK ==
  ASSUME IInv, NEW e, ~Bears(e), e.type # "RecursiveProof",
         responses' = Append(responses, e),
         UNCHANGED <<caller, recursive_proofs, requests, batch_aliases, inner>>
  PROVE  IInv' /\ ContractStep
<1>1. Listed(responses)' /\ ToSet(responses') = ToSet(responses) \cup {e}
      /\ Ids(responses)' = Ids(responses)
  BY AppendIds DEF IInv, ResponsesOK, Listed
<1>2. ResponsesOK'
  BY <1>1 DEF IInv, ResponsesOK, caller
<1>3. QED
  BY <1>1, <1>2 DEF caller, inner, IInv, Asked, Listed, AliasesOK, InnerOK, RequestsOK,
     AnswersOK, OnePlace, Working, ContractStep

\* A request is taken that moves no batch to the worker.
LEMMA DropRequestOK ==
  ASSUME IInv, requests # <<>>, requests' = Tail(requests), ~Bears(Head(requests)),
         UNCHANGED <<caller, recursive_proofs, responses, batch_aliases, inner>>
  PROVE  IInv' /\ ContractStep
<1>1. Listed(requests)' /\ ToSet(requests') \subseteq ToSet(requests)
      /\ Ids(requests)' = Ids(requests)
  BY HeadIds DEF IInv, RequestsOK, Listed
<1>2. RequestsOK'
  BY <1>1 DEF IInv, RequestsOK, caller
<1>3. QED
  BY <1>1, <1>2 DEF caller, inner, IInv, Asked, Listed, AliasesOK, InnerOK, ResponsesOK,
     AnswersOK, OnePlace, Working, ContractStep

\* What is known of a batch stays known when another one is pushed.
LEMMA PushOK ==
  ASSUME IInv, NEW n \in Sizes, Push(n)
  PROVE  IInv' /\ ContractStep
<1> DEFINE id == Len(asked) + 1
           leaves == Leaves(id, n)
           e == PushInternalProofs(id, BatchOf(leaves))
<1>1. /\ asked' = Append(asked, leaves) /\ Len(asked) < MaxBatches
      /\ requests' = Append(requests, e) \/ UNCHANGED requests
      /\ UNCHANGED <<given, recursive_proofs, responses, batch_aliases, inner>>
  BY DEF Push, Send, workerVars
<1>2. IsSeq(asked) /\ DOMAIN asked = 1..Len(asked) /\ Len(asked) \in Nat
  <2>1. asked \in Seq(ToSet(asked))
    BY DEF IInv, Asked, IsSeq
  <2>2. QED
    BY <2>1, SeqIsSeq, LenProperties
<1>3. /\ IsSeq(asked') /\ Len(asked') = Len(asked) + 1
      /\ \A b \in DOMAIN asked : asked'[b] = asked[b]
      /\ asked'[id] = leaves
  BY <1>1, <1>2, AppendIsSeq
<1>4. DOMAIN asked' = DOMAIN asked \cup {id} /\ id \notin DOMAIN asked
  <2>1. asked' \in Seq(ToSet(asked'))
    BY <1>3 DEF IsSeq
  <2>2. DOMAIN asked' = 1..(Len(asked) + 1)
    BY <1>3, <2>1, SeqIsSeq
  <2>3. QED
    BY <1>2, <2>2
<1>5. asked' = With(asked, id, leaves)
  <2>1. asked' = [b \in DOMAIN asked' |-> asked'[b]]
    BY <1>1, <1>3 DEF IsSeq
  <2>2. QED
    BY <1>3, <1>4, <2>1 DEF With
<1> HIDE DEF leaves, id
<1>6. Asked'
  <2>1. Len(asked') <= MaxBatches
    BY <1>1, <1>2, <1>3, ThreadedAssumption DEF ThreadedAssumption
  <2>2. QED
    BY <1>1, <1>3, <1>4, <2>1 DEF IInv, Asked, leaves
<1>7. /\ AliasesOK' /\ InnerOK' /\ ResponsesOK' /\ AnswersOK'
      /\ Working' = Working /\ Ids(responses)' = Ids(responses)
      /\ Ids(recursive_proofs)' = Ids(recursive_proofs) /\ given' = given
  BY <1>1, <1>3, <1>4 DEF IInv, AliasesOK, InnerOK, ResponsesOK, AnswersOK, Working, inner, Listed
<1>8. id \notin Ids(requests) \cup Working \cup Ids(responses) \cup Ids(recursive_proofs)
                \cup DOMAIN given
  BY <1>4, IdsOf DEF IInv, Asked, RequestsOK, AliasesOK, ResponsesOK, AnswersOK, Working
<1>9. Bears(e) /\ e.id = id /\ e.type = "PushInternalProofs" /\ e.proofs = BatchOf(leaves)
  BY DEF PushInternalProofs, Bears
<1> HIDE DEF e
<1>10. /\ Listed(requests)' /\ ToSet(requests') \subseteq ToSet(requests) \cup {e}
       /\ Ids(requests') \subseteq Ids(requests) \cup {id}
  <2>1. Listed(requests) /\ e.id \notin Ids(requests)
    BY <1>8, <1>9 DEF IInv, RequestsOK
  <2>2. CASE requests' = Append(requests, e)
    BY <1>9, <2>1, <2>2, AppendIds DEF Listed
  <2>3. CASE UNCHANGED requests
    BY <2>1, <2>3 DEF Listed
  <2>4. QED
    BY <1>1, <2>2, <2>3
<1>11. RequestsOK'
  BY <1>3, <1>4, <1>9, <1>10 DEF IInv, RequestsOK
<1>12. OnePlace'
  BY <1>7, <1>8, <1>10 DEF IInv, OnePlace
<1>13. ContractStep
  <2>1. asked' = Contract!With(asked, id, Contract!Leaves(id, n))
    BY <1>5 DEF leaves, Contract!With, With, Contract!Leaves, Leaves, Contract!Leaf, Leaf
  <2>2. Contract!Push(n)
    BY <1>1, <1>4, <2>1 DEF Contract!Push
  <2>3. QED
    BY <2>2 DEF ContractStep, Contract!Next
<1>14. QED
  BY <1>6, <1>7, <1>11, <1>12, <1>13 DEF IInv

\* The caller gets an answer it has not got before.
LEMMA PopOK ==
  ASSUME IInv, Pop
  PROVE  IInv' /\ ContractStep
<1> DEFINE e == Head(recursive_proofs)
<1>1. /\ recursive_proofs # <<>> /\ recursive_proofs' = Tail(recursive_proofs)
      /\ given' = With(given, e.id, e.node)
      /\ UNCHANGED <<asked, requests, responses, batch_aliases, inner>>
  BY DEF Pop, workerVars
<1>2. /\ Listed(recursive_proofs)' /\ ToSet(recursive_proofs') \subseteq ToSet(recursive_proofs)
      /\ e \in ToSet(recursive_proofs)
      /\ Bears(e) => /\ e.id \in Ids(recursive_proofs)
                     /\ Ids(recursive_proofs') = Ids(recursive_proofs) \ {e.id}
  BY <1>1, HeadIds DEF IInv, AnswersOK, Listed
<1> HIDE DEF e
<1>3. Bears(e) /\ e.id \in DOMAIN asked /\ e.node = asked[e.id]
  BY <1>2 DEF IInv, AnswersOK
<1>4. DOMAIN given' = DOMAIN given \cup {e.id} /\ e.id \notin DOMAIN given
  BY <1>1, <1>2, <1>3 DEF With, IInv, OnePlace
<1>5. Asked' /\ AnswersOK'
  BY <1>1, <1>2, <1>3, <1>4 DEF IInv, Asked, AnswersOK
<1>6. RequestsOK' /\ AliasesOK' /\ InnerOK' /\ ResponsesOK'
  BY <1>1 DEF IInv, RequestsOK, AliasesOK, InnerOK, ResponsesOK, inner, Listed
<1>7. OnePlace'
  BY <1>1, <1>2, <1>3, <1>4 DEF IInv, OnePlace, Working
<1>8. ContractStep
  BY <1>1, <1>3, <1>4 DEF ContractStep, Contract!Next, Contract!Pop, Contract!With, With
<1>9. QED
  BY <1>5, <1>6, <1>7, <1>8 DEF IInv

LEMMA TryRecvOK ==
  ASSUME IInv, TryRecv
  PROVE  IInv' /\ ContractStep
<1> DEFINE e == Head(responses)
<1>1. /\ responses # <<>> /\ responses' = Tail(responses)
      /\ UNCHANGED <<caller, requests, batch_aliases, inner>>
      /\ \/ e.type \in {"PendingQueueSize", "ProofThroughput"} /\ UNCHANGED recursive_proofs
         \/ /\ e.type = "RecursiveProof"
            /\ recursive_proofs' = Append(recursive_proofs, [id |-> e.id, node |-> e.node])
  BY DEF TryRecv, ReceiveSize, ReceiveProof, workerVars, fields
<1>2. /\ Listed(responses)' /\ ToSet(responses') \subseteq ToSet(responses)
      /\ e \in ToSet(responses)
      /\ Bears(e) => e.id \in Ids(responses) /\ Ids(responses') = Ids(responses) \ {e.id}
      /\ ~Bears(e) => Ids(responses') = Ids(responses)
  BY <1>1, HeadIds DEF IInv, ResponsesOK, Listed
<1> HIDE DEF e
<1>3. /\ Bears(e) <=> e.type = "RecursiveProof"
      /\ Bears(e) => e.id \in DOMAIN asked /\ e.node = asked[e.id]
  BY <1>2 DEF IInv, ResponsesOK
<1>4. ResponsesOK' /\ Asked' /\ RequestsOK' /\ AliasesOK' /\ InnerOK' /\ ContractStep
  BY <1>1, <1>2 DEF IInv, Asked, RequestsOK, AliasesOK, InnerOK, ResponsesOK, caller, inner,
     Listed, ContractStep
<1>5. AnswersOK' /\ OnePlace'
  <2>1. CASE UNCHANGED recursive_proofs
    <3>1. Ids(responses') \subseteq Ids(responses)
      BY <1>2
    <3>2. QED
      BY <1>1, <2>1, <3>1 DEF IInv, AnswersOK, OnePlace, Working, caller, Listed
  <2>2. CASE /\ e.type = "RecursiveProof"
             /\ recursive_proofs' = Append(recursive_proofs, [id |-> e.id, node |-> e.node])
    <3> DEFINE a == [id |-> e.id, node |-> e.node]
    <3>1. Bears(a) /\ a.id = e.id /\ a.node = e.node
      BY DEF Bears
    <3>2. e.id \in Ids(responses) /\ Ids(responses') = Ids(responses) \ {e.id}
      BY <1>2, <1>3, <2>2
    <3>3. e.id \notin Ids(recursive_proofs)
      BY <3>2 DEF IInv, OnePlace
    <3> HIDE DEF a
    <3>4. /\ Listed(recursive_proofs)' /\ ToSet(recursive_proofs') = ToSet(recursive_proofs) \cup {a}
          /\ Ids(recursive_proofs') = Ids(recursive_proofs) \cup {e.id}
      <4>1. recursive_proofs' = Append(recursive_proofs, a)
        BY <2>2 DEF a
      <4>2. QED
        BY <3>1, <3>3, <4>1, AppendIds DEF IInv, AnswersOK, Listed
    <3>5. AnswersOK'
      BY <1>1, <1>3, <2>2, <3>1, <3>4 DEF IInv, AnswersOK, caller
    <3>6. OnePlace'
      BY <1>1, <3>2, <3>4 DEF IInv, OnePlace, Working, caller
    <3>7. QED
      BY <3>5, <3>6
  <2>3. QED
    BY <1>1, <2>1, <2>2
<1>6. QED
  BY <1>4, <1>5 DEF IInv

\* The worker gives a batch an id of its own.
LEMMA WorkerPushOK ==
  ASSUME IInv, requests # <<>>, requests' = Tail(requests), WorkerPush(Head(requests)),
         Head(requests).type = "PushInternalProofs",
         UNCHANGED <<caller, recursive_proofs, responses>>
  PROVE  IInv' /\ ContractStep
<1> DEFINE r == Head(requests)
           b == [id |-> next_inner_id, proofs |-> r.proofs]
<1>1. /\ internal_queue' = Append(internal_queue, b) /\ next_inner_id' = next_inner_id + 1
      /\ batch_aliases' = With(batch_aliases, next_inner_id, r.id)
      /\ UNCHANGED completed_proofs
  BY DEF WorkerPush
<1>2. /\ Listed(requests)' /\ ToSet(requests') \subseteq ToSet(requests) /\ r \in ToSet(requests)
      /\ Bears(r) => r.id \in Ids(requests) /\ Ids(requests') = Ids(requests) \ {r.id}
  BY HeadIds DEF IInv, RequestsOK, Listed
<1>3. r.type = "PushInternalProofs"
  OBVIOUS
<1>4. Bears(b) /\ b.id = next_inner_id /\ b.proofs = r.proofs
  BY DEF Bears
<1> HIDE DEF r, b
<1>5. Bears(r) /\ r.id \in DOMAIN asked /\ r.proofs = BatchOf(asked[r.id])
  BY <1>2, <1>3 DEF IInv, RequestsOK
<1>6. r.id \in Ids(requests) /\ Ids(requests') = Ids(requests) \ {r.id} /\ r.id \notin Working
  BY <1>2, <1>5 DEF IInv, OnePlace
<1>7. /\ next_inner_id \in Nat /\ next_inner_id \notin DOMAIN batch_aliases
      /\ next_inner_id \notin Ids(internal_queue) /\ next_inner_id \notin Ids(completed_proofs)
  BY IdsOf DEF IInv, AliasesOK, InnerOK
<1>8. /\ DOMAIN batch_aliases' = DOMAIN batch_aliases \cup {next_inner_id}
      /\ \A i \in DOMAIN batch_aliases : batch_aliases'[i] = batch_aliases[i]
      /\ batch_aliases'[next_inner_id] = r.id
  BY <1>1, <1>7 DEF With
<1>9. Working' = Working \cup {r.id}
  BY <1>8 DEF Working
<1>10. AliasesOK'
  <2>1. \A i, j \in DOMAIN batch_aliases' : batch_aliases'[i] = batch_aliases'[j] => i = j
    BY <1>6, <1>8 DEF IInv, AliasesOK, Working
  <2>2. \A i \in DOMAIN batch_aliases' :
          i \in Nat /\ i < next_inner_id' /\ batch_aliases'[i] \in DOMAIN asked
    BY <1>1, <1>5, <1>7, <1>8 DEF IInv, AliasesOK
  <2>3. QED
    BY <1>1, <1>7, <2>1, <2>2 DEF AliasesOK, caller
<1>11. /\ Listed(internal_queue)' /\ ToSet(internal_queue') = ToSet(internal_queue) \cup {b}
       /\ Ids(internal_queue') = Ids(internal_queue) \cup {next_inner_id}
  BY <1>1, <1>4, <1>7, AppendIds DEF IInv, InnerOK, Listed
<1>12. InnerOK'
  <2>1. \A q \in ToSet(internal_queue') :
          /\ Bears(q) /\ q.id \in DOMAIN batch_aliases'
          /\ q.proofs = BatchOf(asked[batch_aliases'[q.id]])
    BY <1>4, <1>5, <1>8, <1>11 DEF IInv, InnerOK
  <2>2. \A c \in ToSet(completed_proofs) :
          /\ Bears(c) /\ c.id \in DOMAIN batch_aliases'
          /\ c.node = asked[batch_aliases'[c.id]]
    BY <1>8 DEF IInv, InnerOK
  <2>3. QED
    BY <1>1, <1>7, <1>11, <2>1, <2>2 DEF IInv, InnerOK, caller, Listed
<1>13. RequestsOK' /\ Asked' /\ ResponsesOK' /\ AnswersOK' /\ ContractStep
  BY <1>2 DEF IInv, RequestsOK, Asked, ResponsesOK, AnswersOK, caller, Listed, ContractStep
<1>14. OnePlace'
  BY <1>6, <1>9 DEF IInv, OnePlace, caller
<1>15. QED
  BY <1>10, <1>12, <1>13, <1>14 DEF IInv

\* A batch becomes the root over its leaves.
LEMMA RootOK ==
  ASSUME IInv, NEW id \in DOMAIN asked
  PROVE  Aggregate(BatchOf(asked[id])) = asked[id]
<1>1. PICK n \in Sizes : asked[id] = Leaves(id, n)
  BY DEF IInv, Asked
<1>2. n \in Nat /\ IsBatchSize(n)
  BY BatchesAssumption DEF BatchesAssumption
<1>3. QED
  BY <1>1, <1>2, RootOfLeaves

\* The worker takes the next batch, and makes a proof of it or not.
LEMMA TakeBatchOK ==
  ASSUME IInv, internal_queue # <<>>, internal_queue' = Tail(internal_queue),
         NEW b, b = Head(internal_queue),
         \/ completed_proofs' =
              Append(completed_proofs, [id |-> b.id, node |-> Aggregate(b.proofs)])
         \/ UNCHANGED completed_proofs,
         UNCHANGED <<caller, batch_aliases, next_inner_id>>
  PROVE  InnerOK'
<1> DEFINE c == [id |-> b.id, node |-> Aggregate(b.proofs)]
<1>1. /\ Listed(internal_queue)' /\ ToSet(internal_queue') \subseteq ToSet(internal_queue)
      /\ b \in ToSet(internal_queue)
      /\ Bears(b) => /\ b.id \in Ids(internal_queue)
                     /\ Ids(internal_queue') = Ids(internal_queue) \ {b.id}
  BY HeadIds DEF IInv, InnerOK, Listed
<1>2. /\ Bears(b) /\ b.id \in DOMAIN batch_aliases
      /\ b.proofs = BatchOf(asked[batch_aliases[b.id]])
      /\ batch_aliases[b.id] \in DOMAIN asked
  BY <1>1 DEF IInv, InnerOK, AliasesOK
<1>3. b.id \notin Ids(completed_proofs) /\ Listed(completed_proofs)
  BY <1>1, <1>2 DEF IInv, InnerOK
<1>4. Bears(c) /\ c.id = b.id /\ c.node = asked[batch_aliases[b.id]]
  BY <1>2, RootOK DEF Bears
<1>5. completed_proofs' = Append(completed_proofs, c) \/ UNCHANGED completed_proofs
  OBVIOUS
<1> HIDE DEF c
<1>6. /\ Listed(completed_proofs)' /\ ToSet(completed_proofs') \subseteq ToSet(completed_proofs) \cup {c}
      /\ Ids(completed_proofs') \subseteq Ids(completed_proofs) \cup {b.id}
  <2>1. CASE completed_proofs' = Append(completed_proofs, c)
    BY <1>3, <1>4, <2>1, AppendIds DEF Listed
  <2>2. CASE UNCHANGED completed_proofs
    BY <1>3, <2>2 DEF Listed
  <2>3. QED
    BY <1>5, <2>1, <2>2
<1>7. \A d \in ToSet(completed_proofs') :
        Bears(d) /\ d.id \in DOMAIN batch_aliases /\ d.node = asked[batch_aliases[d.id]]
  BY <1>2, <1>4, <1>6 DEF IInv, InnerOK
<1>8. \A q \in ToSet(internal_queue') :
        /\ Bears(q) /\ q.id \in DOMAIN batch_aliases
        /\ q.proofs = BatchOf(asked[batch_aliases[q.id]])
  BY <1>1 DEF IInv, InnerOK
<1>9. Ids(internal_queue') \cap Ids(completed_proofs') = {}
  BY <1>1, <1>2, <1>6 DEF IInv, InnerOK
<1>10. QED
  BY <1>1, <1>6, <1>7, <1>8, <1>9 DEF InnerOK, caller

\* A step request is done, with a batch or without one.
LEMMA StepDoneOK ==
  ASSUME IInv, requests # <<>>, requests' = Tail(requests), ~Bears(Head(requests)), InnerOK',
         UNCHANGED <<caller, recursive_proofs, responses, batch_aliases, next_inner_id>>
  PROVE  IInv' /\ ContractStep
<1>1. Listed(requests)' /\ ToSet(requests') \subseteq ToSet(requests)
      /\ Ids(requests)' = Ids(requests)
  BY HeadIds DEF IInv, RequestsOK, Listed
<1>2. RequestsOK'
  BY <1>1 DEF IInv, RequestsOK, caller
<1>3. QED
  BY <1>1, <1>2 DEF caller, IInv, Asked, Listed, AliasesOK, ResponsesOK, AnswersOK, OnePlace,
     Working, ContractStep

\* The worker answers a batch under the caller's id and forgets its own.
LEMMA SendProofOK ==
  ASSUME IInv, SendProof
  PROVE  IInv' /\ ContractStep
<1> DEFINE c == Head(completed_proofs)
           id == batch_aliases[c.id]
           e == RecursiveProof(id, c.node)
<1>1. /\ completed_proofs # <<>> /\ completed_proofs' = Tail(completed_proofs)
      /\ responses' = Append(responses, e)
      /\ batch_aliases' = [i \in DOMAIN batch_aliases \ {c.id} |-> batch_aliases[i]]
      /\ UNCHANGED <<caller, recursive_proofs, requests, internal_queue, next_inner_id>>
  BY DEF SendProof, parentVars, fields
<1>2. /\ Listed(completed_proofs)' /\ ToSet(completed_proofs') \subseteq ToSet(completed_proofs)
      /\ c \in ToSet(completed_proofs)
      /\ Bears(c) => /\ c.id \in Ids(completed_proofs)
                     /\ Ids(completed_proofs') = Ids(completed_proofs) \ {c.id}
  BY <1>1, HeadIds DEF IInv, InnerOK, Listed
<1>3. Bears(e) /\ e.id = id /\ e.type = "RecursiveProof" /\ e.node = c.node
  BY DEF RecursiveProof, Bears
<1> HIDE DEF c, e
<1>4. Bears(c) /\ c.id \in DOMAIN batch_aliases /\ c.node = asked[id] /\ id \in DOMAIN asked
  BY <1>2 DEF IInv, InnerOK, AliasesOK
<1>5. /\ DOMAIN batch_aliases' = DOMAIN batch_aliases \ {c.id}
      /\ \A i \in DOMAIN batch_aliases' : batch_aliases'[i] = batch_aliases[i]
  BY <1>1
<1>6. Working' = Working \ {id} /\ id \in Working
  BY <1>4, <1>5 DEF IInv, AliasesOK, Working
<1> HIDE DEF id
<1>7. AliasesOK'
  BY <1>1, <1>5 DEF IInv, AliasesOK, caller
<1>8. c.id \notin Ids(internal_queue) /\ c.id \notin Ids(completed_proofs')
  BY <1>2, <1>4 DEF IInv, InnerOK
<1>9. InnerOK'
  <2>1. \A b \in ToSet(internal_queue) : b.id # c.id
    BY <1>8, IdsOf DEF IInv, InnerOK
  <2>2. \A d \in ToSet(completed_proofs') : d.id # c.id
    BY <1>2, <1>8, IdsOf DEF IInv, InnerOK
  <2>3. \A b \in ToSet(internal_queue) :
          /\ Bears(b) /\ b.id \in DOMAIN batch_aliases'
          /\ b.proofs = BatchOf(asked[batch_aliases'[b.id]])
    BY <1>5, <2>1 DEF IInv, InnerOK
  <2>4. \A d \in ToSet(completed_proofs') :
          /\ Bears(d) /\ d.id \in DOMAIN batch_aliases'
          /\ d.node = asked[batch_aliases'[d.id]]
    BY <1>2, <1>5, <2>2 DEF IInv, InnerOK
  <2>5. Ids(internal_queue) \cap Ids(completed_proofs') = {}
    BY <1>2, <1>4 DEF IInv, InnerOK
  <2>6. QED
    BY <1>1, <1>2, <2>3, <2>4, <2>5 DEF IInv, InnerOK, caller, Listed
<1>10. id \notin Ids(responses)
  BY <1>6 DEF IInv, OnePlace
<1>11. /\ Listed(responses)' /\ ToSet(responses') = ToSet(responses) \cup {e}
       /\ Ids(responses') = Ids(responses) \cup {id}
  BY <1>1, <1>3, <1>10, AppendIds DEF IInv, ResponsesOK, Listed
<1>12. ResponsesOK'
  BY <1>1, <1>3, <1>4, <1>11 DEF IInv, ResponsesOK, caller
<1>13. OnePlace'
  BY <1>1, <1>6, <1>11 DEF IInv, OnePlace, caller
<1>14. Asked' /\ RequestsOK' /\ AnswersOK' /\ ContractStep
  BY <1>1 DEF IInv, Asked, RequestsOK, AnswersOK, caller, Listed, ContractStep
<1>15. QED
  BY <1>7, <1>9, <1>12, <1>13, <1>14 DEF IInv

LEMMA WorkerRecvOK ==
  ASSUME IInv, WorkerRecv
  PROVE  IInv' /\ ContractStep
<1>1. /\ requests # <<>> /\ requests' = Tail(requests)
      /\ UNCHANGED <<caller, recursive_proofs, responses>>
      /\ \/ Head(requests).type = "PushInternalProofs" /\ WorkerPush(Head(requests))
         \/ Head(requests).type = "Step" /\ WorkerStep
         \/ Head(requests).type = "Sync" /\ WorkerSync
         \/ Head(requests).type = "Shutdown" /\ WorkerShutdown
  BY DEF WorkerRecv, parentVars, fields
<1>2. Head(requests) \in ToSet(requests)
  BY <1>1, HeadIds DEF IInv, RequestsOK, Listed
<1>3. CASE Head(requests).type = "PushInternalProofs" /\ WorkerPush(Head(requests))
  BY <1>1, <1>3, WorkerPushOK
<1>4. CASE Head(requests).type = "Step" /\ WorkerStep
  <2>1. ~Bears(Head(requests)) /\ UNCHANGED <<batch_aliases, next_inner_id>>
    BY <1>2, <1>4 DEF IInv, RequestsOK, WorkerStep
  <2>2. InnerOK'
    <3>1. CASE internal_queue = <<>>
      BY <1>1, <1>4, <2>1, <3>1 DEF IInv, InnerOK, Listed, WorkerStep, caller
    <3>2. CASE internal_queue # <<>>
      <4> DEFINE b == Head(internal_queue)
      <4>1. /\ internal_queue' = Tail(internal_queue)
            /\ completed_proofs' =
                 Append(completed_proofs, [id |-> b.id, node |-> Aggregate(b.proofs)])
        BY <1>4, <3>2 DEF WorkerStep
      <4>2. QED
        BY <1>1, <2>1, <3>2, <4>1, TakeBatchOK
    <3>3. QED
      BY <3>1, <3>2
  <2>3. QED
    BY <1>1, <2>1, <2>2, StepDoneOK
<1>5. CASE \/ Head(requests).type = "Sync" /\ WorkerSync
           \/ Head(requests).type = "Shutdown" /\ WorkerShutdown
  <2>1. ~Bears(Head(requests)) /\ UNCHANGED <<batch_aliases, inner>>
    BY <1>2, <1>5 DEF IInv, RequestsOK, WorkerSync, WorkerShutdown
  <2>2. QED
    BY <1>1, <2>1, DropRequestOK
<1>6. QED
  BY <1>1, <1>3, <1>4, <1>5

\* The batch that a panic loses is in no place any more but the worker's aliases.
LEMMA WorkerPanicOK ==
  ASSUME IInv, WorkerPanic
  PROVE  IInv' /\ ContractStep
<1>1. /\ requests # <<>> /\ requests' = Tail(requests) /\ Head(requests).type = "Step"
      /\ internal_queue # <<>> /\ internal_queue' = Tail(internal_queue)
      /\ UNCHANGED <<caller, recursive_proofs, responses, batch_aliases, completed_proofs,
                     next_inner_id>>
  BY DEF WorkerPanic, parentVars, fields
<1>2. ~Bears(Head(requests))
  BY <1>1, HeadIds DEF IInv, RequestsOK, Listed
<1>3. InnerOK'
  BY <1>1, TakeBatchOK
<1>4. QED
  BY <1>1, <1>2, <1>3, StepDoneOK

LEMMA RequestsBearBatches ==
  /\ ~Bears(StepRequest) /\ StepRequest.type # "PushInternalProofs"
  /\ ~Bears(SyncRequest) /\ SyncRequest.type # "PushInternalProofs"
  /\ ~Bears(ShutdownRequest) /\ ShutdownRequest.type # "PushInternalProofs"
BY DEF Bears, StepRequest, SyncRequest, ShutdownRequest

LEMMA NextOK == IInv /\ [Next]_vars => IInv' /\ ContractStep
<1> SUFFICES ASSUME IInv, [Next]_vars PROVE IInv' /\ ContractStep
  OBVIOUS
<1>1. CASE \E n \in Sizes : Push(n)
  BY <1>1, PushOK
<1>2. CASE Step
  BY <1>2, TellOK, RequestsBearBatches DEF Step, Send, fields, workerVars
<1>3. CASE Pop
  BY <1>3, PopOK
<1>4. CASE StartSync \/ Join
  BY <1>4, QuietOK DEF StartSync, Join, fields, workerVars
<1>5. CASE TryRecv
  BY <1>5, TryRecvOK
<1>6. CASE EndSync
  BY <1>6, TellOK, RequestsBearBatches DEF EndSync, Send, fields, workerVars
<1>7. CASE Drop
  BY <1>7, TellOK, RequestsBearBatches DEF Drop, Send, fields, workerVars
<1>8. CASE WorkerRecv
  BY <1>8, WorkerRecvOK
<1>9. CASE WorkerPanic
  BY <1>9, WorkerPanicOK
<1>10. CASE SendProof
  BY <1>10, SendProofOK
<1>11. CASE SendThroughput
  <2>1. ~Bears(ProofThroughput) /\ ProofThroughput.type # "RecursiveProof"
    BY DEF Bears, ProofThroughput
  <2>2. QED
    BY <1>11, <2>1, ReportOK DEF SendThroughput, parentVars, fields
<1>12. CASE SendSize
  <2> DEFINE e == PendingQueueSize(internal_proofs_pushed, SizeOf(internal_queue))
  <2>1. ~Bears(e) /\ e.type # "RecursiveProof"
    BY DEF Bears, PendingQueueSize
  <2>2. responses' = Append(responses, e)
        /\ UNCHANGED <<caller, recursive_proofs, requests, batch_aliases, inner>>
    BY <1>12 DEF SendSize, parentVars, fields
  <2> HIDE DEF e
  <2>3. QED
    BY <2>1, <2>2, ReportOK
<1>13. CASE UNCHANGED vars
  BY <1>13, QuietOK DEF vars, parentVars, fields, workerVars
<1>14. QED
  BY <1>1, <1>2, <1>3, <1>4, <1>5, <1>6, <1>7, <1>8, <1>9, <1>10, <1>11, <1>12, <1>13 DEF Next

\* The aggregator in a thread keeps the promise of the trait (aggregator.rs:610 to
\* 755): whatever the two threads do in between, and if the worker panics, a batch is
\* answered at most once, under the id its push returned, with the root over its leaves.
THEOREM ImplementsContract == Spec => KeepsContract
<1>1. Init => IInv /\ Contract!Init
  BY InitOK
<1>2. IInv /\ [Next]_vars => IInv' /\ [Contract!Next]_<<asked, given>>
  BY NextOK DEF ContractStep
<1>3. QED
  BY <1>1, <1>2, PTL DEF Spec, KeepsContract, Contract!Safe
-----------------------------------------------------------------------------
(* The sizes.  One lemma says what a channel counts, and then every action   *)
(* moves the same number out of one place and into another.                  *)

Counts(s) == [i \in DOMAIN s |-> Proofs(s[i])]

LEMMA InFlightIs ==
  ASSUME NEW s, IsSeq(s), \A e \in ToSet(s) : Proofs(e) \in Nat
  PROVE  /\ InFlight(s) \in Nat
         /\ \A e \in ToSet(s) : Proofs(e) <= InFlight(s)
         /\ s # <<>> => InFlight(s) = Proofs(Head(s)) + InFlight(Tail(s))
         /\ \A e : Proofs(e) \in Nat => InFlight(Append(s, e)) = InFlight(s) + Proofs(e)
<1> DEFINE c == Counts(s)
           n == Len(s)
<1>1. DOMAIN s = 1..n /\ n \in Nat
  BY IsSeqLength
<1>2. ToSet(s) = {s[i] : i \in 1..n}
  BY SeqIsSeq DEF IsSeq
<1>3. c = [i \in 1..n |-> c[i]] /\ \A i \in 1..n : c[i] = Proofs(s[i])
  BY <1>1 DEF Counts
<1>4. InFlight(s) = Total(c)
  BY DEF InFlight, Counts
<1> HIDE DEF c
<1>5. IsSeq(c) /\ Len(c) = n
  BY <1>1, <1>3, FunctionSeq
<1>6. IsCounts(c)
  BY <1>2, <1>3, <1>5 DEF IsCounts
<1>7. InFlight(s) \in Nat /\ \A i \in 1..n : c[i] <= InFlight(s)
  BY <1>4, <1>5, <1>6, TotalNat
<1>8. \A e \in ToSet(s) : Proofs(e) <= InFlight(s)
  BY <1>2, <1>3, <1>7
<1>9. ASSUME s # <<>> PROVE InFlight(s) = Proofs(Head(s)) + InFlight(Tail(s))
  <2> DEFINE t == Tail(s)
             d == Counts(t)
  <2>1. /\ IsSeq(t) /\ DOMAIN t = 1..(n - 1) /\ n # 0
        /\ \A i \in 1..(n - 1) : t[i] = s[i + 1]
        /\ Head(s) = s[1]
    BY <1>9, TailIsSeq
  <2>2. d = [i \in 1..(n - 1) |-> d[i]] /\ \A i \in 1..(n - 1) : d[i] = Proofs(t[i])
    BY <2>1 DEF Counts
  <2>3. InFlight(t) = Total(d)
    BY DEF InFlight, Counts
  <2> HIDE DEF t, d
  <2>4. IsSeq(d) /\ Len(d) = n - 1
    <3>1. n - 1 \in Nat
      BY <1>1, <2>1
    <3>2. QED
      BY <2>2, <3>1, FunctionSeq
  <2>5. \A i \in 1..(n - 1) : d[i] = c[i + 1]
    BY <1>1, <1>3, <2>1, <2>2
  <2>6. Total(c) = c[1] + Total(d)
    <3>1. Len(c) # 0 /\ Len(d) = Len(c) - 1 /\ \A i \in 1..Len(d) : d[i] = c[i + 1]
      BY <1>5, <2>1, <2>4, <2>5
    <3>2. QED
      BY <1>6, <2>4, <3>1, TotalTail
  <2>7. c[1] = Proofs(Head(s))
    BY <1>1, <1>3, <2>1
  <2>8. QED
    BY <1>4, <2>3, <2>6, <2>7 DEF t
<1>10. ASSUME NEW e, Proofs(e) \in Nat PROVE InFlight(Append(s, e)) = InFlight(s) + Proofs(e)
  <2> DEFINE t == Append(s, e)
             d == Counts(t)
  <2>1. /\ IsSeq(t) /\ Len(t) = n + 1
        /\ \A i \in 1..n : t[i] = s[i]
        /\ t[n + 1] = e
    BY AppendIsSeq
  <2> HIDE DEF t
  <2>2. DOMAIN t = 1..(n + 1)
    BY <2>1, IsSeqLength
  <2>3. d = [i \in 1..(n + 1) |-> d[i]] /\ \A i \in 1..(n + 1) : d[i] = Proofs(t[i])
    BY <2>2 DEF Counts
  <2>4. InFlight(t) = Total(d)
    BY DEF InFlight, Counts
  <2> HIDE DEF d
  <2>5. IsSeq(d) /\ Len(d) = n + 1
    <3>1. n + 1 \in Nat
      BY <1>1
    <3>2. QED
      BY <2>3, <3>1, FunctionSeq
  <2>6. (\A i \in 1..n : d[i] = c[i]) /\ d[n + 1] = Proofs(e)
    BY <1>1, <1>3, <2>1, <2>3
  <2>7. Total(d) = Total(c) + d[n + 1]
    <3>1. /\ Len(d) = Len(c) + 1 /\ \A i \in 1..Len(c) : d[i] = c[i]
          /\ d[Len(c) + 1] \in Nat
      BY <1>5, <1>10, <2>5, <2>6
    <3>2. Total(d) = Total(c) + d[Len(c) + 1]
      BY <1>6, <2>5, <3>1, TotalAppended
    <3>3. QED
      BY <1>5, <3>2
  <2>8. QED
    BY <1>4, <2>4, <2>6, <2>7 DEF t
<1>11. QED
  BY <1>7, <1>8, <1>9, <1>10

\* The size of a queue, in which no batch is empty.
LEMMA SizeOfIs ==
  ASSUME NEW s, IsSeq(s), \A b \in ToSet(s) : Len(b.proofs) \in Nat
  PROVE  SizeOf(s) \in Nat /\ \A b \in ToSet(s) : Len(b.proofs) <= SizeOf(s)
BY LengthsTotal DEF SizeOf

\* A batch has a proof for every leaf, and there are some.
LEMMA LengthsOK ==
  ASSUME IInv, NEW id \in DOMAIN asked
  PROVE  Len(BatchOf(asked[id])) \in Nat \ {0}
<1>1. PICK n \in Sizes : asked[id] = Leaves(id, n)
  BY DEF IInv, Asked
<1>2. n \in Nat \ {0}
  BY BatchesAssumption DEF BatchesAssumption, IsBatchSize
<1>3. QED
  BY <1>1, <1>2, LeavesLength

LEMMA CountsOK ==
  ASSUME IInv, SizesOK
  PROVE  /\ \A r \in ToSet(requests) : Proofs(r) \in Nat /\ (Bears(r) => Proofs(r) # 0)
         /\ \A r \in ToSet(responses) : Proofs(r) \in Nat
         /\ \A b \in ToSet(internal_queue) : Len(b.proofs) \in Nat \ {0}
         /\ InFlight(requests) \in Nat /\ InFlight(responses) \in Nat
         /\ SizeOf(internal_queue) \in Nat
         /\ Unreported \in Nat
<1>1. ASSUME NEW r \in ToSet(requests) PROVE Proofs(r) \in Nat /\ (Bears(r) => Proofs(r) # 0)
  <2>1. CASE Bears(r)
    <3>1. r.type = "PushInternalProofs" /\ r.id \in DOMAIN asked /\ r.proofs = BatchOf(asked[r.id])
      BY <2>1 DEF IInv, RequestsOK
    <3>2. Len(r.proofs) \in Nat \ {0}
      BY <3>1, LengthsOK
    <3>3. QED
      BY <3>1, <3>2 DEF Proofs
  <2>2. CASE ~Bears(r)
    <3>1. r.type # "PushInternalProofs" /\ r.type # "PendingQueueSize"
      BY <2>2 DEF IInv, RequestsOK, SizesOK
    <3>2. QED
      BY <2>2, <3>1 DEF Proofs
  <2>3. QED
    BY <2>1, <2>2
<1>2. ASSUME NEW r \in ToSet(responses) PROVE Proofs(r) \in Nat
  BY DEF SizesOK, Proofs
<1>3. ASSUME NEW b \in ToSet(internal_queue) PROVE Len(b.proofs) \in Nat \ {0}
  <2>1. b.proofs = BatchOf(asked[batch_aliases[b.id]]) /\ batch_aliases[b.id] \in DOMAIN asked
    BY DEF IInv, InnerOK, AliasesOK
  <2>2. QED
    BY <2>1, LengthsOK
<1>4. IsSeq(requests) /\ IsSeq(responses) /\ IsSeq(internal_queue)
  BY DEF IInv, RequestsOK, ResponsesOK, InnerOK, Listed
<1>5. InFlight(requests) \in Nat /\ InFlight(responses) \in Nat
  BY <1>1, <1>2, <1>4, InFlightIs
<1>6. SizeOf(internal_queue) \in Nat
  BY <1>3, <1>4, SizeOfIs
<1>7. Unreported \in Nat
  BY DEF Unreported, SizesOK
<1>8. QED
  BY <1>1, <1>2, <1>3, <1>5, <1>6, <1>7

\* Sending and receiving move proofs into a channel and out of it.
LEMMA RequestSent ==
  ASSUME IInv, SizesOK, NEW e, Proofs(e) \in Nat, requests' = Append(requests, e)
  PROVE  /\ InFlight(requests') = InFlight(requests) + Proofs(e)
         /\ ToSet(requests') = ToSet(requests) \cup {e}
<1>1. IsSeq(requests) /\ \A r \in ToSet(requests) : Proofs(r) \in Nat
  BY CountsOK DEF IInv, RequestsOK, Listed
<1>2. QED
  BY <1>1, InFlightIs, AppendIsSeq

LEMMA RequestTaken ==
  ASSUME IInv, SizesOK, requests # <<>>, requests' = Tail(requests)
  PROVE  /\ Proofs(Head(requests)) \in Nat /\ InFlight(requests') \in Nat
         /\ InFlight(requests) = Proofs(Head(requests)) + InFlight(requests')
         /\ Head(requests) \in ToSet(requests) /\ ToSet(requests') \subseteq ToSet(requests)
<1>1. IsSeq(requests) /\ \A r \in ToSet(requests) : Proofs(r) \in Nat
  BY CountsOK DEF IInv, RequestsOK, Listed
<1>2. /\ Head(requests) \in ToSet(requests) /\ ToSet(Tail(requests)) \subseteq ToSet(requests)
      /\ IsSeq(Tail(requests))
  BY <1>1, TailIsSeq
<1>3. InFlight(Tail(requests)) \in Nat
  BY <1>1, <1>2, InFlightIs
<1>4. InFlight(requests) = Proofs(Head(requests)) + InFlight(Tail(requests))
  BY <1>1, InFlightIs
<1>5. QED
  BY <1>1, <1>2, <1>3, <1>4

LEMMA ResponseSent ==
  ASSUME IInv, SizesOK, NEW e, Proofs(e) \in Nat, responses' = Append(responses, e)
  PROVE  /\ InFlight(responses') = InFlight(responses) + Proofs(e)
         /\ ToSet(responses') = ToSet(responses) \cup {e}
<1>1. IsSeq(responses) /\ \A r \in ToSet(responses) : Proofs(r) \in Nat
  BY CountsOK DEF IInv, ResponsesOK, Listed
<1>2. QED
  BY <1>1, InFlightIs, AppendIsSeq

LEMMA ResponseTaken ==
  ASSUME IInv, SizesOK, responses # <<>>, responses' = Tail(responses)
  PROVE  /\ Proofs(Head(responses)) \in Nat /\ InFlight(responses') \in Nat
         /\ InFlight(responses) = Proofs(Head(responses)) + InFlight(responses')
         /\ Head(responses) \in ToSet(responses) /\ ToSet(responses') \subseteq ToSet(responses)
<1>1. IsSeq(responses) /\ \A r \in ToSet(responses) : Proofs(r) \in Nat
  BY CountsOK DEF IInv, ResponsesOK, Listed
<1>2. /\ Head(responses) \in ToSet(responses) /\ ToSet(Tail(responses)) \subseteq ToSet(responses)
      /\ IsSeq(Tail(responses))
  BY <1>1, TailIsSeq
<1>3. InFlight(Tail(responses)) \in Nat
  BY <1>1, <1>2, InFlightIs
<1>4. InFlight(responses) = Proofs(Head(responses)) + InFlight(Tail(responses))
  BY <1>1, InFlightIs
<1>5. QED
  BY <1>1, <1>2, <1>3, <1>4

LEMMA MessageProofs ==
  /\ Proofs(StepRequest) = 0 /\ StepRequest.type = "Step"
  /\ Proofs(SyncRequest) = 0 /\ SyncRequest.type = "Sync"
  /\ Proofs(ShutdownRequest) = 0 /\ ShutdownRequest.type = "Shutdown"
  /\ Proofs(ProofThroughput) = 0 /\ ProofThroughput.type = "ProofThroughput"
  /\ ~Bears(StepRequest) /\ ~Bears(SyncRequest) /\ ~Bears(ShutdownRequest)
  /\ ~Bears(ProofThroughput)
BY DEF Proofs, StepRequest, SyncRequest, ShutdownRequest, ProofThroughput, Bears

\* A request that moves no proofs, or none because the worker is gone.
LEMMA SizesTell ==
  ASSUME IInv, SizesOK, NEW e, Proofs(e) = 0, e.type # "PendingQueueSize",
         NEW sent, sent \in {"ready", "joining"}, NEW failed, failed \in {"panicked", "drop_panicked"},
         parent # "panicked", Send(e, sent, failed),
         UNCHANGED <<fields, responses, worker, internal_proofs_pushed>>
  PROVE  SizesOK'
<1>1. CASE requests' = Append(requests, e) /\ parent' = sent
  <2>1. InFlight(requests') = InFlight(requests) + 0 /\ ToSet(requests') = ToSet(requests) \cup {e}
    BY <1>1, RequestSent
  <2>2. InFlight(requests) \in Nat
    BY CountsOK
  <2>3. InTransit' = InTransit
    BY <2>1, <2>2 DEF InTransit, Unreported
  <2>4. QED
    BY <1>1, <2>1, <2>3 DEF SizesOK, fields
<1>2. CASE UNCHANGED requests /\ parent' = failed
  <2>1. InTransit' = InTransit
    BY <1>2 DEF InTransit, Unreported
  <2>2. QED
    BY <1>2, <2>1 DEF SizesOK, fields
<1>3. QED
  BY <1>1, <1>2 DEF Send

LEMMA SizesPush ==
  ASSUME IInv, SizesOK, NEW n \in Sizes, Push(n)
  PROVE  SizesOK'
<1> DEFINE id == Len(asked) + 1
           leaves == Leaves(id, n)
           e == PushInternalProofs(id, BatchOf(leaves))
<1>1. /\ parent = "ready" /\ outer_pending_queue_size' = outer_pending_queue_size + n
      /\ \/ requests' = Append(requests, e) /\ parent' = "ready"
         \/ UNCHANGED requests /\ parent' = "panicked"
      /\ UNCHANGED <<inner_pending_queue_size, responses, worker, internal_proofs_pushed>>
  BY DEF Push, Send, workerVars
<1>2. n \in Nat /\ outer_pending_queue_size \in Nat
  BY BatchesAssumption DEF BatchesAssumption, SizesOK
<1>3. Proofs(e) = n /\ e.type = "PushInternalProofs"
  <2>1. Len(BatchOf(leaves)) = n
    BY <1>2, LeavesLength
  <2>2. QED
    BY <2>1 DEF PushInternalProofs, Proofs
<1> HIDE DEF e
<1>4. CASE requests' = Append(requests, e) /\ parent' = "ready"
  <2>1. InFlight(requests') = InFlight(requests) + n /\ ToSet(requests') = ToSet(requests) \cup {e}
    BY <1>2, <1>3, <1>4, RequestSent
  <2>2. InFlight(requests) \in Nat /\ InFlight(responses) \in Nat /\ Unreported \in Nat
    BY CountsOK
  <2>3. InTransit' = InTransit + n
    BY <1>1, <1>2, <2>1, <2>2 DEF InTransit, Unreported
  <2>4. outer_pending_queue_size = InTransit
    BY <1>1 DEF SizesOK
  <2>5. outer_pending_queue_size' = InTransit'
    BY <1>1, <2>3, <2>4
  <2>6. outer_pending_queue_size' \in Nat
    BY <1>1, <1>2
  <2>7. QED
    BY <1>1, <1>3, <1>4, <2>1, <2>5, <2>6 DEF SizesOK
<1>5. CASE UNCHANGED requests /\ parent' = "panicked"
  <2>1. InTransit' = InTransit
    BY <1>1, <1>5 DEF InTransit, Unreported
  <2>2. outer_pending_queue_size' \in Nat /\ outer_pending_queue_size' >= outer_pending_queue_size
    BY <1>1, <1>2
  <2>3. outer_pending_queue_size = InTransit
    BY <1>1 DEF SizesOK
  <2>4. outer_pending_queue_size' >= InTransit'
    BY <2>1, <2>2, <2>3
  <2>5. QED
    BY <1>1, <1>5, <2>2, <2>4 DEF SizesOK
<1>6. QED
  BY <1>1, <1>4, <1>5

\* What the worker reports as taken over, the parent no longer counts: it counted it.
LEMMA SizesTryRecv ==
  ASSUME IInv, SizesOK, TryRecv
  PROVE  SizesOK'
<1> DEFINE e == Head(responses)
<1>1. /\ parent = "syncing" /\ responses # <<>> /\ responses' = Tail(responses)
      /\ UNCHANGED <<parent, requests, worker, internal_proofs_pushed>>
      /\ \/ e.type = "PendingQueueSize" /\ ReceiveSize
         \/ e.type # "PendingQueueSize"
              /\ UNCHANGED <<outer_pending_queue_size, inner_pending_queue_size>>
  BY DEF TryRecv, ReceiveProof, workerVars, fields
<1>2. /\ Proofs(e) \in Nat /\ InFlight(responses') \in Nat
      /\ InFlight(responses) = Proofs(e) + InFlight(responses')
      /\ e \in ToSet(responses) /\ ToSet(responses') \subseteq ToSet(responses)
  BY <1>1, ResponseTaken
<1> HIDE DEF e
<1>3. e.type # "PushInternalProofs"
  BY <1>2 DEF SizesOK
<1>4. InFlight(requests) \in Nat /\ Unreported \in Nat
  BY CountsOK
<1>5. InTransit = InTransit' + Proofs(e) /\ InTransit' \in Nat
  BY <1>1, <1>2, <1>4 DEF InTransit, Unreported
<1>6. outer_pending_queue_size = InTransit
  BY <1>1 DEF SizesOK
<1>7. CASE e.type = "PendingQueueSize" /\ ReceiveSize
  <2>1. Proofs(e) = e.delta /\ e.size \in Nat
    BY <1>2, <1>7 DEF Proofs, SizesOK
  <2>2. outer_pending_queue_size' = outer_pending_queue_size - Proofs(e)
        /\ inner_pending_queue_size' = e.size
    BY <1>7, <2>1 DEF ReceiveSize, e
  <2>3. outer_pending_queue_size' = InTransit'
    BY <1>2, <1>5, <1>6, <2>2
  <2>4. inner_pending_queue_size' \in Nat
    BY <2>1, <2>2
  <2>5. QED
    BY <1>1, <1>2, <1>5, <2>3, <2>4 DEF SizesOK
<1>8. CASE e.type # "PendingQueueSize"
             /\ UNCHANGED <<outer_pending_queue_size, inner_pending_queue_size>>
  <2>1. Proofs(e) = 0
    BY <1>3, <1>8 DEF Proofs
  <2>2. outer_pending_queue_size = InTransit'
    <3>1. \A t \in Nat : t + 0 = t
      OBVIOUS
    <3>2. QED
      BY <1>5, <1>6, <2>1, <3>1
  <2>3. QED
    BY <1>1, <1>2, <1>8, <2>2 DEF SizesOK
<1>9. QED
  BY <1>1, <1>7, <1>8

\* The worker counts what it takes out of the channel until it reports it.
LEMMA SizesWorkerRecv ==
  ASSUME IInv, SizesOK, WorkerRecv \/ WorkerPanic
  PROVE  SizesOK'
<1> DEFINE r == Head(requests)
<1>1. /\ worker = "recv" /\ requests # <<>> /\ requests' = Tail(requests)
      /\ UNCHANGED <<parent, fields, responses>>
  BY DEF WorkerRecv, WorkerPanic, parentVars
<1>2. /\ Proofs(r) \in Nat /\ InFlight(requests') \in Nat
      /\ InFlight(requests) = Proofs(r) + InFlight(requests')
      /\ r \in ToSet(requests) /\ ToSet(requests') \subseteq ToSet(requests)
  BY <1>1, RequestTaken
<1>3. \/ /\ r.type = "PushInternalProofs"
         /\ internal_proofs_pushed' = Len(r.proofs) /\ worker' = "report"
      \/ /\ r.type # "PushInternalProofs"
         /\ internal_proofs_pushed' = 0 /\ worker' = "report"
      \/ /\ r.type # "PushInternalProofs"
         /\ UNCHANGED internal_proofs_pushed /\ worker' \in {"exited", "dead"}
  BY DEF WorkerRecv, WorkerPanic, WorkerPush, WorkerStep, WorkerSync, WorkerShutdown
<1> HIDE DEF r
<1>4. r.type # "PendingQueueSize"
  BY <1>2 DEF SizesOK
<1>5. Unreported' = Proofs(r) /\ internal_proofs_pushed' \in Nat
      /\ worker' \in {"report", "exited", "dead"}
  <2>1. CASE r.type = "PushInternalProofs"
    BY <1>2, <1>3, <2>1 DEF Unreported, Proofs
  <2>2. CASE r.type # "PushInternalProofs"
    BY <1>3, <1>4, <2>2 DEF Unreported, Proofs, SizesOK
  <2>3. QED
    BY <2>1, <2>2
<1>6. Unreported = 0 /\ InFlight(responses) \in Nat
  BY <1>1, CountsOK DEF Unreported
<1>7. InTransit' = InTransit
  BY <1>1, <1>2, <1>5, <1>6 DEF InTransit
<1>8. QED
  BY <1>1, <1>2, <1>5, <1>7 DEF SizesOK, fields

LEMMA SizesReport ==
  ASSUME IInv, SizesOK, SendProof \/ SendThroughput \/ SendSize
  PROVE  SizesOK'
<1> DEFINE size == PendingQueueSize(internal_proofs_pushed, SizeOf(internal_queue))
<1>1. UNCHANGED <<parent, fields, requests, internal_proofs_pushed>>
  BY DEF SendProof, SendThroughput, SendSize, parentVars
<1>2. PICK e : /\ responses' = Append(responses, e)
               /\ \/ e.type \in {"RecursiveProof", "ProofThroughput"}
                       /\ worker = "report" /\ worker' \in {"report", "size"}
                  \/ e = size /\ worker = "size" /\ worker' = "recv"
  BY DEF SendProof, SendThroughput, SendSize, RecursiveProof, ProofThroughput
<1>3. /\ Unreported = Unreported' + Proofs(e) /\ Proofs(e) \in Nat /\ Unreported' \in Nat
      /\ e.type # "PushInternalProofs" /\ worker' \in {"report", "size", "recv"}
      /\ e.type = "PendingQueueSize" => e.delta \in Nat /\ e.size \in Nat
  <2>1. internal_proofs_pushed \in Nat /\ SizeOf(internal_queue) \in Nat
    BY CountsOK DEF SizesOK
  <2>2. CASE e.type \in {"RecursiveProof", "ProofThroughput"}
               /\ worker = "report" /\ worker' \in {"report", "size"}
    BY <1>1, <2>1, <2>2 DEF Unreported, Proofs
  <2>3. CASE e = size /\ worker = "size" /\ worker' = "recv"
    BY <1>1, <2>1, <2>3 DEF Unreported, Proofs, PendingQueueSize
  <2>4. QED
    BY <1>2, <2>2, <2>3
<1>4. InFlight(responses') = InFlight(responses) + Proofs(e)
      /\ ToSet(responses') = ToSet(responses) \cup {e}
  BY <1>2, <1>3, ResponseSent
<1>5. InFlight(requests) \in Nat /\ InFlight(responses) \in Nat
  BY CountsOK
<1>6. InTransit' = InTransit
  BY <1>1, <1>3, <1>4, <1>5 DEF InTransit
<1>7. QED
  BY <1>1, <1>3, <1>4, <1>6 DEF SizesOK, fields

LEMMA SizesQuiet ==
  ASSUME SizesOK, UNCHANGED <<outer_pending_queue_size, inner_pending_queue_size, requests, responses>>,
         UNCHANGED <<worker, internal_proofs_pushed>>,
         \/ UNCHANGED parent
         \/ parent # "panicked" /\ parent' \in {"syncing", "gone", "drop_panicked"}
  PROVE  SizesOK'
<1>1. InTransit' = InTransit
  BY DEF InTransit, Unreported
<1>2. QED
  BY <1>1 DEF SizesOK

LEMMA SizesNext ==
  ASSUME IInv, SizesOK, [Next]_vars
  PROVE  SizesOK'
<1>1. CASE \E n \in Sizes : Push(n)
  BY <1>1, SizesPush
<1>2. CASE Step
  BY <1>2, SizesTell, MessageProofs DEF Step, workerVars
<1>3. CASE EndSync
  BY <1>3, SizesTell, MessageProofs DEF EndSync, workerVars
<1>4. CASE Drop
  BY <1>4, SizesTell, MessageProofs DEF Drop, workerVars
<1>5. CASE Pop \/ StartSync \/ Join
  BY <1>5, SizesQuiet DEF Pop, StartSync, Join, fields, workerVars
<1>6. CASE UNCHANGED vars
  BY <1>6, SizesQuiet DEF vars, parentVars, fields, workerVars
<1>7. QED
  BY <1>1, <1>2, <1>3, <1>4, <1>5, <1>6, SizesTryRecv, SizesWorkerRecv, SizesReport DEF Next

-----------------------------------------------------------------------------
(* Where a batch is that is not answered yet. *)

LEMMA HeadIdsOf ==
  ASSUME IInv, requests # <<>>
  PROVE  /\ Head(requests) \in ToSet(requests)
         /\ Bears(Head(requests)) => Ids(Tail(requests)) = Ids(requests) \ {Head(requests).id}
         /\ ~Bears(Head(requests)) => Ids(Tail(requests)) = Ids(requests)
BY HeadIds DEF IInv, RequestsOK, Listed

LEMMA WorkerOKPush ==
  ASSUME IInv, WorkerOK, WorkerRecv, Head(requests).type = "PushInternalProofs"
  PROVE  /\ WorkerOK'
         /\ Working' = Working \cup {Head(requests).id}
<1> DEFINE r == Head(requests)
           b == [id |-> next_inner_id, proofs |-> r.proofs]
<1>1. /\ internal_queue' = Append(internal_queue, b) /\ worker = "recv" /\ worker' = "report"
      /\ batch_aliases' = With(batch_aliases, next_inner_id, r.id)
      /\ UNCHANGED completed_proofs
  BY DEF WorkerRecv, WorkerPush
<1>2. Bears(b) /\ b.id = next_inner_id
  BY DEF Bears
<1> HIDE DEF r, b
<1>3. next_inner_id \notin DOMAIN batch_aliases /\ next_inner_id \notin Ids(internal_queue)
  BY IdsOf DEF IInv, AliasesOK, InnerOK
<1>4. /\ DOMAIN batch_aliases' = DOMAIN batch_aliases \cup {next_inner_id}
      /\ \A i \in DOMAIN batch_aliases : batch_aliases'[i] = batch_aliases[i]
      /\ batch_aliases'[next_inner_id] = r.id
  BY <1>1, <1>3 DEF With
<1>5. Working' = Working \cup {r.id}
  BY <1>4 DEF Working
<1>6. Ids(internal_queue') = Ids(internal_queue) \cup {next_inner_id}
  BY <1>1, <1>2, <1>3, AppendIds DEF IInv, InnerOK, Listed
<1>7. WorkerOK'
  BY <1>1, <1>4, <1>6 DEF WorkerOK
<1>8. QED
  BY <1>5, <1>7 DEF r

LEMMA WorkerOKStep ==
  ASSUME IInv, WorkerOK, worker = "recv", WorkerStep
  PROVE  WorkerOK' /\ Working' = Working
<1>1. Working' = Working
  BY DEF WorkerStep, Working
<1>2. CASE internal_queue = <<>>
  BY <1>1, <1>2 DEF WorkerOK, WorkerStep
<1>3. CASE internal_queue # <<>>
  <2> DEFINE b == Head(internal_queue)
             c == [id |-> b.id, node |-> Aggregate(b.proofs)]
  <2>1. /\ internal_queue' = Tail(internal_queue)
        /\ completed_proofs' = Append(completed_proofs, c)
        /\ UNCHANGED batch_aliases /\ worker' = "report"
    BY <1>3 DEF WorkerStep
  <2>2. Bears(c) /\ c.id = b.id
    BY DEF Bears
  <2>3. b \in ToSet(internal_queue) /\ Bears(b)
    BY <1>3, HeadIds DEF IInv, InnerOK, Listed
  <2> HIDE DEF c
  <2>4. Ids(internal_queue') = Ids(internal_queue) \ {b.id} /\ b.id \in Ids(internal_queue)
    BY <1>3, <2>1, <2>3, HeadIds DEF IInv, InnerOK, Listed
  <2> HIDE DEF b
  <2>5. Ids(completed_proofs') = Ids(completed_proofs) \cup {b.id}
    BY <2>1, <2>2, <2>4, AppendIds DEF IInv, InnerOK, Listed
  <2>6. QED
    BY <1>1, <2>1, <2>4, <2>5 DEF WorkerOK
<1>4. QED
  BY <1>2, <1>3

LEMMA WorkerOKSendProof ==
  ASSUME IInv, WorkerOK, SendProof
  PROVE  /\ WorkerOK'
         /\ \E id \in Working : /\ Working' = Working \ {id}
                                /\ Ids(responses') = Ids(responses) \cup {id}
<1> DEFINE c == Head(completed_proofs)
           id == batch_aliases[c.id]
           e == RecursiveProof(id, c.node)
<1>1. /\ completed_proofs # <<>> /\ completed_proofs' = Tail(completed_proofs)
      /\ responses' = Append(responses, e)
      /\ batch_aliases' = [i \in DOMAIN batch_aliases \ {c.id} |-> batch_aliases[i]]
      /\ worker = "report" /\ UNCHANGED <<internal_queue, worker>>
  BY DEF SendProof
<1>2. c \in ToSet(completed_proofs) /\ Bears(c) /\ c.id \in DOMAIN batch_aliases
  BY <1>1, HeadIds DEF IInv, InnerOK, Listed
<1>3. Ids(completed_proofs') = Ids(completed_proofs) \ {c.id}
  BY <1>1, <1>2, HeadIds DEF IInv, InnerOK, Listed
<1>4. Bears(e) /\ e.id = id
  BY DEF RecursiveProof, Bears
<1> HIDE DEF c, e
<1>5. /\ DOMAIN batch_aliases' = DOMAIN batch_aliases \ {c.id}
      /\ \A i \in DOMAIN batch_aliases' : batch_aliases'[i] = batch_aliases[i]
  BY <1>1
<1>6. Working' = Working \ {id} /\ id \in Working
  BY <1>2, <1>5 DEF IInv, AliasesOK, Working
<1> HIDE DEF id
<1>7. id \notin Ids(responses)
  BY <1>6 DEF IInv, OnePlace
<1>8. Ids(responses') = Ids(responses) \cup {id}
  BY <1>1, <1>4, <1>7, AppendIds DEF IInv, ResponsesOK, Listed
<1>9. WorkerOK'
  BY <1>1, <1>3, <1>5 DEF WorkerOK
<1>10. QED
  BY <1>6, <1>8, <1>9

LEMMA WorkerOKNext ==
  ASSUME IInv, WorkerOK, [Next]_vars
  PROVE  WorkerOK'
<1>1. CASE UNCHANGED workerVars
  BY <1>1 DEF WorkerOK, workerVars, inner
<1>2. CASE WorkerRecv
  <2>1. CASE Head(requests).type = "PushInternalProofs"
    BY <1>2, <2>1, WorkerOKPush
  <2>2. CASE WorkerStep
    BY <1>2, <2>2, WorkerOKStep DEF WorkerRecv
  <2>3. CASE WorkerSync \/ WorkerShutdown
    BY <1>2, <2>3 DEF WorkerOK, WorkerRecv, WorkerSync, WorkerShutdown, inner
  <2>4. QED
    BY <1>2, <2>1, <2>2, <2>3 DEF WorkerRecv
<1>3. CASE WorkerPanic
  BY <1>3 DEF WorkerPanic, WorkerOK
<1>4. CASE SendProof
  BY <1>4, WorkerOKSendProof
<1>5. CASE SendThroughput \/ SendSize
  BY <1>5 DEF SendThroughput, SendSize, WorkerOK, inner
<1>6. QED
  BY <1>1, <1>2, <1>3, <1>4, <1>5
     DEF Next, Push, Step, Pop, StartSync, TryRecv, EndSync, Drop, Join, vars

\* A batch goes from one place to the next.
LEMMA SomewhereNext ==
  ASSUME IInv, WorkerOK, Somewhere, [Next]_vars
  PROVE  Somewhere'
<1> DEFINE Places == Ids(requests) \cup Working \cup Ids(responses) \cup Ids(recursive_proofs)
                       \cup DOMAIN given
<1>1. SUFFICES ASSUME parent' # "panicked" PROVE DOMAIN asked' \subseteq Places'
  BY DEF Somewhere
<1>2. parent # "panicked"
  BY <1>1 DEF Next, Push, Step, Pop, StartSync, TryRecv, EndSync, Drop, Join, WorkerRecv,
     WorkerPanic, SendProof, SendThroughput, SendSize, Send, vars, parentVars
<1>3. DOMAIN asked \subseteq Places
  BY <1>2 DEF Somewhere
<1>4. CASE \E n \in Sizes : Push(n)
  <2> DEFINE id == Len(asked) + 1
  <2>1. PICK n \in Sizes : Push(n)
    BY <1>4
  <2> DEFINE e == PushInternalProofs(id, BatchOf(Leaves(id, n)))
  <2>2. /\ asked' = Append(asked, Leaves(id, n)) /\ requests' = Append(requests, e)
        /\ UNCHANGED <<given, responses, batch_aliases, recursive_proofs>>
    BY <1>1, <2>1 DEF Push, Send, workerVars
  <2>3. Bears(e) /\ e.id = id
    BY DEF Bears, PushInternalProofs
  <2> HIDE DEF e
  <2>4. IsSeq(asked) /\ Len(asked) \in Nat /\ DOMAIN asked = 1..Len(asked)
    BY IsSeqLength DEF IInv, Asked
  <2>5. DOMAIN asked' = DOMAIN asked \cup {id}
    <3>1. IsSeq(asked') /\ Len(asked') = id
      BY <2>2, <2>4, AppendIsSeq
    <3>2. DOMAIN asked' = 1..id
      BY <3>1, IsSeqLength
    <3>3. QED
      BY <2>4, <3>2
  <2>6. id \notin Ids(requests)
    <3>1. id \notin DOMAIN asked
      BY <2>4
    <3>2. QED
      BY <3>1, IdsOf DEF IInv, RequestsOK
  <2>7. Ids(requests') = Ids(requests) \cup {id}
    BY <2>2, <2>3, <2>6, AppendIds DEF IInv, RequestsOK, Listed
  <2> HIDE DEF id
  <2>8. QED
    BY <1>3, <2>2, <2>5, <2>7 DEF Working
<1>5. CASE Step \/ EndSync \/ Drop
  <2>1. PICK e : /\ ~Bears(e)
                 /\ requests' = Append(requests, e) \/ UNCHANGED requests
                 /\ UNCHANGED <<caller, recursive_proofs, responses, batch_aliases>>
    BY <1>5, MessageProofs DEF Step, EndSync, Drop, Send, fields, workerVars
  <2>2. Ids(requests') = Ids(requests)
    BY <2>1, AppendIds DEF IInv, RequestsOK, Listed
  <2>3. QED
    BY <1>3, <2>1, <2>2 DEF Working, caller
<1>6. CASE Pop
  <2> DEFINE e == Head(recursive_proofs)
  <2>1. /\ recursive_proofs # <<>> /\ recursive_proofs' = Tail(recursive_proofs)
        /\ given' = With(given, e.id, e.node)
        /\ UNCHANGED <<asked, requests, responses, batch_aliases>>
    BY <1>6 DEF Pop, workerVars
  <2>2. e \in ToSet(recursive_proofs) /\ Bears(e)
    BY <2>1, HeadIds DEF IInv, AnswersOK, Listed
  <2>3. Ids(recursive_proofs') = Ids(recursive_proofs) \ {e.id}
    BY <2>1, <2>2, HeadIds DEF IInv, AnswersOK, Listed
  <2>4. DOMAIN given' = DOMAIN given \cup {e.id}
    BY <2>1 DEF With
  <2> HIDE DEF e
  <2>5. QED
    BY <1>3, <2>1, <2>3, <2>4 DEF Working
<1>7. CASE TryRecv
  <2> DEFINE e == Head(responses)
             a == [id |-> e.id, node |-> e.node]
  <2>1. /\ responses # <<>> /\ responses' = Tail(responses)
        /\ UNCHANGED <<caller, requests, batch_aliases>>
        /\ \/ e.type # "RecursiveProof" /\ UNCHANGED recursive_proofs
           \/ e.type = "RecursiveProof" /\ recursive_proofs' = Append(recursive_proofs, a)
    BY <1>7 DEF TryRecv, ReceiveSize, ReceiveProof, workerVars, fields
  <2>2. Bears(a) /\ a.id = e.id
    BY DEF Bears
  <2>3. e \in ToSet(responses)
    BY <2>1, HeadIds DEF IInv, ResponsesOK, Listed
  <2>4. Bears(e) <=> e.type = "RecursiveProof"
    BY <2>3 DEF IInv, ResponsesOK
  <2>5. /\ Bears(e) => e.id \in Ids(responses) /\ Ids(responses') = Ids(responses) \ {e.id}
        /\ ~Bears(e) => Ids(responses') = Ids(responses)
    BY <2>1, HeadIds DEF IInv, ResponsesOK, Listed
  <2> HIDE DEF e, a
  <2>6. CASE Bears(e)
    <3>1. e.id \notin Ids(recursive_proofs)
      BY <2>5, <2>6 DEF IInv, OnePlace
    <3>2. Ids(recursive_proofs') = Ids(recursive_proofs) \cup {e.id}
      BY <2>1, <2>2, <2>4, <2>6, <3>1, AppendIds DEF IInv, AnswersOK, Listed
    <3>3. QED
      BY <1>3, <2>1, <2>5, <2>6, <3>2 DEF Working, caller
  <2>7. CASE ~Bears(e)
    BY <1>3, <2>1, <2>4, <2>5, <2>7 DEF Working, caller
  <2>8. QED
    BY <2>6, <2>7
<1>8. CASE WorkerRecv
  <2> DEFINE r == Head(requests)
  <2>1. /\ requests # <<>> /\ requests' = Tail(requests) /\ worker = "recv"
        /\ UNCHANGED <<caller, recursive_proofs, responses>>
    BY <1>8 DEF WorkerRecv, parentVars, fields
  <2>2. /\ r \in ToSet(requests)
        /\ Bears(r) => Ids(requests') = Ids(requests) \ {r.id}
        /\ ~Bears(r) => Ids(requests') = Ids(requests)
    BY <2>1, HeadIdsOf
  <2>3. Bears(r) <=> r.type = "PushInternalProofs"
    BY <2>2 DEF IInv, RequestsOK
  <2>4. CASE r.type = "PushInternalProofs"
    <3>1. Working' = Working \cup {r.id}
      BY <1>8, <2>4, WorkerOKPush
    <3> HIDE DEF r
    <3>2. QED
      BY <1>3, <2>1, <2>2, <2>3, <2>4, <3>1 DEF caller
  <2>5. CASE r.type # "PushInternalProofs"
    <3>1. Working' = Working
      BY <1>8, <2>5 DEF WorkerRecv, WorkerStep, WorkerSync, WorkerShutdown, Working
    <3> HIDE DEF r
    <3>2. QED
      BY <1>3, <2>1, <2>2, <2>3, <2>5, <3>1 DEF caller
  <2>6. QED
    BY <2>4, <2>5
<1>9. CASE WorkerPanic
  <2>1. /\ requests # <<>> /\ requests' = Tail(requests) /\ Head(requests).type = "Step"
        /\ UNCHANGED <<caller, recursive_proofs, responses, batch_aliases>>
    BY <1>9 DEF WorkerPanic, parentVars, fields
  <2>2. Ids(requests') = Ids(requests)
    BY <2>1, HeadIdsOf DEF IInv, RequestsOK
  <2>3. QED
    BY <1>3, <2>1, <2>2 DEF Working, caller
<1>10. CASE SendProof
  <2>1. UNCHANGED <<caller, recursive_proofs, requests>>
    BY <1>10 DEF SendProof, parentVars, fields
  <2>2. PICK id \in Working : /\ Working' = Working \ {id}
                              /\ Ids(responses') = Ids(responses) \cup {id}
    BY <1>10, WorkerOKSendProof
  <2>3. QED
    BY <1>3, <2>1, <2>2 DEF caller
<1>11. CASE SendThroughput \/ SendSize
  <2>1. PICK e : ~Bears(e) /\ responses' = Append(responses, e)
    BY <1>11, MessageProofs DEF SendThroughput, SendSize, PendingQueueSize, Bears
  <2>2. UNCHANGED <<caller, recursive_proofs, requests, batch_aliases>>
    BY <1>11 DEF SendThroughput, SendSize, parentVars, fields
  <2>3. Ids(responses') = Ids(responses)
    BY <2>1, AppendIds DEF IInv, ResponsesOK, Listed
  <2>4. QED
    BY <1>3, <2>2, <2>3 DEF Working, caller
<1>12. CASE StartSync \/ Join \/ UNCHANGED vars
  BY <1>3, <1>12 DEF StartSync, Join, vars, parentVars, fields, caller, workerVars, Working
<1>13. QED
  BY <1>4, <1>5, <1>6, <1>7, <1>8, <1>9, <1>10, <1>11, <1>12 DEF Next

-----------------------------------------------------------------------------
(* What it means that the worker reports an empty queue. *)

\* Nothing is sent, and the worker takes nothing over.
LEMMA DoneQuiet ==
  ASSUME EmptyMeansDone, UNCHANGED <<inner_pending_queue_size, responses, batch_aliases>>,
         Unreported = 0 \/ Unreported' = Unreported
  PROVE  EmptyMeansDone'
<1>1. Working' = Working
  BY DEF Working
<1>2. \A k : ReportsEmpty(k)' <=> ReportsEmpty(k)
  BY DEF ReportsEmpty
<1>3. \A k : NothingTaken(k)' => NothingTaken(k)
  BY DEF NothingTaken
<1>4. QED
  BY <1>1, <1>2, <1>3 DEF EmptyMeansDone

LEMMA ResponseLengths ==
  ASSUME IInv
  PROVE  /\ Len(responses) \in Nat /\ DOMAIN responses = 1..Len(responses)
         /\ \A e : responses' = Append(responses, e) =>
              /\ Len(responses') = Len(responses) + 1
              /\ DOMAIN responses' = 1..(Len(responses) + 1)
              /\ \A j \in 1..Len(responses) : responses'[j] = responses[j]
              /\ responses'[Len(responses) + 1] = e
         /\ responses # <<>> /\ responses' = Tail(responses) =>
              /\ Len(responses) # 0 /\ Head(responses) = responses[1]
              /\ Len(responses') = Len(responses) - 1
              /\ DOMAIN responses' = 1..(Len(responses) - 1)
              /\ \A j \in 1..(Len(responses) - 1) : responses'[j] = responses[j + 1]
<1>1. IsSeq(responses)
  BY DEF IInv, ResponsesOK, Listed
<1>2. Len(responses) \in Nat /\ DOMAIN responses = 1..Len(responses)
  BY <1>1, IsSeqLength
<1>3. ASSUME NEW e, responses' = Append(responses, e)
      PROVE  /\ Len(responses') = Len(responses) + 1
             /\ DOMAIN responses' = 1..(Len(responses) + 1)
             /\ \A j \in 1..Len(responses) : responses'[j] = responses[j]
             /\ responses'[Len(responses) + 1] = e
  <2>1. IsSeq(responses') /\ Len(responses') = Len(responses) + 1
    BY <1>1, <1>3, AppendIsSeq
  <2>2. DOMAIN responses' = 1..(Len(responses) + 1)
    BY <2>1, IsSeqLength
  <2>3. QED
    BY <1>1, <1>3, <2>1, <2>2, AppendIsSeq
<1>4. ASSUME responses # <<>>, responses' = Tail(responses)
      PROVE  /\ Len(responses) # 0 /\ Head(responses) = responses[1]
             /\ Len(responses') = Len(responses) - 1
             /\ DOMAIN responses' = 1..(Len(responses) - 1)
             /\ \A j \in 1..(Len(responses) - 1) : responses'[j] = responses[j + 1]
  <2>1. /\ IsSeq(responses') /\ DOMAIN responses' = 1..(Len(responses) - 1)
        /\ Len(responses) \in Nat \ {0} /\ Head(responses) = responses[1]
        /\ \A j \in 1..(Len(responses) - 1) : responses'[j] = responses[j + 1]
    BY <1>1, <1>4, TailIsSeq
  <2>2. Len(responses') \in Nat /\ DOMAIN responses' = 1..Len(responses')
    BY <2>1, IsSeqLength
  <2>3. Len(responses') = Len(responses) - 1
    BY <2>1, <2>2
  <2>4. QED
    BY <2>1, <2>3
<1>5. QED
  BY <1>2, <1>3, <1>4

\* The worker sends a message: a result, or what it works on is as it was.
LEMMA DoneSent ==
  ASSUME IInv, EmptyMeansDone, NEW e, responses' = Append(responses, e),
         UNCHANGED inner_pending_queue_size,
         Reports(e) /\ e.delta = 0 => Unreported = 0,
         ~Reports(e) => Unreported' = Unreported,
         \/ Working # {}
         \/ Working' = Working /\ ~Bears(e),
         Reports(e) /\ e.size = 0 => Working' = {}
  PROVE  EmptyMeansDone'
<1> DEFINE n == Len(responses)
<1>1. /\ n \in Nat /\ DOMAIN responses = 1..n
      /\ Len(responses') = n + 1 /\ DOMAIN responses' = 1..(n + 1)
      /\ \A j \in 1..n : responses'[j] = responses[j]
      /\ responses'[n + 1] = e
  BY ResponseLengths
<1> HIDE DEF n
<1>2. SUFFICES ASSUME NEW k \in 0..(n + 1), ReportsEmpty(k)', NothingTaken(k)'
               PROVE  Working' = {} /\ \A j \in 1..(n + 1) : j > k => ~Bears(responses'[j])
  BY <1>1 DEF EmptyMeansDone
<1>3. CASE k = n + 1
  <2>1. Reports(e) /\ e.size = 0
    BY <1>1, <1>2, <1>3 DEF ReportsEmpty
  <2>2. \A j \in 1..(n + 1) : ~(j > k)
    BY <1>1, <1>3
  <2>3. QED
    BY <2>1, <2>2
<1>4. CASE k \in 0..n
  <2>1. ReportsEmpty(k)
    BY <1>1, <1>2, <1>4 DEF ReportsEmpty
  <2>2. Reports(e) => e.delta = 0
    BY <1>1, <1>2, <1>4 DEF NothingTaken
  <2>3. Unreported = 0
    BY <1>2, <2>2 DEF NothingTaken
  <2>4. NothingTaken(k)
    BY <1>1, <1>2, <2>3 DEF NothingTaken
  <2>5. Working = {} /\ \A j \in 1..n : j > k => ~Bears(responses[j])
    BY <1>1, <1>4, <2>1, <2>4 DEF EmptyMeansDone, n
  <2>6. \A j \in 1..(n + 1) : j \in 1..n \/ j = n + 1
    BY <1>1
  <2>7. QED
    BY <1>1, <2>5, <2>6
<1>5. QED
  BY <1>1, <1>3, <1>4

\* The parent moves on to the next response: what was the k + 1st is the k-th.
LEMMA DoneTryRecv ==
  ASSUME IInv, EmptyMeansDone, TryRecv
  PROVE  EmptyMeansDone'
<1> DEFINE n == Len(responses)
           e == Head(responses)
<1>1. /\ responses # <<>> /\ responses' = Tail(responses)
      /\ Unreported' = Unreported /\ Working' = Working
      /\ \/ Reports(e) /\ inner_pending_queue_size' = e.size
         \/ ~Reports(e) /\ UNCHANGED inner_pending_queue_size
  BY DEF TryRecv, ReceiveSize, ReceiveProof, workerVars, fields, Reports, Unreported, Working
<1>2. /\ n \in Nat /\ DOMAIN responses = 1..n /\ n # 0 /\ e = responses[1]
      /\ Len(responses') = n - 1 /\ DOMAIN responses' = 1..(n - 1)
      /\ \A j \in 1..(n - 1) : responses'[j] = responses[j + 1]
  BY <1>1, ResponseLengths
<1> HIDE DEF n, e
<1>3. SUFFICES ASSUME NEW k \in 0..(n - 1), ReportsEmpty(k)', NothingTaken(k)'
               PROVE  Working' = {} /\ \A j \in 1..(n - 1) : j > k => ~Bears(responses'[j])
  BY <1>2 DEF EmptyMeansDone
<1>4. PICK m \in 0..n : /\ ReportsEmpty(m) /\ m \in {k, k + 1}
                        /\ m = k => k = 0 /\ ~Reports(e)
  <2>1. CASE k = 0
    <3>1. inner_pending_queue_size' = 0
      BY <1>2, <1>3, <2>1 DEF ReportsEmpty
    <3>2. CASE Reports(e)
      <4>1. ReportsEmpty(1)
        BY <1>1, <1>2, <3>1, <3>2 DEF ReportsEmpty
      <4>2. QED
        BY <1>2, <2>1, <4>1
    <3>3. CASE ~Reports(e)
      <4>1. ReportsEmpty(0)
        BY <1>1, <3>1, <3>3 DEF ReportsEmpty
      <4>2. QED
        BY <1>2, <2>1, <3>3, <4>1
    <3>4. QED
      BY <3>2, <3>3
  <2>2. CASE k # 0
    <3>1. k \in 1..(n - 1) /\ k + 1 \in 1..n
      BY <1>2, <2>2
    <3>2. ReportsEmpty(k + 1)
      BY <1>2, <1>3, <2>2, <3>1 DEF ReportsEmpty
    <3>3. QED
      BY <1>2, <3>1, <3>2
  <2>3. QED
    BY <2>1, <2>2
<1>5. NothingTaken(m)
  <2>1. ASSUME NEW j \in 1..n, j > m, Reports(responses[j]) PROVE responses[j].delta = 0
    <3>1. j # 1
      BY <1>2, <1>4, <2>1
    <3>2. j - 1 \in 1..(n - 1) /\ (j - 1) + 1 = j
      BY <1>2, <3>1
    <3>3. j - 1 > k
      BY <1>2, <1>4, <2>1, <3>1
    <3>4. responses'[j - 1] = responses[j]
      BY <1>2, <3>2
    <3>5. QED
      BY <1>2, <1>3, <2>1, <3>2, <3>3, <3>4 DEF NothingTaken
  <2>2. Unreported = 0
    BY <1>1, <1>3 DEF NothingTaken
  <2>3. QED
    BY <1>2, <2>1, <2>2 DEF NothingTaken
<1>6. Working = {} /\ \A j \in 1..n : j > m => ~Bears(responses[j])
  BY <1>2, <1>4, <1>5 DEF EmptyMeansDone, n
<1>7. ASSUME NEW j \in 1..(n - 1), j > k PROVE ~Bears(responses'[j])
  <2>1. j + 1 \in 1..n /\ j + 1 > m
    BY <1>2, <1>4, <1>7
  <2>2. QED
    BY <1>2, <1>6, <2>1
<1>8. QED
  BY <1>1, <1>6, <1>7

LEMMA NoProofsNoBatches ==
  ASSUME IInv, SizesOK, SizeOf(internal_queue) = 0
  PROVE  Ids(internal_queue) = {}
<1>1. IsSeq(internal_queue) /\ \A b \in ToSet(internal_queue) : Len(b.proofs) \in Nat \ {0}
  BY CountsOK DEF IInv, InnerOK, Listed
<1>2. \A b \in ToSet(internal_queue) : Len(b.proofs) <= SizeOf(internal_queue)
  BY <1>1, SizeOfIs
<1>3. ToSet(internal_queue) = {}
  BY <1>1, <1>2
<1>4. QED
  BY <1>3, IdsOf

LEMMA DoneNext ==
  ASSUME IInv, SizesOK, WorkerOK, EmptyMeansDone, [Next]_vars
  PROVE  EmptyMeansDone'
<1>1. CASE \/ \E n \in Sizes : Push(n)
           \/ Step \/ Pop \/ StartSync \/ EndSync \/ Drop \/ Join \/ UNCHANGED vars
  BY <1>1, DoneQuiet DEF Push, Step, Pop, StartSync, EndSync, Drop, Join, vars, parentVars,
     fields, workerVars, Unreported
<1>2. CASE TryRecv
  BY <1>2, DoneTryRecv
<1>3. CASE WorkerRecv \/ WorkerPanic
  <2>1. /\ Unreported = 0 /\ UNCHANGED <<inner_pending_queue_size, responses>>
        /\ requests # <<>>
    BY <1>3 DEF WorkerRecv, WorkerPanic, parentVars, fields, Unreported
  <2>2. CASE UNCHANGED batch_aliases
    BY <2>1, <2>2, DoneQuiet
  <2>3. CASE WorkerRecv /\ Head(requests).type = "PushInternalProofs"
    <3>1. Head(requests) \in ToSet(requests)
      BY <2>1, HeadIdsOf
    <3>2. Proofs(Head(requests)) \in Nat \ {0}
      BY <2>3, <3>1, CountsOK DEF IInv, RequestsOK
    <3>3. Unreported' # 0
      BY <2>3, <3>2 DEF WorkerRecv, WorkerPush, Unreported, Proofs
    <3>4. QED
      BY <3>3 DEF EmptyMeansDone, NothingTaken
  <2>4. QED
    BY <1>3, <2>2, <2>3 DEF WorkerRecv, WorkerPanic, WorkerStep, WorkerSync, WorkerShutdown
<1>4. CASE SendProof
  <2>1. PICK e : responses' = Append(responses, e) /\ ~Reports(e)
    BY <1>4 DEF SendProof, RecursiveProof, Reports
  <2>2. Working # {}
    BY <1>4, WorkerOKSendProof
  <2>3. UNCHANGED inner_pending_queue_size /\ Unreported' = Unreported
    BY <1>4 DEF SendProof, parentVars, fields, Unreported
  <2>4. QED
    BY <2>1, <2>2, <2>3, DoneSent
<1>5. CASE SendThroughput
  <2>1. /\ responses' = Append(responses, ProofThroughput)
        /\ UNCHANGED inner_pending_queue_size /\ Unreported' = Unreported
        /\ Working' = Working
    BY <1>5 DEF SendThroughput, parentVars, fields, Unreported, Working
  <2>2. ~Reports(ProofThroughput) /\ ~Bears(ProofThroughput)
    BY MessageProofs DEF Reports
  <2>3. QED
    BY <2>1, <2>2, DoneSent
<1>6. CASE SendSize
  <2> DEFINE e == PendingQueueSize(internal_proofs_pushed, SizeOf(internal_queue))
  <2>1. /\ responses' = Append(responses, e)
        /\ UNCHANGED inner_pending_queue_size /\ Unreported = internal_proofs_pushed
        /\ Working' = Working /\ worker = "size"
    BY <1>6 DEF SendSize, parentVars, fields, Unreported, Working
  <2>2. /\ Reports(e) /\ ~Bears(e)
        /\ e.delta = internal_proofs_pushed /\ e.size = SizeOf(internal_queue)
    BY DEF PendingQueueSize, Reports, Bears
  <2> HIDE DEF e
  <2>3. ASSUME e.size = 0 PROVE Working = {}
    <3>1. Ids(internal_queue) = {}
      BY <2>2, <2>3, NoProofsNoBatches
    <3>2. Ids(completed_proofs) = {}
      BY <2>1, EmptyIds DEF WorkerOK
    <3>3. QED
      BY <2>1, <3>1, <3>2 DEF WorkerOK, Working
  <2>4. QED
    BY <2>1, <2>2, <2>3, DoneSent
<1>7. QED
  BY <1>1, <1>2, <1>3, <1>4, <1>5, <1>6 DEF Next

-----------------------------------------------------------------------------
(* The invariants that the runs check. *)

LEMMA SizesInit == Init => SInv
<1> SUFFICES ASSUME Init PROVE SInv
  OBVIOUS
<1>1. Counts(<<>>) = <<>>
  BY DEF Counts
<1>2. InFlight(<<>>) = 0
  BY <1>1, TotalEmpty DEF InFlight, Counts
<1>3. Len(responses) = 0 /\ DOMAIN asked = {} /\ ToSet(<<>>) = {} /\ DOMAIN batch_aliases = {}
  BY EmptyIds DEF Init
<1>4. InTransit = 0
  BY <1>2 DEF Init, InTransit, Unreported
<1>5. SizesOK
  BY <1>3, <1>4 DEF Init, SizesOK
<1>6. Somewhere /\ WorkerOK
  BY <1>3 DEF Init, Somewhere, WorkerOK
<1>7. Working = {}
  BY <1>3 DEF Working
<1>8. EmptyMeansDone
  BY <1>7 DEF EmptyMeansDone, Init
<1>9. QED
  BY <1>5, <1>6, <1>8 DEF SInv

LEMMA InvHolds == Spec => [](IInv /\ SInv)
<1>1. Init => IInv /\ SInv
  BY InitOK, SizesInit
<1>2. IInv /\ SInv /\ [Next]_vars => IInv' /\ SInv'
  BY NextOK, SizesNext, SomewhereNext, WorkerOKNext, DoneNext DEF SInv
<1>3. QED
  BY <1>1, <1>2, PTL DEF Spec

\* The variables keep their types: the unsigned sizes of the parent stay natural
\* numbers, although sync subtracts from one (aggregator.rs:742).
THEOREM TypeCorrect == Spec => []TypeOK
<1>1. IInv /\ SInv => TypeOK
  BY DEF IInv, AliasesOK, SInv, SizesOK, TypeOK
<1>2. QED
  BY <1>1, InvHolds, PTL

\* The parent's speculative size is what is on its way to the worker or not yet
\* reported by it, and what is on its way back, for any batches and any interleaving
\* of the two threads (aggregator.rs:648 to 654, 700, 741 to 744).
THEOREM OuterSizeHolds == Spec => []OuterSizeIsInFlight
<1>1. IInv /\ SInv => OuterSizeIsInFlight
  <2>1. SUFFICES ASSUME IInv, SInv, parent # "panicked" PROVE OuterSizeIsInFlight
    BY DEF OuterSizeIsInFlight
  <2>2. outer_pending_queue_size = InFlight(requests) + InFlight(responses) + Unreported
    BY <2>1 DEF SInv, SizesOK, InTransit
  <2>3. QED
    BY <2>2 DEF OuterSizeIsInFlight, Unreported
<1>2. QED
  BY <1>1, InvHolds, PTL

\* When both sizes are zero after a sync, no batch is in the channels or with the
\* worker: all the answers are with the parent (aggregator.rs:637 to 654, 730, 737 to 752).
THEOREM NothingPendingHolds == Spec => []NothingPendingMeansDone
<1>1. ASSUME IInv, SInv, parent = "ready", PendingSize = 0, NEW id \in DOMAIN asked
      PROVE  Answered(id)
  <2>1. /\ outer_pending_queue_size \in Nat /\ inner_pending_queue_size \in Nat
        /\ outer_pending_queue_size = InTransit
    BY <1>1 DEF SInv, SizesOK
  <2>2. InFlight(requests) \in Nat /\ InFlight(responses) \in Nat /\ Unreported \in Nat
    BY <1>1, CountsOK DEF SInv
  <2>3. InTransit = 0 /\ inner_pending_queue_size = 0
    BY <1>1, <2>1 DEF PendingSize
  <2>4. InFlight(requests) = 0 /\ InFlight(responses) = 0 /\ Unreported = 0
    BY <2>2, <2>3 DEF InTransit
  <2>5. Ids(requests) = {}
    <3>1. IsSeq(requests) /\ \A r \in ToSet(requests) : Proofs(r) \in Nat /\ (Bears(r) => Proofs(r) # 0)
      BY <1>1, CountsOK DEF IInv, RequestsOK, Listed, SInv
    <3>2. \A r \in ToSet(requests) : Proofs(r) <= InFlight(requests)
      BY <3>1, InFlightIs
    <3>3. \A r \in ToSet(requests) : ~Bears(r)
      BY <2>4, <3>1, <3>2
    <3>4. QED
      BY <3>3, IdsOf
  <2>6. NothingTaken(0)
    <3>1. IsSeq(responses) /\ \A r \in ToSet(responses) : Proofs(r) \in Nat
      BY <1>1, CountsOK DEF IInv, ResponsesOK, Listed, SInv
    <3>2. \A r \in ToSet(responses) : Proofs(r) <= InFlight(responses)
      BY <3>1, InFlightIs
    <3>3. \A r \in ToSet(responses) : Proofs(r) = 0
      BY <2>4, <3>1, <3>2
    <3>4. \A j \in DOMAIN responses : responses[j] \in ToSet(responses)
      BY DEF ToSet
    <3>5. \A r : Reports(r) => Proofs(r) = r.delta
      BY DEF Reports, Proofs
    <3>6. QED
      BY <2>4, <3>3, <3>4, <3>5 DEF NothingTaken
  <2>7. ReportsEmpty(0)
    BY <2>3 DEF ReportsEmpty
  <2>8. Working = {} /\ \A j \in DOMAIN responses : ~Bears(responses[j])
    <3>1. Len(responses) \in Nat /\ DOMAIN responses = 1..Len(responses)
      BY <1>1, ResponseLengths
    <3>2. 0 \in 0..Len(responses) /\ \A j \in DOMAIN responses : j > 0
      BY <3>1
    <3>3. QED
      BY <1>1, <2>6, <2>7, <3>2 DEF SInv, EmptyMeansDone
  <2>9. Ids(responses) = {}
    BY <2>8 DEF Ids
  <2>10. id \in Ids(recursive_proofs) \cup DOMAIN given
    BY <1>1, <2>5, <2>8, <2>9 DEF SInv, Somewhere
  <2>11. QED
    BY <2>10 DEF Ids, Answered
<1>2. IInv /\ SInv => NothingPendingMeansDone
  BY <1>1 DEF NothingPendingMeansDone
<1>3. QED
  BY <1>2, InvHolds, PTL
=============================================================================
