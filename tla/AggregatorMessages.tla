------------------------- MODULE AggregatorMessages -------------------------
(***************************************************************************)
(* What an aggregator is told and tells when it is behind a channel or a   *)
(* connection (nodes/src/aggregator.rs): ThreadRequest and TcpRequest have *)
(* the same cases, and so have ThreadResponse and TcpResponse.             *)
(***************************************************************************)
EXTENDS Batches

PushInternalProofs(id, proofs) == [type |-> "PushInternalProofs", id |-> id, proofs |-> proofs]
StepRequest == [type |-> "Step"]
SyncRequest == [type |-> "Sync"]
ShutdownRequest == [type |-> "Shutdown"]

RecursiveProof(id, node) == [type |-> "RecursiveProof", id |-> id, node |-> node]
ProofThroughput == [type |-> "ProofThroughput"]
PendingQueueSize(delta, size) == [type |-> "PendingQueueSize", delta |-> delta, size |-> size]

\* The proofs that a message moves between the outer and the inner queue.
Proofs(message) ==
  CASE message.type = "PushInternalProofs" -> Len(message.proofs)
    [] message.type = "PendingQueueSize" -> message.delta
    [] OTHER -> 0

InFlight(messages) == Total([i \in DOMAIN messages |-> Proofs(messages[i])])
=============================================================================
