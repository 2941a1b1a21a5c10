------------------------ MODULE ThreadedAggregator ------------------------
(***************************************************************************)
(* An aggregator that runs another one in a thread of its own (nodes/src/  *)
(* aggregator.rs).  The parent and the worker share nothing but two        *)
(* channels.  The parent drains the responses in sync, one try_recv a      *)
(* step, while the worker goes on sending.  The inner aggregator is the    *)
(* one the servers run, which finishes at most one batch in a step; making *)
(* a proof may panic, and then the worker thread is gone.                  *)
(***************************************************************************)
EXTENDS AggregatorMessages

CONSTANTS
  FirstInnerId,  \* where the batch ids of the inner aggregator start
  MayPanic,      \* whether the inner aggregator may panic
  MaxBatches,    \* bound: batches the caller pushes
  MaxRequests,   \* bound: requests in the channel when the caller sends one more
  MaxResponses   \* bound: responses in the channel when the worker takes a request, except
                 \* while the parent joins it

ASSUME ThreadedAssumption ==
  /\ FirstInnerId \in Nat
  /\ MayPanic \in BOOLEAN
  /\ MaxBatches \in Nat
  /\ MaxRequests \in Nat \ {0}
  /\ MaxResponses \in Nat \ {0}

VARIABLES
  \* the caller's view
  asked, given,
  \* the parent
  parent,  \* "ready", "syncing", "joining", "gone", "panicked", "drop_panicked"
  outer_pending_queue_size, inner_pending_queue_size, recursive_proofs,
  \* the channels
  requests, responses,
  \* the worker
  worker,                    \* "recv", "report", "size", "exited", "dead"
  batch_aliases, internal_proofs_pushed,
  \* the inner aggregator
  internal_queue, completed_proofs, next_inner_id

caller == <<asked, given>>
fields == <<outer_pending_queue_size, inner_pending_queue_size, recursive_proofs>>
parentVars == <<parent, fields>>
inner == <<internal_queue, completed_proofs, next_inner_id>>
workerVars == <<worker, batch_aliases, internal_proofs_pushed, inner>>
vars == <<caller, parentVars, requests, responses, workerVars>>

Init ==
  /\ asked = <<>> /\ given = <<>>
  /\ parent = "ready"
  /\ outer_pending_queue_size = 0 /\ inner_pending_queue_size = 0 /\ recursive_proofs = <<>>
  /\ requests = <<>> /\ responses = <<>>
  /\ worker = "recv"
  /\ batch_aliases = <<>> /\ internal_proofs_pushed = 0
  /\ internal_queue = <<>> /\ completed_proofs = <<>> /\ next_inner_id = FirstInnerId

-----------------------------------------------------------------------------
(* The parent. *)

WorkerListens == worker \notin {"exited", "dead"}

\* sender.send(request).unwrap() fails once the worker is gone.
Send(request, sent, failed) ==
  IF WorkerListens
  THEN requests' = Append(requests, request) /\ parent' = sent
  ELSE parent' = failed /\ UNCHANGED requests

Push(n) ==
  /\ parent = "ready"
  /\ Len(asked) < MaxBatches
  /\ Len(requests) < MaxRequests
  /\ LET id == Len(asked) + 1
         leaves == Leaves(id, n)
     IN  /\ asked' = Append(asked, leaves)
         /\ outer_pending_queue_size' = outer_pending_queue_size + n
         /\ Send(PushInternalProofs(id, BatchOf(leaves)), "ready", "panicked")
  /\ UNCHANGED <<given, inner_pending_queue_size, recursive_proofs, responses, workerVars>>

Step ==
  /\ parent = "ready" /\ Len(requests) < MaxRequests
  /\ Send(StepRequest, "ready", "panicked")
  /\ UNCHANGED <<caller, fields, responses, workerVars>>

Pop ==
  /\ parent = "ready" /\ recursive_proofs # <<>>
  /\ given' = With(given, Head(recursive_proofs).id, Head(recursive_proofs).node)
  /\ recursive_proofs' = Tail(recursive_proofs)
  /\ UNCHANGED <<asked, parent, outer_pending_queue_size, inner_pending_queue_size,
                 requests, responses, workerVars>>

PendingSize == inner_pending_queue_size + outer_pending_queue_size

StartSync ==
  /\ parent = "ready"
  /\ Len(requests) < MaxRequests
       \/ (Len(requests) = MaxRequests /\ Len(responses) >= MaxResponses)
  /\ parent' = "syncing"
  /\ UNCHANGED <<caller, fields, requests, responses, workerVars>>

\* mutant: the speculative size is not reduced by what the worker took over
ReceiveSizeOnly ==
  /\ inner_pending_queue_size' = Head(responses).size
  /\ UNCHANGED <<outer_pending_queue_size, recursive_proofs>>

ReceiveSize ==
  /\ outer_pending_queue_size' = outer_pending_queue_size - Head(responses).delta
  /\ inner_pending_queue_size' = Head(responses).size
  /\ UNCHANGED recursive_proofs

\* mutant: the last proof replaces those not popped yet
ReceiveLastProof ==
  /\ recursive_proofs' = <<[id |-> Head(responses).id, node |-> Head(responses).node]>>
  /\ UNCHANGED <<outer_pending_queue_size, inner_pending_queue_size>>

ReceiveProof ==
  /\ recursive_proofs' =
       Append(recursive_proofs, [id |-> Head(responses).id, node |-> Head(responses).node])
  /\ UNCHANGED <<outer_pending_queue_size, inner_pending_queue_size>>

TryRecv ==
  /\ parent = "syncing" /\ responses # <<>>
  /\ responses' = Tail(responses)
  /\ \/ Head(responses).type = "PendingQueueSize" /\ ReceiveSize
     \/ Head(responses).type = "RecursiveProof" /\ ReceiveProof
     \/ Head(responses).type = "ProofThroughput" /\ UNCHANGED fields
  /\ UNCHANGED <<caller, parent, requests, workerVars>>

EndSync ==
  /\ parent = "syncing" /\ responses = <<>>
  /\ Send(SyncRequest, "ready", "panicked")
  /\ UNCHANGED <<caller, fields, responses, workerVars>>

Drop ==
  /\ parent = "ready"
  /\ Send(ShutdownRequest, "joining", "drop_panicked")
  /\ UNCHANGED <<caller, fields, responses, workerVars>>

\* handle.join().unwrap()
Join ==
  /\ parent = "joining" /\ ~WorkerListens
  /\ parent' = IF worker = "exited" THEN "gone" ELSE "drop_panicked"
  /\ UNCHANGED <<caller, fields, requests, responses, workerVars>>

-----------------------------------------------------------------------------
(* The worker. *)

WorkerPush(request) ==
  /\ internal_queue' = Append(internal_queue, [id |-> next_inner_id, proofs |-> request.proofs])
  /\ next_inner_id' = next_inner_id + 1
  /\ batch_aliases' = With(batch_aliases, next_inner_id, request.id)
  /\ internal_proofs_pushed' = Len(request.proofs)
  /\ worker' = "report"
  /\ UNCHANGED completed_proofs

\* Whatever is in the queue, step takes one batch.
WorkerStep ==
  /\ IF internal_queue = <<>> THEN UNCHANGED <<internal_queue, completed_proofs>>
     ELSE LET batch == Head(internal_queue)
          IN  /\ internal_queue' = Tail(internal_queue)
              /\ completed_proofs' =
                   Append(completed_proofs, [id |-> batch.id, node |-> Aggregate(batch.proofs)])
  /\ internal_proofs_pushed' = 0
  /\ worker' = "report"
  /\ UNCHANGED <<batch_aliases, next_inner_id>>

\* mutant: the count of the proofs pushed outlives its iteration
WorkerSyncKeepsCount ==
  /\ worker' = "report"
  /\ UNCHANGED <<internal_proofs_pushed, batch_aliases, inner>>

WorkerSync ==
  /\ internal_proofs_pushed' = 0
  /\ worker' = "report"
  /\ UNCHANGED <<batch_aliases, inner>>

\* mutant: the loop goes on after the request to shut down
WorkerIgnoresShutdown ==
  /\ worker' = "recv"
  /\ UNCHANGED <<batch_aliases, internal_proofs_pushed, inner>>

WorkerShutdown ==
  /\ worker' = "exited"
  /\ UNCHANGED <<batch_aliases, internal_proofs_pushed, inner>>

WorkerRecv ==
  /\ worker = "recv" /\ requests # <<>>
  /\ Len(responses) < MaxResponses \/ parent = "joining"
  /\ requests' = Tail(requests)
  /\ \/ Head(requests).type = "PushInternalProofs" /\ WorkerPush(Head(requests))
     \/ Head(requests).type = "Step" /\ WorkerStep
     \/ Head(requests).type = "Sync" /\ WorkerSync
     \/ Head(requests).type = "Shutdown" /\ WorkerShutdown
  /\ UNCHANGED <<caller, parentVars, responses>>

\* Making a proof fails: the batch is out of the queue and the thread is gone.
WorkerPanic ==
  /\ MayPanic
  /\ worker = "recv" /\ requests # <<>>
  /\ Head(requests).type = "Step"
  /\ internal_queue # <<>>
  /\ requests' = Tail(requests)
  /\ internal_queue' = Tail(internal_queue)
  /\ worker' = "dead"
  /\ UNCHANGED <<caller, parentVars, responses, batch_aliases, internal_proofs_pushed,
                 completed_proofs, next_inner_id>>

\* mutant: the answer goes out under the id of the inner aggregator
SendProofUnaliased ==
  /\ worker = "report" /\ completed_proofs # <<>>
  /\ responses' =
       Append(responses, RecursiveProof(Head(completed_proofs).id, Head(completed_proofs).node))
  /\ completed_proofs' = Tail(completed_proofs)
  /\ UNCHANGED <<caller, parentVars, requests, worker, batch_aliases, internal_proofs_pushed,
                 internal_queue, next_inner_id>>

SendProof ==
  /\ worker = "report" /\ completed_proofs # <<>>
  /\ LET result == Head(completed_proofs)
     IN  /\ responses' = Append(responses, RecursiveProof(batch_aliases[result.id], result.node))
         /\ batch_aliases' = [i \in DOMAIN batch_aliases \ {result.id} |-> batch_aliases[i]]
  /\ completed_proofs' = Tail(completed_proofs)
  /\ UNCHANGED <<caller, parentVars, requests, worker, internal_proofs_pushed,
                 internal_queue, next_inner_id>>

\* mutant: the sizes are reported before the results are popped
SendThroughputEarly ==
  /\ worker = "report"
  /\ responses' = Append(responses, ProofThroughput)
  /\ worker' = "size"
  /\ UNCHANGED <<caller, parentVars, requests, batch_aliases, internal_proofs_pushed, inner>>

SendThroughput ==
  /\ worker = "report" /\ completed_proofs = <<>>
  /\ responses' = Append(responses, ProofThroughput)
  /\ worker' = "size"
  /\ UNCHANGED <<caller, parentVars, requests, batch_aliases, internal_proofs_pushed, inner>>

SendSize ==
  /\ worker = "size"
  /\ responses' =
       Append(responses, PendingQueueSize(internal_proofs_pushed, SizeOf(internal_queue)))
  /\ worker' = "recv"
  /\ UNCHANGED <<caller, parentVars, requests, batch_aliases, internal_proofs_pushed, inner>>

-----------------------------------------------------------------------------
Next ==
  \/ \E n \in Sizes : Push(n)
  \/ Step \/ Pop \/ StartSync \/ TryRecv \/ EndSync \/ Drop \/ Join
  \/ WorkerRecv \/ WorkerPanic \/ SendProof \/ SendThroughput \/ SendSize

Spec == Init /\ [][Next]_vars

\* The threads run, and a caller that has not dropped the aggregator goes on
\* like the tests do: while pop gives nothing, step and sync again.
Worker == WorkerRecv \/ SendProof \/ SendThroughput \/ SendSize

FairSpec ==
  /\ Spec
  /\ WF_vars(Worker) /\ WF_vars(TryRecv \/ EndSync) /\ WF_vars(Join)
  /\ SF_vars(Step) /\ SF_vars(StartSync) /\ SF_vars(Pop)

-----------------------------------------------------------------------------
TypeOK ==
  /\ parent \in {"ready", "syncing", "joining", "gone", "panicked", "drop_panicked"}
  /\ outer_pending_queue_size \in Nat
  /\ inner_pending_queue_size \in Nat
  /\ worker \in {"recv", "report", "size", "exited", "dead"}
  /\ internal_proofs_pushed \in Nat
  /\ \A i \in DOMAIN batch_aliases : batch_aliases[i] \in DOMAIN asked

\* The speculative size of the parent is at all times the number of proofs it
\* pushed and the worker has not reported as taken over: the unsigned
\* subtraction in sync never underflows and nothing is counted twice for good.
OuterSizeIsInFlight ==
  parent # "panicked" =>
    outer_pending_queue_size =
      InFlight(requests) + InFlight(responses)
        + (IF worker \in {"report", "size"} THEN internal_proofs_pushed ELSE 0)

Answered(id) ==
  id \in DOMAIN given \/ \E i \in DOMAIN recursive_proofs : recursive_proofs[i].id = id

\* When the aggregator says that nothing is pending, every batch has its
\* answer with the parent already: the worker posts results before sizes.
NothingPendingMeansDone ==
  parent = "ready" /\ PendingSize = 0 => \A id \in DOMAIN asked : Answered(id)

Contract == INSTANCE AggregatorContract

\* The aggregator keeps the promise of the trait, also when the worker dies:
\* every batch is answered at most once, under its own id, with its own root.
KeepsContract == Contract!Safe

\* While the caller keeps the aggregator and the worker lives, every batch is
\* answered in the end.
EveryBatchAnswered ==
  \A id \in 1..MaxBatches :
    id \in DOMAIN asked ~>
      id \in DOMAIN given \/ parent \in {"joining", "gone"} \/ worker = "dead"

\* Dropping the aggregator ends, after all the requests in the channel or at the
\* one at which the worker dies: the thread is always joined.
DropReturns == parent = "joining" ~> parent \in {"gone", "drop_panicked"}

\* "ignoring any sending errors if it already panicked/died" (nodes/src/
\* aggregator.rs:677): dropping the aggregator of a dead worker does not panic.
DropIgnoresDeadWorker == parent # "drop_panicked"
=============================================================================
