--------------------------- MODULE TcpAggregator ---------------------------
(***************************************************************************)
(* An aggregator behind a TCP connection (nodes/src/aggregator.rs): the    *)
(* client, which never blocks, the server, which always does, and the      *)
(* streams between them.  The node binary serves one client after another  *)
(* with the same aggregator.  A client may go away between any two of its  *)
(* steps, and then the connection may be reset.                            *)
(*                                                                         *)
(* The aggregator of the server answers in any order, at some later step   *)
(* (see RecursiveAggregator).                                              *)
(***************************************************************************)
EXTENDS AggregatorMessages

CONSTANTS
  FirstInnerId,  \* where the batch ids of the server's aggregator start
  RequestWindow, ResponseWindow,  \* units that the network holds in either direction
  MaxClients,    \* bound: connections, one after another
  MaxBatches,    \* bound: batches that one client pushes
  MaxBacklog     \* bound: units that are not sent yet when the client sends more

ASSUME TcpAssumption ==
  /\ FirstInnerId \in Nat
  /\ RequestWindow \in Nat \ {0} /\ ResponseWindow \in Nat \ {0}
  /\ MaxClients \in Nat \ {0}
  /\ MaxBatches \in Nat
  /\ MaxBacklog \in Nat

VARIABLES
  \* the callers' view: batch ids are those of a client, <<connection, id>>
  asked, given,
  \* the client: "ready", "flush", "receive", "shutdown", "closing", "gone"
  client, connection, free_batch_id,
  outer_pending_queue_size, inner_pending_queue_size, recursive_proofs,
  \* the stream of requests and the stream of responses
  req_write_buf, req_wire, req_read_buf, req_len_bytes,
  resp_write_buf, resp_wire, resp_read_buf, resp_len_bytes,
  \* the server: "accept", "receive", "report", "size", "panicked"
  server, batch_aliases, internal_proofs_pushed,
  \* the aggregator of the server
  internal_queue, completed_proofs, next_inner_id

caller == <<asked, given>>
fields == <<outer_pending_queue_size, inner_pending_queue_size, recursive_proofs>>
clientVars == <<client, connection, free_batch_id, fields>>
reqVars == <<req_write_buf, req_wire, req_read_buf, req_len_bytes>>
respVars == <<resp_write_buf, resp_wire, resp_read_buf, resp_len_bytes>>
inner == <<internal_queue, completed_proofs, next_inner_id>>
serverVars == <<server, batch_aliases, internal_proofs_pushed, inner>>
vars == <<caller, clientVars, reqVars, respVars, serverVars>>

\* Objects with proofs are longer.
Payload(t) == IF t.type \in {"PushInternalProofs", "RecursiveProof"} THEN 2 ELSE 1

Requests ==
  INSTANCE BufferedStream WITH Window <- RequestWindow, write_buf <- req_write_buf,
                               wire <- req_wire, read_buf <- req_read_buf,
                               len_bytes <- req_len_bytes
Responses ==
  INSTANCE BufferedStream WITH Window <- ResponseWindow, write_buf <- resp_write_buf,
                               wire <- resp_wire, read_buf <- resp_read_buf,
                               len_bytes <- resp_len_bytes

Init ==
  /\ asked = <<>> /\ given = <<>>
  /\ client = "gone" /\ connection = 0 /\ free_batch_id = 1
  /\ outer_pending_queue_size = 0 /\ inner_pending_queue_size = 0 /\ recursive_proofs = <<>>
  /\ Requests!Fresh /\ Responses!Fresh
  /\ server = "accept"
  /\ batch_aliases = <<>> /\ internal_proofs_pushed = 0
  /\ internal_queue = <<>> /\ completed_proofs = <<>> /\ next_inner_id = FirstInnerId

Serves == server \notin {"accept", "panicked"}

-----------------------------------------------------------------------------
(* The client. *)

\* mutant: the aliases outlive the connection
KeepAliases == UNCHANGED batch_aliases
\* They are kept by run, which is called for every connection.
ForgetAliases == batch_aliases' = <<>>

Connect ==
  /\ client = "gone" /\ server = "accept"
  /\ connection < MaxClients
  /\ client' = "ready"
  /\ connection' = connection + 1
  /\ free_batch_id' = 1
  /\ outer_pending_queue_size' = 0 /\ inner_pending_queue_size' = 0 /\ recursive_proofs' = <<>>
  /\ Requests!Connect /\ Responses!Connect
  /\ server' = "receive"
  /\ ForgetAliases
  /\ UNCHANGED <<caller, internal_proofs_pushed, inner>>

\* bound: the client sends when little is left of what it sent before, or when
\* the network has room for that.
MaySend == Len(req_write_buf) <= MaxBacklog \/ req_wire = <<>>

Qualified(id) == <<connection, id>>

Push(n) ==
  /\ client = "ready" /\ MaySend
  /\ free_batch_id <= MaxBatches
  /\ LET leaves == Leaves(Qualified(free_batch_id), n)
     IN  /\ asked' = With(asked, Qualified(free_batch_id), leaves)
         /\ Requests!Send(PushInternalProofs(free_batch_id, BatchOf(leaves)))
  /\ free_batch_id' = free_batch_id + 1
  /\ outer_pending_queue_size' = outer_pending_queue_size + n
  /\ client' = "flush"
  /\ UNCHANGED <<given, connection, inner_pending_queue_size, recursive_proofs, respVars,
                 serverVars>>

Step ==
  /\ client = "ready" /\ MaySend
  /\ Requests!Send(StepRequest)
  /\ client' = "flush"
  /\ UNCHANGED <<caller, connection, free_batch_id, fields, respVars, serverVars>>

Pop ==
  /\ client = "ready"
  /\ recursive_proofs # <<>>
  /\ given' = With(given, Qualified(Head(recursive_proofs).id), Head(recursive_proofs).node)
  /\ recursive_proofs' = Tail(recursive_proofs)
  /\ UNCHANGED <<asked, client, connection, free_batch_id, outer_pending_queue_size,
                 inner_pending_queue_size, reqVars, respVars, serverVars>>

Shutdown ==
  /\ client = "ready" /\ MaySend
  /\ Requests!Send(ShutdownRequest)
  /\ client' = "shutdown"
  /\ UNCHANGED <<caller, connection, free_batch_id, fields, respVars, serverVars>>

Flush ==
  /\ client \in {"flush", "shutdown"}
  /\ Requests!WriteSome
  /\ UNCHANGED <<caller, clientVars, respVars, serverVars>>

\* mutant: the client waits until everything is written
WaitForFlush ==
  /\ client = "flush"
  /\ Requests!Flushed
  /\ client' = "ready"
  /\ UNCHANGED <<caller, connection, free_batch_id, fields, reqVars, respVars, serverVars>>

\* What could not be written waits for the next object that is sent.
EndFlush ==
  /\ client = "flush"
  /\ Requests!Flushed \/ Requests!WriteBlocks
  /\ client' = "ready"
  /\ UNCHANGED <<caller, connection, free_batch_id, fields, reqVars, respVars, serverVars>>

EndShutdown ==
  /\ client = "shutdown"
  /\ Requests!Flushed
  /\ client' = "closing"
  /\ UNCHANGED <<caller, connection, free_batch_id, fields, reqVars, respVars, serverVars>>

\* The process ends, or it panics: writing to a server that has gone fails, and
\* shutdown unwraps the WouldBlock that other calls ignore.  The pattern covers
\* a client that drops its aggregator.
Go ==
  /\ client # "gone"
  /\ client' = "gone"
  /\ Requests!SenderGoes /\ Responses!ReceiverGoes
  /\ UNCHANGED <<caller, connection, free_batch_id, fields, serverVars>>

StartSync ==
  /\ client = "ready"
  /\ client' = "receive"
  /\ UNCHANGED <<caller, connection, free_batch_id, fields, reqVars, respVars, serverVars>>

Read ==
  /\ client = "receive"
  /\ Responses!ReadSome \/ Responses!TakeLength
  /\ UNCHANGED <<caller, clientVars, reqVars, serverVars>>

ReceiveSize(response) ==
  /\ outer_pending_queue_size' =
       IF response.delta < outer_pending_queue_size
       THEN outer_pending_queue_size - response.delta ELSE 0
  /\ inner_pending_queue_size' = response.size
  /\ UNCHANGED recursive_proofs

ReceiveProof(response) ==
  /\ recursive_proofs' = Append(recursive_proofs, [id |-> response.id, node |-> response.node])
  /\ UNCHANGED <<outer_pending_queue_size, inner_pending_queue_size>>

TryRecv ==
  /\ client = "receive"
  /\ Responses!Receive
  /\ LET response == Responses!Object
     IN  \/ response.type = "PendingQueueSize" /\ ReceiveSize(response)
         \/ response.type = "RecursiveProof" /\ ReceiveProof(response)
         \/ response.type = "ProofThroughput" /\ UNCHANGED fields
  /\ UNCHANGED <<caller, client, connection, free_batch_id, reqVars, serverVars>>

\* Nothing to read: the loop ends, and the server is told to synchronize.
EndSync ==
  /\ client = "receive" /\ MaySend
  /\ Responses!ReadBlocks
  /\ IF resp_len_bytes = <<>> THEN UNCHANGED respVars ELSE Responses!Unread
  /\ Requests!Send(SyncRequest)
  /\ client' = "flush"
  /\ UNCHANGED <<caller, connection, free_batch_id, fields, serverVars>>

-----------------------------------------------------------------------------
(* The server. *)

ServerRead ==
  /\ server = "receive" /\ Responses!Flushed
  /\ Requests!ReadSome \/ Requests!TakeLength
  /\ UNCHANGED <<caller, clientVars, respVars, serverVars>>

ServerPush(request) ==
  /\ internal_queue' = Append(internal_queue, [id |-> next_inner_id, proofs |-> request.proofs])
  /\ next_inner_id' = next_inner_id + 1
  /\ batch_aliases' = With(batch_aliases, next_inner_id, request.id)
  /\ internal_proofs_pushed' = Len(request.proofs)
  /\ server' = "report"
  /\ UNCHANGED completed_proofs

Answer(batch) == [id |-> batch.id, node |-> Aggregate(batch.proofs)]

Finish(done, left) ==
  /\ internal_queue' = [i \in DOMAIN left |-> internal_queue[left[i]]]
  /\ completed_proofs' =
       completed_proofs \o [i \in DOMAIN done |-> Answer(internal_queue[done[i]])]
  /\ UNCHANGED next_inner_id

\* The ways to pick n places of the queue, one after another.
Picks(n) == {places \in [1..n -> DOMAIN internal_queue] : IsInjective(places)}

\* Some batches are done, in any order.  That none is yet is ServerSync.
ServerStep ==
  /\ \E n \in 1..Len(internal_queue) :
       \E done \in Picks(n), left \in Picks(Len(internal_queue) - n) :
         /\ ToSet(done) \cap ToSet(left) = {}
         /\ \A i, j \in DOMAIN left : i < j => left[i] < left[j]
         /\ Finish(done, left)
  /\ internal_proofs_pushed' = 0
  /\ server' = "report"
  /\ UNCHANGED batch_aliases

\* mutant: the count of the proofs pushed outlives its iteration
ServerKeepsCount ==
  /\ server' = "report"
  /\ UNCHANGED <<internal_proofs_pushed, batch_aliases, inner>>

ServerSync ==
  /\ internal_proofs_pushed' = 0
  /\ server' = "report"
  /\ UNCHANGED <<batch_aliases, inner>>

ServerShutdown ==
  /\ server' = "accept"
  /\ UNCHANGED <<batch_aliases, internal_proofs_pushed, inner>>

ServerReceive ==
  /\ server = "receive" /\ Responses!Flushed
  /\ Requests!Receive
  /\ LET request == Requests!Object
     IN  \/ request.type = "PushInternalProofs" /\ ServerPush(request)
         \/ request.type = "Step" /\ ServerStep
         \/ request.type \in {"Step", "Sync"} /\ ServerSync
         \/ request.type = "Shutdown" /\ ServerShutdown
  /\ UNCHANGED <<caller, clientVars, respVars>>

\* mutant: an end of file is waited for like a byte that is late
WaitAtEndOfFile == FALSE /\ UNCHANGED server

\* The client has gone: what is left is no frame, and the connection ends.
EndOfFile == Requests!ReadBlocks /\ server' = "accept"

Disconnect ==
  /\ server = "receive" /\ Responses!Flushed
  /\ client = "gone"
  /\ EndOfFile
  /\ UNCHANGED <<caller, clientVars, reqVars, respVars, batch_aliases, internal_proofs_pushed,
                 inner>>

\* A blocking stream: the server goes on when everything is written.
ServerWrite ==
  /\ Serves
  /\ Responses!WriteSome
  /\ UNCHANGED <<caller, clientVars, reqVars, serverVars>>

\* Nobody reads: the send fails, and so does the expect around it.
ServerWriteFails ==
  /\ Serves /\ client = "gone"
  /\ resp_write_buf # <<>>
  /\ server' = "panicked"
  /\ Responses!SenderGoes
  /\ UNCHANGED <<caller, clientVars, reqVars, batch_aliases, internal_proofs_pushed, inner>>

SendProof ==
  /\ server = "report" /\ Responses!Flushed
  /\ completed_proofs # <<>>
  /\ LET result == Head(completed_proofs)
     IN  IF result.id \in DOMAIN batch_aliases
         THEN /\ Responses!Send(RecursiveProof(batch_aliases[result.id], result.node))
              /\ batch_aliases' =
                   [i \in DOMAIN batch_aliases \ {result.id} |-> batch_aliases[i]]
              /\ UNCHANGED server
         ELSE server' = "panicked" /\ UNCHANGED <<batch_aliases, respVars>>
  /\ completed_proofs' = Tail(completed_proofs)
  /\ UNCHANGED <<caller, clientVars, reqVars, internal_proofs_pushed, internal_queue,
                 next_inner_id>>

SendThroughput ==
  /\ server = "report" /\ Responses!Flushed
  /\ completed_proofs = <<>>
  /\ Responses!Send(ProofThroughput)
  /\ server' = "size"
  /\ UNCHANGED <<caller, clientVars, reqVars, batch_aliases, internal_proofs_pushed, inner>>

SendSize ==
  /\ server = "size" /\ Responses!Flushed
  /\ Responses!Send(PendingQueueSize(internal_proofs_pushed, SizeOf(internal_queue)))
  /\ server' = "receive"
  /\ UNCHANGED <<caller, clientVars, reqVars, batch_aliases, internal_proofs_pushed, inner>>

-----------------------------------------------------------------------------
(* The network, when the client has gone: what the server has not read may  *)
(* be lost.  What a server that is gone had sent stays readable: it leaves  *)
(* on Shutdown, after which no client reads.                                *)

Reset ==
  /\ client = "gone" /\ Serves
  /\ Requests!Reset
  /\ UNCHANGED <<caller, clientVars, respVars, serverVars>>

Next ==
  \/ \E n \in Sizes : Push(n)
  \/ Connect \/ Step \/ Pop \/ Shutdown \/ Flush \/ EndFlush \/ EndShutdown \/ Go
  \/ StartSync \/ Read \/ TryRecv \/ EndSync
  \/ ServerRead \/ ServerReceive \/ Disconnect \/ ServerWrite \/ ServerWriteFails
  \/ SendProof \/ SendThroughput \/ SendSize
  \/ Reset

Spec == Init /\ [][Next]_vars

\* The server runs; a client that stays goes on like the test does: while pop
\* gives nothing, step and sync again.  The aggregator of the server does not
\* step without result for ever.
Server ==
  \/ ServerRead \/ ServerReceive \/ Disconnect \/ ServerWrite \/ ServerWriteFails
  \/ SendProof \/ SendThroughput \/ SendSize

\* The network often takes all that it has room for.
FlushAll == Flush /\ req_write_buf' = <<>>

StepFinishes == ServerReceive /\ Len(completed_proofs') > Len(completed_proofs)

FairSpec ==
  /\ Spec
  /\ WF_vars(Server)
  /\ WF_vars(Flush \/ EndFlush) /\ SF_vars(FlushAll)
  /\ WF_vars(Read \/ TryRecv \/ EndSync)
  /\ SF_vars(Step) /\ SF_vars(StartSync) /\ SF_vars(Pop)
  /\ SF_vars(StepFinishes)

-----------------------------------------------------------------------------
TypeOK ==
  /\ client \in {"ready", "flush", "receive", "shutdown", "closing", "gone"}
  /\ server \in {"accept", "receive", "report", "size", "panicked"}
  /\ outer_pending_queue_size \in Nat /\ inner_pending_queue_size \in Nat
  /\ internal_proofs_pushed \in Nat
  /\ \A i \in DOMAIN batch_aliases : batch_aliases[i] \in Nat
  /\ Requests!StreamOK /\ Responses!StreamOK

Connected == client # "gone" /\ Serves

\* However bytes are split and calls are interrupted, what is on its way to an
\* end that is there is a sequence of whole frames that begins where that end
\* goes on reading; only when the other end goes may the last one be cut off.
FramesWhole ==
  /\ Serves => Requests!Framed(Requests!Transit)
  /\ client # "gone" => Responses!Framed(Responses!Transit)
  /\ Connected => Requests!Ends(Requests!Transit) /\ Responses!Ends(Responses!Transit)

\* The proofs that the frames that begin in these units move.
Carried(units) ==
  Total([i \in DOMAIN units |-> IF units[i][2] = 1 THEN Proofs(units[i][1]) ELSE 0])

\* What the server took over and has not reported yet.
Unreported == IF server \in {"report", "size"} THEN internal_proofs_pushed ELSE 0

\* The speculative size of the client is the number of proofs it pushed and the
\* server has not reported as taken over: nothing is lost in a partial write or
\* counted twice after a partial read, and the subtraction never saturates.
OuterSizeIsInFlight ==
  Connected =>
    outer_pending_queue_size =
      Carried(Requests!Transit) + Carried(Responses!Transit) + Unreported

Contract == INSTANCE AggregatorContract

\* The promise of the trait holds across the network: a client gets every answer
\* at most once, under its own id, and never that of another client.
KeepsContract == Contract!Safe

Stays(c) == connection = c /\ client \notin {"shutdown", "closing", "gone"}

\* A client that stays gets every batch answered, unless the server panicked,
\* although every call may leave part of a frame unsent or unread: there is a time
\* from which all that was ever asked is answered, or will never be because of that.
EveryBatchAnswered ==
  <>[](\A b \in DOMAIN asked : b \in DOMAIN given \/ ~Stays(b[1]) \/ server = "panicked")

\* The server waits for a request, and on the stream of requests there is none to
\* answer: at most a shutdown and a frame that is cut off.
NothingToAnswer ==
  /\ server = "receive" /\ Responses!Flushed
  /\ \A unit \in ToSet(Requests!Transit) :
       unit[2] = Len(Requests!Frame(unit[1])) => unit[1].type = "Shutdown"

\* A client that goes away in the middle of a frame does not hold the server: if
\* nothing is left to answer, the server accepts the next client.
ServerLeavesDeadClient == (client = "gone" /\ NothingToAnswer) ~> server = "accept"

\* "Repeatedly accept new connections" (nodes/src/main.rs:172): whatever a client
\* was in the middle of when it went, the server accepts the next one.
ServerAcceptsAgain == client = "gone" ~> server = "accept"

\* "Repeatedly accept new connections" (nodes/src/main.rs:172): a client that is
\* connected finds a server, whatever an earlier client left behind.
ConnectedClientIsServed == client # "gone" => server # "panicked"
=============================================================================
