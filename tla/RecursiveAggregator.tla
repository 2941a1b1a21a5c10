------------------------ MODULE RecursiveAggregator ------------------------
(***************************************************************************)
(* The aggregator that works by delegating (nodes/src/aggregator.rs): step *)
(* splits the batches in its queue, hands the pieces to sub-aggregators    *)
(* that are not loaded, collects their results, and queues complete pairs  *)
(* of results again until one proof is left.                               *)
(*                                                                         *)
(* A sub-aggregator is a thread or a process, whose answers come when they *)
(* come and are seen at the next sync.  Each is abstracted to the promise  *)
(* of the trait (see ThreadedAggregator): a batch it took is answered once.*)
(* One that works inside step behaves like one that is fast enough.        *)
(***************************************************************************)
EXTENDS Batches, FiniteSets

CONSTANTS
  Throughputs,  \* of the sub-aggregators, in the order in which they are inserted
  MayRemove,    \* whether the caller removes sub-aggregators
  MaxBatches,   \* bound: batches the caller pushes
  MaxProofs     \* bound: proofs in all the batches the caller pushes

ASSUME RecursiveAssumption ==
  /\ Throughputs \in Seq(Nat \ {0})
  /\ MayRemove \in BOOLEAN
  /\ MaxBatches \in Nat /\ MaxProofs \in Nat

VARIABLES
  \* the caller's view
  asked, given,
  \* the fields of the struct
  internal_proofs, recursive_proofs, sub_recursive_proofs,
  proof_parents, proof_children, proof_aliases, proof_descendants,
  free_batch_id,   \* the next of free_batch_ids
  inserted,        \* how many of free_aggregator_ids are taken
  sub_aggregators, \* the keys of the map
  \* every sub-aggregator: batches it has, answers made since it was last
  \* synchronised, answers that can be popped, the pending size it reports, and
  \* its next batch id
  queue, finished, results, pending, free_sub_batch_id,
  \* where step is: "idle", "distribute", "send", "split", "prove", "pop", "combine"
  pc,
  aggregator_ids,   \* the load vector
  aggregator_idx, total_chunk_size,
  piece,            \* the batch being split
  unvisited,        \* sub-aggregators that the loop of step has not reached
  aggregator_id,    \* the one it is at
  qualified_id,     \* the subtree being combined
  \* history: batches a part of which was with a sub-aggregator when it was removed
  dropped

caller == <<asked, given>>
tree == <<proof_parents, proof_children>>
done == <<sub_recursive_proofs, proof_descendants, recursive_proofs>>
subVars == <<queue, finished, results, pending, free_sub_batch_id>>
distribution == <<aggregator_ids, aggregator_idx, total_chunk_size, piece>>
collection == <<unvisited, aggregator_id, qualified_id>>
calls == <<inserted, sub_aggregators, dropped>>
own == <<caller, internal_proofs, done, tree, proof_aliases, free_batch_id, calls>>
vars == <<own, subVars, pc, distribution, collection>>

Self == 0
Subs == DOMAIN Throughputs
Qualified(agg, id) == <<agg, id>>
NoId == Qualified(Self, 0)
NoPiece == [id |-> 0, proofs |-> <<>>]
Batch(id, proofs) == [id |-> id, proofs |-> proofs]

\* MAX_WAIT_TIME
MaxWaitTime == 2

Without(f, keys) == [k \in DOMAIN f \ keys |-> f[k]]

\* The members of S in the order of Op.
Sortings(S, Op(_, _)) ==
  {l \in [1..Cardinality(S) -> S] :
     /\ ToSet(l) = S
     /\ \A i, j \in DOMAIN l : i < j => Op(l[i], l[j])}

Init ==
  /\ asked = <<>> /\ given = <<>>
  /\ internal_proofs = <<>> /\ recursive_proofs = <<>> /\ sub_recursive_proofs = <<>>
  /\ proof_parents = <<>> /\ proof_children = <<>>
  /\ proof_aliases = <<>> /\ proof_descendants = <<>>
  /\ free_batch_id = 1
  /\ inserted = 0 /\ sub_aggregators = {} /\ dropped = {}
  /\ queue = [s \in Subs |-> <<>>]
  /\ finished = [s \in Subs |-> <<>>]
  /\ results = [s \in Subs |-> <<>>]
  /\ pending = [s \in Subs |-> 0]
  /\ free_sub_batch_id = [s \in Subs |-> 1]
  /\ pc = "idle"
  /\ aggregator_ids = <<>> /\ aggregator_idx = 0 /\ total_chunk_size = 0 /\ piece = NoPiece
  /\ unvisited = {} /\ aggregator_id = Self /\ qualified_id = NoId

-----------------------------------------------------------------------------
(* Calls between steps. *)

InsertSubAggregator ==
  /\ pc = "idle" /\ inserted < Len(Throughputs)
  /\ inserted' = inserted + 1
  /\ sub_aggregators' = sub_aggregators \cup {inserted'}
  /\ UNCHANGED <<caller, internal_proofs, done, tree, proof_aliases, free_batch_id, dropped,
                 subVars, pc, distribution, collection>>

\* The batches that a proof has a leaf of.
BatchesIn(proof) == {leaf[1] : leaf \in ToSet(proof)}
BatchesOf(entries) ==
  UNION {UNION {BatchesIn(p) : p \in ToSet(b.proofs)} : b \in ToSet(entries)}

RemoveSubAggregator(s) ==
  /\ MayRemove /\ pc = "idle" /\ s \in sub_aggregators
  /\ sub_aggregators' = sub_aggregators \ {s}
  /\ dropped' = dropped \cup BatchesOf(queue[s])
                        \cup UNION {BatchesIn(r.node) : r \in ToSet(finished[s] \o results[s])}
  /\ queue' = [queue EXCEPT ![s] = <<>>]
  /\ finished' = [finished EXCEPT ![s] = <<>>]
  /\ results' = [results EXCEPT ![s] = <<>>]
  /\ pending' = [pending EXCEPT ![s] = 0]
  /\ UNCHANGED <<caller, internal_proofs, done, tree, proof_aliases, free_batch_id, inserted,
                 free_sub_batch_id, pc, distribution, collection>>

MayPush(n) ==
  /\ Cardinality(DOMAIN asked) < MaxBatches
  /\ MapThenSumSet(LAMBDA id : Len(asked[id]), DOMAIN asked) + n <= MaxProofs

Push(n) ==
  /\ pc = "idle"
  /\ MayPush(n)
  /\ asked' = With(asked, free_batch_id, Leaves(free_batch_id, n))
  /\ internal_proofs' =
       Append(internal_proofs, Batch(free_batch_id, BatchOf(Leaves(free_batch_id, n))))
  /\ free_batch_id' = free_batch_id + 1
  /\ UNCHANGED <<given, done, tree, proof_aliases, calls, subVars, pc, distribution, collection>>

Pop ==
  /\ pc = "idle" /\ recursive_proofs # <<>>
  /\ LET result == Head(recursive_proofs)
     IN  given' = With(given, result.id, result.node)
  /\ recursive_proofs' = Tail(recursive_proofs)
  /\ UNCHANGED <<asked, internal_proofs, sub_recursive_proofs, proof_descendants, tree,
                 proof_aliases, free_batch_id, calls, subVars, pc, distribution, collection>>

-----------------------------------------------------------------------------
(* The sub-aggregators. *)

Sync(some) ==
  /\ results' = [s \in Subs |-> IF s \in some THEN results[s] \o finished[s] ELSE results[s]]
  /\ finished' = [s \in Subs |-> IF s \in some THEN <<>> ELSE finished[s]]
  /\ pending' = [s \in Subs |-> IF s \in some THEN SizeOf(queue[s]) ELSE pending[s]]

\* One worker answers in order; one that delegates answers in any order.
Work(s) ==
  \E k \in DOMAIN queue[s] :
    /\ k = 1 \/ Throughputs[s] > 1
    /\ queue' = [queue EXCEPT ![s] = RemoveAt(@, k)]
    /\ finished' = [finished EXCEPT ![s] =
         Append(@, [id |-> queue[s][k].id, node |-> Aggregate(queue[s][k].proofs)])]
    /\ UNCHANGED <<own, results, pending, free_sub_batch_id, pc, distribution, collection>>

SyncAll ==
  /\ pc = "idle"
  /\ Sync(sub_aggregators)
  /\ UNCHANGED <<own, queue, free_sub_batch_id, pc, distribution, collection>>

-----------------------------------------------------------------------------
(* step: distribute. *)

Load(s) == [throughput |-> Throughputs[s], pending |-> SizeOf(queue[s]), id |-> s]

\* By expected wait pending / (2 * throughput), then by higher throughput.
Before(a, b) ==
  LET waitA == a.pending * b.throughput
      waitB == b.pending * a.throughput
  IN  \/ waitA < waitB
      \/ waitA = waitB /\ a.throughput > b.throughput
      \/ waitA = waitB /\ a.throughput = b.throughput /\ a.id < b.id

StartStep ==
  /\ pc = "idle"
  /\ Sync(sub_aggregators)
  /\ aggregator_ids' \in Sortings({Load(s) : s \in sub_aggregators}, Before)
  /\ pc' = "distribute"
  /\ UNCHANGED <<own, queue, free_sub_batch_id, aggregator_idx, total_chunk_size, piece,
                 collection>>

Saturation(load) == 2 * load.throughput

\* mutant: a saturated sub-aggregator needs more than it has to get
MoreThanSaturates(load) ==
  /\ SizeOf(internal_proofs) > Saturation(load)
  /\ load.pending < MaxWaitTime * Saturation(load)
CanSaturate(load) ==
  /\ SizeOf(internal_proofs) >= Saturation(load)
  /\ load.pending < MaxWaitTime * Saturation(load)

\* Places of the load vector that the scan does not skip.
Candidates == {i \in DOMAIN aggregator_ids : CanSaturate(aggregator_ids[i])}

FindAggregator ==
  /\ pc = "distribute"
  /\ internal_proofs # <<>> /\ Candidates # {}
  /\ aggregator_idx' = Min(Candidates)
  /\ total_chunk_size' = 0
  /\ pc' = "send"
  /\ UNCHANGED <<own, subVars, aggregator_ids, piece, collection>>

Chosen == aggregator_ids[aggregator_idx]

TakeBatch ==
  /\ pc = "send" /\ total_chunk_size < Saturation(Chosen)
  /\ piece' = Head(internal_proofs)
  /\ internal_proofs' = Tail(internal_proofs)
  /\ pc' = "split"
  /\ UNCHANGED <<caller, done, tree, proof_aliases, free_batch_id, calls, subVars,
                 aggregator_ids, aggregator_idx, total_chunk_size, collection>>

\* No more than the next power of two, which is the size of every batch.
Fits(n) == \E k \in 0..n : Saturation(Chosen) <= 2^k /\ 2^k < n

Split ==
  /\ pc = "split" /\ Fits(Len(piece.proofs))
  /\ LET half == Len(piece.proofs) \div 2
         batch1_id == free_batch_id
         batch_id == free_batch_id + 1
         above == Qualified(Self, piece.id)
     IN  /\ internal_proofs' =
              <<Batch(batch1_id, SubSeq(piece.proofs, half + 1, 2 * half))>> \o internal_proofs
         /\ piece' = Batch(batch_id, SubSeq(piece.proofs, 1, half))
         /\ proof_parents' = With(With(proof_parents, Qualified(Self, batch_id), above),
                                 Qualified(Self, batch1_id), above)
         /\ proof_children' =
              With(proof_children, above,
                   <<Qualified(Self, batch_id), Qualified(Self, batch1_id)>>)
         /\ free_batch_id' = free_batch_id + 2
  /\ UNCHANGED <<caller, done, proof_aliases, calls, subVars, pc, aggregator_ids,
                 aggregator_idx, total_chunk_size, collection>>

\* mutant: the parent goes on pointing to the id the piece had in the queue
KeepChildren(parent, old, new) == UNCHANGED proof_children
RenameChild(parent, old, new) ==
  proof_children' = [proof_children EXCEPT ![parent] = ReplaceAll(@, old, new)]

\* mutant: what was just pushed is not pending yet
PushUncounted(s, proofs) ==
  /\ queue' = [queue EXCEPT ![s] = Append(@, Batch(free_sub_batch_id[s], proofs))]
  /\ free_sub_batch_id' = [free_sub_batch_id EXCEPT ![s] = @ + 1]
  /\ UNCHANGED pending
\* A sub-aggregator counts what it is handed at once (see ThreadedAggregator).
PushTo(s, proofs) ==
  /\ queue' = [queue EXCEPT ![s] = Append(@, Batch(free_sub_batch_id[s], proofs))]
  /\ free_sub_batch_id' = [free_sub_batch_id EXCEPT ![s] = @ + 1]
  /\ pending' = [pending EXCEPT ![s] = @ + Len(proofs)]

Send ==
  /\ pc = "split" /\ ~Fits(Len(piece.proofs))
  /\ LET s == Chosen.id
         old == Qualified(Self, piece.id)
         new == Qualified(s, free_sub_batch_id[s])
     IN  /\ PushTo(s, piece.proofs)
         /\ IF old \in DOMAIN proof_parents
            THEN /\ proof_parents' =
                      With(Without(proof_parents, {old}), new, proof_parents[old])
                 /\ RenameChild(proof_parents[old], old, new)
                 /\ UNCHANGED proof_aliases
            ELSE /\ proof_aliases' = With(proof_aliases, new, piece.id)
                 /\ UNCHANGED tree
  /\ total_chunk_size' = total_chunk_size + Len(piece.proofs)
  /\ piece' = NoPiece
  /\ pc' = "send"
  /\ UNCHANGED <<caller, internal_proofs, done, free_batch_id, calls, finished, results,
                 aggregator_ids, aggregator_idx, collection>>

\* What binary_search returns, 0-based: a place between a smaller and a greater
\* element.  There is only one if the vector is sorted.
InsertionPlaces(load) ==
  {p \in 0..Len(aggregator_ids) :
     /\ p > 0 => Before(aggregator_ids[p], load)
     /\ p < Len(aggregator_ids) => ~Before(aggregator_ids[p + 1], load)}

\* mutant: the load is replaced where it is
PlaceHere(load, p) == [aggregator_ids EXCEPT ![aggregator_idx] = load]
\* The load is replaced and moved towards the end, never towards the front.
Place(load, p) ==
  IF p <= aggregator_idx THEN [aggregator_ids EXCEPT ![aggregator_idx] = load]
                         ELSE InsertAt(RemoveAt(aggregator_ids, aggregator_idx), p, load)

Reload ==
  /\ pc = "send" /\ total_chunk_size >= Saturation(Chosen)
  /\ LET load == Load(Chosen.id)
     IN  \E p \in InsertionPlaces(load) : aggregator_ids' = Place(load, p)
  /\ Sync({Chosen.id})
  /\ pc' = "distribute"
  /\ UNCHANGED <<own, queue, free_sub_batch_id, aggregator_idx, total_chunk_size, piece,
                 collection>>

StopDistributing ==
  /\ pc = "distribute"
  /\ internal_proofs = <<>> \/ Candidates = {}
  /\ aggregator_ids' = <<>> /\ aggregator_idx' = 0 /\ total_chunk_size' = 0
  /\ unvisited' = sub_aggregators
  /\ pc' = "prove"
  /\ UNCHANGED <<own, subVars, piece, aggregator_id, qualified_id>>

-----------------------------------------------------------------------------
(* step: prove. *)

VisitSubAggregator(s) ==
  /\ pc = "prove" /\ s \in unvisited
  /\ Sync({s})
  /\ aggregator_id' = s
  /\ unvisited' = unvisited \ {s}
  /\ pc' = "pop"
  /\ UNCHANGED <<own, queue, free_sub_batch_id, distribution, qualified_id>>

PopSubProof ==
  /\ pc = "pop" /\ results[aggregator_id] # <<>>
  /\ LET result == Head(results[aggregator_id])
     IN  /\ qualified_id' = Qualified(aggregator_id, result.id)
         /\ sub_recursive_proofs' = With(sub_recursive_proofs, qualified_id', result.node)
         /\ proof_descendants' = With(proof_descendants, qualified_id', <<qualified_id'>>)
  /\ results' = [results EXCEPT ![aggregator_id] = Tail(@)]
  /\ pc' = "combine"
  /\ UNCHANGED <<caller, internal_proofs, recursive_proofs, tree, proof_aliases, free_batch_id,
                 calls, queue, finished, pending, free_sub_batch_id, distribution, unvisited,
                 aggregator_id>>

LeaveSubAggregator ==
  /\ pc = "pop" /\ results[aggregator_id] = <<>>
  /\ aggregator_id' = Self
  /\ pc' = "prove"
  /\ UNCHANGED <<own, subVars, distribution, unvisited, qualified_id>>

\* mutant: a subtree is combined with one that is not complete
BothThere(left, right) == {left, right} \subseteq DOMAIN proof_descendants
\* Both subtrees are complete and as many proofs stand for each.
Complete(left, right) ==
  /\ {left, right} \subseteq DOMAIN proof_descendants
  /\ Len(proof_descendants[left]) = Len(proof_descendants[right])

HasSibling ==
  /\ qualified_id \in DOMAIN proof_parents
  /\ LET children == proof_children[proof_parents[qualified_id]]
     IN  Complete(children[1], children[2])

\* mutant: the descendants are joined in the order in which they came
JoinAsTheyCame(left, right) ==
  IF qualified_id = left THEN proof_descendants[right] \o proof_descendants[left]
                         ELSE proof_descendants[left] \o proof_descendants[right]
Join(left, right) == proof_descendants[left] \o proof_descendants[right]

CombineSubtrees ==
  /\ pc = "combine" /\ HasSibling
  /\ LET parent == proof_parents[qualified_id]
         left == proof_children[parent][1]
         right == proof_children[parent][2]
     IN  /\ proof_descendants' =
              With(Without(proof_descendants, {left, right}), parent, Join(left, right))
         /\ proof_children' = Without(proof_children, {parent})
         /\ proof_parents' = Without(proof_parents, {left, right})
         /\ qualified_id' = parent
  /\ UNCHANGED <<caller, internal_proofs, recursive_proofs, sub_recursive_proofs, proof_aliases,
                 free_batch_id, calls, subVars, pc, distribution, unvisited, aggregator_id>>

StopCombining ==
  /\ pc = "combine" /\ ~HasSibling
  /\ qualified_id' = NoId
  /\ pc' = "pop"
  /\ UNCHANGED <<own, subVars, distribution, unvisited, aggregator_id>>

-----------------------------------------------------------------------------
(* step: consolidate.  The map of descendants is ordered by qualified id. *)

IdBefore(p, q) == p[1] < q[1] \/ (p[1] = q[1] /\ p[2] < q[2])

Multiple == {q \in DOMAIN proof_descendants : Len(proof_descendants[q]) > 1}

Roots == {q \in DOMAIN proof_descendants \ Multiple : q \in DOMAIN proof_aliases}

ProofsOf(q) ==
  [i \in DOMAIN proof_descendants[q] |-> sub_recursive_proofs[proof_descendants[q][i]]]

Moved == UNION {ToSet(proof_descendants[q]) : q \in Multiple \cup Roots}

\* mutant: the proofs are copied out of the map
CopyMoved == UNCHANGED sub_recursive_proofs
ForgetMoved == sub_recursive_proofs' = Without(sub_recursive_proofs, Moved)

Consolidate ==
  /\ pc = "prove" /\ unvisited = {}
  /\ \E queued \in Sortings(Multiple, IdBefore), roots \in Sortings(Roots, IdBefore) :
         /\ internal_proofs' =
              Reverse([i \in DOMAIN queued |-> Batch(queued[i][2], ProofsOf(queued[i]))])
                \o internal_proofs
         /\ recursive_proofs' = recursive_proofs \o
              [i \in DOMAIN roots |-> [id |-> proof_aliases[roots[i]],
                                       node |-> ProofsOf(roots[i])[1]]]
  /\ ForgetMoved
  /\ proof_aliases' = Without(proof_aliases, Roots)
  /\ proof_descendants' = Without(proof_descendants, Multiple \cup Roots)
  /\ pc' = "idle"
  /\ UNCHANGED <<caller, tree, free_batch_id, calls, subVars, distribution, collection>>

-----------------------------------------------------------------------------
Distribute == StartStep \/ FindAggregator \/ TakeBatch \/ Split \/ Send \/ Reload \/ StopDistributing
Prove == (\E s \in Subs : VisitSubAggregator(s))
           \/ PopSubProof \/ LeaveSubAggregator \/ CombineSubtrees \/ StopCombining

Next ==
  \/ InsertSubAggregator
  \/ \E s \in Subs : RemoveSubAggregator(s)
  \/ \E n \in Sizes : Push(n)
  \/ Pop \/ SyncAll
  \/ \E s \in Subs : Work(s)
  \/ Distribute \/ Prove \/ Consolidate

Spec == Init /\ [][Next]_vars

\* The workers run, and the caller has inserted what it will and goes on like
\* the tests do: while pop gives nothing, step again.
FairSpec ==
  /\ Spec
  /\ \A s \in Subs : WF_vars(Work(s))
  /\ SF_vars(InsertSubAggregator)
  /\ SF_vars(StartStep)
  /\ WF_vars((Distribute /\ pc # "idle") \/ Prove \/ Consolidate)
  /\ SF_vars(Pop)

-----------------------------------------------------------------------------
TypeOK ==
  /\ pc \in {"idle", "distribute", "send", "split", "prove", "pop", "combine"}
  /\ sub_aggregators \subseteq 1..inserted
  /\ \A s \in Subs : pending[s] >= SizeOf(queue[s])
  /\ DOMAIN given \subseteq DOMAIN asked /\ dropped \subseteq DOMAIN asked
  /\ ToSet(aggregator_ids) \subseteq
       [throughput : Nat \ {0}, pending : Nat, id : sub_aggregators]

\* Every sub-aggregator is handed batches that its push accepts.
LegalPushes ==
  \A s \in Subs : \A b \in ToSet(queue[s]) : IsBatchSize(Len(b.proofs))

\* The maps of the struct agree, so none of the lookups of step panics: a parent
\* and its two children point at each other, what stands for a subtree has been
\* received, and only subtrees of this aggregator wait to be queued again.
Bookkeeping ==
  /\ \A q \in DOMAIN proof_parents :
       /\ proof_parents[q] \in DOMAIN proof_children
       /\ q \in ToSet(proof_children[proof_parents[q]])
  /\ \A p \in DOMAIN proof_children : \A q \in ToSet(proof_children[p]) :
       q \in DOMAIN proof_parents /\ proof_parents[q] = p
  /\ DOMAIN proof_aliases \cap DOMAIN proof_parents = {}
  /\ \A q \in DOMAIN proof_descendants :
       /\ ToSet(proof_descendants[q]) \subseteq DOMAIN sub_recursive_proofs
       /\ Len(proof_descendants[q]) > 1 => q[1] = Self

\* The proofs that are anywhere in the system, each with its place.
InBatches(list, s, batches) ==
  UNION {{[at |-> <<list, s, i, j>>, leaves |-> batches[i].proofs[j]] :
            j \in DOMAIN batches[i].proofs} : i \in DOMAIN batches}
InAnswers(list, s, answers) ==
  {[at |-> <<list, s, i, 1>>, leaves |-> answers[i].node] : i \in DOMAIN answers}

ProofsHeld ==
  InBatches("internal_proofs", Self, internal_proofs)
    \cup InBatches("piece", Self, <<piece>>)
    \cup InAnswers("recursive_proofs", Self, recursive_proofs)
    \cup (UNION {InBatches("queue", s, queue[s]) \cup InAnswers("finished", s, finished[s])
                    \cup InAnswers("results", s, results[s]) : s \in Subs})
    \cup {[at |-> <<"sub_recursive_proofs", q[1], q[2], 1>>, leaves |-> sub_recursive_proofs[q]] :
             q \in DOMAIN sub_recursive_proofs}

LeavesHeld ==
  UNION {{[at |-> p.at, nth |-> i, leaf |-> p.leaves[i]] : i \in DOMAIN p.leaves} : p \in ProofsHeld}

\* Nothing is lost or proved twice: every leaf of a batch that is not answered is
\* in one proof somewhere, once, whatever was split, sent, received, combined and
\* queued again; none is left of one that is answered.
EveryLeafOnce ==
  LET held == LeavesHeld
  IN  \A b \in DOMAIN asked \ dropped :
        LET ofBatch == {x \in held : x.leaf[1] = b}
        IN  IF b \in DOMAIN given THEN ofBatch = {}
            ELSE /\ {x.leaf : x \in ofBatch} = ToSet(asked[b])
                 /\ Cardinality(ofBatch) = Len(asked[b])

\* "Now try to place some pending proofs at the least loaded aggregator that can
\* be saturated" (nodes/src/aggregator.rs:265): by the loads last read, though
\* the vector is only repaired towards its end.
LeastLoadedChosen ==
  pc = "distribute" /\ Candidates # {} =>
    \A i \in Candidates : ~Before(aggregator_ids[i], aggregator_ids[Min(Candidates)])

Contract == INSTANCE AggregatorContract

\* Delegation keeps the promise of the trait: whatever order the answers come in,
\* a batch is answered once, under its id, with the root of its own leaves in order.
KeepsContract == Contract!Safe

\* With a worker that two proofs saturate, every batch is answered in the end,
\* except those a removed sub-aggregator had a part of, and unless none is left:
\* what is asked and what settles it both stay, so there is a time from which all
\* that was ever asked is settled.
Settled(id) ==
  \/ id \in DOMAIN given \cup dropped
  \/ inserted = Len(Throughputs) /\ \A s \in sub_aggregators : Throughputs[s] > 1

EveryBatchAnswered == <>[](\A id \in DOMAIN asked : Settled(id))
=============================================================================
