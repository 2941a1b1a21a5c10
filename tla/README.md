# A verification project for arm-noir

TLA+ modules that model the stateful parts of arm-noir, the TLC runs that check
them on small instances, and theorems about seven of its components that TLAPS
checks for every value of the constants. Paths are relative to `src/`; line numbers are
those of the commit the modules were written from. `PROJECT.json` lists for every
definition the lines it stands for.

## 1. The system

`nodes/` is a Rust binary with three commands (wallet, client, aggregator) around
Noir circuits in `circuits/` and generated Solidity verifiers in `contracts/`.

| Component | State it keeps | Operations | What makes it correct |
|---|---|---|---|
| Shielded pool, `nodes/src/verifier.rs` | nullifiers, commitments, recorded transactions, anchors, registered logic circuits | `new`, `register_logic`, `deregister_logic`, `submit` | nothing is consumed twice, everything consumed was created, value of each kind is conserved, clients can rebuild the tree |
| Transaction builder, client state, `client.rs`; resources, `types.rs` | a client's copy of the tree, its note positions, the transaction under construction | `synchronize`, `add_*_input`, `add_*_output`, `build` | what it builds is accepted by the pool it was built from, and moves what was asked |
| Local aggregators, `aggregator.rs:438-554, 758-968` | a queue of batches, finished proofs | the trait `Aggregator` | a batch becomes the root of the balanced tree over its leaves |
| Threaded aggregator, `aggregator.rs:556-756` | two channels, sizes, aliases of batch ids in the worker | the trait, `drop` | every batch answered once under its own id; sizes never underflow; dropping returns |
| TCP aggregator, `aggregator.rs:970-1360` | two buffered streams; client fields; on the server the aliases of one connection | the trait, `shutdown`; `run` | the same, across frames cut anywhere, full buffers and lost peers |
| Recursive aggregator, `aggregator.rs:67-436` | queue, tree of split batches, results of sub-aggregators, aliases | the trait, insert and remove of sub-aggregators | every leaf is in one proof exactly once; order of leaves is kept; every batch is answered |
| Wallet store, `wallet.rs`, `main.rs:190-335` | six maps from alias to entries, a TOML file | `load`, `store_*`, `exists`, `remove`, `merge`, `synchronize` | an alias stands for one key's entries; concurrent commands do not lose aliases; the file is readable |
| Transfer command and pool file, `main.rs:338-538` | the pool in a file | `transfer`, `balance` | a transfer that succeeded is in the file and moved its amount |
| Commitment tree, `merkle.rs` | rows of nodes in one vector | `new`, `merge`, `complete`, `root`, `path` | equals the tree computed level by level; paths open to the root |
| Encodings, `lib.rs`, `types.rs` | none | conversions | round trips, sign and width |
| Circuits, `circuits/` | none | constraints | tags, nonces, anchors, deltas of the compliance relation; combination of two proofs |
| Contracts, `contracts/` | none | field and curve arithmetic, generated verifiers | agreement with the prover |

How they interact. A client reads the pool file, rebuilds tree and notes from the
recorded transactions (`ClientState::synchronize`), builds a transaction from
keys in the wallet, submits it to its copy and writes the copy back. Aggregators
form a tree: a recursive aggregator calls its sub-aggregators through the trait;
a threaded one talks to its worker through two channels, a TCP one to a server
through two streams; the server of the node binary runs a recursive aggregator
over threaded ones.

What is hard. Concurrency: worker threads, the network, several commands on one
file. Ordering: answers come back in any order and through three name spaces of
batch ids; commitments of transactions must be replayed in the order of the pool.
Failure: `submit` returns from the middle of an update, workers panic, peers go
away within a frame, processes are killed while writing. Staleness: clients build
on old views, the load vector is repaired only in part, wallet commands write
back copies. Termination: when does the last batch get its proof, and does
`drop` return. `PROJECT.json` lists these under `hazards`, each at its line with
the properties that cover it; two have no property, with the reason.

## 2. The modules

```
Resources --- SubmitChecks --- ShieldedPool --- ShieldedPool_proofs (theorems)
    |               |               \--------- MCShieldedPool
    |               \--- PoolFile --- PoolFile_proofs (theorems)
    |                       \-------- MCPoolFile
    |------ BuilderContract   (the abstract specification of the builder)
    \------ TransactionBuilder --- TransactionBuilder_proofs (theorems)
              |   |       \------- MCTransactionBuilder
   SignMagnitude  CommitmentTree
WalletStore --- WalletStore_proofs (theorems)
    \--------- MCWalletStore
Batches --- AggregatorContract   (the abstract specification of an aggregator)
    |------ AggregatorMessages
    |          |--- ThreadedAggregator --- ThreadedAggregator_proofs (theorems)
    |          |            \------------ MCThreadedAggregator
    |          \--- TcpAggregator (two instances of BufferedStream)
    |                  |--- TcpAggregator_proofs (theorems)
    |                  \--- MCTcpAggregator
    \------ RecursiveAggregator --- RecursiveAggregator_proofs (theorems)
                    \------------- MCRecursiveAggregator
Totals (sums, under Resources and Batches) and ProofTrees (under Batches)
SequenceLemmas: facts about sequences, sums, trees and histories for all proof modules
```

**Resources** has the data of transactions as the circuits tie it together:
nullifier and commitment are injective functions of a resource, a nonce is random
or derived from the nullifiers of the transaction and the index of the output, a
root is the sequence of the leaves. `Balanced` is what the delta proof states: the
quantities of every kind cancel. **SubmitChecks** has the checks of `submit`
that come before its last loop, in their order (`Check`), with an operator for the
condition of each. Three returns have no counterpart: `InvalidActionTreeRoot`
(`verifier.rs:121-128`), `ComplianceProof` and `LogicProof`. A transaction of the model
has the action root over its own tags, which is what `build` puts into every
instance (*builder* shows that the tree has room for them), and its proofs prove what
they state, so none of the three is ever taken.

**ShieldedPool** is `verifier.rs` with its clients. `Build` is a client that makes
a transaction from a view: any prefix of the pool's commitments (an old copy), or
the copy with a transaction applied that the pool has not seen. `Submit` asks
`Check`; `ApplyInstance` is one round of the last loop, which may return; `Record`
adds the new anchor and the transaction. `submit` borrows the pool exclusively, so
nothing else happens while `pc = "apply"`; the split into rounds is there because
the loop can end half-way.

**PoolFile** is the transfer command by several processes: `Read` (load or create),
`Transfer` (synchronize, select notes, change, build, submit to the copy), `Open`
and `Save` (the two halves of `fs::write`), `Crash` anywhere. It asks the same
`Check` of the copy, so a transaction is judged by one definition. The names of
sender and recipient are the two accounts of the instance, an external address, and
a name that is neither: for that one the code adds no input (`Inputs`) or no output
(`Payment`) and goes on (`main.rs:442, 463-481`).

**TransactionBuilder** is `TransactionBuilder` of `client.rs`, call by call:
`AddShieldedInput`, `AddTransparentInput`, `AddOutput` (and its transparent form) with
their panics, then `build` in its parts: `StartBuild` (action tree), a round of
`ProveInput` and of `ProveOutput` per resource, `ProveCompliance`. The
compliance circuit computes sums, nonces, commitments and roots again from the
witness (`CircuitSums`, `CircuitConsumed`, `CircuitCreated`), in its own way: a root is
folded from the path instead of copied from the tree, a sum that does not fit
fails a constraint, where the client's addition panics or, built without overflow
checks, wraps. Whether both agree is the question. **SignMagnitude** is the arithmetic of both with a
limited magnitude and two zeros. **CommitmentTree** is `merkle.rs`: all rows in one
vector, with paddings; `New`, `Merge`, `Path`, `RootOf`. Here a root is a term over the
leaves, so that a wrong neighbour or a missing padding shows.
**BuilderContract** is what the builder promises: inputs, then outputs, then one
transaction made of exactly what was asked, whose signature the pool accepts exactly
when it is balanced; it gives up if it is misused, or if a sum does not fit.

**WalletStore** is the wallet file by several processes: `Load` without the lock,
one command on the copy, then `Lock`, `MergeDisk` or `RefuseDisk`, `Write` and
`Finish` as in `synchronize`. An entry is the process that made it, so entries of
two keys can be told apart; which sections an item fills is `SectionsOf`.

**ProofTrees** represents a proof by the sequence of leaf proofs it stands for.
`Combine` accepts two proofs of equal size, so a sequence names one balanced tree
and both order and shape can be wrong in a model; `Aggregate` goes through a batch layer
by layer. **Batches** adds queues of batches. **AggregatorContract** is what
the trait promises: a pushed batch may be popped once, under the id the push
returned, as the root of its leaves. Every aggregator module has a property
`KeepsContract` that says it implements this specification under the identity
mapping of `asked` (what was pushed) and `given` (what was popped).

**AggregatorMessages** has the requests and responses that threads and connections
share. **ThreadedAggregator**: parent and worker thread with both channels. `sync` is
`StartSync`, a `TryRecv` per message and `EndSync`, so the worker may send between
two of them. The worker's iteration is `WorkerRecv`, then `SendProof` for each
result, `SendThroughput`, `SendSize`. `WorkerPanic` ends it within a step. `Drop`
and `Join` are the destructor.

**BufferedStream** is one direction of a connection: write buffer, network, read
buffer, and the length prefix while `try_recv` holds it. Every system call is an
action that moves any number of units. **TcpAggregator** has two of them, the
non-blocking client, the blocking server, a client that may go away between any
two steps and whose connection may then be reset, and the server's loop over
connections, which all share one inner aggregator. That one is abstracted: a step of it
(`ServerStep`) finishes any number of the batches it has, whoever pushed them, in any
order, since a recursive aggregator may hand out several roots after one step
(`aggregator.rs:408-434`). The aliases are the connection's (`ForgetAliases`).

**RecursiveAggregator**: `step` in its parts. `StartStep` reads the loads and sorts
them; `FindAggregator`, `TakeBatch`, `Split`, `Send`, `Reload` distribute;
`VisitSubAggregator`, `PopSubProof`, `CombineSubtrees`, `StopCombining` collect;
`Consolidate` queues complete groups and hands out roots. `Work` is the asynchronous
progress of a sub-aggregator, abstracted to the contract: it answers each batch
once, one with several workers in any order.

## 3. What the runs show

A mutant is a definition with a plausible bug; for every property there is one
that breaks it (`mutants` in `PROJECT.json`; their definitions are marked `mutant:`).

| Run | Instance | Shows |
|---|---|---|
| pool | 3 transactions built, 2 kinds, 2 notes in and out | `NoDoubleSpend`, `CommitmentsUnique`, `SpentNotesExist`, `ClientsFindTheTree`, `SupplyConserved` |
| pool_rejected | the same with one kind | **violated** `OnlyAcceptedNullify` |
| builder | 2 inputs, 2 outputs, 2 tokens, pools of 0 to 8 notes | `DeltaExact`, `TokensBackNotes`, `EveryTagInActionTree`, `PathsOpen`, `MergeRebuilds`, `KeepsContract` |
| pool_file | 4 transfers, 2 at a time, kills | `RefusedIffNobodyIsPaid`, `MovesAmount`, `TransfersStay`, `UnreadableOnlyByChance` |
| wallet | 3 commands on one alias, kills | `Coherent`, `StoredStays` |
| wallet_removal | 2 commands | **violated** `RemovalSynchronized` |
| threaded | 3 batches, panics, drop | `OuterSizeIsInFlight`, `NothingPendingMeansDone`, `KeepsContract`, `EveryBatchAnswered`, `DropReturns` |
| threaded_drop | 1 batch, panics | **violated** `DropIgnoresDeadWorker` |
| tcp | 2 clients after each other, a batch each, frames of 3 and 4 units, windows of 4 and 2 | `FramesWhole`, `OuterSizeIsInFlight`, `KeepsContract`, `EveryBatchAnswered`, `ServerLeavesDeadClient` |
| tcp_reconnect | 2 clients after each other | **violated** `ConnectedClientIsServed` |
| tcp_dead_client | 1 client | **violated** `ServerAcceptsAgain` |
| recursive | a pair of workers and one worker that may be removed, 2 batches of 2, 4 or 8 proofs | `Bookkeeping`, `LegalPushes`, `LeastLoadedChosen`, `EveryLeafOnce`, `KeepsContract`, `EveryBatchAnswered` |

Every module that is checked has one type invariant, `TypeOK`, in one of its runs.

**Why these bounds.** *pool*: the interesting cases need a transaction that spends a
note of another, a second one that spends the same note, and one that was built
before; three transactions and two notes each side reach all of them, two kinds
are what a swap between kinds needs. *builder*: an input and an output more than
one are what order, indices and sums need; with `MaxMagnitude` 3 and the
quantities 1 and 3 a sum of two reaches zero and either sign, stays in range, and
overflows; pools of nought to eight notes are
all trees of depth up to three, full, one short, one over a power of two, and
`MergeRebuilds` cuts each into pieces of every power of two. *pool_file*: a lost update needs two
processes that overlap, and then one before that makes the notes and one after
that meets the result; `Quantities` 1 and 3 with two inputs reach change, exact
payment and "not enough". An unknown recipient is asked for the amount 1, which
leaves an output for the change or none at all; the amount 0, which an unknown recipient does
not lose, and an unknown sender, who ends at the builder's assertion, are in the proof only. *wallet*: who is stale towards whom needs three
commands; an alias is independent of others, so one alias is enough except for
the order of commands, and the two kinds of items fill different sections.
*threaded*: two batches in the channels while a third is with the parent;
`MaxRequests` and `MaxResponses` bound how far one thread runs ahead of the other
and are guards of the caller and of the worker, except that `sync` and `drop` must
stay possible. *tcp*: frames have three or four units, so a window of 2 for responses
holds none and the server blocks within every frame, and one of 4 for requests holds
one and the client meets a full network; `MaxBacklog` says when the client sends
more, and the receive loop goes on while the network is full. Two clients with a batch
each are what it takes to answer a client with the batch of another: the first leaves
its batch with the server, and the inner aggregator may finish it before or after that of the
second. One batch per client is enough, because the batches of one caller are told apart
in *threaded*. In *tcp_dead_client* one client suffices.
*recursive*: the worker takes two proofs and the pair four, so a batch of 8 is split twice and
unevenly, one of 4 once or not at all, one of 2 never; the pair answers in either order; `MaxProofs` 12
leaves out two batches of 8 only. Processes that are
interchangeable are a symmetry set, and no run with symmetry checks liveness.

**Fairness.** Worker threads, the server and sub-aggregators keep running (WF). The
caller does what the tests do (`aggregator.rs:1592-1600` and the loops before):
while `pop` gives nothing, `step` and `sync` again, hence SF on these calls, which
other calls may disable. In *tcp* the inner aggregator does not step without
result for ever (SF on `StepFinishes`), and the network often takes all it has
room for (SF on `FlushAll`). Nothing is assumed of `push`, `drop`, `shutdown`, of
clients that go away or of panics. In *tcp* and *recursive*, `EveryBatchAnswered` has the form
`<>[]`: what a caller asks is bounded and an answer is never taken back, so from some
time on every batch is answered, or is one of those that the property names.

## 4. Where the code and its documentation disagree

1. **A refused transaction leaves nullifiers behind** (pool_rejected). The last loop of
   `submit` inserts nullifiers one by one and returns `DuplicateNullifier` from the
   middle (`verifier.rs:219-226`). The notes before the repeated one can never be
   spent, though the pool recorded no transaction that consumed them. `verifier.rs:80`
   says "Validate the given transaction and update pool state if necessary".
   The other properties of *pool* hold in spite of it; the caller in `main.rs:486`
   panics on an error and does not save the copy.
2. **`wallet remove` removes nothing** (wallet_removal). The alias is deleted from the
   copy (`main.rs:324`), and `synchronize` merges the copy into what it reads from
   the file (`wallet.rs:588`), which still has the alias.
3. **Dropping a threaded aggregator of a dead worker panics** (threaded_drop), where the
   comment says that sending errors are ignored (`aggregator.rs:677`).
4. **A client that reconnects stops the server** (tcp_reconnect). Aliases of batch ids
   live as long as `run`, the aggregator longer. The proof of a batch that an
   earlier client left is popped during the next connection, and
   `expect("Unknown inner ID on server")` ends the process that is to "repeatedly
   accept new connections" (`main.rs:172`).
5. **A client that goes too early stops the server** (tcp_dead_client). Every send to the
   client is unwrapped (`aggregator.rs:1341, 1349, 1355`). If the client goes before the
   last of its requests is answered, a send fails and the panic ends the process, not
   only the connection. `ServerLeavesDeadClient` is what does hold: if nothing is left to
   answer when the client has gone, even if it went within a frame, the server accepts the next one.

Three limits are not findings, but worth knowing. A transfer to a name that is neither a
payment address nor an address is no error in the command (`main.rs:463-481` has no last
`else`): no output is added, the transaction does not balance, `submit` refuses it, and the
`expect` at `main.rs:486` panics. `RefusedIffNobodyIsPaid` says that this is the only
way to that `expect`, and that such a transfer is never accepted, which would destroy
the amount. A recursive aggregator whose
sub-aggregators all have a throughput above one does not finish: a last pair of
proofs saturates none of them and `step` proves nothing itself
(`aggregator.rs:270`); `EveryBatchAnswered` therefore has a worker that two proofs
saturate. And `submit` panics, rather than refuses, if a transaction has no tags
(`verifier.rs:118`); a builder without inputs or outputs never gets to submit one. The load vector of a
recursive aggregator is repaired towards its end only (`aggregator.rs:337-356`), so it
need not be sorted; `LeastLoadedChosen` shows that the choice is still the least
loaded candidate.

## 5. What is proved

Each theorem is `Spec => []Inv`, or a refinement `Spec => Contract!Safe`, for every
value of the constants that satisfies the assumptions its module states, and rests
on an inductive invariant, with one lemma or step per action.

**ShieldedPool_proofs**, from `ResourcesAssumption` alone (quantities are natural
numbers, the null seed is no seed, a transaction consumes at least one resource):
`TypeCorrect`, `NoDoubleSpendHolds`, `CommitmentsUniqueHolds`, `SpentNotesExistHolds`,
`ClientsFindTheTreeHolds`, `SupplyConservedHolds`. None
of the properties is inductive. `IInv` adds what is true of every built transaction
(`BuiltOK`: nonces are bound to its nullifiers, instances come consumed first, in
order), that the nullifiers of recorded transactions are in the pool
(`AcceptedNullified`), that every commitment of the pool is bound to nullifiers in
the pool (`BoundToSpent`), and what the rounds of the last loop have done so far
(`LoopOK`). Two recorded transactions cannot share a nullifier, since the second
would meet the first's in the set; so no two derive the same nonce, so commitments
are distinct although `submit` does not compare them with the tree; an anchor is
the root of a prefix, so a spent note is a leaf. The tree is what the recorded
transactions created, in their order, followed by what the loop has pushed
(`TreeIsRecorded`, `AnchorsRecorded`), so a client who replays them finds every anchor. And
the value of the unspent notes of a kind is what recorded transactions brought
into the pool less what they took out (`BooksOK`): a balanced transaction shifts both by the
same amount, and because notes are distinct and spent once, a sum over sets is enough.

**TransactionBuilder_proofs**, for every pool that has room in the tree, every depth, width of
the magnitude and limit of the arrays, in six parts. `TypeCorrect`, `SumsExact`,
`RecordedComputed`, `DeltaIsCommitted` and `RefusedForSums` rest on `IInv`: sums in sign and
magnitude are the integers until one wraps, and the invariant says of every index
that its nonce is the derived one and that its public part is what the circuit
computes, while the loops of `build` go over them. So the instance commits to
the balance of every kind, and the circuit refuses for a sum only.
Then the trees. `TreeNode` says which term is node `j` of height `h`, whether the vector
holds it or it lies to the right of what the vector holds; every node is the
parent of its two children (`NodeAbove`), although only the round that made a row knew
where it starts (`RowIs`); the loop of `path` finds each row where
`complete` put it (`WalkIs`), so folding a path climbs from node to node up to the root
(`PathOpens`). That gives `EveryPathOpens`, for filled and empty positions alike, and with
the arithmetic of the depth (`Log2FloorIs`) `EveryTagHasAPath`; `TreesInvariant` carries the trees of
a state from step to step. Third, the sums: `SumsInv` says that the running sums of `build` are partial sums of one
sequence, and that a sum which wrapped was too large in the integers; the circuit's
sums are the same partial sums (`CircuitIs`), by induction over the summands. Fourth, `ImplementsContract`: the builder
implements BuilderContract, an abstract state that is a function of the builder's
own. Its last step needs all three invariants: the built transaction is the
one the contract computes from the requests alone, it opens exactly if it balances
(`OpensBalanced`), and where the circuit refuses, some sum cannot be written
(`AgreesIfSmall`). Fifth, `TokensBackNotesHolds`: `TxOK` keeps that every kind of what opens
balances; the kinds of one label, several if several logics share it, are finitely many
among the resources, so the label balances too (`KindsBalance`), and the resources of a
label are its notes and those a payload moves (`LabelSplits`). Last, `MergeRebuildsHolds`: a round
of `merge` takes the rows of one height of all pieces, which side by side are that row of the
whole tree (`RoundTakes`, `RoundClimbs`, `RoundsAre`), because the widths of pieces add
up (`CutRows`) and what a piece's vector holds of its last row is padded except beside
full roots (`LastHeld`); `complete`, started at a row that `new` makes, ends as `new`
does (`CompleteFrom`), so merging the pieces of a sequence gives its tree (`MergeOfPieces`).

**PoolFile_proofs**, for any number of processes at a time: `TypeCorrect`,
`TransfersStayHolds`, `UnreadableOnlyByChanceHolds`, `RefusedIffNobodyIsPaidHolds`, `MovesAmountHolds`. The history is a log of distinct
events, and `IInv` says which events have happened in every state of a process and
in which order. Every copy, and the file, has each saved transfer unless the copy
was read before the save or a copy of that kind was saved over it (`CopyOK`,
`FileOK`); a file that is open and not empty was written meanwhile by another process that had it
open too, or is what a killed one left (`OpenOK`). `NotesInv` says of every copy that its notes
are distinct and bound to spent nullifiers, that its root is an anchor, and that the seeds still
to be drawn are fresh (`PoolsOK`, `SeedsOK`). From it follows, check by check, that the transaction a
command builds from its copy passes, except for the balance: its inputs are worth the
amount and the change, its outputs the change and, unless the recipient is unknown, the amount,
so it balances exactly if somebody is paid or the amount is zero (`RefusedIffNobodyIsPaid`); and the balances
of payer and payee in the copy change by the amount and no other
balance does (`MovesAmount`, an action property).

**WalletStore_proofs**, for any number of processes, aliases and items: `TypeCorrect`
(the lock is held by exactly the process at work on the file), `CoherentHolds`,
`StoredStaysHolds`. Coherence needs that a copy changes an alias as a whole, in
commands and in merges. For `StoredStays`, `HInv` says that the file, every merged
copy and every loaded copy keep what a finished command stored, unless a command
that the property names replaced it or the copy is outdated (`DiskOK`, `MergeOK`, `CopyOK`).

**ThreadedAggregator_proofs**, for any batches and bounds of the channels: `TypeCorrect`,
`ImplementsContract`, `OuterSizeHolds`, `NothingPendingHolds`. The refinement
`Spec => KeepsContract` maps initial
states to initial states, and every step to a push, a pop or a stutter of
AggregatorContract. Its invariant: a batch is in one place at a time (request
channel, queue of the worker, response channel, results of the parent, or given),
under the id or alias of that place, and ids are fresh. That the layers of the local
aggregator make the balanced tree of any batch whose size is a power of two is a
lemma (`RootOfLeaves`). The size that the parent keeps
is what is in either channel plus what the worker took over and has not
reported (`SizesOK`), so no subtraction underflows. An empty report is only
sent behind all proofs of the batches it counts (`EmptyMeansDone`), so a caller who
reads a size of zero has every proof in hand.

**TcpAggregator_proofs**, for any number of clients and batches and networks of any
capacity: `TypeCorrect`, `FramesWholeHolds`, `OuterSizeHolds`, `ImplementsContract`. Writing, reading,
taking a length and putting it back move units between buffers and change nothing of
what is on its way in one direction, which is a sequence of whole frames, of which the first may have
begun (`Framing`); a send adds a frame behind one that ends; a receive takes
the first one off. An end that goes cuts the tail off, and only then is the last frame
short. On top of it come the places of a batch, as for threads, where
the request and response channels are what the units on their way name (`Known`), and the
aliases of one connection.

**RecursiveAggregator_proofs**, for any number of sub-aggregators with any throughputs, any
batches, any order of answers and any insertions and removals: `TypeCorrect`,
`BookkeepingHolds`, `LegalPushesHolds`, `LeastLoadedHolds`, `SomethingToTakeHolds`
(`pop_front` at `aggregator.rs:279` finds a batch), `EveryLeafOnceHolds`, `ImplementsContract`. The
invariant gives each id that was ever used a *block*, a number of consecutive leaves of one
pushed batch (`Placed`): a batch that waits or is at a sub-aggregator, and a proof
that came back, stand for the leaves of their block in order; the two children of an id have
the halves of its block; an id without parent has all of a batch that is not answered yet, and
no other such id has. Then combining two children gives the block of the parent,
whichever came back first, and an answer is a whole batch. `Kept` adds an account of the
leaves: the blocks of the ids under which there are proofs (`Held`) lie in batches without an
answer, no two of them overlap, and every leaf of a batch without an answer is in one unless a
removed sub-aggregator had a part of the batch. A split halves a
block, combining joins two, sending and queuing again rename one, a removal drops some,
and a root takes the whole of its batch with it, so each step keeps the tiling (`TilesSplit`,
`TilesJoin`, `TilesRename`, `TilesLost`, `TilesDone`). With the proofs of each id in places of
their own (`HeldUnder`, `HeldAre`), `EveryLeafOnce` follows. `LoadsOK` ties the sizes
in the load vector, in the queue and at the sub-aggregators together, so what is
to be distributed is there. `ScanOK` is why the choice is right although the vector is
repaired in part: the entries before the index can never be saturated again in this
step, and the rest is sorted.

**SequenceLemmas** has what these proofs share: sequences, lists whose
elements bear ids, removal and insertion, sums over sequences, histories, and trees of halves.
Inductions over natural numbers are arguments about a least counterexample
(`WFMin`), for one function at a time, because a theorem with an operator
parameter cannot be used here.

**Only model-checked.** Liveness under fairness (`EveryBatchAnswered` of the three aggregators,
`DropReturns`, `ServerLeavesDeadClient`): it rests on `ENABLED`. Every invariant and every action
property of the passing runs is also a theorem.

## 6. What is not modelled, and why

- Cryptography: hashes are injective, proofs and signatures are accepted exactly
  when their statement holds, decryption finds exactly one's own notes.
- Encodings, formatting, key derivation, addresses and prompts: conversions without
  state, except `SignMagnitude` and the `Promise` of the action root.
- The contracts: arithmetic over 254 bits and generated code, without storage.
- The authorisation and delta circuits, and the layout of the compliance digest:
  constraints on signatures, commitments and encodings that hold for every
  witness the builder makes. What they fix, the payload for the forwarder, is built
  in TransactionBuilder.
- The server command: it puts a recursive aggregator over threaded ones behind a
  listener (`main.rs:161-171`); each of these is modelled by itself, and the loop over
  connections is part of TcpAggregator.
- Measured throughput: sub-aggregators keep the throughput they have, where the code
  reads it again at every step.
- What a sub-aggregator is inside: RecursiveAggregator takes its pending size to be the
  proofs in its queue. A recursive sub-aggregator leaves out of it those that wait to be
  combined (`aggregator.rs:199-214`); the command has threaded ones only. Panics of
  sub-aggregators, and of the aggregator behind a TCP server, are not modelled; those of a
  worker thread are, in ThreadedAggregator.
- Transactions of ShieldedPool that mix notes with new resources as inputs (the builder's
  runs mix them), and adding one note twice to a builder, which `submit` refuses as a
  duplicate (`verifier.rs:149-152`).
- Errors of system calls other than those named (a refused `read` of the pool file,
  `EINTR`, a full disk).
- Use of the TCP client after `shutdown`, and a client that waits for the server's
  end without reading: with large enough backlog of responses it waits for ever.

## 7. Plan

Done: every component with state of its own, an abstract specification for the
aggregators and one for the builder, theorems about seven components, and the contract of
the aggregators proved for all three that have a model, as is that of the builder. What would come next is the
server of the node binary as a composition: RecursiveAggregator behind TcpAggregator,
with sub-aggregators as instances of the contract.

## 8. Running it

`tlc -config MCShieldedPool.cfg MCShieldedPool` and likewise for the other
configurations; `tlapm SequenceLemmas.tla`, `tlapm
ShieldedPool_proofs.tla` and likewise for the other `_proofs` modules, of which
RecursiveAggregator_proofs and TransactionBuilder_proofs take about ten minutes each. Runs whose
configuration disables the deadlock check model systems that may stop: a caller
that dropped its aggregator, a server that panicked, transfers that have ended.
In *wallet* all commands end, and stopping there is an action (`Ended`), so that
any other stop would be reported.
