---------------------------- MODULE ShieldedPool ----------------------------
(***************************************************************************)
(* The shielded pool (nodes/src/verifier.rs) and the clients that build    *)
(* transactions for it.  Clients build from a view of the pool that may be *)
(* old by the time the transaction is submitted, or ahead of the pool: a   *)
(* client may chain a transaction on one that is built and not submitted   *)
(* yet, by applying that one to its own clone of the pool.  A built        *)
(* transaction may be submitted at any time, in any order, and again.      *)
(*                                                                         *)
(* submit holds the pool exclusively.  Its checks are one step (Submit);   *)
(* its last loop, which updates the pool one logic instance at a time and  *)
(* may return in the middle, is one step per iteration (ApplyInstance).    *)
(***************************************************************************)
EXTENDS SubmitChecks

CONSTANT MaxBuilt   \* bound: transactions the clients build

VARIABLES
  nullifiers,       \* ShieldedPool.nullifiers
  commitments,      \* ShieldedPool.commitments
  transactions,     \* ShieldedPool.transactions
  anchors,          \* ShieldedPool.anchors
  logic_circuits,   \* the keys of ShieldedPool.logic_circuits
  built,            \* the transactions clients hold
  pc,               \* where submit is: "idle", "apply"
  tx,               \* its argument
  at,               \* the index of the logic instance the last loop is at
  verdict           \* the result of the last submit that returned

pool == <<nullifiers, commitments, transactions, anchors>>
call == <<pc, tx, at, verdict>>
vars == <<nullifiers, commitments, transactions, anchors, logic_circuits,
          built, pc, tx, at, verdict>>

Errors == {"InvalidSignature", "DuplicateNullifier", "NonExistentAnchor",
           "DuplicateCommitment", "UnpairedNullifier", "UnpairedCommitment",
           "CircuitNotRegistered"}

NoTransaction == [nullifiers |-> <<>>, roots |-> <<>>, commitments |-> <<>>,
                  logic_instances |-> <<>>]

Init ==
  /\ nullifiers = {}
  /\ commitments = <<>>
  /\ transactions = <<>>
  /\ anchors = {EmptyRoot}
  /\ logic_circuits = {}
  /\ built = {}
  /\ pc = "idle"
  /\ tx = NoTransaction
  /\ at = 1
  /\ verdict = "none"

-----------------------------------------------------------------------------
RegisterLogic(l) ==
  /\ pc = "idle"
  /\ logic_circuits' = logic_circuits \cup {l}
  /\ UNCHANGED <<pool, call, built>>

DeregisterLogic(l) ==
  /\ pc = "idle"
  /\ logic_circuits' = logic_circuits \ {l}
  /\ UNCHANGED <<pool, call, built>>

-----------------------------------------------------------------------------
\* The commitments a client may take for the tree: those of the pool, or those
\* its clone of the pool has once it accepted one more built transaction.
Views ==
  {commitments} \cup
  {commitments \o t.commitments :
     t \in {u \in built : Check(u, anchors, logic_circuits) = "ok" /\ ToSet(u.nullifiers) \cap nullifiers = {}}}

\* The notes of a view: ephemeral resources are not decrypted and never found.
Notes(view) == {cm \in ToSet(view) : ~ResourceOf(cm).is_ephemeral}

ShieldedInputs(view) == {ShieldedInput(cm, view) : cm \in Notes(view)}

\* The random nonces drawn so far; a nonce is never drawn twice.
Drawn == UNION {{ResourceOf(nf).nonce.seed : nf \in ToSet(t.nullifiers)} : t \in built}

FreshInputs == {i \in TransparentInputs : i.resource.nonce.seed \notin Drawn}

\* hash_nullifiers refuses to run on no input at all.
UpToMaxConsumed(S) == UNION {[1..n -> S] : n \in 1..MaxConsumed}

DistinctNonces(ins) ==
  \A i, j \in DOMAIN ins : i # j => ins[i].resource.nonce # ins[j].resource.nonce

\* Bound: the inputs of a transaction are all notes of the pool or all fresh.
InputsOf(view) ==
  UpToMaxConsumed(ShieldedInputs(view))
    \cup {ins \in UpToMaxConsumed(FreshInputs) : DistinctNonces(ins)}

OutputsOf == UNION {[1..n -> Outputs] : n \in 0..MaxCreated}

\* Bound: an unbalanced transaction has one input and one output.
BuildBound(t) == Balanced(t) \/ (Len(t.nullifiers) = 1 /\ Len(t.commitments) = 1)

Build(view, ins, outs) ==
  /\ pc = "idle"
  /\ Cardinality(built) < MaxBuilt
  /\ LET t == Transaction(ins, outs)
     IN  /\ BuildBound(t)
         /\ built' = built \cup {t}
  /\ UNCHANGED <<pool, call, logic_circuits>>

-----------------------------------------------------------------------------
Submit(t) ==
  /\ pc = "idle"
  /\ \/ /\ Check(t, anchors, logic_circuits) = "ok"
        /\ pc' = "apply"
        /\ tx' = t
        /\ at' = 1
        /\ UNCHANGED verdict
     \/ /\ Check(t, anchors, logic_circuits) # "ok"
        /\ verdict' = Check(t, anchors, logic_circuits)
        /\ UNCHANGED <<pc, tx, at>>
  /\ UNCHANGED <<pool, logic_circuits, built>>

Instance == tx.logic_instances[at]

Return(result) ==
  /\ pc' = "idle"
  /\ tx' = NoTransaction
  /\ at' = 1
  /\ verdict' = result

\* mutant: the nullifier set of the pool is not consulted
InsertAlways ==
  /\ Instance.is_consumed
  /\ nullifiers' = nullifiers \cup {Instance.tag}
  /\ at' = at + 1
  /\ UNCHANGED <<commitments, pc, tx, verdict>>

InsertNullifier ==
  /\ Instance.is_consumed
  /\ Instance.tag \notin nullifiers
  /\ nullifiers' = nullifiers \cup {Instance.tag}
  /\ at' = at + 1
  /\ UNCHANGED <<commitments, pc, tx, verdict>>

\* The early return: what earlier iterations inserted stays.
RefuseNullifier ==
  /\ Instance.is_consumed
  /\ Instance.tag \in nullifiers
  /\ Return("DuplicateNullifier")
  /\ UNCHANGED <<nullifiers, commitments>>

PushCommitment ==
  /\ ~Instance.is_consumed
  /\ commitments' = Append(commitments, Instance.tag)
  /\ at' = at + 1
  /\ UNCHANGED <<nullifiers, pc, tx, verdict>>

ApplyInstance ==
  /\ pc = "apply"
  /\ at <= Len(tx.logic_instances)
  /\ InsertNullifier \/ RefuseNullifier \/ PushCommitment
  /\ UNCHANGED <<transactions, anchors, logic_circuits, built>>

\* mutant: the new root is that of the transaction's own commitments
RecordOwnRoot ==
  /\ pc = "apply"
  /\ at > Len(tx.logic_instances)
  /\ anchors' = anchors \cup {Root(tx.commitments)}
  /\ transactions' = Append(transactions, tx)
  /\ Return("ok")
  /\ UNCHANGED <<nullifiers, commitments, logic_circuits, built>>

Record ==
  /\ pc = "apply"
  /\ at > Len(tx.logic_instances)
  /\ anchors' = anchors \cup {Root(commitments)}
  /\ transactions' = Append(transactions, tx)
  /\ Return("ok")
  /\ UNCHANGED <<nullifiers, commitments, logic_circuits, built>>

Next ==
  \/ \E l \in LogicRefs : RegisterLogic(l) \/ DeregisterLogic(l)
  \/ \E view \in Views : \E ins \in InputsOf(view), outs \in OutputsOf :
       Build(view, ins, outs)
  \/ \E t \in built : Submit(t)
  \/ ApplyInstance
  \/ Record

Spec == Init /\ [][Next]_vars

-----------------------------------------------------------------------------
\* The shape of the state.
TypeOK ==
  /\ commitments \in Seq(ToSet(commitments))
  /\ transactions \in Seq(built)
  /\ anchors \in SUBSET {Root(SubSeq(commitments, 1, n)) : n \in 0..Len(commitments)}
  /\ logic_circuits \in SUBSET LogicRefs
  /\ tx \in built \cup {NoTransaction}
  /\ pc \in {"idle", "apply"}
  /\ at \in 1..(MaxConsumed + MaxCreated + 1)
  /\ verdict \in Errors \cup {"none", "ok"}

\* Two accepted transactions never consume the same resource, whatever the
\* interleaving of builds and submissions and however often one is repeated
\* (the duplicate check in submit's last loop).
NoDoubleSpend ==
  \A i, j \in 1..Len(transactions) :
    i # j => ToSet(transactions[i].nullifiers)
               \cap ToSet(transactions[j].nullifiers) = {}

\* The tree never holds a commitment twice, although submit compares the
\* commitments of a transaction only with each other: the nonce of a created
\* resource binds it to nullifiers that no other transaction can consume.
CommitmentsUnique == IsInjective(commitments)

\* A note an accepted transaction consumes was created by an accepted one:
\* a proof against a root that the pool never had is not accepted, also when
\* the client built it ahead of the pool.
SpentNotesExist ==
  \A i \in 1..Len(transactions) : \A nf \in ToSet(transactions[i].nullifiers) :
    ResourceOf(nf).is_ephemeral
      \/ Commitment(ResourceOf(nf)) \in ToSet(commitments)

\* The tags that the recorded transactions created and consumed, in order.
RecordedTags ==
  FlattenSeq([i \in 1..Len(transactions) |-> transactions[i].commitments])
ConsumedTags ==
  FlattenSeq([i \in 1..Len(transactions) |-> transactions[i].nullifiers])

\* Between submissions, the commitments a client collects from the recorded
\* transactions (ClientState.synchronize) are those of the pool, in the same
\* positions, and their root is an anchor: a freshly synchronised client builds
\* Merkle paths the pool accepts, also after submissions that failed half-way.
ClientsFindTheTree ==
  pc = "idle" => RecordedTags = commitments /\ Root(commitments) \in anchors

IsEphemeral(tag) == ResourceOf(tag).is_ephemeral

IsUnspentNote(cm, spent) == ~IsEphemeral(cm) /\ Nullifier(ResourceOf(cm)) \notin spent

\* What the notes and the ephemeral resources of kind k among tags hold.
Unspent(tags, spent, k) ==
  Total([i \in DOMAIN tags |-> IF IsUnspentNote(tags[i], spent) THEN Amount(tags[i], k) ELSE 0])
Transparent(tags, k) ==
  Total([i \in DOMAIN tags |-> IF IsEphemeral(tags[i]) THEN Amount(tags[i], k) ELSE 0])

\* Of every kind, the notes that no accepted transaction consumed hold exactly
\* what transparent inputs brought in less what transparent outputs took out.
SupplyConserved ==
  pc = "idle" =>
    \A k \in Kinds :
      Unspent(commitments, ToSet(ConsumedTags), k)
        = Transparent(ConsumedTags, k) - Transparent(commitments, k)

\* "Validate the given transaction and update pool state if necessary"
\* (nodes/src/verifier.rs:80): a nullifier is in the pool only if a transaction
\* the pool recorded consumed it.
OnlyAcceptedNullify ==
  pc = "idle" => nullifiers = ToSet(ConsumedTags)
=============================================================================
