----------------------------- MODULE Resources -----------------------------
(***************************************************************************)
(* The data of the resource machine: resources, their nullifiers and       *)
(* commitments, and the transactions that TransactionBuilder assembles     *)
(* from them (nodes/src/types.rs, nodes/src/client.rs) under the relation  *)
(* that the compliance circuit proves (circuits/crates/compliance).        *)
(*                                                                         *)
(* Hashes are free constructors: two digests are equal exactly when what   *)
(* was hashed is equal. A proof is abstracted to the relation it proves.   *)
(***************************************************************************)
EXTENDS Totals, FiniteSetsExt

CONSTANTS
  Owners,       \* nullifier key commitments
  LogicRefs,    \* verification key hashes of resource logic circuits
  LabelRefs,    \* labels: the ERC20 token behind a resource
  Quantities,   \* quantities of a resource
  Seeds,        \* random nonces drawn for transparent inputs
  NoSeed,       \* the nonce is derived, not drawn
  MaxConsumed,  \* MAX_CONSUMED
  MaxCreated    \* MAX_CREATED

ASSUME ResourcesAssumption ==
  /\ Quantities \subseteq Nat
  /\ NoSeed \notin Seeds
  /\ MaxConsumed \in Nat \ {0}
  /\ MaxCreated \in Nat \ {0}

Kinds == LogicRefs \X LabelRefs

Kind(r) == <<r.logic_ref, r.label_ref>>

\* A nonce is drawn at random (a transparent input) or derived from the
\* position in the transaction and the digest of the consumed nullifiers.
RandomNonce(s) == [seed |-> s, index |-> 0, nullifiers |-> <<>>]

\* mutant: the nonce does not depend on what the transaction consumes
UnboundNonce(i, nfs) == [seed |-> NoSeed, index |-> i, nullifiers |-> <<>>]
DeriveNonce(i, nfs) == [seed |-> NoSeed, index |-> i, nullifiers |-> nfs]

Nullifier(r) == <<"nullifier", r>>
Commitment(r) == <<"commitment", r>>
ResourceOf(tag) == tag[2]

\* The root of the commitment tree over a sequence of commitments.
Root(cms) == <<"root", cms>>

\* INITIAL_ROOT, which add_transparent_input uses as the ephemeral root.
EmptyRoot == Root(<<>>)

-----------------------------------------------------------------------------
\* What a caller asks of the builder. An input is a resource and the root its
\* Merkle path leads to; an output is a resource still without a nonce.

ShieldedInput(cm, view) == [resource |-> ResourceOf(cm), root |-> Root(view)]

TransparentInput(s, q, k) ==
  [resource |-> [owner |-> NoSeed, logic_ref |-> k[1], label_ref |-> k[2],
                 quantity |-> q, is_ephemeral |-> TRUE, nonce |-> RandomNonce(s)],
   root |-> EmptyRoot]

TransparentInputs ==
  {TransparentInput(s, q, k) : s \in Seeds, q \in Quantities, k \in Kinds}

Outputs ==
  [owner : Owners, logic_ref : LogicRefs, label_ref : LabelRefs,
   quantity : Quantities, is_ephemeral : BOOLEAN]

WithNonce(out, nonce) ==
  [owner |-> out.owner, logic_ref |-> out.logic_ref, label_ref |-> out.label_ref,
   quantity |-> out.quantity, is_ephemeral |-> out.is_ephemeral, nonce |-> nonce]

CreatedTags(outs, nfs) ==
  [i \in 1..Len(outs) |-> Commitment(WithNonce(outs[i], DeriveNonce(i, nfs)))]

ConsumedInstances(nfs) == [i \in 1..Len(nfs) |-> [tag |-> nfs[i], is_consumed |-> TRUE]]
CreatedInstances(cms) == [i \in 1..Len(cms) |-> [tag |-> cms[i], is_consumed |-> FALSE]]

\* mutant: build() emits the created logic instances before the consumed ones
CreatedFirst(nfs, cms) == CreatedInstances(cms) \o ConsumedInstances(nfs)

\* One logic instance for every tag, those of the consumed resources first.
LogicInstances(nfs, cms) == ConsumedInstances(nfs) \o CreatedInstances(cms)

\* The transaction that add_*_input, add_*_output and build make of inputs and
\* outputs: the public part of the compliance instance and the logic instances.
Transaction(ins, outs) ==
  LET nfs == [i \in 1..Len(ins) |-> Nullifier(ins[i].resource)]
      cms == CreatedTags(outs, nfs)
  IN  [nullifiers |-> nfs,
       roots |-> [i \in 1..Len(ins) |-> ins[i].root],
       commitments |-> cms,
       logic_instances |-> LogicInstances(nfs, cms)]

-----------------------------------------------------------------------------
\* What the resource behind a tag adds to a sum over resources of kind k.
Amount(tag, k) == IF Kind(ResourceOf(tag)) = k THEN ResourceOf(tag).quantity ELSE 0

QuantityOf(tags, k) == Total([i \in DOMAIN tags |-> Amount(tags[i], k)])

\* The delta of the compliance instance commits to these sums, kind by kind
\* (accumulate_kind); its opening signs the transaction, so the signature
\* verifies exactly when every sum is zero.
Delta(tx, k) == QuantityOf(tx.nullifiers, k) - QuantityOf(tx.commitments, k)

\* mutant: one sum over all kinds
BalancedOverall(tx) ==
  MapThenSumSet(LAMBDA k : Delta(tx, k), Kinds) = 0

Balanced(tx) == \A k \in Kinds : Delta(tx, k) = 0
=============================================================================
