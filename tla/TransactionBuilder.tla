------------------------- MODULE TransactionBuilder -------------------------
(***************************************************************************)
(* TransactionBuilder (nodes/src/client.rs) and the two circuits whose     *)
(* proofs it asks for (circuits/crates/compliance, transfer_auth): inputs  *)
(* and outputs are added one call at a time, each with its public part,    *)
(* and build() then computes everything that depends on all of them: the   *)
(* action tree, the sums by kind, the compliance instance, the signature.  *)
(* The compliance circuit computes the public parts and the sums again     *)
(* from the witness; a digest that differs, like a constraint that does    *)
(* not hold, ends the client.                                              *)
(*                                                                         *)
(* The builder is used by one thread; its hazards are in the order of      *)
(* calls, in the limits of its arrays and in the width of its sums.        *)
(***************************************************************************)
EXTENDS Resources, SignMagnitude, SequencesExt

CONSTANTS
  PoolNotes,   \* commitments a pool may hold, in order
  TreeDepth    \* MAX_TREE_DEPTH

Tree == INSTANCE CommitmentTree

\* A pool has room in the tree. No code checks it: a full tree of MAX_TREE_DEPTH
\* 32 is 128 GB of commitments, which a client holds in memory.
ASSUME TransactionBuilderAssumption ==
  /\ TreeDepth \in Nat
  /\ Len(PoolNotes) <= Tree!TwoTo[TreeDepth]
  /\ Quantities \subseteq Magnitudes
  /\ PoolNotes \in Seq(ToSet(PoolNotes))
  /\ \A cm \in ToSet(PoolNotes) :
       /\ cm = Commitment(ResourceOf(cm))
       /\ ResourceOf(cm).quantity \in Quantities
       /\ Kind(ResourceOf(cm)) \in Kinds

VARIABLES
  leafs,              \* the commitments the client found in the pool
  tree,               \* ClientState.tree: their commitment tree
  consumed_data,      \* the consumed resources with their Merkle paths
  consumed_publics,   \* their public parts; holds consumed_nullifiers too
  created_resources,  \* the created resources
  created_publics,    \* their public parts
  pc,                 \* "open", "inputs", "outputs" (in build), "built";
                      \* ended: "misused", "overflowed", "refused"
  at,                 \* the index of the loop of build that runs
  action_root,        \* <<>> until build sets it
  delta_map,          \* the sums by kind; no entry is Zero
  tx,                 \* what build returned
  net,                \* history: what delta_map sums, as integers
  wrapped             \* history: a sum has left its width and went on

consumed == <<consumed_data, consumed_publics>>
created == <<created_resources, created_publics>>
sums == <<delta_map, net, wrapped>>
client == <<leafs, tree>>
vars == <<client, consumed, created, pc, at, action_root, sums, tx>>

NoTransaction == [logic_instances |-> <<>>]

\* INITIAL_ROOT: the root of the empty tree.
InitialRoot == Tree!EmptyRoot[TreeDepth]

Init ==
  /\ leafs \in {SubSeq(PoolNotes, 1, n) : n \in 0..Len(PoolNotes)}
  /\ tree = Tree!New(TreeDepth, leafs)
  /\ consumed_data = <<>> /\ consumed_publics = <<>>
  /\ created_resources = <<>> /\ created_publics = <<>>
  /\ pc = "open"
  /\ at = 1
  /\ action_root = <<>>
  /\ delta_map = [k \in Kinds |-> Zero]
  /\ tx = NoTransaction
  /\ net = [k \in Kinds |-> 0]
  /\ wrapped = FALSE

-----------------------------------------------------------------------------
\* A panic: the client is gone.
End(outcome) ==
  /\ pc' = outcome
  /\ UNCHANGED <<client, consumed, created, at, action_root, sums, tx>>

\* mutant: inputs are accepted after outputs, too
OnlyTooMany == Len(consumed_data) = MaxConsumed

\* The panic of add_*_input, or its index into a full array.
InputMisused == created_resources # <<>> \/ Len(consumed_data) = MaxConsumed

PushInput(r, path, root) ==
  /\ consumed_data' = Append(consumed_data, [resource |-> r, path |-> path])
  /\ consumed_publics' = Append(consumed_publics,
       [nullifier |-> Nullifier(r), logic_ref |-> r.logic_ref, root |-> root])
  /\ UNCHANGED <<client, created, pc, at, action_root, sums, tx>>

AddInput(r, path, root) ==
  /\ pc = "open"
  /\ \/ InputMisused /\ End("misused")
     \/ ~InputMisused /\ PushInput(r, path, root)

\* The positions of notes that a spending key of the caller can consume.
\* Bound: no note twice; the builder takes it, and submit refuses it later.
NotePositions ==
  {pos \in 0..(Len(leafs) - 1) :
     LET note == ResourceOf(leafs[pos + 1])
     IN  /\ note.owner \in Owners /\ ~note.is_ephemeral
         /\ Nullifier(note) \notin {p.nullifier : p \in ToSet(consumed_publics)}}

AddShieldedInput(pos) ==
  LET note == ResourceOf(leafs[pos + 1])
      path == Tree!Path(tree, pos)
  IN  AddInput(note, path, Tree!PathRoot(path, Commitment(note)))

\* The seeds not drawn for an earlier input.
FreshSeeds == Seeds \ {c.resource.nonce.seed : c \in ToSet(consumed_data)}

AddTransparentInput(s, q, k) == AddInput(TransparentInput(s, q, k).resource, <<>>, InitialRoot)

-----------------------------------------------------------------------------
ConsumedNullifiers(publics) == [i \in 1..Len(publics) |-> publics[i].nullifier]

\* mutant: the array is longer than its constant says
NoLimit == consumed_data = <<>>

\* hash_nullifiers refuses to run on no nullifier; or a full array.
OutputMisused == consumed_data = <<>> \/ Len(created_resources) = MaxCreated

PushOutput(r) ==
  /\ created_resources' = Append(created_resources, r)
  /\ created_publics' = Append(created_publics,
       [commitment |-> Commitment(r), logic_ref |-> r.logic_ref])
  /\ UNCHANGED <<client, consumed, pc, at, action_root, sums, tx>>

\* The code numbers outputs from 0, Resources from 1.
CreatedNonce ==
  DeriveNonce(Len(created_resources) + 1, ConsumedNullifiers(consumed_publics))

\* add_shielded_output, and add_transparent_output for an ephemeral resource.
AddOutput(out) ==
  /\ pc = "open"
  /\ \/ OutputMisused /\ End("misused")
     \/ ~OutputMisused /\ PushOutput(WithNonce(out, CreatedNonce))

-----------------------------------------------------------------------------
\* build: the action tree over all tags, as deep as they need.

CreatedCommitments(publics) == [i \in 1..Len(publics) |-> publics[i].commitment]

\* ilog2: the position of the highest bit.
Log2Floor(n) == CHOOSE k \in 0..n : Tree!TwoTo[k] <= n /\ n < Tree!TwoTo[k + 1]

\* mutant: the depth for the largest power of two below the number of tags
ShallowDepth(n) == IF n = 1 THEN 0 ELSE Log2Floor(n)

ActionTreeDepth(n) == IF n = 1 THEN 0 ELSE Log2Floor(n - 1) + 1

ActionTree(tags) == Tree!New(ActionTreeDepth(Len(tags)), tags)

AllTags == ConsumedNullifiers(consumed_publics) \o CreatedCommitments(created_publics)

\* Without tags the depth underflows, which a build with overflow checks
\* catches; in any other the circuit's hash_nullifiers refuses. OnceCell::set
\* refuses the root of a second build.
StartBuild ==
  \/ pc = "open" /\ AllTags = <<>> /\ End("misused")
  \/ pc = "built" /\ End("misused")
  \/ /\ pc = "open" /\ AllTags # <<>>
     /\ action_root' = Tree!RootOf(ActionTree(AllTags))
     /\ pc' = "inputs"
     /\ UNCHANGED <<client, consumed, created, at, sums, tx>>

-----------------------------------------------------------------------------
\* The loops of build, one round a step: the logic proof of a resource (its
\* constraints hold for the witnesses that the builder makes) and its quantity.

Accumulate(k, amount) ==
  LET sum == Plus(delta_map[k], amount)
  IN  \/ /\ Fits(sum)
         /\ delta_map' = [delta_map EXCEPT ![k] = sum]
         /\ net' = [net EXCEPT ![k] = @ + ValueOf(amount)]
         /\ at' = at + 1
         /\ UNCHANGED <<client, consumed, created, pc, action_root, wrapped, tx>>
      \/ ~Fits(sum) /\ End("overflowed")
      \/ /\ ~Fits(sum)
         /\ delta_map' = [delta_map EXCEPT ![k] = Wrapped(sum)]
         /\ net' = [net EXCEPT ![k] = @ + ValueOf(amount)]
         /\ wrapped' = TRUE
         /\ at' = at + 1
         /\ UNCHANGED <<client, consumed, created, pc, action_root, tx>>

ProveInput ==
  /\ pc = "inputs"
  /\ at <= Len(consumed_data)
  /\ LET r == consumed_data[at].resource IN Accumulate(Kind(r), Positive(r.quantity))

StartOutputs ==
  /\ pc = "inputs"
  /\ at > Len(consumed_data)
  /\ pc' = "outputs"
  /\ at' = 1
  /\ UNCHANGED <<client, consumed, created, action_root, sums, tx>>

ProveOutput ==
  /\ pc = "outputs"
  /\ at <= Len(created_resources)
  /\ LET r == created_resources[at] IN Accumulate(Kind(r), Negated(Positive(r.quantity)))

-----------------------------------------------------------------------------
\* The compliance circuit.

\* Its array of kinds has a place for every resource.
MaxKinds == MaxConsumed + MaxCreated

WithEntry(f, k, value) == [l \in DOMAIN f \cup {k} |-> IF l = k THEN value ELSE f[l]]

\* mutant: the sums of the circuit wrap like those of a release build
AccumulateWrapping(acc, k, amount) ==
  IF k \in DOMAIN acc.sums
  THEN [acc EXCEPT !.sums[k] = Wrapped(Plus(@, amount))]
  ELSE [acc EXCEPT !.sums = WithEntry(@, k, amount)]

\* accumulate_kind: a new entry for a new kind, add_sign_magnitude otherwise,
\* with a constraint that the sum fits.
AccumulateKind(acc, k, amount) ==
  IF k \in DOMAIN acc.sums
  THEN LET sum == Plus(acc.sums[k], amount)
       IN  [ok |-> acc.ok /\ Fits(sum), sums |-> [acc.sums EXCEPT ![k] = sum]]
  ELSE [ok |-> acc.ok /\ Cardinality(DOMAIN acc.sums) < MaxKinds,
        sums |-> WithEntry(acc.sums, k, amount)]

\* What the resources add to the sums, the consumed ones first.
Summands ==
  [i \in 1..Len(consumed_data) |->
     LET r == consumed_data[i].resource IN [kind |-> Kind(r), amount |-> Positive(r.quantity)]]
  \o [i \in 1..Len(created_resources) |->
        LET r == created_resources[i]
        IN  [kind |-> Kind(r), amount |-> Negated(Positive(r.quantity))]]

NoSums == [ok |-> TRUE, sums |-> <<>>]

CircuitSums ==
  LET summands == Summands
      acc[i \in 0..Len(summands)] ==
        IF i = 0 THEN NoSums
        ELSE AccumulateKind(acc[i - 1], summands[i].kind, summands[i].amount)
  IN  acc[Len(summands)]

CircuitNullifiers == [i \in 1..Len(consumed_data) |-> Nullifier(consumed_data[i].resource)]

\* Every created nonce is the one derived from all the nullifiers.
NoncesDerived ==
  \A i \in 1..Len(created_resources) :
    created_resources[i].nonce = DeriveNonce(i, CircuitNullifiers)

CircuitConsumed(c) ==
  [nullifier |-> Nullifier(c.resource), logic_ref |-> c.resource.logic_ref,
   root |-> IF c.resource.is_ephemeral THEN InitialRoot
            ELSE Tree!PathRoot(c.path, Commitment(c.resource))]

CircuitCreated(r) == [commitment |-> Commitment(r), logic_ref |-> r.logic_ref]

\* The constraints of ComplianceWitness::_constrain.
Constrained ==
  /\ consumed_data # <<>>
  /\ NoncesDerived
  /\ CircuitSums.ok

\* The instance the circuit computes. The delta stands for the point that
\* commits to it.
CircuitInstance ==
  [consumed_publics |-> [i \in 1..Len(consumed_data) |-> CircuitConsumed(consumed_data[i])],
   created_publics |-> [i \in 1..Len(created_resources) |-> CircuitCreated(created_resources[i])],
   delta |-> [k \in Kinds |-> IF k \in DOMAIN CircuitSums.sums
                              THEN ValueOf(CircuitSums.sums[k]) ELSE 0]]

-----------------------------------------------------------------------------
\* build_compliance_artifacts: a quantity below zero takes the negated kind.
ComplianceInstance ==
  [consumed_publics |-> consumed_publics,
   created_publics |-> created_publics,
   delta |-> [k \in Kinds |-> IF AtLeast(delta_map[k], Zero)
                              THEN delta_map[k].magnitude ELSE -delta_map[k].magnitude]]

\* What a logic instance tells the forwarder contract: a consumed ephemeral
\* resource wraps tokens, a created one unwraps them; bound to the action
\* tree only where it wraps.
Payload(r, is_consumed) ==
  IF ~r.is_ephemeral THEN [call |-> "none"]
  ELSE IF is_consumed
  THEN [call |-> "wrap", token |-> r.label_ref, quantity |-> r.quantity,
        action_root |-> action_root]
  ELSE [call |-> "unwrap", token |-> r.label_ref, quantity |-> r.quantity]

LogicInstance(tag, is_consumed) ==
  [tag |-> tag, is_consumed |-> is_consumed, action_root |-> action_root,
   external_payload |-> Payload(ResourceOf(tag), is_consumed)]

\* The signature by rcv verifies under a delta that is rcv times the generator.
Opens(instance) == \A k \in Kinds : instance.delta[k] = 0

BuiltTransaction ==
  [logic_instances |->
     [i \in 1..Len(consumed_publics) |-> LogicInstance(consumed_publics[i].nullifier, TRUE)]
       \o [i \in 1..Len(created_publics) |-> LogicInstance(created_publics[i].commitment, FALSE)],
   compliance_instance |-> ComplianceInstance,
   opens |-> Opens(ComplianceInstance)]

ProveCompliance ==
  /\ pc = "outputs"
  /\ at > Len(created_resources)
  /\ \/ /\ Constrained /\ CircuitInstance = ComplianceInstance
        /\ pc' = "built"
        /\ tx' = BuiltTransaction
        /\ UNCHANGED <<client, consumed, created, at, action_root, sums>>
     \/ /\ ~(Constrained /\ CircuitInstance = ComplianceInstance)
        /\ End("refused")

Next ==
  \/ \E pos \in NotePositions : AddShieldedInput(pos)
  \/ \E s \in FreshSeeds, q \in Quantities, k \in Kinds : AddTransparentInput(s, q, k)
  \/ \E out \in Outputs : AddOutput(out)
  \/ StartBuild
  \/ ProveInput
  \/ StartOutputs
  \/ ProveOutput
  \/ ProveCompliance

Spec == Init /\ [][Next]_vars

-----------------------------------------------------------------------------
\* The shape of the state: the arrays hold what the counts say, and are filled
\* pairwise.
TypeOK ==
  /\ consumed_data \in Seq(ToSet(consumed_data))
  /\ consumed_publics \in Seq(ToSet(consumed_publics))
  /\ created_resources \in Seq(ToSet(created_resources))
  /\ created_publics \in Seq(ToSet(created_publics))
  /\ Len(consumed_data) \in 0..MaxConsumed /\ Len(consumed_publics) = Len(consumed_data)
  /\ Len(created_resources) \in 0..MaxCreated /\ Len(created_publics) = Len(created_resources)
  /\ pc \in {"open", "inputs", "outputs", "built", "misused", "overflowed", "refused"}
  /\ at \in 1..(MaxConsumed + MaxCreated + 1)
  /\ delta_map \in [Kinds -> SignMagnitudes]
  /\ net \in [Kinds -> Int]
  /\ wrapped \in BOOLEAN

\* The sums of delta_map, kept as sign and magnitude with a zero of either sign
\* and with subtractions that swap their operands, are those of the integers as
\* long as none of them left its width (SignMagnitude, build).
DeltaExact == ~wrapped => \A k \in Kinds : ValueOf(delta_map[k]) = net[k]

\* The builder gives the transaction its caller asked for, or ends for a reason
\* that the caller can avoid: what is computed early (a nonce derived from the
\* nullifiers of the moment, a root, a path) still fits what the circuit
\* computes again at the end, and the signature opens exactly the balanced.
Asked(c) ==
  [resource |-> c.resource,
   root |-> IF c.resource.is_ephemeral THEN InitialRoot
            ELSE Tree!RootOf(tree)]

WithoutNonce(r) ==
  [owner |-> r.owner, logic_ref |-> r.logic_ref, label_ref |-> r.label_ref,
   quantity |-> r.quantity, is_ephemeral |-> r.is_ephemeral]

PublicPart(t) ==
  LET instance == t.compliance_instance
  IN  [nullifiers |-> ConsumedNullifiers(instance.consumed_publics),
       roots |-> [i \in DOMAIN instance.consumed_publics |-> instance.consumed_publics[i].root],
       commitments |-> CreatedCommitments(instance.created_publics),
       logic_instances |->
         [i \in DOMAIN t.logic_instances |->
            [tag |-> t.logic_instances[i].tag, is_consumed |-> t.logic_instances[i].is_consumed]]]

Outcome ==
  CASE pc = "built" -> <<"built", PublicPart(tx), tx.opens>>
    [] pc = "misused" -> <<"misused">>
    [] pc \in {"overflowed", "refused"} -> <<"overflowed">>
    [] OTHER -> <<"none">>

Contract ==
  INSTANCE BuilderContract WITH
    MaxQuantity <- MaxMagnitude,
    ins <- [i \in DOMAIN consumed_data |-> Asked(consumed_data[i])],
    outs <- [i \in DOMAIN created_resources |-> WithoutNonce(created_resources[i])],
    result <- Outcome

KeepsContract == Contract!Spec

\* Of every token, what the payloads of a transaction the pool would accept
\* wrap less what they unwrap is what its notes gain: the forwarder never pays
\* out tokens that no note gave up, whatever overflows on the way.
Moved(call, token) ==
  Total([i \in DOMAIN tx.logic_instances |->
           LET p == tx.logic_instances[i].external_payload
           IN  IF p.call = call /\ p.token = token THEN p.quantity ELSE 0])

NotesOf(tags, token) ==
  Total([i \in DOMAIN tags |->
           LET r == ResourceOf(tags[i])
           IN  IF ~r.is_ephemeral /\ r.label_ref = token THEN r.quantity ELSE 0])

TokensBackNotes ==
  pc = "built" /\ tx.opens =>
    \A token \in LabelRefs :
      Moved("wrap", token) - Moved("unwrap", token)
        = NotesOf(CreatedCommitments(created_publics), token)
          - NotesOf(ConsumedNullifiers(consumed_publics), token)

\* The root that all logic proofs of a transaction sign is one to which every
\* one of its tags has a path, for every number of tags: the depth computed
\* from it (client.rs:744, verifier.rs:115) leaves none of them out.
EveryTagInActionTree ==
  pc = "built" =>
    \A i \in DOMAIN AllTags, j \in DOMAIN tx.logic_instances :
      Tree!PathRoot(Tree!Path(ActionTree(AllTags), i - 1), AllTags[i])
        = tx.logic_instances[j].action_root

\* Whatever the number of commitments in the pool, the path of every position,
\* filled or not, leads to the root: the widths that path counts are those that
\* new gave the rows.
PathsOpen ==
  pc = "open" /\ consumed_data = <<>> =>
    \A pos \in 0..(Tree!TwoTo[TreeDepth] - 1) :
      Tree!PathRoot(Tree!Path(tree, pos),
                    IF pos < Len(leafs) THEN leafs[pos + 1] ELSE Tree!EmptyLeaf)
        = Tree!RootOf(tree)

\* "Merge the n-1 full Merkle trees with the last possibly unfilled one"
\* (merkle.rs:176): merging the trees of consecutive pieces of the leafs, of
\* whatever power of two, yields the tree that new makes of them at once.
Piece(i, n, size) == SubSeq(leafs, (i - 1) * size + 1, IF i = n THEN Len(leafs) ELSE i * size)

Cuts(size) == {n \in 1..(Len(leafs) + 1) : Len(leafs) \in ((n - 1) * size)..(n * size)}

MergeRebuilds ==
  pc = "open" /\ consumed_data = <<>> =>
    \A e \in 0..TreeDepth : \A n \in Cuts(Tree!TwoTo[e]) : \A depth \in e..TreeDepth :
      (n > 1 \/ depth = TreeDepth) =>
        Tree!Merge(TreeDepth, [i \in 1..n |-> Tree!New(depth, Piece(i, n, Tree!TwoTo[e]))])
          = tree
=============================================================================
