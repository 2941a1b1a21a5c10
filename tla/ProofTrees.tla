----------------------------- MODULE ProofTrees -----------------------------
(***************************************************************************)
(* The proofs that aggregators combine (nodes/src/aggregator.rs).          *)
(*                                                                         *)
(* A proof is abstracted to the sequence of leaf proofs it stands for: two *)
(* proofs that stand for equally many leaves combine into the one for both *)
(* in order, and any other combination is malformed.  So a sequence names  *)
(* exactly one balanced tree, and order and shape are both visible.        *)
(***************************************************************************)
EXTENDS Integers, Sequences

\* A power of two has no odd divisor but one.
IsPowerOfTwo(n) ==
  n > 0 /\ \A d, q \in 1..n : d * q = n => d = 1 \/ \E k \in 1..n : d = 2 * k

\* What push_internal_proofs asserts of a batch.
IsBatchSize(n) == n > 1 /\ IsPowerOfTwo(n)

\* The leaf proofs of the b-th batch, which has n of them.
Leaf(b, i) == <<b, i>>
Leaves(b, n) == [i \in 1..n |-> Leaf(b, i)]

\* The batch a caller pushes: one proof for every leaf.
BatchOf(leaves) == [i \in 1..Len(leaves) |-> <<leaves[i]>>]

Malformed == <<>>

Combine(left, right) == IF Len(left) = Len(right) THEN left \o right ELSE Malformed

\* One proof for each two, until a single one is left.
Layer(batch) ==
  IF Len(batch) > 1
  THEN [i \in 1..(Len(batch) \div 2) |-> Combine(batch[2 * i - 1], batch[2 * i])]
  ELSE batch

\* The root of a batch, layer by layer.
Aggregate(batch) ==
  LET layer[i \in 0..Len(batch)] == IF i = 0 THEN batch ELSE Layer(layer[i - 1])
  IN  layer[Len(batch)][1]
=============================================================================
