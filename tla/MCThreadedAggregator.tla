------------------------ MODULE MCThreadedAggregator ------------------------
(* Small instances of ThreadedAggregator for TLC. *)
EXTENDS ThreadedAggregator

\* Beyond the sizes of the instances: the layers make the tree of larger batches too.
ASSUME LayersMakeTree ==
  \A k \in 1..6 : \A b \in 1..3 : Aggregate(BatchOf(Leaves(b, 2^k))) = Leaves(b, 2^k)

\* The numbers without an odd divisor but one are the powers of two.
ASSUME PowersOfTwo == {n \in 0..70 : IsPowerOfTwo(n)} = {2^k : k \in 0..6}
=============================================================================
