------------------------------ MODULE Batches ------------------------------
(* Batches of proofs, and queues of them (nodes/src/aggregator.rs). *)
EXTENDS ProofTrees, Totals, SequencesExt

CONSTANT Sizes   \* how many proofs callers put in a batch

ASSUME BatchesAssumption == Sizes \subseteq Nat /\ \A n \in Sizes : IsBatchSize(n)

\* A map after key was inserted.
With(f, key, value) == [k \in DOMAIN f \cup {key} |-> IF k = key THEN value ELSE f[k]]

\* How many proofs are in a queue of batches.
SizeOf(queue) == Total([i \in DOMAIN queue |-> Len(queue[i].proofs)])
=============================================================================
