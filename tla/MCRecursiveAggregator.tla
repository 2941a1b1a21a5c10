----------------------- MODULE MCRecursiveAggregator -----------------------
(* Small instances of RecursiveAggregator for TLC. *)
EXTENDS RecursiveAggregator

TwoOne == <<2, 1>>
=============================================================================
