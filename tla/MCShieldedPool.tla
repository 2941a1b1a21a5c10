--------------------------- MODULE MCShieldedPool ---------------------------
(* A small instance of ShieldedPool for TLC. *)
EXTENDS ShieldedPool, TLC

Symmetry == Permutations(Seeds) \cup Permutations(LabelRefs)
=============================================================================
