--------------------------- MODULE MCWalletStore ---------------------------
(* Small instances of WalletStore for TLC. *)
EXTENDS WalletStore, TLC

Symmetry == Permutations(Procs) \cup Permutations(Aliases)
=============================================================================
