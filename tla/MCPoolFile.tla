----------------------------- MODULE MCPoolFile -----------------------------
(* Small instances of PoolFile for TLC. *)
EXTENDS PoolFile, TLC

CONSTANTS alice, bob, logic, token

Move(from, to, n) == [from |-> from, to |-> to, kind |-> <<logic, token>>, amount |-> n]

\* Three deposits of one are too many inputs for a transfer of three.
SomeTransfers ==
  {Move(External, alice, 1), Move(External, alice, 3), Move(alice, bob, 3), Move(bob, External, 1),
   Move(alice, Unknown, 1)}
Symmetry == Permutations(Procs)
=============================================================================
