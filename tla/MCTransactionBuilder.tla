------------------------ MODULE MCTransactionBuilder ------------------------
(* A small instance of TransactionBuilder for TLC. *)
EXTENDS TransactionBuilder

CONSTANTS o1, l1, t1, t2

\* A note of an earlier transaction; every note has its own nonce.
Note(owner, token, quantity, is_ephemeral, n) ==
  Commitment([owner |-> owner, logic_ref |-> l1, label_ref |-> token, quantity |-> quantity,
              is_ephemeral |-> is_ephemeral, nonce |-> DeriveNonce(n, <<"spent">>)])

\* Two notes the caller owns, of different tokens, among notes and ephemeral
\* resources of others.
Notes ==
  <<Note("other", t1, 1, FALSE, 1), Note(o1, t1, 3, FALSE, 2), Note("other", t1, 1, TRUE, 3),
    Note("other", t2, 3, FALSE, 4), Note(o1, t2, 1, FALSE, 5), Note("other", t2, 1, TRUE, 6),
    Note("other", t1, 3, FALSE, 7), Note("other", t1, 3, TRUE, 8)>>

Symmetry == Permutations(Seeds)
=============================================================================
