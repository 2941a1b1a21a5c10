------------------------------- MODULE Totals -------------------------------
(* Sums over sequences. *)
EXTENDS Integers, Sequences

\* What the numbers of a sequence add up to.
Total(numbers) ==
  LET upto[i \in 0..Len(numbers)] == IF i = 0 THEN 0 ELSE upto[i - 1] + numbers[i]
  IN  upto[Len(numbers)]
=============================================================================
