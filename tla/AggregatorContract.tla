------------------------- MODULE AggregatorContract -------------------------
(***************************************************************************)
(* What the trait Aggregator promises its caller (nodes/src/aggregator.rs): *)
(* every batch that is pushed is returned once, under the id that the push *)
(* gave, as the one proof of the balanced tree over its leaves in order.   *)
(***************************************************************************)
EXTENDS Batches

VARIABLES
  asked,   \* the leaves of every batch pushed, by batch id
  given    \* the proof popped for a batch id, for those popped

\* The id is any that was not in use: the caller learns it from the push.
Push(n) ==
  /\ \E id \in DOMAIN asked' \ DOMAIN asked : asked' = With(asked, id, Leaves(id, n))
  /\ UNCHANGED given

Pop(id) ==
  /\ id \in DOMAIN asked \ DOMAIN given
  /\ given' = With(given, id, asked[id])
  /\ UNCHANGED asked

Init == asked = <<>> /\ given = <<>>

Next ==
  \/ \E n \in Sizes : Push(n)
  \/ \E id \in DOMAIN asked : Pop(id)

\* Whether every batch is answered in the end depends on the workers.
Safe == Init /\ [][Next]_<<asked, given>>
=============================================================================
