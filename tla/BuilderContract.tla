-------------------------- MODULE BuilderContract --------------------------
(***************************************************************************)
(* What TransactionBuilder (nodes/src/client.rs) promises: inputs, then    *)
(* outputs, then one transaction made of exactly what was asked, signed so *)
(* that the pool accepts the signature exactly when it is balanced.  The   *)
(* builder gives up for two reasons only: its caller broke the order of    *)
(* calls or the limits, or a sum of quantities is too large for its type.  *)
(***************************************************************************)
EXTENDS Resources, SequencesExt

CONSTANT MaxQuantity   \* u128::MAX

VARIABLES
  ins,      \* the inputs asked for, as in Resources
  outs,     \* the outputs asked for, as in Resources
  result    \* <<"none">>, <<"misused">>, <<"overflowed">>, <<"built", transaction, opens>>

Init == ins = <<>> /\ outs = <<>> /\ result = <<"none">>

AddInput ==
  /\ result = <<"none">>
  /\ outs = <<>>
  /\ Len(ins) < MaxConsumed
  /\ ins' # <<>> /\ ins' = Append(ins, Last(ins'))
  /\ UNCHANGED <<outs, result>>

AddOutput ==
  /\ result = <<"none">>
  /\ ins # <<>>
  /\ Len(outs) < MaxCreated
  /\ outs' # <<>> /\ outs' = Append(outs, Last(outs'))
  /\ Last(outs') \in Outputs
  /\ UNCHANGED <<ins, result>>

\* An input after an output, one too many of either, an output or a build
\* without inputs, a second build.
Misuse ==
  /\ \/ outs # <<>>
     \/ Len(ins) \in {0, MaxConsumed}
     \/ result[1] = "built"
  /\ result[1] \in {"none", "built"}
  /\ result' = <<"misused">>
  /\ UNCHANGED <<ins, outs>>

InOf(k) == QuantityOf([i \in DOMAIN ins |-> Nullifier(ins[i].resource)], k)
OutOf(k) == QuantityOf([i \in DOMAIN outs |-> Commitment(outs[i])], k)

\* The inputs of a kind are added before its outputs are taken away.
Overflows == \E k \in Kinds : InOf(k) > MaxQuantity \/ OutOf(k) - InOf(k) > MaxQuantity

Overflow ==
  /\ result = <<"none">>
  /\ Overflows
  /\ result' = <<"overflowed">>
  /\ UNCHANGED <<ins, outs>>

Build ==
  /\ result = <<"none">>
  /\ ins # <<>>
  /\ ~Overflows
  /\ LET t == Transaction(ins, outs) IN result' = <<"built", t, Balanced(t)>>
  /\ UNCHANGED <<ins, outs>>

Next == AddInput \/ AddOutput \/ Misuse \/ Overflow \/ Build

Spec == Init /\ [][Next]_<<ins, outs, result>>
=============================================================================
