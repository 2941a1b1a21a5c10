---------------------------- MODULE SubmitChecks ----------------------------
(***************************************************************************)
(* What submit checks of a transaction before it changes the pool (nodes/  *)
(* src/verifier.rs), given the anchors of the pool and the logic circuits  *)
(* it knows.  Whether a nullifier was spent before is checked while the    *)
(* pool is updated.  The returns for a wrong action root and for a         *)
(* compliance or logic proof that fails are left out: a transaction of     *)
(* Resources has the root over its own tags, and its proofs hold.          *)
(***************************************************************************)
EXTENDS Resources, SequencesExt

Repeats(s, i) == \E j \in 1..(i - 1) : s[j] = s[i]

\* mutant: the roots are not looked up in the anchors
NoAnchorCheck(t, i, anchors) == FALSE

UnknownAnchor(t, i, anchors) == t.roots[i] \notin anchors

\* The indices at which the loop over the consumed publics returns.
BadInputs(t, anchors) ==
  {i \in DOMAIN t.nullifiers : Repeats(t.nullifiers, i) \/ UnknownAnchor(t, i, anchors)}

\* Pairing removes the tag it finds: an instance finds its tag unless an
\* earlier one of the same side took it.
Paired(t, i) ==
  LET instance == t.logic_instances[i]
  IN  /\ instance.tag \in ToSet(IF instance.is_consumed THEN t.nullifiers ELSE t.commitments)
      /\ ~Repeats(t.logic_instances, i)

KnownLogic(t, i, circuits) == ResourceOf(t.logic_instances[i].tag).logic_ref \in circuits

\* The indices at which the loop over the logic instances returns.
BadInstances(t, circuits) ==
  {i \in DOMAIN t.logic_instances : ~Paired(t, i) \/ ~KnownLogic(t, i, circuits)}

Unpaired(t, consumed, tags) ==
  ToSet(tags) \ {instance.tag : instance \in {l \in ToSet(t.logic_instances) :
                                                l.is_consumed = consumed}}

\* What submit finds before it changes the pool.
Check(t, anchors, circuits) ==
  IF ~Balanced(t) THEN "InvalidSignature"
  ELSE IF BadInputs(t, anchors) # {} THEN
    IF Repeats(t.nullifiers, Min(BadInputs(t, anchors)))
    THEN "DuplicateNullifier" ELSE "NonExistentAnchor"
  ELSE IF ~IsInjective(t.commitments) THEN "DuplicateCommitment"
  ELSE IF BadInstances(t, circuits) # {} THEN
    LET i == Min(BadInstances(t, circuits))
    IN  IF Paired(t, i) THEN "CircuitNotRegistered"
        ELSE IF t.logic_instances[i].is_consumed
        THEN "UnpairedNullifier" ELSE "UnpairedCommitment"
  ELSE IF Unpaired(t, TRUE, t.nullifiers) # {} THEN "UnpairedNullifier"
  ELSE IF Unpaired(t, FALSE, t.commitments) # {} THEN "UnpairedCommitment"
  ELSE "ok"
=============================================================================
