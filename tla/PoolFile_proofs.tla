--------------------------- MODULE PoolFile_proofs ---------------------------
(***************************************************************************)
(* Proofs about PoolFile, for any number of processes running at a time,   *)
(* any transfers, and whatever the pool accepts: how a saved transfer can  *)
(* be lost, how the file can become unreadable, that no transfer is        *)
(* rejected, and that one moves its amount and nothing else.               *)
(***************************************************************************)
EXTENDS PoolFile, SequenceLemmas

-----------------------------------------------------------------------------
(* The inductive invariant. *)

Active == {"read", "submitted", "open"}
Labels == {"idle", "saved", "failed", "rejected", "crashed"} \cup Active

\* All a pool must be here: not a file without one, and a list of transactions.
PoolShape(po) == po \notin {Absent, Empty, Torn} /\ IsSeq(po.transactions)

Recorded(t, po) == t \in ToSet(po.transactions)

ControlOK ==
  /\ DOMAIN pool = Procs /\ DOMAIN tx = Procs
  /\ pc \in [Procs -> Labels]
  /\ \A p \in Procs : PoolShape(pool[p])
  /\ \A p \in Procs : pc[p] \in {"submitted", "open", "saved"} =>
       Last(pool[p].transactions) = tx[p] /\ Recorded(tx[p], pool[p])
  /\ file \in {Absent, Empty, Torn} \/ \E q \in Procs : pc[q] = "saved" /\ file = pool[q]

LogOK ==
  /\ IsSeq(log) /\ Distinct(log)
  /\ \A p \in Procs : Happened("read", p) <=> pc[p] # "idle"
  /\ \A p \in Procs : pc[p] \in {"open", "saved"} => Happened("open", p)
  /\ \A p \in Procs : Happened("open", p) => pc[p] \in {"open", "saved", "crashed"}
  /\ \A p \in Procs : Happened("saved", p) <=> pc[p] = "saved"

Overwritten(q) == \E p \in Procs \ {q} : Overwrites(p, q)

\* q saved after p read, so p may save over it.
Unseen(p, q) == When("read", p) < When("saved", q)

FileOK ==
  Readable => \A q \in Procs : pc[q] = "saved" =>
    (file # Absent /\ Recorded(tx[q], file)) \/ Overwritten(q)

CopyOK ==
  \A p \in Procs : pc[p] \in Active =>
    \A q \in Procs : pc[q] = "saved" =>
      Recorded(tx[q], pool[p]) \/ Unseen(p, q) \/ Overwritten(q)

\* A file that is open and not empty was written by another process meanwhile.
OpenOK ==
  \A p \in Procs : pc[p] = "open" /\ file # Empty =>
    \/ \E q \in Procs \ {p} : BothOpen(p, q)
    \/ \E q \in Procs : pc[q] = "crashed" /\ Happened("open", q)

IInv ==
  /\ ControlOK
  /\ LogOK
  /\ FileOK
  /\ CopyOK
  /\ OpenOK
  /\ UnreadableOnlyByChance

-----------------------------------------------------------------------------
(* The log. *)

LEMMA WhenIs ==
  ASSUME LogOK, NEW event, NEW p, Happened(event, p)
  PROVE  When(event, p) \in 1..Len(log) /\ Len(log) \in Nat
<1>1. When(event, p) = PlaceOf(log, <<event, p>>)
  BY DEF When, PlaceOf
<1>2. QED
  BY <1>1, PlaceIs DEF LogOK, Happened

LEMMA NewEvent ==
  ASSUME LogOK, NEW event, NEW p, ~Happened(event, p), Note(event, p)
  PROVE  /\ IsSeq(log') /\ Distinct(log')
         /\ \A other, q : Happened(other, q)'
                            <=> Happened(other, q) \/ <<other, q>> = <<event, p>>
         /\ \A other, q : Happened(other, q) => When(other, q)' = When(other, q)
         /\ \A other, q : Happened(other, q) => When(other, q) < When(event, p)'
<1>1. \A other, q : /\ When(other, q) = PlaceOf(log, <<other, q>>)
                    /\ When(other, q)' = PlaceOf(log', <<other, q>>)
  BY DEF When, PlaceOf
<1>2. /\ IsSeq(log') /\ Distinct(log')
      /\ ToSet(log') = ToSet(log) \cup {<<event, p>>}
      /\ \A f \in ToSet(log) : PlaceOf(log', f) = PlaceOf(log, f)
      /\ PlaceOf(log', <<event, p>>) = Len(log) + 1
  BY PlacesStay DEF LogOK, Happened, Note
<1>3. ASSUME NEW other, NEW q, Happened(other, q)
      PROVE  When(other, q)' = When(other, q) /\ When(other, q) < When(event, p)'
  <2>1. When(other, q) \in 1..Len(log) /\ Len(log) \in Nat
    BY <1>3, WhenIs
  <2>2. QED
    BY <1>1, <1>2, <1>3, <2>1 DEF Happened
<1>4. QED
  BY <1>2, <1>3 DEF Happened

LogGrows ==
  log' = log \/ \E event \in {"read", "open", "saved"} : \E p \in Procs :
                  ~Happened(event, p) /\ Note(event, p)

\* What happened stays where it is in the log.
LEMMA EventsStay ==
  ASSUME LogOK, LogGrows
  PROVE  /\ IsSeq(log') /\ Distinct(log')
         /\ \A event, p : Happened(event, p) =>
              Happened(event, p)' /\ When(event, p)' = When(event, p)
         /\ \A event, p, other, q :
              Happened(event, p) /\ ~Happened(other, q) /\ Happened(other, q)' =>
                When(event, p)' < When(other, q)'
<1>1. CASE log' = log
  BY <1>1 DEF LogOK, Happened, When
<1>2. CASE \E event \in {"read", "open", "saved"} : \E p \in Procs :
             ~Happened(event, p) /\ Note(event, p)
  <2>1. PICK new \in {"read", "open", "saved"}, r \in Procs :
          ~Happened(new, r) /\ Note(new, r)
    BY <1>2
  <2>2. /\ IsSeq(log') /\ Distinct(log')
        /\ \A other, q : Happened(other, q)'
                           <=> Happened(other, q) \/ <<other, q>> = <<new, r>>
        /\ \A other, q : Happened(other, q) => When(other, q)' = When(other, q)
        /\ \A other, q : Happened(other, q) => When(other, q) < When(new, r)'
    BY <2>1, NewEvent
  <2>3. ASSUME NEW event, NEW p, NEW other, NEW q,
               Happened(event, p), ~Happened(other, q), Happened(other, q)'
        PROVE  When(event, p)' < When(other, q)'
    <3>1. other = new /\ q = r
      BY <2>2, <2>3
    <3>2. QED
      BY <2>2, <2>3, <3>1
  <2>4. QED
    BY <2>2, <2>3
<1>3. QED
  BY <1>1, <1>2 DEF LogGrows

\* Processes that had the file open together, and transfers that were lost,
\* remain so.
LEMMA HistoryStays ==
  ASSUME LogOK, LogGrows
  PROVE  /\ \A p, q \in Procs : BothOpen(p, q) => BothOpen(p, q)'
         /\ \A q \in Procs : Overwritten(q) => Overwritten(q)'
<1>1. ASSUME NEW p \in Procs, NEW q \in Procs, BothOpen(p, q)
      PROVE  BothOpen(p, q)'
  <2>1. Happened("open", p) /\ Happened("open", q)
    BY <1>1 DEF BothOpen
  <2>2. Happened("open", p)' /\ Happened("open", q)'
    BY <2>1, EventsStay
  <2>3. ASSUME Happened("saved", q)'
        PROVE  When("open", p)' < When("saved", q)'
    BY <1>1, <2>1, <2>3, EventsStay DEF BothOpen
  <2>4. ASSUME Happened("saved", p)'
        PROVE  When("open", q)' < When("saved", p)'
    BY <1>1, <2>1, <2>4, EventsStay DEF BothOpen
  <2>5. QED
    BY <2>2, <2>3, <2>4 DEF BothOpen
<1>2. ASSUME NEW q \in Procs, Overwritten(q)
      PROVE  Overwritten(q)'
  <2>1. PICK p \in Procs \ {q} : Overwrites(p, q)
    BY <1>2 DEF Overwritten
  <2>2. Happened("saved", p) /\ Happened("saved", q) /\ Happened("read", p)
    BY <2>1 DEF Overwrites, LogOK
  <2>3. Overwrites(p, q)'
    BY <2>1, <2>2, EventsStay DEF Overwrites
  <2>4. QED
    BY <2>3 DEF Overwritten
<1>3. QED
  BY <1>1, <1>2
-----------------------------------------------------------------------------
(* Pools. *)

LEMMA FilesDiffer == Absent # Empty /\ Absent # Torn /\ Empty # Torn
<1>1. Absent.file # Empty.file /\ Absent.file # Torn.file /\ Empty.file # Torn.file
  BY DEF Absent, Empty, Torn
<1>2. QED
  BY <1>1

LEMMA HasTransactions ==
  ASSUME NEW po, "transactions" \in DOMAIN po
  PROVE  po \notin {Absent, Empty, Torn}
BY DEF Absent, Empty, Torn

LEMMA NewPoolShape == PoolShape(NewPool)
<1>1. "transactions" \in DOMAIN NewPool /\ NewPool.transactions = <<>>
  BY DEF NewPool
<1>2. IsSeq(<<>>)
  BY DEF IsSeq
<1>3. QED
  BY <1>1, <1>2, HasTransactions DEF PoolShape

\* A transaction that is accepted is recorded last, and none is forgotten.
LEMMA SubmittedOK ==
  ASSUME NEW po, PoolShape(po), NEW t
  PROVE  /\ PoolShape(Submitted(po, t))
         /\ Last(Submitted(po, t).transactions) = t
         /\ Recorded(t, Submitted(po, t))
         /\ \A u : Recorded(u, po) => Recorded(u, Submitted(po, t))
<1>1. /\ "transactions" \in DOMAIN Submitted(po, t)
      /\ Submitted(po, t).transactions = Append(po.transactions, t)
  BY DEF Submitted
<1>2. /\ IsSeq(Append(po.transactions, t))
      /\ Last(Append(po.transactions, t)) = t
      /\ ToSet(Append(po.transactions, t)) = ToSet(po.transactions) \cup {t}
  BY AppendIsSeq DEF PoolShape, Last
<1>3. QED
  BY <1>1, <1>2, HasTransactions DEF PoolShape, Recorded

-----------------------------------------------------------------------------
(* Steps. *)

LEMMA InitOK == Init => IInv
<1> SUFFICES ASSUME Init PROVE IInv
  OBVIOUS
<1>1. ControlOK
  BY NewPoolShape DEF Init, ControlOK, Labels, Active
<1>2. LogOK
  BY DEF Init, LogOK, IsSeq, Distinct, Happened, ToSet
<1>3. FileOK /\ CopyOK /\ OpenOK /\ UnreadableOnlyByChance
  BY FilesDiffer
  DEF Init, FileOK, CopyOK, OpenOK, UnreadableOnlyByChance, Readable, Active
<1>4. QED
  BY <1>1, <1>2, <1>3 DEF IInv

LEMMA StutterOK == IInv /\ UNCHANGED vars => IInv'
<1> SUFFICES ASSUME IInv, UNCHANGED vars PROVE IInv'
  OBVIOUS
<1>1. ControlOK'
  BY DEF vars, IInv, ControlOK, Recorded, PoolShape
<1>2. LogOK'
  BY DEF vars, IInv, LogOK, Happened
<1>3. /\ \A q \in Procs : Overwritten(q)' <=> Overwritten(q)
      /\ \A p, q \in Procs : Unseen(p, q)' <=> Unseen(p, q)
      /\ \A p, q \in Procs : BothOpen(p, q)' <=> BothOpen(p, q)
      /\ \A event, p : Happened(event, p)' <=> Happened(event, p)
  BY DEF vars, Overwritten, Unseen, Overwrites, BothOpen, Happened, When
<1>4. FileOK'
  BY <1>3 DEF vars, IInv, FileOK, Readable, Recorded
<1>5. CopyOK'
  BY <1>3 DEF vars, IInv, CopyOK, Recorded
<1>6. OpenOK'
  BY <1>3 DEF vars, IInv, OpenOK
<1>7. UnreadableOnlyByChance'
  BY <1>3 DEF vars, IInv, UnreadableOnlyByChance, Readable
<1>8. QED
  BY <1>1, <1>2, <1>4, <1>5, <1>6, <1>7 DEF IInv

\* What is known of the file when p, which does not have it open, makes a step
\* that leaves it alone.
LEMMA FileStays ==
  ASSUME IInv, LogGrows, NEW p \in Procs, NEW label \in Labels \ {"open", "saved"},
         pc[p] \notin {"open", "saved", "crashed"}, Goto(p, label), file' = file,
         \A q \in Procs : pc[q] = "saved" => tx'[q] = tx[q]
  PROVE  FileOK' /\ OpenOK' /\ UnreadableOnlyByChance'
<1>1. /\ ControlOK /\ LogOK /\ FileOK /\ OpenOK /\ UnreadableOnlyByChance
      /\ pc' = [pc EXCEPT ![p] = label]
  BY DEF IInv, Goto
<1>2. \A q \in Procs : (pc[q] \in {"open", "saved", "crashed"} => pc'[q] = pc[q])
                         /\ (pc'[q] \in {"open", "saved"} => pc[q] = pc'[q])
  BY <1>1 DEF ControlOK
<1>3. /\ \A event, q : Happened(event, q) => Happened(event, q)'
      /\ \A q, r \in Procs : BothOpen(q, r) => BothOpen(q, r)'
      /\ \A q \in Procs : Overwritten(q) => Overwritten(q)'
  BY <1>1, EventsStay, HistoryStays
<1>4. FileOK'
  BY <1>1, <1>2, <1>3 DEF FileOK, Readable, Recorded
<1>5. OpenOK'
  BY <1>1, <1>2, <1>3 DEF OpenOK
<1>6. UnreadableOnlyByChance'
  BY <1>1, <1>2, <1>3 DEF UnreadableOnlyByChance, Readable
<1>7. QED
  BY <1>4, <1>5, <1>6

\* What is known of the copies when p makes a step that saves nothing.
LEMMA CopiesStay ==
  ASSUME IInv, LogGrows, NEW p \in Procs, NEW label \in Labels \ {"saved"},
         pc[p] # "saved", Goto(p, label),
         \A q \in Procs \ {p} : pool'[q] = pool[q],
         \A q \in Procs : pc[q] = "saved" => tx'[q] = tx[q],
         label \in Active => \A q \in Procs : pc[q] = "saved" =>
           Recorded(tx[q], pool'[p]) \/ (pc[p] \in Active /\ Unseen(p, q)) \/ Overwritten(q)
  PROVE  CopyOK'
<1>1. ControlOK /\ LogOK /\ CopyOK /\ pc' = [pc EXCEPT ![p] = label]
  BY DEF IInv, Goto
<1>2. SUFFICES ASSUME NEW r \in Procs, pc'[r] \in Active, NEW q \in Procs, pc'[q] = "saved"
               PROVE  Recorded(tx'[q], pool'[r]) \/ Unseen(r, q)' \/ Overwritten(q)'
  BY DEF CopyOK, Recorded, Unseen, Overwritten, Overwrites, When, Happened
<1>3. pc[q] = "saved" /\ tx'[q] = tx[q]
  BY <1>1, <1>2 DEF ControlOK
<1>4. Recorded(tx[q], pool'[r]) \/ (pc[r] \in Active /\ Unseen(r, q)) \/ Overwritten(q)
  <2>1. CASE r = p
    BY <1>1, <1>2, <1>3, <2>1 DEF ControlOK
  <2>2. CASE r # p
    BY <1>1, <1>2, <1>3, <2>2 DEF ControlOK, CopyOK
  <2>3. QED
    BY <2>1, <2>2
<1>5. Overwritten(q) => Overwritten(q)'
  BY <1>1, HistoryStays
<1>6. ASSUME pc[r] \in Active, Unseen(r, q) PROVE Unseen(r, q)'
  <2>1. Happened("read", r) /\ Happened("saved", q)
    BY <1>1, <1>3, <1>6 DEF LogOK, Active
  <2>2. QED
    BY <1>1, <1>6, <2>1, EventsStay DEF Unseen
<1>7. QED
  BY <1>3, <1>4, <1>5, <1>6

LEMMA ReadOK ==
  ASSUME IInv, NEW p \in Procs, NEW t, Read(p, t)
  PROVE  IInv'
<1> DEFINE copy == IF Readable /\ file # Absent THEN file ELSE NewPool
<1>1. /\ ControlOK /\ LogOK /\ FileOK
      /\ pc[p] = "idle" /\ pool' = [pool EXCEPT ![p] = copy]
      /\ Note("read", p) /\ file' = file /\ tx' = tx
  BY DEF IInv, Read
<1>2. PICK label \in {"read", "failed"} : Goto(p, label) /\ (label = "read" => Readable)
  BY DEF Read
<1>3. ~Happened("read", p) /\ ~Happened("open", p) /\ ~Happened("saved", p) /\ LogGrows
  BY <1>1 DEF LogOK, LogGrows
<1>4. PoolShape(copy)
  BY <1>1, NewPoolShape DEF ControlOK, Readable
<1>5. label \in Labels \ {"open", "saved"} /\ pc' = [pc EXCEPT ![p] = label]
  BY <1>2 DEF Labels, Active, Goto
<1>6. ControlOK'
  <2>1. DOMAIN pool' = Procs /\ DOMAIN tx' = Procs /\ pc' \in [Procs -> Labels]
    BY <1>1, <1>5 DEF ControlOK
  <2>2. \A q \in Procs : PoolShape(pool'[q])
    BY <1>1, <1>4 DEF ControlOK
  <2>3. \A q \in Procs : pc'[q] \in {"submitted", "open", "saved"} =>
          Last(pool'[q].transactions) = tx'[q] /\ Recorded(tx'[q], pool'[q])
    BY <1>1, <1>2, <1>5 DEF ControlOK
  <2>4. file' \in {Absent, Empty, Torn} \/ \E q \in Procs : pc'[q] = "saved" /\ file' = pool'[q]
    BY <1>1, <1>5 DEF ControlOK
  <2>5. QED
    BY <2>1, <2>2, <2>3, <2>4 DEF ControlOK, PoolShape, Recorded
<1>7. LogOK'
  <2>1. /\ IsSeq(log') /\ Distinct(log')
        /\ \A event, q : Happened(event, q)'
                           <=> Happened(event, q) \/ <<event, q>> = <<"read", p>>
    BY <1>1, <1>3, NewEvent
  <2>2. QED
    BY <1>1, <1>2, <1>3, <1>5, <2>1 DEF LogOK, ControlOK
<1>8. CopyOK'
  <2>1. ASSUME label = "read", NEW q \in Procs, pc[q] = "saved"
        PROVE  Recorded(tx[q], pool'[p]) \/ Overwritten(q)
    BY <1>1, <1>2, <2>1 DEF FileOK, ControlOK
  <2>2. label \in Active => label = "read"
    BY <1>2 DEF Active
  <2>3. \A q \in Procs \ {p} : pool'[q] = pool[q]
    BY <1>1 DEF ControlOK
  <2> HIDE DEF copy
  <2>4. QED
    BY <1>1, <1>2, <1>3, <1>5, <2>1, <2>2, <2>3, CopiesStay
<1>9. FileOK' /\ OpenOK' /\ UnreadableOnlyByChance'
  BY <1>1, <1>2, <1>3, <1>5, FileStays
<1>10. QED
  BY <1>6, <1>7, <1>8, <1>9 DEF IInv

LEMMA TransferOK ==
  ASSUME IInv, NEW p \in Procs, Transfer(p)
  PROVE  IInv'
<1>1. /\ ControlOK /\ LogOK /\ CopyOK
      /\ pc[p] = "read" /\ file' = file /\ log' = log
  BY DEF IInv, Transfer
<1> DEFINE ins == Inputs(p)
           t == Transaction(ins, Change(p, ins) \o Payment(p))
<1>2. PICK label \in {"failed", "rejected", "submitted"} :
        /\ Goto(p, label)
        /\ tx' = tx \/ tx' = [tx EXCEPT ![p] = t]
        /\ IF label = "submitted"
           THEN tx' = [tx EXCEPT ![p] = t] /\ pool' = [pool EXCEPT ![p] = Submitted(@, t)]
           ELSE pool' = pool
  <2>1. \/ Goto(p, "failed") /\ UNCHANGED <<pool, tx>>
        \/ /\ tx' = [tx EXCEPT ![p] = t]
           /\ \/ pool' = [pool EXCEPT ![p] = Submitted(@, t)] /\ Goto(p, "submitted")
              \/ UNCHANGED pool /\ Goto(p, "rejected")
    BY DEF Transfer
  <2> HIDE DEF t
  <2>2. QED
    BY <2>1
<1> HIDE DEF t
<1>3. /\ pc' = [pc EXCEPT ![p] = label] /\ label \in Labels \ {"open", "saved"}
      /\ PoolShape(pool[p]) /\ LogGrows
      /\ \A q \in Procs \ {p} : tx'[q] = tx[q] /\ pool'[q] = pool[q]
      /\ DOMAIN pool' = Procs /\ DOMAIN tx' = Procs
      /\ label = "submitted" => tx'[p] = t /\ pool'[p] = Submitted(pool[p], t)
      /\ label # "submitted" => pool'[p] = pool[p]
  BY <1>1, <1>2 DEF Goto, Labels, Active, ControlOK, LogGrows
<1>4. ControlOK'
  <2>1. pc' \in [Procs -> Labels]
    BY <1>1, <1>3 DEF ControlOK
  <2>2. \A q \in Procs : PoolShape(pool'[q])
    BY <1>1, <1>3, SubmittedOK DEF ControlOK
  <2>3. ASSUME NEW q \in Procs, pc'[q] \in {"submitted", "open", "saved"}
        PROVE  Last(pool'[q].transactions) = tx'[q] /\ Recorded(tx'[q], pool'[q])
    BY <1>1, <1>2, <1>3, <2>3, SubmittedOK DEF ControlOK
  <2>4. file' \in {Absent, Empty, Torn} \/ \E q \in Procs : pc'[q] = "saved" /\ file' = pool'[q]
    BY <1>1, <1>3 DEF ControlOK
  <2>5. QED
    BY <1>3, <2>1, <2>2, <2>3, <2>4 DEF ControlOK, PoolShape, Recorded
<1>5. LogOK'
  BY <1>1, <1>2, <1>3 DEF LogOK, Happened, ControlOK
<1>6. CopyOK'
  <2>1. ASSUME NEW q \in Procs, pc[q] = "saved"
        PROVE  Recorded(tx[q], pool'[p]) \/ Unseen(p, q) \/ Overwritten(q)
    BY <1>1, <1>3, <2>1, SubmittedOK DEF CopyOK, Active
  <2>2. pc[p] \in Active /\ \A q \in Procs : pc[q] = "saved" => tx'[q] = tx[q]
    BY <1>1, <1>3 DEF Active
  <2>3. QED
    BY <1>1, <1>2, <1>3, <2>1, <2>2, CopiesStay
<1>7. FileOK' /\ OpenOK' /\ UnreadableOnlyByChance'
  <2>1. \A q \in Procs : pc[q] = "saved" => tx'[q] = tx[q]
    BY <1>1, <1>3
  <2>2. QED
    BY <1>1, <1>2, <1>3, <2>1, FileStays
<1>8. QED
  BY <1>4, <1>5, <1>6, <1>7 DEF IInv

LEMMA OpenStepOK ==
  ASSUME IInv, NEW p \in Procs, Open(p)
  PROVE  IInv'
<1>1. /\ ControlOK /\ LogOK /\ CopyOK
      /\ pc[p] = "submitted" /\ file' = Empty /\ Note("open", p)
      /\ Goto(p, "open") /\ pc' = [pc EXCEPT ![p] = "open"]
      /\ pool' = pool /\ tx' = tx
  BY DEF IInv, Open, Truncate, Goto
<1>2. ~Happened("open", p) /\ ~Happened("saved", p) /\ LogGrows
  BY <1>1 DEF LogOK, LogGrows
<1>3. ControlOK'
  BY <1>1 DEF ControlOK, Labels, Active, PoolShape, Recorded
<1>4. /\ IsSeq(log') /\ Distinct(log')
      /\ \A event, q : Happened(event, q)'
                         <=> Happened(event, q) \/ <<event, q>> = <<"open", p>>
  BY <1>1, <1>2, NewEvent
<1>5. LogOK'
  BY <1>1, <1>2, <1>4 DEF LogOK, ControlOK
<1>6. CopyOK'
  <2>1. "open" \in Labels \ {"saved"} /\ pc[p] \in Active
    BY <1>1 DEF Labels, Active
  <2>2. ASSUME NEW q \in Procs, pc[q] = "saved"
        PROVE  Recorded(tx[q], pool'[p]) \/ Unseen(p, q) \/ Overwritten(q)
    BY <1>1, <2>1, <2>2 DEF CopyOK
  <2>3. QED
    BY <1>1, <1>2, <2>1, <2>2, CopiesStay
<1>7. FileOK'
  BY <1>1 DEF FileOK, Readable
<1>8. OpenOK'
  BY <1>1 DEF OpenOK
<1>9. UnreadableOnlyByChance'
  BY <1>1 DEF UnreadableOnlyByChance, ControlOK
<1>10. QED
  BY <1>3, <1>5, <1>6, <1>7, <1>8, <1>9 DEF IInv

\* Whoever has the file open while p writes to it had it open together with p.
LEMMA SaveOK ==
  ASSUME IInv, NEW p \in Procs, Save(p)
  PROVE  IInv'
<1>1. /\ ControlOK /\ LogOK /\ FileOK /\ CopyOK /\ OpenOK /\ UnreadableOnlyByChance
      /\ pc[p] = "open" /\ Note("saved", p)
      /\ Goto(p, "saved") /\ pc' = [pc EXCEPT ![p] = "saved"]
      /\ pool' = pool /\ tx' = tx
      /\ file' = pool[p] \/ (file' = Torn /\ file # Empty)
  BY DEF IInv, Save, Write, Goto
<1>2. /\ ~Happened("saved", p) /\ Happened("open", p) /\ Happened("read", p)
      /\ LogGrows /\ pool[p] \notin {Absent, Empty, Torn}
      /\ Recorded(tx[p], pool[p])
  BY <1>1 DEF LogOK, LogGrows, ControlOK, PoolShape
<1>3. /\ IsSeq(log') /\ Distinct(log')
      /\ \A event, q : Happened(event, q)'
                         <=> Happened(event, q) \/ <<event, q>> = <<"saved", p>>
      /\ \A event, q : Happened(event, q) => When(event, q)' = When(event, q)
      /\ \A event, q : Happened(event, q) => When(event, q) < When("saved", p)'
  BY <1>1, <1>2, NewEvent
<1>4. /\ \A q, r \in Procs : BothOpen(q, r) => BothOpen(q, r)'
      /\ \A q \in Procs : Overwritten(q) => Overwritten(q)'
  BY <1>1, <1>2, HistoryStays
<1>5. ControlOK'
  BY <1>1 DEF ControlOK, Labels, PoolShape, Recorded
<1>6. LogOK'
  BY <1>1, <1>2, <1>3 DEF LogOK, ControlOK
<1>7. FileOK'
  <2>1. SUFFICES ASSUME Readable', NEW q \in Procs, pc'[q] = "saved"
                 PROVE  (file' # Absent /\ Recorded(tx[q], file')) \/ Overwritten(q)'
    BY <1>1 DEF FileOK, Recorded
  <2>2. file' = pool[p]
    BY <1>1, <2>1 DEF Readable
  <2>3. CASE q = p
    BY <1>2, <2>2, <2>3
  <2>4. CASE q # p
    <3>1. pc[q] = "saved" /\ Happened("saved", q)
      BY <1>1, <2>1, <2>4 DEF ControlOK, LogOK
    <3>2. Recorded(tx[q], pool[p]) \/ Unseen(p, q) \/ Overwritten(q)
      BY <1>1, <3>1 DEF CopyOK, Active
    <3>3. ASSUME Unseen(p, q) PROVE Overwrites(p, q)'
      BY <1>2, <1>3, <3>1, <3>3 DEF Overwrites, Unseen
    <3>4. Overwrites(p, q)' => Overwritten(q)'
      BY <2>4 DEF Overwritten
    <3>5. QED
      BY <1>2, <1>4, <2>2, <3>2, <3>3, <3>4
  <2>5. QED
    BY <2>3, <2>4
<1>8. CopyOK'
  <2>1. SUFFICES ASSUME NEW r \in Procs, pc'[r] \in Active, NEW q \in Procs, pc'[q] = "saved"
                 PROVE  Recorded(tx[q], pool[r]) \/ Unseen(r, q)' \/ Overwritten(q)'
    BY <1>1 DEF CopyOK, Recorded
  <2>2. r # p /\ pc[r] = pc'[r] /\ Happened("read", r)
    BY <1>1, <2>1 DEF ControlOK, LogOK, Active
  <2>3. CASE q = p
    BY <1>3, <2>2, <2>3 DEF Unseen
  <2>4. CASE q # p
    <3>1. pc[q] = "saved" /\ Happened("saved", q)
      BY <1>1, <2>1, <2>4 DEF ControlOK, LogOK
    <3>2. Unseen(r, q) => Unseen(r, q)'
      BY <1>3, <2>2, <3>1 DEF Unseen
    <3>3. QED
      BY <1>1, <1>4, <2>1, <2>2, <3>1, <3>2 DEF CopyOK
  <2>5. QED
    BY <2>3, <2>4
<1>9. OpenOK'
  <2>1. SUFFICES ASSUME NEW r \in Procs, pc'[r] = "open"
                 PROVE  \E q \in Procs \ {r} : BothOpen(r, q)'
    BY DEF OpenOK
  <2>2. r # p /\ pc[r] = "open"
    BY <1>1, <2>1 DEF ControlOK
  <2>3. Happened("open", r) /\ ~Happened("saved", r)
    BY <1>1, <2>2 DEF LogOK
  <2>4. BothOpen(r, p)'
    BY <1>2, <1>3, <2>2, <2>3 DEF BothOpen
  <2>5. QED
    BY <2>2, <2>4
<1>10. UnreadableOnlyByChance'
  <2>1. SUFFICES ASSUME ~Readable'
                 PROVE  \/ \E q \in Procs : pc'[q] = "crashed" /\ Happened("open", q)'
                        \/ \E q, r \in Procs : q # r /\ BothOpen(q, r)'
    BY DEF UnreadableOnlyByChance
  <2>2. file # Empty
    BY <1>1, <1>2, <2>1 DEF Readable
  <2>3. \/ \E q \in Procs \ {p} : BothOpen(p, q)
        \/ \E q \in Procs : pc[q] = "crashed" /\ Happened("open", q)
    BY <1>1, <2>2 DEF OpenOK
  <2>4. QED
    BY <1>1, <1>3, <1>4, <2>3 DEF ControlOK
<1>11. QED
  BY <1>5, <1>6, <1>7, <1>8, <1>9, <1>10 DEF IInv

LEMMA CrashOK ==
  ASSUME IInv, NEW p \in Procs, Crash(p)
  PROVE  IInv'
<1>1. /\ ControlOK /\ LogOK /\ FileOK /\ CopyOK /\ OpenOK
      /\ pc[p] \in Active
      /\ Goto(p, "crashed") /\ pc' = [pc EXCEPT ![p] = "crashed"]
      /\ pool' = pool /\ tx' = tx /\ log' = log
      /\ file' = file \/ (pc[p] = "open" /\ file' = Torn)
  BY DEF IInv, Crash, Goto, Running, Active
<1>2. /\ LogGrows
      /\ \A event, q : Happened(event, q)' <=> Happened(event, q)
      /\ \A q, r \in Procs : BothOpen(q, r) => BothOpen(q, r)'
      /\ \A q \in Procs : Overwritten(q) => Overwritten(q)'
  BY <1>1, HistoryStays DEF LogGrows, Happened
<1>3. ControlOK'
  BY <1>1 DEF ControlOK, Labels, Active, PoolShape, Recorded
<1>4. LogOK'
  BY <1>1 DEF LogOK, Happened, ControlOK, Active
<1>5. CopyOK'
  BY <1>1, <1>2, CopiesStay DEF Active, Labels
<1>6. CASE pc[p] # "open"
  <2>1. FileOK' /\ OpenOK' /\ UnreadableOnlyByChance'
    BY <1>1, <1>2, <1>6, FileStays DEF Active, Labels
  <2>2. QED
    BY <1>3, <1>4, <1>5, <2>1 DEF IInv
<1>7. CASE pc[p] = "open"
  <2>1. pc'[p] = "crashed" /\ Happened("open", p)'
    BY <1>1, <1>2, <1>7 DEF ControlOK, LogOK
  <2>2. OpenOK' /\ UnreadableOnlyByChance'
    BY <2>1 DEF OpenOK, UnreadableOnlyByChance
  <2>3. FileOK'
    BY <1>1, <1>2 DEF FileOK, Readable, Recorded, ControlOK
  <2>4. QED
    BY <1>3, <1>4, <1>5, <2>2, <2>3 DEF IInv
<1>8. QED
  BY <1>6, <1>7

LEMMA NextOK == IInv /\ [Next]_vars => IInv'
<1> SUFFICES ASSUME IInv, [Next]_vars PROVE IInv'
  OBVIOUS
<1>1. CASE Next
  <2>1. PICK p \in Procs : \/ \E t \in Transfers : Read(p, t)
                           \/ Transfer(p) \/ Open(p) \/ Save(p) \/ Crash(p)
    BY <1>1 DEF Next
  <2>2. QED
    BY <2>1, ReadOK, TransferOK, OpenStepOK, SaveOK, CrashOK
<1>2. CASE UNCHANGED vars
  BY <1>2, StutterOK
<1>3. QED
  BY <1>1, <1>2

\* Every run of transfer commands (main.rs:348), stopped anywhere, keeps what the
\* invariant says of the file, of the copies of it and of the order of the events.
THEOREM Invariant == Spec => []IInv
BY InitOK, NextOK, PTL DEF Spec

-----------------------------------------------------------------------------
(* The pools that transfers are paid from. *)

\* A note of a pool: its nonce is bound to nullifiers that are in the pool.
NoteOK(po, cm) ==
  LET r == ResourceOf(cm)
  IN  /\ cm = Commitment(r)
      /\ r.quantity \in Nat
      /\ r.nonce.seed = NoSeed
      /\ r.nonce.nullifiers[1] \in po.nullifiers

\* What was consumed was a note of the pool or a transparent input.
SpentOK(po, nf) ==
  LET r == ResourceOf(nf)
  IN  /\ nf = Nullifier(r)
      /\ Commitment(r) \in ToSet(po.commitments) \/ r.nonce.seed \in Seeds

PoolOK(po) ==
  /\ IsSeq(po.commitments) /\ Distinct(po.commitments)
  /\ \A cm \in ToSet(po.commitments) : NoteOK(po, cm)
  /\ \A nf \in po.nullifiers : SpentOK(po, nf)
  /\ {EmptyRoot, Root(po.commitments)} \subseteq po.anchors

-----------------------------------------------------------------------------
(* The notes that a transfer takes. *)

TakenIf(po, owner, kind, amount, notes, cm) ==
  IF IsSpendable(po, owner, kind, cm) /\ Value(notes) < amount THEN Append(notes, cm) ELSE notes

Taken(po, owner, kind, amount) ==
  CHOOSE taken : taken =
    [i \in 0..Len(po.commitments) |->
       IF i = 0 THEN <<>>
       ELSE IF IsSpendable(po, owner, kind, po.commitments[i]) /\ Value(taken[i - 1]) < amount
       THEN Append(taken[i - 1], po.commitments[i])
       ELSE taken[i - 1]]

LEMMA TakenDef ==
  ASSUME NEW po, Len(po.commitments) \in Nat, NEW owner, NEW kind, NEW amount
  PROVE  LET taken == Taken(po, owner, kind, amount)
         IN  /\ Selected(po, owner, kind, amount) = taken[Len(po.commitments)]
             /\ taken[0] = <<>>
             /\ \A i \in 1..Len(po.commitments) :
                  taken[i] = TakenIf(po, owner, kind, amount, taken[i - 1], po.commitments[i])
<1> DEFINE s == po.commitments
           Next1(notes, i) == TakenIf(po, owner, kind, amount, notes, s[i])
           Upto(f, n) == f = [i \in 0..n |-> IF i = 0 THEN <<>> ELSE Next1(f[i - 1], i)]
           S == {n \in Nat : \E f : Upto(f, n)}
<1> HIDE DEF Next1, s
<1>1. 0 \in S
  <2>1. Upto([i \in 0..0 |-> <<>>], 0)
    OBVIOUS
  <2>2. QED
    BY <2>1
<1>2. ASSUME NEW n \in Nat, n \in S PROVE n + 1 \in S
  <2>1. PICK f : Upto(f, n)
    BY <1>2
  <2> DEFINE g == [i \in 0..(n + 1) |-> IF i = n + 1 THEN Next1(f[n], n + 1) ELSE f[i]]
  <2>2. \A i \in 0..(n + 1) : g[i] = IF i = 0 THEN <<>> ELSE Next1(g[i - 1], i)
    <3>1. SUFFICES ASSUME NEW i \in 0..(n + 1)
                   PROVE  g[i] = IF i = 0 THEN <<>> ELSE Next1(g[i - 1], i)
      OBVIOUS
    <3>2. CASE i = n + 1
      BY <3>2
    <3>3. CASE i # n + 1
      <4>1. i \in 0..n /\ f[i] = IF i = 0 THEN <<>> ELSE Next1(f[i - 1], i)
        BY <2>1, <3>3
      <4>2. g[i] = f[i] /\ (i # 0 => g[i - 1] = f[i - 1])
        BY <3>3
      <4>3. QED
        BY <4>1, <4>2
    <3>4. QED
      BY <3>2, <3>3
  <2>3. Upto(g, n + 1)
    BY <2>2
  <2> HIDE DEF g
  <2>4. QED
    BY <2>3
<1>3. Len(s) \in S
  <2>1. Len(s) \in Nat
    BY DEF s
  <2> HIDE DEF S
  <2>2. QED
    BY <1>1, <1>2, <2>1, Induction
<1> DEFINE taken == Taken(po, owner, kind, amount)
<1>4. Upto(taken, Len(s))
  BY <1>3, Zenon DEF Taken, TakenIf, Next1, s
<1>5. Selected(po, owner, kind, amount) = taken[Len(s)]
  BY DEF Selected, Taken, s
<1> HIDE DEF taken
<1>6. taken[0] = <<>> /\ \A i \in 1..Len(s) : taken[i] = Next1(taken[i - 1], i)
  <2>1. Len(s) \in Nat
    BY DEF s
  <2>2. QED
    BY <1>4, <2>1
<1>7. QED
  BY <1>5, <1>6, Zenon DEF taken, Next1, s

\* They are spendable notes of the pool, each taken once.
LEMMA SelectedOK ==
  ASSUME NEW po, PoolOK(po), NEW owner, NEW kind, NEW amount
  PROVE  LET notes == Selected(po, owner, kind, amount)
         IN  /\ IsSeq(notes) /\ Distinct(notes)
             /\ \A cm \in ToSet(notes) :
                  cm \in ToSet(po.commitments) /\ IsSpendable(po, owner, kind, cm)
<1> DEFINE s == po.commitments
           taken == Taken(po, owner, kind, amount)
           May(n) == {cm \in {s[j] : j \in 1..n} : IsSpendable(po, owner, kind, cm)}
           Good(notes, n) == IsSeq(notes) /\ Distinct(notes) /\ ToSet(notes) \subseteq May(n)
           S == {n \in Nat : n <= Len(s) => Good(taken[n], n)}
<1>1. IsSeq(s) /\ Distinct(s) /\ Len(s) \in Nat /\ ToSet(s) = {s[j] : j \in 1..Len(s)}
  <2>1. IsSeq(s) /\ Distinct(s)
    BY DEF PoolOK
  <2>2. QED
    BY <2>1, SeqIsSeq, IsSeqLength DEF IsSeq
<1>2. /\ Selected(po, owner, kind, amount) = taken[Len(s)]
      /\ taken[0] = <<>>
      /\ \A i \in 1..Len(s) : taken[i] = TakenIf(po, owner, kind, amount, taken[i - 1], s[i])
  BY <1>1, TakenDef
<1> HIDE DEF taken, s
<1>3. 0 \in S
  <2>1. IsSeq(<<>>) /\ Distinct(<<>>) /\ ToSet(<<>>) = {}
    BY EmptyIsSeq DEF Distinct, ToSet
  <2>2. QED
    BY <1>2, <2>1
<1>4. ASSUME NEW n \in Nat, n \in S PROVE n + 1 \in S
  <2>1. SUFFICES ASSUME n + 1 <= Len(s) PROVE Good(taken[n + 1], n + 1)
    OBVIOUS
  <2>2. n + 1 \in 1..Len(s) /\ (n + 1) - 1 = n /\ n <= Len(s)
    BY <1>1, <2>1
  <2>3. taken[n + 1] = TakenIf(po, owner, kind, amount, taken[n], s[n + 1])
    BY <1>2, <2>2
  <2>4. Good(taken[n], n)
    BY <1>4, <2>2
  <2>5. May(n) \subseteq May(n + 1)
    <3>1. \A j \in 1..n : j \in 1..(n + 1)
      OBVIOUS
    <3>2. QED
      BY <3>1
  <2>6. CASE taken[n + 1] = taken[n]
    BY <2>4, <2>5, <2>6
  <2>7. CASE taken[n + 1] # taken[n]
    <3> DEFINE e == s[n + 1]
    <3>1. taken[n + 1] = Append(taken[n], e) /\ IsSpendable(po, owner, kind, e)
      BY <2>3, <2>7 DEF TakenIf
    <3>2. e \notin ToSet(taken[n])
      <4>1. \A j \in 1..n : j \in 1..Len(s) /\ j # n + 1
        BY <1>1, <2>2
      <4>2. \A j \in 1..n : s[j] # e
        BY <1>1, <2>2, <4>1 DEF Distinct
      <4>3. QED
        BY <2>4, <4>2
    <3>3. e \in May(n + 1)
      <4>1. n + 1 \in 1..(n + 1)
        OBVIOUS
      <4>2. QED
        BY <3>1, <4>1
    <3> HIDE DEF e, May
    <3>4. /\ IsSeq(Append(taken[n], e)) /\ Distinct(Append(taken[n], e))
          /\ ToSet(Append(taken[n], e)) = ToSet(taken[n]) \cup {e}
      BY <2>4, <3>2, PlacesStay
    <3>5. QED
      BY <2>4, <2>5, <3>1, <3>3, <3>4
  <2>8. QED
    BY <2>6, <2>7
<1>5. Len(s) \in S
  <2> HIDE DEF S
  <2>1. QED
    BY <1>1, <1>3, <1>4, Induction
<1>6. Good(taken[Len(s)], Len(s))
  BY <1>1, <1>5
<1>7. QED
  BY <1>1, <1>2, <1>6 DEF s

-----------------------------------------------------------------------------
(* What a transfer builds. *)

\* What the inputs for the transfer c have in common, against the pool po.
InputOK(po, c, input) ==
  LET r == input.resource
  IN  /\ Kind(r) = c.kind /\ r.quantity \in Nat
      /\ input.root \in po.anchors
      /\ Nullifier(r) \notin po.nullifiers
      /\ IF c.from = External
         THEN r.is_ephemeral /\ r.nonce.seed \in Seeds
         ELSE /\ ~r.is_ephemeral /\ r.owner = c.from /\ r.nonce.seed = NoSeed
              /\ Commitment(r) \in ToSet(po.commitments)

InputsOK(po, c, ins) ==
  /\ IsSeq(ins)
  /\ \A i \in 1..Len(ins) : InputOK(po, c, ins[i])
  /\ \A i, j \in 1..Len(ins) : ins[i].resource = ins[j].resource => i = j
  /\ c.from = External => Paid(ins) = c.amount

Fresh(s, po) == \A nf \in po.nullifiers : ResourceOf(nf).nonce.seed # s

LEMMA Tags ==
  ASSUME NEW r
  PROVE  /\ ResourceOf(Nullifier(r)) = r /\ ResourceOf(Commitment(r)) = r
BY DEF ResourceOf, Nullifier, Commitment

LEMMA KindsAre ==
  ASSUME NEW t \in Transfers
  PROVE  /\ t.kind[1] \in LogicRefs /\ <<t.kind[1], t.kind[2]>> = t.kind
         /\ t.kind \in Kinds /\ t.amount \in Nat
         /\ External \notin Owners /\ Unknown \notin Owners \cup {External}
<1>1. t.kind \in Kinds /\ t.amount \in Nat
  BY PoolFileAssumption DEF PoolFileAssumption
<1>2. \A k \in Kinds : k[1] \in LogicRefs /\ <<k[1], k[2]>> = k
  BY DEF Kinds
<1>3. QED
  BY <1>1, <1>2, PoolFileAssumption DEF PoolFileAssumption

LEMMA PaysTransparently ==
  ASSUME NEW p \in Procs, NEW po, {EmptyRoot, Root(po.commitments)} \subseteq po.anchors,
         NEW c \in Transfers, c.from = External, Fresh(p, po)
  PROVE  InputsOK(po, c, <<TransparentInput(p, c.amount, c.kind)>>)
<1> DEFINE input == TransparentInput(p, c.amount, c.kind)
           ins == <<input>>
           r == input.resource
<1>1. /\ r.is_ephemeral /\ r.nonce.seed = p /\ r.quantity = c.amount /\ Kind(r) = c.kind
      /\ input.root = EmptyRoot
  BY KindsAre DEF TransparentInput, RandomNonce, Kind
<1> HIDE DEF input
<1>2. Nullifier(r) \notin po.nullifiers
  BY <1>1, Tags DEF Fresh
<1>3. c.amount \in Nat /\ p \in Seeds
  BY KindsAre, PoolFileAssumption DEF PoolFileAssumption
<1>4. InputOK(po, c, input)
  BY <1>1, <1>2, <1>3 DEF InputOK
<1>5. IsSeq(ins) /\ Len(ins) = 1 /\ ins[1] = input
  <2>1. ins \in Seq({input})
    OBVIOUS
  <2>2. QED
    BY <2>1, SeqIsSeq
<1>6. Paid(ins) = c.amount
  <2>1. [i \in DOMAIN ins |-> ins[i].resource.quantity] = <<c.amount>>
    BY <1>1
  <2>2. Total(<<c.amount>>) = c.amount
    BY <1>3, TotalOne
  <2> HIDE DEF ins
  <2>3. QED
    BY <2>1, <2>2, Zenon DEF Paid
<1> HIDE DEF ins, r
<1>7. \A i \in 1..Len(ins) : i = 1 /\ ins[i] = input
  BY <1>5
<1>8. InputsOK(po, c, ins)
  BY <1>4, <1>5, <1>6, <1>7 DEF InputsOK
<1>9. QED
  BY <1>8 DEF ins, input

LEMMA PaysFromNotes ==
  ASSUME NEW po, PoolOK(po), NEW c \in Transfers, c.from # External
  PROVE  LET notes == Selected(po, c.from, c.kind, c.amount)
         IN  InputsOK(po, c, [i \in DOMAIN notes |-> ShieldedInput(notes[i], po.commitments)])
<1> DEFINE notes == Selected(po, c.from, c.kind, c.amount)
           ins == [i \in DOMAIN notes |-> ShieldedInput(notes[i], po.commitments)]
<1>1. /\ IsSeq(notes) /\ Distinct(notes)
      /\ \A cm \in ToSet(notes) :
           cm \in ToSet(po.commitments) /\ IsSpendable(po, c.from, c.kind, cm)
  BY SelectedOK
<1>2. /\ DOMAIN notes = 1..Len(notes) /\ Len(notes) \in Nat
      /\ \A i \in 1..Len(notes) : notes[i] \in ToSet(notes)
  BY <1>1, SeqIsSeq, IsSeqLength DEF IsSeq
<1> HIDE DEF notes
<1>3. IsSeq(ins) /\ Len(ins) = Len(notes)
  BY <1>2, FunctionSeq
<1>4. ASSUME NEW i \in 1..Len(notes)
      PROVE  /\ InputOK(po, c, ins[i])
             /\ ins[i].resource = ResourceOf(notes[i])
             /\ notes[i] = Commitment(ResourceOf(notes[i]))
  <2> DEFINE cm == notes[i]
  <2>1. ins[i].resource = ResourceOf(cm) /\ ins[i].root = Root(po.commitments)
    BY <1>2 DEF ShieldedInput
  <2>2. cm \in ToSet(po.commitments) /\ IsSpendable(po, c.from, c.kind, cm)
    BY <1>1, <1>2
  <2>3. NoteOK(po, cm) /\ Root(po.commitments) \in po.anchors
    BY <2>2 DEF PoolOK
  <2> HIDE DEF cm, ins
  <2>4. QED
    BY <2>1, <2>2, <2>3 DEF InputOK, IsSpendable, NoteOK, cm
<1>5. ASSUME NEW i \in 1..Len(notes), NEW j \in 1..Len(notes),
             ins[i].resource = ins[j].resource
      PROVE  i = j
  <2>1. notes[i] = notes[j]
    BY <1>4, <1>5
  <2>2. QED
    BY <1>1, <2>1 DEF Distinct
<1> HIDE DEF ins
<1>6. InputsOK(po, c, ins)
  BY <1>3, <1>4, <1>5 DEF InputsOK
<1>7. QED
  BY <1>6 DEF ins, notes

\* The change, if any, then the payment, if anybody is paid.
Changed(left) == IF left > 0 THEN 1 ELSE 0
PaidTo(c) == IF c.to = Unknown THEN 0 ELSE 1

OutputsOK(c, left, outs) ==
  /\ IsSeq(outs) /\ Len(outs) = Changed(left) + PaidTo(c)
  /\ left > 0 => outs[1] = Output(c.from, c.kind, left)
  /\ c.to # Unknown => outs[Changed(left) + 1] = Output(c.to, c.kind, c.amount)

LEMMA PaidIs ==
  ASSUME NEW po, NEW c, NEW ins, InputsOK(po, c, ins)
  PROVE  Paid(ins) \in Nat
<1> DEFINE f == [i \in DOMAIN ins |-> ins[i].resource.quantity]
<1>1. DOMAIN ins = 1..Len(ins) /\ Len(ins) \in Nat
  BY IsSeqLength DEF InputsOK
<1>2. IsSeq(f) /\ Len(f) = Len(ins) /\ \A i \in 1..Len(ins) : f[i] = ins[i].resource.quantity
  BY <1>1, FunctionSeq
<1>3. \A i \in 1..Len(ins) : ins[i].resource.quantity \in Nat
  BY DEF InputsOK, InputOK
<1> HIDE DEF f
<1>4. IsCounts(f)
  BY <1>2, <1>3 DEF IsCounts
<1>5. Total(f) \in Nat
  BY <1>4, TotalNat
<1>6. QED
  BY <1>5 DEF Paid, f

LEMMA OutputsAre ==
  ASSUME NEW p, NEW po, NEW ins, cmd[p] \in Transfers, InputsOK(po, cmd[p], ins),
         Pays(ins, cmd[p].amount)
  PROVE  LET left == Paid(ins) - cmd[p].amount
         IN  left \in Nat /\ OutputsOK(cmd[p], left, Change(p, ins) \o Payment(p))
<1> DEFINE left == Paid(ins) - cmd[p].amount
           pay == Output(cmd[p].to, cmd[p].kind, cmd[p].amount)
           back == Output(cmd[p].from, cmd[p].kind, left)
           c == cmd[p]
           first == Change(p, ins)
           second == Payment(p)
           outs == first \o second
<1>1. left \in Nat
  BY PaidIs, KindsAre DEF Pays
<1>2. /\ first = IF left > 0 THEN <<back>> ELSE <<>>
      /\ second = IF c.to = Unknown THEN <<>> ELSE <<pay>>
  BY DEF Change, Payment
<1> HIDE DEF left, pay, back, first, second
<1>3. \A x : IsSeq(<<x>>) /\ Len(<<x>>) = 1 /\ <<x>>[1] = x
  <2>1. SUFFICES ASSUME NEW x PROVE IsSeq(<<x>>) /\ Len(<<x>>) = 1 /\ <<x>>[1] = x
    OBVIOUS
  <2>2. <<x>> \in Seq({x}) /\ Len(<<x>>) = 1 /\ <<x>>[1] = x
    OBVIOUS
  <2>3. QED
    BY <2>2, SeqIsSeq
<1>4. /\ IsSeq(first) /\ Len(first) = Changed(left)
      /\ IsSeq(second) /\ Len(second) = PaidTo(c)
      /\ left > 0 => first[1] = back
      /\ c.to # Unknown => second[1] = pay
  BY <1>2, <1>3, EmptyIsSeq DEF Changed, PaidTo
<1>5. /\ IsSeq(outs) /\ Len(outs) = Changed(left) + PaidTo(c)
      /\ \A i \in 1..(Changed(left) + PaidTo(c)) :
           outs[i] = IF i <= Changed(left) THEN first[i] ELSE second[i - Changed(left)]
  <2>1. /\ IsSeq(outs) /\ Len(outs) = Len(first) + Len(second)
        /\ \A i \in 1..(Len(first) + Len(second)) :
             outs[i] = IF i <= Len(first) THEN first[i] ELSE second[i - Len(first)]
    BY <1>4, ConcatIsSeq, Zenon
  <2>2. Len(first) = Changed(left) /\ Len(second) = PaidTo(c)
    BY <1>4
  <2>3. QED
    BY <2>1, <2>2, Zenon
<1> HIDE DEF outs, c
<1>6. left > 0 => outs[1] = back
  <2>1. SUFFICES ASSUME left > 0 PROVE outs[1] = back
    OBVIOUS
  <2>2. Changed(left) = 1 /\ PaidTo(c) \in {0, 1}
    BY <2>1 DEF Changed, PaidTo
  <2>3. QED
    BY <1>4, <1>5, <2>1, <2>2
<1>7. c.to # Unknown => outs[Changed(left) + 1] = pay
  <2>1. SUFFICES ASSUME c.to # Unknown PROVE outs[Changed(left) + 1] = pay
    OBVIOUS
  <2>2. Changed(left) \in {0, 1} /\ PaidTo(c) = 1
    BY <2>1 DEF Changed, PaidTo
  <2>3. QED
    BY <1>4, <1>5, <2>1, <2>2
<1>8. OutputsOK(c, left, outs)
  BY <1>5, <1>6, <1>7 DEF OutputsOK, pay, back, c
<1>9. QED
  BY <1>1, <1>8 DEF left, outs, first, second, c

\* The parts of a transaction, one by one.
Parts(t, ins, outs) ==
  /\ IsSeq(t.nullifiers) /\ Len(t.nullifiers) = Len(ins)
  /\ \A i \in 1..Len(ins) : t.nullifiers[i] = Nullifier(ins[i].resource)
  /\ Len(t.roots) = Len(ins) /\ \A i \in 1..Len(ins) : t.roots[i] = ins[i].root
  /\ IsSeq(t.commitments) /\ Len(t.commitments) = Len(outs)
  /\ \A i \in 1..Len(outs) :
       t.commitments[i] = Commitment(WithNonce(outs[i], DeriveNonce(i, t.nullifiers)))

Instances(t) ==
  /\ DOMAIN t.logic_instances = 1..(Len(t.nullifiers) + Len(t.commitments))
  /\ \A k \in 1..Len(t.nullifiers) :
       t.logic_instances[k] = [tag |-> t.nullifiers[k], is_consumed |-> TRUE]
  /\ \A k \in 1..Len(t.commitments) :
       t.logic_instances[Len(t.nullifiers) + k]
         = [tag |-> t.commitments[k], is_consumed |-> FALSE]

LEMMA PartsAre ==
  ASSUME NEW ins, IsSeq(ins), NEW outs, IsSeq(outs)
  PROVE  Parts(Transaction(ins, outs), ins, outs) /\ Instances(Transaction(ins, outs))
<1> DEFINE t == Transaction(ins, outs)
           n == Len(ins)
           m == Len(outs)
<1>1. n \in Nat /\ m \in Nat
  BY IsSeqLength
<1>2. /\ t.nullifiers = [i \in 1..n |-> Nullifier(ins[i].resource)]
      /\ t.roots = [i \in 1..n |-> ins[i].root]
      /\ t.commitments = [i \in 1..m |-> Commitment(WithNonce(outs[i], DeriveNonce(i, t.nullifiers)))]
      /\ t.logic_instances = LogicInstances(t.nullifiers, t.commitments)
  BY DEF Transaction, CreatedTags
<1> HIDE DEF t
<1>3. IsSeq(t.nullifiers) /\ Len(t.nullifiers) = n /\ Len(t.roots) = n
  <2>1. t.nullifiers = [i \in 1..n |-> t.nullifiers[i]] /\ t.roots = [i \in 1..n |-> t.roots[i]]
    BY <1>2
  <2>2. QED
    BY <1>1, <2>1, FunctionSeq
<1>4. IsSeq(t.commitments) /\ Len(t.commitments) = m
  <2>1. t.commitments = [i \in 1..m |-> t.commitments[i]]
    BY <1>2
  <2>2. QED
    BY <1>1, <2>1, FunctionSeq
<1>5. Parts(t, ins, outs)
  BY <1>2, <1>3, <1>4 DEF Parts
<1>6. Instances(t)
  <2> DEFINE c == ConsumedInstances(t.nullifiers)
             d == CreatedInstances(t.commitments)
  <2>1. /\ c = [k \in 1..n |-> c[k]] /\ d = [k \in 1..m |-> d[k]]
        /\ \A k \in 1..n : c[k] = [tag |-> t.nullifiers[k], is_consumed |-> TRUE]
        /\ \A k \in 1..m : d[k] = [tag |-> t.commitments[k], is_consumed |-> FALSE]
    BY <1>3, <1>4 DEF ConsumedInstances, CreatedInstances
  <2>2. t.logic_instances = c \o d
    BY <1>2 DEF LogicInstances
  <2> HIDE DEF c, d
  <2>3. IsSeq(c) /\ Len(c) = n /\ IsSeq(d) /\ Len(d) = m
    BY <1>1, <2>1, FunctionSeq
  <2> DEFINE l == c \o d
  <2>4. /\ IsSeq(l) /\ Len(l) = n + m
        /\ \A k \in 1..(n + m) : l[k] = IF k <= n THEN c[k] ELSE d[k - n]
    <3>1. /\ IsSeq(l) /\ Len(l) = Len(c) + Len(d)
          /\ \A k \in 1..(Len(c) + Len(d)) : l[k] = IF k <= Len(c) THEN c[k] ELSE d[k - Len(c)]
      BY <2>3, ConcatIsSeq, Zenon
    <3>2. Len(c) = n /\ Len(d) = m
      BY <2>3
    <3>3. QED
      BY <3>1, <3>2, Zenon
  <2>5. DOMAIN l = 1..(n + m)
    BY <2>4, IsSeqLength
  <2> HIDE DEF l
  <2>6. \A k \in 1..n : l[k] = c[k]
    BY <1>1, <2>4
  <2>7. ASSUME NEW k \in 1..m PROVE l[n + k] = d[k]
    <3>1. n + k \in 1..(n + m) /\ ~(n + k <= n) /\ (n + k) - n = k
      BY <1>1
    <3>2. QED
      BY <2>4, <3>1
  <2>8. QED
    BY <1>3, <1>4, <2>1, <2>2, <2>5, <2>6, <2>7 DEF Instances, l
<1>7. QED
  BY <1>5, <1>6 DEF t

\* What a transfer creates: the change and the payment, as far as there are any.
CreatedOK(t, c, left) ==
  /\ \A i \in 1..Len(t.commitments) :
       LET r == ResourceOf(t.commitments[i])
       IN  /\ t.commitments[i] = Commitment(r)
           /\ Kind(r) = c.kind /\ r.quantity \in Nat
           /\ r.nonce = DeriveNonce(i, t.nullifiers)
           /\ r.is_ephemeral = (r.owner = External)
  /\ Len(t.commitments) = Changed(left) + PaidTo(c)
  /\ LET change == ResourceOf(t.commitments[1])
         payment == ResourceOf(t.commitments[Changed(left) + 1])
     IN  /\ left > 0 => change.owner = c.from /\ change.quantity = left
         /\ c.to # Unknown => payment.owner = c.to /\ payment.quantity = c.amount

\* The two, one or no places in what a transfer creates.
LEMMA Places ==
  ASSUME NEW c, NEW left \in Nat
  PROVE  /\ \A i \in 1..(Changed(left) + PaidTo(c)) :
              \/ i = 1 /\ left > 0
              \/ i = Changed(left) + 1 /\ c.to # Unknown
         /\ left > 0 => Changed(left) = 1 /\ 1 \in 1..(Changed(left) + PaidTo(c))
         /\ ~(left > 0) => Changed(left) = 0 /\ left = 0
         /\ c.to # Unknown => /\ PaidTo(c) = 1
                              /\ Changed(left) + 1 \in 1..(Changed(left) + PaidTo(c))
         /\ c.to = Unknown => PaidTo(c) = 0
BY DEF Changed, PaidTo

LEMMA CreatedIs ==
  ASSUME NEW c \in Transfers, NEW left \in Nat, NEW t, NEW ins, NEW outs,
         OutputsOK(c, left, outs), Parts(t, ins, outs)
  PROVE  CreatedOK(t, c, left)
<1>1. Len(t.commitments) = Len(outs) /\ Len(outs) \in Nat
  BY IsSeqLength DEF OutputsOK, Parts
<1>2. ASSUME NEW i \in 1..Len(outs)
      PROVE  LET r == ResourceOf(t.commitments[i])
             IN  /\ t.commitments[i] = Commitment(r)
                 /\ r.nonce = DeriveNonce(i, t.nullifiers)
                 /\ r.owner = outs[i].owner /\ r.quantity = outs[i].quantity
                 /\ Kind(r) = <<outs[i].logic_ref, outs[i].label_ref>>
                 /\ r.is_ephemeral = outs[i].is_ephemeral
  <2> DEFINE r == WithNonce(outs[i], DeriveNonce(i, t.nullifiers))
  <2>1. /\ r.nonce = DeriveNonce(i, t.nullifiers)
        /\ r.owner = outs[i].owner /\ r.quantity = outs[i].quantity
        /\ Kind(r) = <<outs[i].logic_ref, outs[i].label_ref>>
        /\ r.is_ephemeral = outs[i].is_ephemeral
    BY DEF WithNonce, Kind
  <2>2. t.commitments[i] = Commitment(r)
    BY <1>2 DEF Parts
  <2> HIDE DEF r
  <2>3. ResourceOf(t.commitments[i]) = r
    BY <2>2, Tags
  <2>4. QED
    BY <2>1, <2>2, <2>3
<1>3. \A account, n :
        LET o == Output(account, c.kind, n)
        IN  /\ o.owner = account /\ o.quantity = n /\ o.is_ephemeral = (account = External)
            /\ <<o.logic_ref, o.label_ref>> = c.kind
  BY KindsAre DEF Output
<1>4. /\ Len(outs) = Changed(left) + PaidTo(c)
      /\ left > 0 => outs[1] = Output(c.from, c.kind, left)
      /\ c.to # Unknown => outs[Changed(left) + 1] = Output(c.to, c.kind, c.amount)
  BY DEF OutputsOK
<1>5. \A i \in 1..Len(outs) :
        /\ outs[i].quantity \in Nat /\ outs[i].is_ephemeral = (outs[i].owner = External)
        /\ <<outs[i].logic_ref, outs[i].label_ref>> = c.kind
  <2>1. SUFFICES ASSUME NEW i \in 1..Len(outs)
                 PROVE  \E account : \E n \in Nat : outs[i] = Output(account, c.kind, n)
    BY <1>3
  <2>2. \/ i = 1 /\ left > 0
        \/ i = Changed(left) + 1 /\ c.to # Unknown
    BY <1>4, Places
  <2>3. c.amount \in Nat
    BY KindsAre
  <2>4. QED
    BY <1>4, <2>2, <2>3
<1> DEFINE R(i) == ResourceOf(t.commitments[i])
<1>6. ASSUME NEW i \in 1..Len(t.commitments)
      PROVE  /\ t.commitments[i] = Commitment(R(i))
             /\ Kind(R(i)) = c.kind /\ R(i).quantity \in Nat
             /\ R(i).nonce = DeriveNonce(i, t.nullifiers)
             /\ R(i).is_ephemeral = (R(i).owner = External)
  <2>1. i \in 1..Len(outs)
    BY <1>1
  <2>2. /\ t.commitments[i] = Commitment(R(i))
        /\ R(i).nonce = DeriveNonce(i, t.nullifiers)
        /\ R(i).owner = outs[i].owner /\ R(i).quantity = outs[i].quantity
        /\ Kind(R(i)) = <<outs[i].logic_ref, outs[i].label_ref>>
        /\ R(i).is_ephemeral = outs[i].is_ephemeral
    BY <1>2, <2>1
  <2>3. QED
    BY <1>5, <2>1, <2>2
<1>7. left > 0 => R(1).owner = c.from /\ R(1).quantity = left
  <2>1. SUFFICES ASSUME left > 0 PROVE R(1).owner = c.from /\ R(1).quantity = left
    OBVIOUS
  <2>2. 1 \in 1..Len(outs) /\ outs[1] = Output(c.from, c.kind, left)
    BY <1>4, <2>1, Places
  <2>3. R(1).owner = outs[1].owner /\ R(1).quantity = outs[1].quantity
    BY <1>2, <2>2
  <2>4. QED
    BY <1>3, <2>2, <2>3
<1>8. c.to # Unknown => R(Changed(left) + 1).owner = c.to /\ R(Changed(left) + 1).quantity = c.amount
  <2>1. SUFFICES ASSUME c.to # Unknown
                 PROVE  /\ R(Changed(left) + 1).owner = c.to
                        /\ R(Changed(left) + 1).quantity = c.amount
    OBVIOUS
  <2> DEFINE i == Changed(left) + 1
  <2>2. i \in 1..Len(outs) /\ outs[i] = Output(c.to, c.kind, c.amount)
    BY <1>4, <2>1, Places
  <2> HIDE DEF i
  <2>3. R(i).owner = outs[i].owner /\ R(i).quantity = outs[i].quantity
    BY <1>2, <2>2
  <2>4. R(i).owner = c.to /\ R(i).quantity = c.amount
    BY <1>3, <2>2, <2>3
  <2>5. QED
    BY <2>4 DEF i
<1>9. Len(t.commitments) = Changed(left) + PaidTo(c)
  BY <1>1, <1>4
<1>10. QED
  BY <1>6, <1>7, <1>8, <1>9, Zenon DEF CreatedOK

\* What a transfer consumes.
ConsumedOK(po, c, t) ==
  /\ IsSeq(t.nullifiers) /\ Distinct(t.nullifiers)
  /\ Len(t.roots) = Len(t.nullifiers)
  /\ \A i \in 1..Len(t.nullifiers) :
       LET r == ResourceOf(t.nullifiers[i])
       IN  /\ t.nullifiers[i] = Nullifier(r)
           /\ t.roots[i] \in po.anchors
           /\ InputOK(po, c, [resource |-> r, root |-> t.roots[i]])

LEMMA ConsumedIs ==
  ASSUME NEW po, NEW c, NEW t, NEW ins, NEW outs, InputsOK(po, c, ins), Parts(t, ins, outs)
  PROVE  ConsumedOK(po, c, t)
<1>1. /\ IsSeq(t.nullifiers) /\ Len(t.nullifiers) = Len(ins) /\ Len(t.roots) = Len(ins)
      /\ Len(ins) \in Nat
  BY IsSeqLength DEF Parts
<1>2. ASSUME NEW i \in 1..Len(ins)
      PROVE  /\ t.nullifiers[i] = Nullifier(ins[i].resource) /\ t.roots[i] = ins[i].root
             /\ ResourceOf(t.nullifiers[i]) = ins[i].resource
  BY Tags DEF Parts
<1>3. Distinct(t.nullifiers)
  <2>1. SUFFICES ASSUME NEW i \in 1..Len(ins), NEW j \in 1..Len(ins),
                        t.nullifiers[i] = t.nullifiers[j]
                 PROVE  i = j
    BY <1>1 DEF Distinct
  <2>2. ins[i].resource = ins[j].resource
    BY <1>2, <2>1
  <2>3. QED
    BY <2>2 DEF InputsOK
<1>4. ASSUME NEW i \in 1..Len(ins)
      PROVE  LET r == ResourceOf(t.nullifiers[i])
             IN  /\ t.nullifiers[i] = Nullifier(r)
                 /\ t.roots[i] \in po.anchors
                 /\ InputOK(po, c, [resource |-> r, root |-> t.roots[i]])
  <2>1. InputOK(po, c, ins[i])
    BY DEF InputsOK
  <2>2. QED
    BY <1>2, <2>1 DEF InputOK
<1>5. QED
  BY <1>1, <1>3, <1>4 DEF ConsumedOK

LEMMA ConsumedSum ==
  ASSUME NEW po, NEW c, NEW t, NEW ins, NEW outs, InputsOK(po, c, ins), Parts(t, ins, outs),
         NEW k
  PROVE  QuantityOf(t.nullifiers, k) = IF k = c.kind THEN Paid(ins) ELSE 0
<1> DEFINE f == [i \in DOMAIN t.nullifiers |-> Amount(t.nullifiers[i], k)]
           g == [i \in DOMAIN ins |-> ins[i].resource.quantity]
<1>1. /\ DOMAIN t.nullifiers = 1..Len(ins) /\ DOMAIN ins = 1..Len(ins) /\ Len(ins) \in Nat
  BY IsSeqLength DEF Parts, InputsOK
<1>2. ASSUME NEW i \in 1..Len(ins)
      PROVE  Amount(t.nullifiers[i], k) = IF k = c.kind THEN ins[i].resource.quantity ELSE 0
  <2>1. ResourceOf(t.nullifiers[i]) = ins[i].resource
    BY Tags DEF Parts
  <2>2. Kind(ins[i].resource) = c.kind
    BY DEF InputsOK, InputOK
  <2>3. QED
    BY <2>1, <2>2 DEF Amount
<1>3. CASE k = c.kind
  <2>1. f = g
    BY <1>1, <1>2, <1>3
  <2>2. QED
    BY <1>3, <2>1, Zenon DEF QuantityOf, Paid
<1>4. CASE k # c.kind
  <2>1. f = [i \in 1..Len(ins) |-> f[i]] /\ \A i \in 1..Len(ins) : f[i] = 0
    BY <1>1, <1>2, <1>4
  <2> HIDE DEF f
  <2>2. IsNumbers(f) /\ \A i \in 1..Len(f) : f[i] = 0
    BY <1>1, <2>1, FunctionSeq DEF IsNumbers
  <2>3. Total(f) = 0
    BY <2>2, TotalZero
  <2>4. QED
    BY <1>4, <2>3, Zenon DEF QuantityOf, f
<1>5. QED
  BY <1>3, <1>4

LEMMA CreatedSum ==
  ASSUME NEW c \in Transfers, NEW left \in Nat, NEW t, IsSeq(t.commitments),
         CreatedOK(t, c, left), NEW k
  PROVE  QuantityOf(t.commitments, k) =
           IF k = c.kind THEN left + (IF c.to = Unknown THEN 0 ELSE c.amount) ELSE 0
<1> DEFINE cms == t.commitments
           f == [i \in DOMAIN cms |-> Amount(cms[i], k)]
<1>1. DOMAIN cms = 1..Len(cms) /\ Len(cms) \in Nat
  BY IsSeqLength
<1>2. c.amount \in Nat
  BY KindsAre
<1>3. ASSUME NEW i \in 1..Len(cms)
      PROVE  f[i] = IF k = c.kind THEN ResourceOf(cms[i]).quantity ELSE 0
  BY <1>1 DEF CreatedOK, Amount
<1>4. \A i \in 1..Len(cms) : ResourceOf(cms[i]).quantity \in Nat
  BY DEF CreatedOK
<1>5. f = [i \in 1..Len(cms) |-> f[i]]
  BY <1>1
<1>6. IsSeq(f) /\ Len(f) = Len(cms)
  <2> HIDE DEF f, cms
  <2>1. QED
    BY <1>1, <1>5, FunctionSeq
<1>7. QuantityOf(cms, k) = Total(f)
  BY DEF QuantityOf
<1> HIDE DEF f
<1>8. IsNumbers(f)
  BY <1>3, <1>4, <1>6 DEF IsNumbers
<1>9. /\ Len(cms) = Changed(left) + PaidTo(c)
      /\ left > 0 => ResourceOf(cms[1]).quantity = left
      /\ c.to # Unknown => ResourceOf(cms[Changed(left) + 1]).quantity = c.amount
  BY DEF CreatedOK
<1>10. \/ /\ left > 0 /\ c.to # Unknown /\ Len(cms) = 2
          /\ ResourceOf(cms[1]).quantity = left /\ ResourceOf(cms[2]).quantity = c.amount
       \/ left > 0 /\ c.to = Unknown /\ Len(cms) = 1 /\ ResourceOf(cms[1]).quantity = left
       \/ left = 0 /\ c.to # Unknown /\ Len(cms) = 1 /\ ResourceOf(cms[1]).quantity = c.amount
       \/ left = 0 /\ c.to = Unknown /\ Len(cms) = 0
  BY <1>9 DEF Changed, PaidTo
<1> HIDE DEF cms
<1>11. CASE Len(cms) = 2
  <2>1. Total(f) = f[1] + f[2]
    BY <1>6, <1>8, <1>11, TotalShort
  <2>2. QED
    BY <1>2, <1>3, <1>7, <1>10, <1>11, <2>1 DEF cms
<1>12. CASE Len(cms) = 1
  <2>1. Total(f) = f[1]
    BY <1>6, <1>8, <1>12, TotalShort
  <2>2. QED
    BY <1>2, <1>3, <1>7, <1>10, <1>12, <2>1 DEF cms
<1>13. CASE Len(cms) = 0
  <2>1. Total(f) = 0
    BY <1>6, <1>8, <1>13, TotalZero
  <2>2. QED
    BY <1>7, <1>10, <1>13, <2>1 DEF cms
<1>14. QED
  BY <1>10, <1>11, <1>12, <1>13

\* What the pool checks holds of what a transfer builds.
LEMMA CreatedDistinct ==
  ASSUME NEW c, NEW left, NEW t, IsSeq(t.commitments), CreatedOK(t, c, left)
  PROVE  Distinct(t.commitments)
<1>1. SUFFICES ASSUME NEW i \in 1..Len(t.commitments), NEW j \in 1..Len(t.commitments),
                      t.commitments[i] = t.commitments[j]
               PROVE  i = j
  BY DEF Distinct
<1>2. DeriveNonce(i, t.nullifiers) = DeriveNonce(j, t.nullifiers)
  BY <1>1 DEF CreatedOK
<1>3. QED
  BY <1>2 DEF DeriveNonce

LEMMA Checked ==
  ASSUME NEW po, NEW c \in Transfers, NEW t, NEW left \in Nat,
         ConsumedOK(po, c, t), CreatedOK(t, c, left), IsSeq(t.commitments), Instances(t),
         Balanced(t)
  PROVE  /\ Check(t, po.anchors, LogicRefs) = "ok"
         /\ ToSet(t.nullifiers) \cap po.nullifiers = {}
<1> DEFINE n == Len(t.nullifiers)
           m == Len(t.commitments)
           l == t.logic_instances
<1>1. /\ n \in Nat /\ DOMAIN t.nullifiers = 1..n /\ ToSet(t.nullifiers) = {t.nullifiers[i] : i \in 1..n}
      /\ m \in Nat /\ DOMAIN t.commitments = 1..m
      /\ ToSet(t.commitments) = {t.commitments[i] : i \in 1..m}
      /\ \A i, j \in 1..n : t.nullifiers[i] = t.nullifiers[j] => i = j
      /\ \A i, j \in 1..m : t.commitments[i] = t.commitments[j] => i = j
  BY IsSeqLength, CreatedDistinct DEF ConsumedOK, ToSet, Distinct
<1>2. ASSUME NEW i \in 1..n
      PROVE  /\ t.roots[i] \in po.anchors /\ t.nullifiers[i] \notin po.nullifiers
             /\ ResourceOf(t.nullifiers[i]).logic_ref \in LogicRefs
  <2>1. Kind(ResourceOf(t.nullifiers[i])) = c.kind
    BY DEF ConsumedOK, InputOK
  <2>2. QED
    BY <2>1, KindsAre DEF ConsumedOK, InputOK, Kind
<1>3. ASSUME NEW i \in 1..m PROVE ResourceOf(t.commitments[i]).logic_ref \in LogicRefs
  <2>1. Kind(ResourceOf(t.commitments[i])) = c.kind
    BY DEF CreatedOK
  <2>2. QED
    BY <2>1, KindsAre DEF Kind
<1>4. /\ DOMAIN l = 1..(n + m)
      /\ \A k \in 1..n : l[k] = [tag |-> t.nullifiers[k], is_consumed |-> TRUE]
      /\ \A k \in 1..m : l[n + k] = [tag |-> t.commitments[k], is_consumed |-> FALSE]
  BY DEF Instances
<1> HIDE DEF n, m, l
<1>5. \A k \in 1..(n + m) : k \in 1..n \/ \E i \in 1..m : k = n + i
  <2>1. \A k \in 1..(n + m) : k \in 1..n \/ (k - n \in 1..m /\ k = n + (k - n))
    BY <1>1
  <2>2. QED
    BY <2>1
<1>6. /\ \A k \in 1..n : l[k].tag = t.nullifiers[k] /\ l[k].is_consumed = TRUE
      /\ \A k \in 1..m : l[n + k].tag = t.commitments[k] /\ l[n + k].is_consumed = FALSE
  <2>1. ASSUME NEW k \in 1..n PROVE l[k].tag = t.nullifiers[k] /\ l[k].is_consumed = TRUE
    <3>1. l[k] = [tag |-> t.nullifiers[k], is_consumed |-> TRUE]
      BY <1>4, Zenon
    <3>2. QED
      BY <3>1
  <2>2. ASSUME NEW k \in 1..m
        PROVE  l[n + k].tag = t.commitments[k] /\ l[n + k].is_consumed = FALSE
    <3>1. l[n + k] = [tag |-> t.commitments[k], is_consumed |-> FALSE]
      BY <1>4, Zenon
    <3>2. QED
      BY <3>1
  <2>3. QED
    BY <2>1, <2>2
<1>7. BadInputs(t, po.anchors) = {}
  <2>1. \A i \in 1..n : ~UnknownAnchor(t, i, po.anchors)
    BY <1>2 DEF UnknownAnchor
  <2>2. \A i \in 1..n : ~Repeats(t.nullifiers, i)
    <3>1. SUFFICES ASSUME NEW i \in 1..n, NEW j \in 1..(i - 1), t.nullifiers[j] = t.nullifiers[i]
                   PROVE  FALSE
      BY DEF Repeats
    <3>2. j \in 1..n /\ j # i
      BY <1>1
    <3>3. QED
      BY <1>1, <3>1, <3>2
  <2>3. QED
    BY <1>1, <2>1, <2>2 DEF BadInputs
<1>8. IsInjective(t.commitments)
  BY <1>1 DEF IsInjective
<1>9. BadInstances(t, LogicRefs) = {}
  <2>1. SUFFICES ASSUME NEW k \in 1..(n + m)
                 PROVE  Paired(t, k) /\ KnownLogic(t, k, LogicRefs)
    BY <1>4 DEF BadInstances, l
  <2>2. ~Repeats(l, k)
    <3>1. SUFFICES ASSUME NEW h \in 1..(k - 1), l[h] = l[k] PROVE FALSE
      BY DEF Repeats
    <3>2. h \in 1..(n + m) /\ h # k
      BY <1>1
    <3>3. CASE k \in 1..n /\ h \in 1..n
      BY <1>1, <1>6, <3>1, <3>2, <3>3
    <3>4. CASE (k \in 1..n) # (h \in 1..n)
      BY <1>5, <1>6, <3>1, <3>2, <3>4
    <3>5. CASE k \notin 1..n /\ h \notin 1..n
      <4>1. PICK i \in 1..m, j \in 1..m : k = n + i /\ h = n + j
        BY <1>5, <3>2, <3>5
      <4>2. t.commitments[i] = t.commitments[j]
        BY <1>6, <3>1, <4>1
      <4>3. i = j
        BY <1>1, <4>2
      <4>4. QED
        BY <3>2, <4>1, <4>3
    <3>6. QED
      BY <3>3, <3>4, <3>5
  <2>3. CASE k \in 1..n
    <3>1. l[k].tag \in ToSet(t.nullifiers) /\ l[k].is_consumed = TRUE
      BY <1>1, <1>6, <2>3
    <3>2. QED
      BY <1>2, <1>6, <2>2, <2>3, <3>1 DEF Paired, KnownLogic, l
  <2>4. CASE \E i \in 1..m : k = n + i
    <3>1. PICK i \in 1..m : k = n + i
      BY <2>4
    <3>2. l[k].tag = t.commitments[i] /\ l[k].is_consumed = FALSE
      BY <1>6, <3>1
    <3>3. l[k].tag \in ToSet(t.commitments)
      BY <1>1, <3>2
    <3>4. QED
      BY <1>3, <2>2, <3>2, <3>3 DEF Paired, KnownLogic, l
  <2>5. QED
    BY <1>5, <2>3, <2>4
<1>10. Unpaired(t, TRUE, t.nullifiers) = {} /\ Unpaired(t, FALSE, t.commitments) = {}
  <2>1. ASSUME NEW tag \in ToSet(t.nullifiers)
        PROVE  \E instance \in ToSet(l) : instance.is_consumed = TRUE /\ instance.tag = tag
    <3>1. PICK i \in 1..n : t.nullifiers[i] = tag
      BY <1>1, <2>1
    <3>2. i \in 1..(n + m)
      BY <1>1
    <3>3. QED
      BY <1>4, <1>6, <3>1, <3>2 DEF ToSet
  <2>2. ASSUME NEW tag \in ToSet(t.commitments)
        PROVE  \E instance \in ToSet(l) : instance.is_consumed = FALSE /\ instance.tag = tag
    <3>1. PICK i \in 1..m : t.commitments[i] = tag
      BY <1>1, <2>2
    <3>2. n + i \in 1..(n + m)
      BY <1>1
    <3>3. QED
      BY <1>4, <1>6, <3>1, <3>2 DEF ToSet
  <2>3. QED
    BY <2>1, <2>2 DEF Unpaired, l
<1>11. Check(t, po.anchors, LogicRefs) = "ok"
  BY <1>7, <1>8, <1>9, <1>10, Zenon DEF Check
<1>12. ToSet(t.nullifiers) \cap po.nullifiers = {}
  BY <1>1, <1>2
<1>13. QED
  BY <1>11, <1>12

-----------------------------------------------------------------------------
(* What a transfer does to the pool it is submitted to. *)

Consumes(po, c, t, left) ==
  /\ PoolOK(po) /\ ConsumedOK(po, c, t) /\ CreatedOK(t, c, left)
  /\ IsSeq(t.commitments) /\ Len(t.nullifiers) \in Nat \ {0}

\* What it creates is new: its nonces name a nullifier that was not spent.
LEMMA CreatedIsNew ==
  ASSUME NEW po, NEW c, NEW t, NEW left, Consumes(po, c, t, left),
         NEW i \in 1..Len(t.commitments)
  PROVE  /\ t.commitments[i] \notin ToSet(po.commitments)
         /\ Nullifier(ResourceOf(t.commitments[i])) \notin po.nullifiers \cup ToSet(t.nullifiers)
<1> DEFINE cm == t.commitments[i]
           r == ResourceOf(cm)
           n == Len(t.nullifiers)
<1>1. /\ 1 \in 1..n /\ ToSet(t.nullifiers) = {t.nullifiers[j] : j \in 1..n}
      /\ \A j \in 1..n : t.nullifiers[j] \notin po.nullifiers
  <2>1. n \in Nat \ {0} /\ IsSeq(t.nullifiers)
    BY DEF Consumes, ConsumedOK
  <2>2. ToSet(t.nullifiers) = {t.nullifiers[j] : j \in 1..n}
    BY <2>1, IsSeqRange
  <2>3. ASSUME NEW j \in 1..n PROVE t.nullifiers[j] \notin po.nullifiers
    BY DEF Consumes, ConsumedOK, InputOK
  <2> HIDE DEF n
  <2>4. QED
    BY <2>1, <2>2, <2>3
<1>2. cm = Commitment(r) /\ r.nonce = DeriveNonce(i, t.nullifiers)
  BY DEF Consumes, CreatedOK
<1>3. r.nonce.seed = NoSeed /\ r.nonce.nullifiers = t.nullifiers
  BY <1>2 DEF DeriveNonce
<1>4. NoSeed \notin Seeds
  BY ResourcesAssumption DEF ResourcesAssumption
<1> HIDE DEF n
<1>5. cm \notin ToSet(po.commitments)
  <2>1. SUFFICES ASSUME cm \in ToSet(po.commitments) PROVE FALSE
    OBVIOUS
  <2>2. NoteOK(po, cm)
    BY <2>1, Zenon DEF Consumes, PoolOK
  <2>3. r.nonce.nullifiers[1] \in po.nullifiers
    BY <2>2 DEF NoteOK
  <2>4. QED
    BY <1>1, <1>3, <2>3
<1>6. Nullifier(r) \notin po.nullifiers
  <2>1. SUFFICES ASSUME Nullifier(r) \in po.nullifiers PROVE FALSE
    OBVIOUS
  <2>2. SpentOK(po, Nullifier(r))
    BY <2>1, Zenon DEF Consumes, PoolOK
  <2>3. Commitment(r) \in ToSet(po.commitments) \/ r.nonce.seed \in Seeds
    BY <2>2, Tags DEF SpentOK
  <2>4. QED
    BY <1>2, <1>3, <1>4, <1>5, <2>3
<1>7. ASSUME NEW j \in 1..n PROVE Nullifier(r) # t.nullifiers[j]
  <2>1. SUFFICES ASSUME Nullifier(r) = t.nullifiers[j] PROVE FALSE
    OBVIOUS
  <2>2. ResourceOf(t.nullifiers[j]) = r
    BY <2>1, Tags
  <2>3. Commitment(r) \in ToSet(po.commitments) \/ r.nonce.seed \in Seeds
    BY <2>2 DEF Consumes, ConsumedOK, InputOK, n
  <2>4. QED
    BY <1>2, <1>3, <1>4, <1>5, <2>3
<1>8. QED
  BY <1>1, <1>5, <1>6, <1>7

LEMMA SubmittedIs ==
  ASSUME NEW po, NEW t
  PROVE  /\ Submitted(po, t).commitments = po.commitments \o t.commitments
         /\ Submitted(po, t).nullifiers = po.nullifiers \cup ToSet(t.nullifiers)
         /\ Submitted(po, t).anchors = po.anchors \cup {Root(po.commitments \o t.commitments)}
BY DEF Submitted

\* Two sequences without repetitions that have nothing in common.
LEMMA DistinctConcat ==
  ASSUME NEW s, IsSeq(s), Distinct(s), NEW u, IsSeq(u), Distinct(u),
         \A i \in 1..Len(u) : u[i] \notin ToSet(s)
  PROVE  Distinct(s \o u)
<1> DEFINE r == s \o u
           m == Len(s)
           k == Len(u)
<1>1. /\ m \in Nat /\ k \in Nat /\ ToSet(s) = {s[i] : i \in 1..m}
  BY IsSeqLength, SeqIsSeq DEF IsSeq
<1>2. Len(r) = m + k /\ \A i \in 1..(m + k) : r[i] = IF i <= m THEN s[i] ELSE u[i - m]
  BY ConcatIsSeq
<1> HIDE DEF r
<1>3. ASSUME NEW i \in 1..(m + k), NEW j \in 1..(m + k), r[i] = r[j], i <= j PROVE i = j
  <2>1. CASE j <= m
    <3>1. i \in 1..m /\ j \in 1..m /\ s[i] = s[j]
      BY <1>1, <1>2, <1>3, <2>1
    <3>2. QED
      BY <3>1 DEF Distinct
  <2>2. CASE i <= m /\ ~(j <= m)
    <3>1. i \in 1..m /\ j - m \in 1..k /\ s[i] = u[j - m]
      BY <1>1, <1>2, <1>3, <2>2
    <3>2. QED
      BY <1>1, <3>1
  <2>3. CASE ~(i <= m)
    <3>1. i - m \in 1..k /\ j - m \in 1..k /\ u[i - m] = u[j - m]
      BY <1>1, <1>2, <1>3, <2>3
    <3>2. i - m = j - m
      BY <3>1 DEF Distinct
    <3>3. QED
      BY <1>1, <3>2
  <2>4. QED
    BY <1>1, <2>1, <2>2, <2>3
<1>4. ASSUME NEW i \in 1..(m + k), NEW j \in 1..(m + k), r[i] = r[j] PROVE i = j
  <2>1. i <= j \/ j <= i
    BY <1>1
  <2>2. QED
    BY <1>3, <1>4, <2>1
<1>5. QED
  BY <1>2, <1>4 DEF Distinct, r

LEMMA PoolStays ==
  ASSUME NEW po, NEW c, NEW t, NEW left, Consumes(po, c, t, left)
  PROVE  PoolOK(Submitted(po, t))
<1> DEFINE new == Submitted(po, t)
           s == po.commitments
           u == t.commitments
<1>1. /\ new.commitments = s \o u
      /\ new.nullifiers = po.nullifiers \cup ToSet(t.nullifiers)
      /\ new.anchors = po.anchors \cup {Root(s \o u)}
  BY SubmittedIs
<1>2. /\ IsSeq(s) /\ Distinct(s) /\ IsSeq(u) /\ Distinct(u)
      /\ (\A cm \in ToSet(s) : NoteOK(po, cm)) /\ \A nf \in po.nullifiers : SpentOK(po, nf)
      /\ {EmptyRoot, Root(s)} \subseteq po.anchors
  BY CreatedDistinct DEF Consumes, PoolOK
<1>3. \A i \in 1..Len(u) : u[i] \notin ToSet(s)
  BY CreatedIsNew
<1> HIDE DEF new
<1>4. IsSeq(s \o u) /\ Distinct(s \o u) /\ ToSet(s \o u) = ToSet(s) \cup ToSet(u)
  <2> HIDE DEF s, u
  <2>1. QED
    BY <1>2, <1>3, ConcatIsSeq, ConcatToSet, DistinctConcat
<1>5. ASSUME NEW cm \in ToSet(s) PROVE NoteOK(new, cm)
  BY <1>1, <1>2 DEF NoteOK
<1>6. ASSUME NEW cm \in ToSet(u) PROVE NoteOK(new, cm)
  <2>1. PICK i \in 1..Len(u) : u[i] = cm
    BY <1>2, IsSeqRange
  <2>2. /\ cm = Commitment(ResourceOf(cm)) /\ ResourceOf(cm).quantity \in Nat
        /\ ResourceOf(cm).nonce = DeriveNonce(i, t.nullifiers)
    BY <2>1 DEF Consumes, CreatedOK
  <2>3. t.nullifiers[1] \in ToSet(t.nullifiers)
    <3>1. 1 \in 1..Len(t.nullifiers) /\ IsSeq(t.nullifiers)
      BY DEF Consumes, ConsumedOK
    <3>2. QED
      BY <3>1, SeqIsSeq DEF IsSeq
  <2>4. QED
    BY <1>1, <2>2, <2>3 DEF NoteOK, DeriveNonce
<1>7. ASSUME NEW nf \in po.nullifiers PROVE SpentOK(new, nf)
  BY <1>1, <1>2, <1>4 DEF SpentOK
<1>8. ASSUME NEW nf \in ToSet(t.nullifiers) PROVE SpentOK(new, nf)
  <2>1. PICK i \in 1..Len(t.nullifiers) : t.nullifiers[i] = nf
    BY IsSeqRange DEF Consumes, ConsumedOK
  <2>2. /\ nf = Nullifier(ResourceOf(nf))
        /\ Commitment(ResourceOf(nf)) \in ToSet(s) \/ ResourceOf(nf).nonce.seed \in Seeds
    BY <2>1 DEF Consumes, ConsumedOK, InputOK
  <2>3. QED
    BY <1>1, <1>4, <2>2 DEF SpentOK
<1>9. QED
  BY <1>1, <1>2, <1>4, <1>5, <1>6, <1>7, <1>8 DEF PoolOK, new

-----------------------------------------------------------------------------
(* Balances. *)

QuantityIn(S) == [cm \in S |-> ResourceOf(cm).quantity]
SpendV(S, po, owner, kind) ==
  [cm \in S |-> IF IsSpendable(po, owner, kind, cm) THEN ResourceOf(cm).quantity ELSE 0]

Counted(S) == \A cm \in S : ResourceOf(cm).quantity \in Nat

LEMMA BalanceIs ==
  ASSUME NEW po, NEW S, po.commitments \in Seq(S), NEW o, NEW k
  PROVE  Balance(po, o, k) = Worth(po.commitments, SpendV(S, po, o, k))
<1> DEFINE s == po.commitments
<1>1. \A i \in DOMAIN s : s[i] \in S
  BY ElementOfSeq, LenProperties
<1>2. [i \in DOMAIN s |-> LET cm == s[i]
                          IN  IF IsSpendable(po, o, k, cm) THEN ResourceOf(cm).quantity ELSE 0]
        = [i \in DOMAIN s |-> SpendV(S, po, o, k)[s[i]]]
  BY <1>1 DEF SpendV
<1>3. QED
  BY <1>2, Zenon DEF Balance, Worth

LEMMA SpendVType ==
  ASSUME NEW po, NEW S, Counted(S), NEW o, NEW k
  PROVE  SpendV(S, po, o, k) \in [S -> Int] /\ QuantityIn(S) \in [S -> Int]
BY DEF SpendV, QuantityIn, Counted

\* The notes that were there lose what the inputs are worth.
LEMMA OldNotes ==
  ASSUME NEW po, NEW c, NEW t, NEW left, Consumes(po, c, t, left), NEW o \in Owners, NEW k,
         External \notin Owners
  PROVE  LET S == ToSet(po.commitments)
             now == Worth(po.commitments, SpendV(S, Submitted(po, t), o, k))
         IN  /\ now \in Int
             /\ Balance(po, o, k)
                  = now + IF c.from = o /\ c.kind = k THEN QuantityOf(t.nullifiers, k) ELSE 0
<1> DEFINE s == po.commitments
           S == ToSet(s)
           nfs == t.nullifiers
           n == Len(nfs)
           new == Submitted(po, t)
           V == SpendV(S, po, o, k)
           W == SpendV(S, new, o, k)
           mine == c.from = o /\ c.kind = k
           gone == IF mine THEN ToSet(nfs) ELSE {}
           D == [cm \in S |-> IF Nullifier(ResourceOf(cm)) \in gone
                              THEN ResourceOf(cm).quantity ELSE 0]
<1>1. /\ s \in Seq(S) /\ Distinct(s)
      /\ \A cm \in S : cm = Commitment(ResourceOf(cm)) /\ ResourceOf(cm).quantity \in Nat
  BY DEF Consumes, PoolOK, NoteOK, IsSeq
<1>2. /\ IsSeq(nfs) /\ Distinct(nfs) /\ n \in Nat /\ DOMAIN nfs = 1..n
      /\ ToSet(nfs) = {nfs[i] : i \in 1..n}
  BY IsSeqRange, IsSeqLength DEF Consumes, ConsumedOK
<1>3. ASSUME NEW i \in 1..n
      PROVE  LET r == ResourceOf(nfs[i])
             IN  /\ nfs[i] = Nullifier(r) /\ Kind(r) = c.kind
                 /\ nfs[i] \notin po.nullifiers
                 /\ r.is_ephemeral \/ (~r.is_ephemeral /\ r.owner = c.from /\ Commitment(r) \in S)
                 /\ c.from # External => ~r.is_ephemeral /\ r.owner = c.from /\ Commitment(r) \in S
  BY DEF Consumes, ConsumedOK, InputOK
<1>4. new.nullifiers = po.nullifiers \cup ToSet(nfs)
  BY SubmittedIs
<1>5. Counted(S)
  BY <1>1 DEF Counted
<1>6. V \in [S -> Int] /\ W \in [S -> Int] /\ QuantityIn(S) \in [S -> Int]
  BY <1>5, SpendVType
<1>7. D \in [S -> Int]
  BY <1>1
<1>8. Balance(po, o, k) = Worth(s, V)
  BY <1>1, BalanceIs
<1> HIDE DEF new, nfs, n
<1>9. ASSUME NEW cm \in S PROVE V[cm] = W[cm] + D[cm]
  <2> DEFINE r == ResourceOf(cm)
  <2>1. cm = Commitment(r) /\ r.quantity \in Nat
    BY <1>1
  <2>2. CASE IsSpendable(po, o, k, cm) /\ Nullifier(r) \in ToSet(nfs)
    <3>1. PICK i \in 1..n : Nullifier(r) = nfs[i]
      BY <1>2, <2>2
    <3>2. ResourceOf(nfs[i]) = r
      BY <3>1, Tags
    <3>3. ~r.is_ephemeral /\ r.owner = o /\ Kind(r) = k
      BY <2>2 DEF IsSpendable
    <3>4. mine
      BY <1>3, <3>2, <3>3
    <3>5. ~IsSpendable(new, o, k, cm)
      BY <1>4, <2>2 DEF IsSpendable
    <3>6. V[cm] = r.quantity /\ W[cm] = 0
      BY <2>2, <3>5 DEF SpendV
    <3>7. D[cm] = r.quantity
      BY <2>2, <3>4
    <3>8. QED
      BY <2>1, <3>6, <3>7
  <2>3. CASE ~IsSpendable(po, o, k, cm) /\ Nullifier(r) \in gone
    <3>1. PICK i \in 1..n : Nullifier(r) = nfs[i]
      BY <1>2, <2>3
    <3>2. ResourceOf(nfs[i]) = r /\ mine
      BY <2>3, <3>1, Tags
    <3>3. c.from # External
      BY <3>2
    <3>4. QED
      BY <1>3, <2>3, <3>1, <3>2, <3>3 DEF IsSpendable
  <2>4. CASE /\ Nullifier(r) \notin gone
             /\ ~(IsSpendable(po, o, k, cm) /\ Nullifier(r) \in ToSet(nfs))
    <3>1. D[cm] = 0
      BY <2>4
    <3>2. IsSpendable(new, o, k, cm) = IsSpendable(po, o, k, cm)
      BY <1>4, <2>4 DEF IsSpendable
    <3>3. V[cm] = W[cm]
      BY <3>2 DEF SpendV
    <3>4. W[cm] \in Int
      BY <1>6
    <3>5. QED
      BY <3>1, <3>3, <3>4
  <2>5. QED
    BY <2>2, <2>3, <2>4
<1>10. Worth(s, V) = Worth(s, W) + Worth(s, D) /\ Worth(s, W) \in Int /\ Worth(s, D) \in Int
  <2> HIDE DEF V, W, D, S
  <2>1. WorthsAdd(S, V, W, D)
    BY <1>6, <1>7, <1>9, Zenon DEF WorthsAdd
  <2>2. QED
    BY <1>1, <1>6, <1>7, <2>1, WorthPlus, WorthsAreNumbers
<1>11. CASE mine
  <2> DEFINE u == [i \in 1..n |-> Commitment(ResourceOf(nfs[i]))]
             Q == QuantityIn(S)
  <2>1. c.from # External
    BY <1>11
  <2>2. \A i \in 1..n : u[i] \in S
    BY <1>3, <2>1
  <2>3. u \in Seq(S) /\ Len(u) = n /\ DOMAIN u = 1..n
    <3>1. u \in [1..n -> S]
      BY <2>2
    <3> HIDE DEF u
    <3>2. QED
      BY <1>2, <3>1, FunctionIsSeq
  <2>4. Distinct(u)
    <3>1. ASSUME NEW i \in 1..n, NEW j \in 1..n, u[i] = u[j] PROVE i = j
      <4>1. ResourceOf(u[i]) = ResourceOf(nfs[i]) /\ ResourceOf(u[j]) = ResourceOf(nfs[j])
        BY Tags
      <4>2. nfs[i] = nfs[j]
        BY <1>3, <3>1, <4>1
      <4>3. QED
        BY <1>2, <4>2 DEF Distinct, n
    <3> HIDE DEF u
    <3>2. QED
      BY <2>3, <3>1 DEF Distinct
  <2>5. ToSet(u) = {u[i] : i \in 1..n}
    <3> HIDE DEF u
    <3>1. QED
      BY <2>3, SeqIsSeq
  <2>6. ToSet(u) \subseteq ToSet(s)
    BY <2>2, <2>5
  <2>7. D = [cm \in S |-> IF cm \in ToSet(u) THEN Q[cm] ELSE 0]
    <3>1. SUFFICES ASSUME NEW cm \in S
                   PROVE  cm \in ToSet(u) <=> Nullifier(ResourceOf(cm)) \in ToSet(nfs)
      BY <1>11 DEF QuantityIn
    <3>2. cm = Commitment(ResourceOf(cm))
      BY <1>1
    <3>3. ASSUME NEW i \in 1..n
          PROVE  u[i] = cm <=> nfs[i] = Nullifier(ResourceOf(cm))
      <4>1. ResourceOf(u[i]) = ResourceOf(nfs[i])
        BY Tags
      <4>2. nfs[i] = Nullifier(ResourceOf(nfs[i]))
        BY <1>3
      <4>3. nfs[i] = Nullifier(ResourceOf(cm)) => ResourceOf(nfs[i]) = ResourceOf(cm)
        BY Tags
      <4>4. QED
        BY <3>2, <4>1, <4>2, <4>3
    <3>4. QED
      BY <1>2, <2>5, <3>3
  <2>8. Worth(s, D) = Worth(u, Q)
    <3>1. ToSet(u) \subseteq ToSet(s) /\ Q \in [S -> Int]
      BY <1>6, <2>6
    <3> HIDE DEF D, u, Q, S, s
    <3>2. Worth(s, [cm \in S |-> IF cm \in ToSet(u) THEN Q[cm] ELSE 0]) = Worth(u, Q)
      BY <1>1, <2>3, <2>4, <3>1, WorthPart
    <3>3. QED
      BY <2>7, <3>2, Zenon
  <2>9. Worth(u, Q) = QuantityOf(nfs, k)
    <3>1. ASSUME NEW i \in 1..n PROVE Q[u[i]] = Amount(nfs[i], k)
      <4>1. ResourceOf(u[i]) = ResourceOf(nfs[i])
        BY Tags
      <4>2. Kind(ResourceOf(nfs[i])) = k
        BY <1>3, <1>11
      <4>3. QED
        BY <2>2, <4>1, <4>2 DEF QuantityIn, Amount
    <3> HIDE DEF u, Q
    <3>2. [i \in DOMAIN u |-> Q[u[i]]] = [i \in DOMAIN nfs |-> Amount(nfs[i], k)]
      BY <1>2, <2>3, <3>1
    <3>3. QED
      BY <3>2, Zenon DEF Worth, QuantityOf
  <2>10. QED
    BY <1>8, <1>10, <1>11, <2>8, <2>9 DEF nfs, new
<1>12. CASE ~mine
  <2>1. \A i \in 1..Len(s) : Worths(s, D)[i] = 0
    BY <1>1, <1>12, ElementOfSeq, LenProperties DEF Worths
  <2> HIDE DEF D, S
  <2>2. IsNumbers(Worths(s, D)) /\ Len(Worths(s, D)) = Len(s) /\ Worth(s, D) = Total(Worths(s, D))
    BY <1>1, <1>7, WorthsAreNumbers
  <2>3. Worth(s, D) = 0
    BY <2>1, <2>2, TotalZero
  <2>4. QED
    BY <1>8, <1>10, <1>12, <2>3 DEF new, S
<1>13. QED
  BY <1>11, <1>12

\* The change is for who pays, the payment for who is paid.
LEMMA NewNotes ==
  ASSUME NEW po, NEW c \in Transfers, NEW t, NEW left \in Nat, Consumes(po, c, t, left),
         NEW o \in Owners, NEW k
  PROVE  LET S == ToSet(t.commitments)
         IN  Worth(t.commitments, SpendV(S, Submitted(po, t), o, k))
               = (IF c.from = o /\ c.kind = k THEN left ELSE 0)
                   + IF c.to = o /\ c.kind = k THEN c.amount ELSE 0
<1> DEFINE u == t.commitments
           S == ToSet(u)
           new == Submitted(po, t)
           V == SpendV(S, new, o, k)
           F == Worths(u, V)
           R(i) == ResourceOf(u[i])
<1>1. u \in Seq(S) /\ Len(u) \in Nat /\ S = {u[i] : i \in 1..Len(u)}
  BY IsSeqRange, IsSeqLength DEF Consumes, IsSeq
<1>2. ASSUME NEW i \in 1..Len(u)
      PROVE  /\ Kind(R(i)) = c.kind /\ R(i).quantity \in Nat
             /\ R(i).is_ephemeral = (R(i).owner = External)
             /\ Nullifier(R(i)) \notin new.nullifiers
  <2>1. Nullifier(R(i)) \notin new.nullifiers
    <3>1. Nullifier(R(i)) \notin po.nullifiers \cup ToSet(t.nullifiers)
      BY CreatedIsNew
    <3>2. QED
      BY <3>1, SubmittedIs, Zenon
  <2>2. QED
    BY <2>1 DEF Consumes, CreatedOK
<1>3. Counted(S)
  BY <1>1, <1>2 DEF Counted
<1>4. External \notin Owners /\ c.amount \in Nat
  BY KindsAre
<1>5. ASSUME NEW i \in 1..Len(u)
      PROVE  V[u[i]] = IF R(i).owner = o /\ c.kind = k THEN R(i).quantity ELSE 0
  <2>1. u[i] \in S
    BY <1>1
  <2>2. IsSpendable(new, o, k, u[i]) <=> R(i).owner = o /\ c.kind = k
    BY <1>2, <1>4 DEF IsSpendable
  <2>3. QED
    BY <2>1, <2>2 DEF SpendV
<1>6. /\ IsNumbers(F) /\ Len(F) = Len(u) /\ Worth(u, V) = Total(F)
      /\ \A i \in 1..Len(u) : F[i] = V[u[i]]
  <2>1. V \in [S -> Int]
    BY <1>3, SpendVType
  <2> HIDE DEF V, S, u
  <2>2. QED
    BY <1>1, <2>1, WorthsAreNumbers
<1>7. /\ Len(u) = Changed(left) + PaidTo(c)
      /\ left > 0 => R(1).owner = c.from /\ R(1).quantity = left
      /\ c.to # Unknown => /\ R(Changed(left) + 1).owner = c.to
                           /\ R(Changed(left) + 1).quantity = c.amount
  BY Zenon DEF Consumes, CreatedOK
<1> DEFINE change == IF c.from = o /\ c.kind = k THEN left ELSE 0
           payment == IF c.to = o /\ c.kind = k THEN c.amount ELSE 0
<1>8. c.to = Unknown => payment = 0
  BY KindsAre
<1>9. left = 0 => change = 0
  OBVIOUS
<1> HIDE DEF V, F, u, new, S
<1>10. \/ left > 0 /\ c.to # Unknown /\ Len(u) = 2 /\ F[1] = change /\ F[2] = payment
       \/ left > 0 /\ c.to = Unknown /\ Len(u) = 1 /\ F[1] = change
       \/ left = 0 /\ c.to # Unknown /\ Len(u) = 1 /\ F[1] = payment
       \/ left = 0 /\ c.to = Unknown /\ Len(u) = 0
  <2>1. CASE left > 0 /\ c.to # Unknown
    <3>1. Changed(left) = 1 /\ PaidTo(c) = 1
      BY <2>1, Places
    <3>2. Len(u) = 2 /\ 1 \in 1..Len(u) /\ 2 \in 1..Len(u)
      BY <1>7, <3>1
    <3>3. R(2).owner = c.to /\ R(2).quantity = c.amount
      BY <1>7, <2>1, <3>1
    <3>4. QED
      BY <1>5, <1>6, <1>7, <2>1, <3>2, <3>3
  <2>2. CASE left > 0 /\ c.to = Unknown
    <3>1. Len(u) = 1 /\ 1 \in 1..Len(u)
      BY <1>7, <2>2, Places
    <3>2. QED
      BY <1>5, <1>6, <1>7, <2>2, <3>1
  <2>3. CASE left = 0 /\ c.to # Unknown
    <3>1. Changed(left) = 0 /\ PaidTo(c) = 1
      BY <2>3, Places
    <3>2. Len(u) = 1 /\ 1 \in 1..Len(u)
      BY <1>7, <3>1
    <3>3. R(1).owner = c.to /\ R(1).quantity = c.amount
      BY <1>7, <2>3, <3>1
    <3>4. QED
      BY <1>5, <1>6, <2>3, <3>2, <3>3
  <2>4. CASE left = 0 /\ c.to = Unknown
    BY <1>7, <2>4, Places
  <2>5. QED
    BY <2>1, <2>2, <2>3, <2>4
<1>11. change \in Nat /\ payment \in Nat
  BY <1>4
<1> HIDE DEF change, payment
<1>12. Total(F) = change + payment
  <2>1. CASE Len(u) = 2
    <3>1. Total(F) = F[1] + F[2]
      BY <1>6, <2>1, TotalShort
    <3>2. QED
      BY <1>10, <2>1, <3>1
  <2>2. CASE Len(u) = 1
    <3>1. Total(F) = F[1]
      BY <1>6, <2>2, TotalShort
    <3>2. QED
      BY <1>8, <1>9, <1>10, <1>11, <2>2, <3>1
  <2>3. CASE Len(u) = 0
    <3>1. Total(F) = 0
      BY <1>6, <2>3, TotalZero
    <3>2. QED
      BY <1>8, <1>9, <1>10, <2>3, <3>1
  <2>4. QED
    BY <1>10, <2>1, <2>2, <2>3
<1>13. QED
  BY <1>6, <1>12 DEF V, u, new, S, change, payment

Covers(t, c, left) == QuantityOf(t.nullifiers, c.kind) = c.amount + left

LEMMA BalanceMoves ==
  ASSUME NEW po, NEW c \in Transfers, NEW t, NEW left \in Nat, Consumes(po, c, t, left),
         Covers(t, c, left),
         NEW o \in Owners, NEW k \in Kinds
  PROVE  Balance(Submitted(po, t), o, k)
           = Balance(po, o, k) + (IF c.to = o /\ c.kind = k THEN c.amount ELSE 0)
               - (IF c.from = o /\ c.kind = k THEN c.amount ELSE 0)
<1> DEFINE s == po.commitments
           u == t.commitments
           S == ToSet(s) \cup ToSet(u)
           new == Submitted(po, t)
           V(X) == SpendV(X, new, o, k)
<1>1. /\ IsSeq(s) /\ IsSeq(u) /\ s \in Seq(S) /\ u \in Seq(S)
      /\ s \in Seq(ToSet(s)) /\ u \in Seq(ToSet(u))
  <2>1. IsSeq(s) /\ IsSeq(u)
    BY DEF Consumes, PoolOK
  <2>2. QED
    BY <2>1, SeqMonotonic DEF IsSeq
<1>2. new.commitments = s \o u
  BY SubmittedIs
<1>3. Counted(S)
  <2>1. Counted(ToSet(s))
    BY DEF Counted, Consumes, PoolOK, NoteOK
  <2>2. ASSUME NEW cm \in ToSet(u) PROVE ResourceOf(cm).quantity \in Nat
    <3>1. PICK i \in 1..Len(u) : u[i] = cm
      BY <1>1, IsSeqRange
    <3>2. QED
      BY <3>1 DEF Consumes, CreatedOK
  <2>3. QED
    BY <2>1, <2>2 DEF Counted
<1>4. c.amount \in Nat /\ External \notin Owners
  BY KindsAre
<1>5. /\ Worth(s, V(ToSet(s))) \in Int
      /\ Balance(po, o, k) = Worth(s, V(ToSet(s)))
           + IF c.from = o /\ c.kind = k THEN c.amount + left ELSE 0
  <2>1. /\ Worth(s, V(ToSet(s))) \in Int
        /\ Balance(po, o, k) = Worth(s, V(ToSet(s)))
             + IF c.from = o /\ c.kind = k THEN QuantityOf(t.nullifiers, k) ELSE 0
    BY <1>4, OldNotes
  <2> HIDE DEF V
  <2>2. QED
    BY <2>1 DEF Covers
<1>6. Worth(u, V(ToSet(u)))
        = (IF c.from = o /\ c.kind = k THEN left ELSE 0)
            + IF c.to = o /\ c.kind = k THEN c.amount ELSE 0
  BY NewNotes
<1>7. Worth(s, V(S)) = Worth(s, V(ToSet(s))) /\ Worth(u, V(S)) = Worth(u, V(ToSet(u)))
  <2>1. \A i \in 1..Len(s) : V(S)[s[i]] = V(ToSet(s))[s[i]]
    BY <1>1, ElementOfSeq DEF SpendV
  <2>2. \A i \in 1..Len(u) : V(S)[u[i]] = V(ToSet(u))[u[i]]
    BY <1>1, ElementOfSeq DEF SpendV
  <2> HIDE DEF V, S
  <2>3. QED
    BY <1>1, <2>1, <2>2, WorthSame
<1>8. Balance(new, o, k) = Worth(s, V(S)) + Worth(u, V(S))
  <2>1. V(S) \in [S -> Int]
    BY <1>3, SpendVType
  <2>2. s \o u \in Seq(S) /\ Worth(s \o u, V(S)) = Worth(s, V(S)) + Worth(u, V(S))
    <3> HIDE DEF V, S
    <3>1. QED
      BY <1>1, <2>1, WorthConcat
  <2>3. Balance(new, o, k) = Worth(new.commitments, V(S))
    <3> HIDE DEF S, new
    <3>1. new.commitments \in Seq(S)
      BY <1>2, <2>2
    <3>2. QED
      BY <3>1, BalanceIs
  <2>4. QED
    BY <1>2, <2>2, <2>3, Zenon
<1> HIDE DEF V, new, s, u
<1>9. QED
  BY <1>4, <1>5, <1>6, <1>7, <1>8 DEF new

-----------------------------------------------------------------------------
(* Every copy is a pool that its process can pay from. *)

PoolsOK == \A p \in Procs : PoolOK(pool[p])

\* The random nonce of a process is not used before it transfers.
SeedsOK ==
  \A p \in Procs : pc[p] \in {"idle", "read"} => \A q \in Procs : Fresh(p, pool[q])

CommandsOK == DOMAIN cmd = Procs /\ \A p \in Procs : pc[p] = "read" => cmd[p] \in Transfers

NotesInv ==
  /\ PoolsOK
  /\ SeedsOK
  /\ CommandsOK
  /\ RefusedIffNobodyIsPaid

Outs(p, ins) == Change(p, ins) \o Payment(p)

\* What a process builds from the pool it read.  It balances unless nobody is paid,
\* and the imbalance is all that the pool can object to.
Lost(c) == c.to = Unknown /\ c.amount > 0

LEMMA Builds ==
  ASSUME NotesInv, NEW p \in Procs, pc[p] = "read", Pays(Inputs(p), cmd[p].amount)
  PROVE  LET ins == Inputs(p)
             t == Transaction(ins, Outs(p, ins))
             left == Paid(ins) - cmd[p].amount
         IN  /\ cmd[p] \in Transfers /\ left \in Nat
             /\ Consumes(pool[p], cmd[p], t, left)
             /\ Covers(t, cmd[p], left)
             /\ Accepts(p, t) <=> ~Lost(cmd[p])
             /\ \A nf \in ToSet(t.nullifiers) : ResourceOf(nf).nonce.seed \in {NoSeed, p}
<1> DEFINE ins == Inputs(p)
           outs == Outs(p, ins)
           t == Transaction(ins, outs)
           left == Paid(ins) - cmd[p].amount
           po == pool[p]
           c == cmd[p]
<1>1. c \in Transfers /\ PoolOK(po) /\ Fresh(p, po) /\ {EmptyRoot, Root(po.commitments)} \subseteq po.anchors
  BY DEF NotesInv, PoolsOK, SeedsOK, CommandsOK, PoolOK
<1>2. IF c.from = External THEN ins = <<TransparentInput(p, c.amount, c.kind)>>
      ELSE LET notes == Selected(po, c.from, c.kind, c.amount)
           IN  ins = [i \in DOMAIN notes |-> ShieldedInput(notes[i], po.commitments)]
  <2>1. c.from # Unknown
    <3>1. SUFFICES ASSUME c.from = Unknown PROVE FALSE
      OBVIOUS
    <3>2. Unknown # External
      BY PoolFileAssumption DEF PoolFileAssumption
    <3>3. Inputs(p) = <<>>
      BY <3>1, <3>2 DEF Inputs
    <3>4. Len(Inputs(p)) = 0
      BY <3>3
    <3>5. QED
      BY <3>4, ResourcesAssumption DEF Pays, ResourcesAssumption
  <2>2. QED
    BY <2>1 DEF Inputs
<1> HIDE DEF ins
<1>3. InputsOK(po, c, ins)
  <2> HIDE DEF po, c
  <2>1. CASE c.from = External
    BY <1>1, <1>2, <2>1, PaysTransparently
  <2>2. CASE c.from # External
    BY <1>1, <1>2, <2>2, PaysFromNotes
  <2>3. QED
    BY <2>1, <2>2
<1>4. Pays(ins, c.amount)
  BY DEF ins
<1>5. left \in Nat /\ OutputsOK(c, left, outs)
  BY <1>1, <1>3, <1>4, OutputsAre DEF Outs
<1>6. IsSeq(ins) /\ IsSeq(outs) /\ Len(ins) \in Nat \ {0}
  <2>1. IsSeq(ins) /\ IsSeq(outs)
    BY <1>3, <1>5 DEF InputsOK, OutputsOK
  <2>2. Len(ins) \in 1..MaxConsumed
    BY <1>4 DEF Pays
  <2>3. QED
    BY <2>1, <2>2, ResourcesAssumption DEF ResourcesAssumption
<1>7. c.amount \in Nat /\ Paid(ins) \in Nat
  BY <1>1, <1>3, KindsAre, PaidIs
<1>8. Paid(ins) = c.amount + left
  <2> DEFINE all == Paid(ins)
             a == c.amount
  <2> HIDE DEF all, a
  <2>1. all \in Nat /\ a \in Nat
    BY <1>7 DEF all, a
  <2>2. all = a + (all - a)
    BY <2>1
  <2>3. QED
    BY <2>2 DEF all, a
<1> HIDE DEF outs, left
<1>9. Parts(t, ins, outs) /\ Instances(t)
  BY <1>6, PartsAre
<1> HIDE DEF t, po, c
<1>10. ConsumedOK(po, c, t) /\ CreatedOK(t, c, left)
  BY <1>1, <1>3, <1>5, <1>9, ConsumedIs, CreatedIs
<1>11. IsSeq(t.commitments) /\ Len(t.nullifiers) = Len(ins)
  BY <1>9 DEF Parts
<1>12. Consumes(po, c, t, left)
  BY <1>1, <1>6, <1>10, <1>11 DEF Consumes
<1>13. \A k : /\ QuantityOf(t.nullifiers, k) = IF k = c.kind THEN Paid(ins) ELSE 0
             /\ QuantityOf(t.commitments, k) =
                  IF k = c.kind THEN left + (IF c.to = Unknown THEN 0 ELSE c.amount) ELSE 0
  <2>1. ASSUME NEW k PROVE QuantityOf(t.nullifiers, k) = IF k = c.kind THEN Paid(ins) ELSE 0
    BY <1>3, <1>9, ConsumedSum
  <2>2. ASSUME NEW k
        PROVE  QuantityOf(t.commitments, k) =
                 IF k = c.kind THEN left + (IF c.to = Unknown THEN 0 ELSE c.amount) ELSE 0
    BY <1>1, <1>5, <1>10, <1>11, CreatedSum
  <2>3. QED
    BY <2>1, <2>2, Zenon
<1>14. Balanced(t) <=> ~Lost(c)
  <2> DEFINE paid == IF c.to = Unknown THEN 0 ELSE c.amount
  <2>1. paid \in Nat /\ (c.amount = paid <=> ~Lost(c))
    BY <1>7 DEF Lost
  <2>2. ASSUME NEW k PROVE Delta(t, k) = IF k = c.kind THEN c.amount - paid ELSE 0
    <3>1. /\ QuantityOf(t.nullifiers, k) = IF k = c.kind THEN c.amount + left ELSE 0
          /\ QuantityOf(t.commitments, k) = IF k = c.kind THEN left + paid ELSE 0
      BY <1>8, <1>13, Zenon
    <3> HIDE DEF paid
    <3>2. QED
      BY <1>5, <1>7, <2>1, <3>1 DEF Delta
  <2>3. c.kind \in Kinds
    BY <1>1, KindsAre
  <2> HIDE DEF paid
  <2>4. QED
    BY <1>7, <2>1, <2>2, <2>3 DEF Balanced
<1>15. Covers(t, c, left)
  BY <1>8, <1>13, Zenon DEF Covers
<1>16. Accepts(p, t) <=> ~Lost(c)
  <2>1. CASE ~Lost(c)
    <3>1. Check(t, po.anchors, LogicRefs) = "ok" /\ ToSet(t.nullifiers) \cap po.nullifiers = {}
      BY <1>1, <1>5, <1>9, <1>10, <1>11, <1>14, <2>1, Checked
    <3>2. QED
      BY <2>1, <3>1 DEF Accepts, po
  <2>2. CASE Lost(c)
    <3>1. Check(t, po.anchors, LogicRefs) = "InvalidSignature"
      BY <1>14, <2>2, Zenon DEF Check
    <3>2. QED
      BY <2>2, <3>1 DEF Accepts, po
  <2>3. QED
    BY <2>1, <2>2
<1>17. ASSUME NEW nf \in ToSet(t.nullifiers)
       PROVE  ResourceOf(nf).nonce.seed \in {NoSeed, p}
  <2>1. PICK i \in 1..Len(ins) : t.nullifiers[i] = nf
    <3>1. IsSeq(t.nullifiers)
      BY <1>10 DEF ConsumedOK
    <3>2. QED
      BY <1>11, <3>1, IsSeqRange
  <2>2. ResourceOf(nf) = ins[i].resource
    BY <1>9, <2>1, Tags DEF Parts
  <2>3. CASE c.from = External
    <3>1. ins = <<TransparentInput(p, c.amount, c.kind)>>
      BY <1>2, <2>3
    <3>2. \A j \in DOMAIN ins : ins[j].resource.nonce.seed = p
      BY <3>1 DEF TransparentInput, RandomNonce
    <3>3. i \in DOMAIN ins
      BY <1>6, IsSeqLength
    <3>4. QED
      BY <2>2, <3>2, <3>3
  <2>4. CASE c.from # External
    BY <1>3, <2>2, <2>4 DEF InputsOK, InputOK
  <2>5. QED
    BY <2>3, <2>4
<1>18. QED
  BY <1>1, <1>5, <1>12, <1>15, <1>16, <1>17 DEF t, po, c, left, outs, ins

\* A process that does not build leaves what is known of the pools.
LEMMA NotesStay ==
  ASSUME IInv, NotesInv, NEW p \in Procs, NEW label, label \notin {"idle", "read", "rejected"},
         label \in {"submitted", "open", "saved"} => pc[p] \in {"submitted", "open"},
         Goto(p, label), pool' = pool, cmd' = cmd
  PROVE  NotesInv'
<1>1. pc' = [pc EXCEPT ![p] = label] /\ pc \in [Procs -> Labels]
  BY DEF Goto, IInv, ControlOK
<1>2. \A q \in Procs : pc'[q] \in {"idle", "read", "rejected"} => pc'[q] = pc[q]
  BY <1>1
<1>3. PoolsOK'
  BY DEF NotesInv, PoolsOK, PoolOK, NoteOK, SpentOK, Fresh
<1>4. SeedsOK'
  BY <1>2 DEF NotesInv, SeedsOK, Fresh
<1>5. CommandsOK'
  BY <1>2 DEF NotesInv, CommandsOK
<1>6. RefusedIffNobodyIsPaid'
  <2>1. \A q \in Procs : pc'[q] = IF q = p THEN label ELSE pc[q]
    BY <1>1
  <2>2. QED
    BY <2>1 DEF NotesInv, RefusedIffNobodyIsPaid
<1>7. QED
  BY <1>3, <1>4, <1>5, <1>6 DEF NotesInv

LEMMA NewPoolOK == PoolOK(NewPool) /\ \A s : Fresh(s, NewPool)
<1>1. /\ NewPool.commitments = <<>> /\ NewPool.nullifiers = {}
      /\ NewPool.anchors = {EmptyRoot}
  BY DEF NewPool
<1>2. IsSeq(<<>>) /\ Distinct(<<>>) /\ ToSet(<<>>) = {} /\ Root(<<>>) = EmptyRoot
  BY EmptyIsSeq DEF Distinct, ToSet, EmptyRoot
<1>3. QED
  BY <1>1, <1>2 DEF PoolOK, Fresh

LEMMA NotesInit == Init => NotesInv
<1> SUFFICES ASSUME Init PROVE NotesInv
  OBVIOUS
<1>1. \A p \in Procs : pool[p] = NewPool /\ pc[p] = "idle"
  BY DEF Init
<1>2. PoolsOK /\ SeedsOK
  BY <1>1, NewPoolOK DEF PoolsOK, SeedsOK
<1>3. CommandsOK /\ RefusedIffNobodyIsPaid
  BY <1>1 DEF CommandsOK, RefusedIffNobodyIsPaid, Init
<1>4. QED
  BY <1>2, <1>3 DEF NotesInv

LEMMA NotesRead ==
  ASSUME IInv, NotesInv, NEW p \in Procs, NEW t \in Transfers, Read(p, t)
  PROVE  NotesInv'
<1> DEFINE copy == IF Readable /\ file # Absent THEN file ELSE NewPool
<1>1. /\ pc[p] = "idle" /\ cmd' = [cmd EXCEPT ![p] = t] /\ pool' = [pool EXCEPT ![p] = copy]
      /\ ControlOK /\ DOMAIN pool = Procs /\ pc \in [Procs -> Labels]
  BY DEF Read, IInv, ControlOK
<1>2. PICK label \in {"read", "failed"} : pc' = [pc EXCEPT ![p] = label]
  BY DEF Read, Goto
<1>3. copy = NewPool \/ \E q \in Procs : copy = pool[q]
  BY <1>1 DEF ControlOK, Readable
<1> HIDE DEF copy
<1>4. PoolOK(copy) /\ \A q \in Procs : pc[q] \in {"idle", "read"} => Fresh(q, copy)
  BY <1>3, NewPoolOK DEF NotesInv, PoolsOK, SeedsOK
<1>5. \A q \in Procs : pool'[q] = IF q = p THEN copy ELSE pool[q]
  BY <1>1
<1>6. \A q \in Procs : /\ q # p => pc'[q] = pc[q]
                       /\ pc'[p] = label
  BY <1>1, <1>2
<1>7. \A q \in Procs : PoolOK(pool'[q])
  BY <1>4, <1>5 DEF NotesInv, PoolsOK
<1>8. PoolsOK'
  BY <1>7 DEF PoolsOK, PoolOK, NoteOK, SpentOK
<1>9. ASSUME NEW q \in Procs, pc'[q] \in {"idle", "read"}, NEW r \in Procs
      PROVE  Fresh(q, pool'[r])
  <2>1. pc[q] \in {"idle", "read"}
    BY <1>1, <1>6, <1>9
  <2>2. QED
    BY <1>4, <1>5, <2>1 DEF NotesInv, SeedsOK
<1>10. SeedsOK'
  BY <1>9 DEF SeedsOK, Fresh
<1>11. CommandsOK'
  BY <1>1, <1>6 DEF NotesInv, CommandsOK
<1>12. RefusedIffNobodyIsPaid'
  <2>1. ASSUME NEW q \in Procs \ {p} PROVE pc'[q] = pc[q] /\ cmd'[q] = cmd[q]
    BY <1>1, <1>6 DEF NotesInv, CommandsOK
  <2>2. pc'[p] \notin {"rejected", "submitted", "open", "saved"}
    BY <1>2, <1>6
  <2>3. QED
    BY <2>1, <2>2 DEF NotesInv, RefusedIffNobodyIsPaid
<1>13. QED
  BY <1>8, <1>10, <1>11, <1>12 DEF NotesInv

\* A transfer that has enough notes is accepted, unless nobody is paid.
LEMMA NotesTransfer ==
  ASSUME IInv, NotesInv, NEW p \in Procs, Transfer(p)
  PROVE  NotesInv'
<1> DEFINE ins == Inputs(p)
           t == Transaction(ins, Outs(p, ins))
           left == Paid(ins) - cmd[p].amount
<1>1. /\ pc[p] = "read" /\ cmd' = cmd /\ DOMAIN pool = Procs /\ pc \in [Procs -> Labels]
      /\ \/ Goto(p, "failed") /\ pool' = pool
         \/ /\ Pays(ins, cmd[p].amount)
            /\ IF Accepts(p, t)
               THEN pool' = [pool EXCEPT ![p] = Submitted(@, t)] /\ Goto(p, "submitted")
               ELSE pool' = pool /\ Goto(p, "rejected")
  BY DEF Transfer, Outs, IInv, ControlOK
<1>2. CASE Goto(p, "failed") /\ pool' = pool
  <2>1. "failed" \notin {"idle", "read", "rejected", "submitted", "open", "saved"}
    OBVIOUS
  <2>2. QED
    BY <1>1, <1>2, <2>1, NotesStay
<1>3. CASE ~(Goto(p, "failed") /\ pool' = pool) /\ ~Lost(cmd[p])
  <2>1. /\ Consumes(pool[p], cmd[p], t, left) /\ Accepts(p, t)
        /\ \A nf \in ToSet(t.nullifiers) : ResourceOf(nf).nonce.seed \in {NoSeed, p}
    BY <1>1, <1>3, Builds
  <2> HIDE DEF t, left
  <2>2. /\ pool' = [pool EXCEPT ![p] = Submitted(pool[p], t)]
        /\ pc' = [pc EXCEPT ![p] = "submitted"]
    BY <1>1, <1>3, <2>1 DEF Goto
  <2>3. \A q \in Procs : pool'[q] = IF q = p THEN Submitted(pool[p], t) ELSE pool[q]
    BY <1>1, <2>2
  <2>4. \A q \in Procs : pc'[q] = IF q = p THEN "submitted" ELSE pc[q]
    BY <1>1, <2>2
  <2>5. PoolOK(Submitted(pool[p], t))
    BY <2>1, PoolStays
  <2>6. \A q \in Procs : PoolOK(pool'[q])
    BY <2>3, <2>5 DEF NotesInv, PoolsOK
  <2>7. PoolsOK'
    BY <2>6 DEF PoolsOK, PoolOK, NoteOK, SpentOK
  <2>8. ASSUME NEW q \in Procs, pc'[q] \in {"idle", "read"}, NEW r \in Procs
        PROVE  Fresh(q, pool'[r])
    <3>1. q # p /\ pc[q] \in {"idle", "read"}
      BY <2>4, <2>8
    <3>2. Fresh(q, pool[r])
      BY <3>1 DEF NotesInv, SeedsOK
    <3>3. Fresh(q, Submitted(pool[p], t))
      <4>1. Fresh(q, pool[p])
        BY <3>1 DEF NotesInv, SeedsOK
      <4>2. Submitted(pool[p], t).nullifiers = pool[p].nullifiers \cup ToSet(t.nullifiers)
        BY SubmittedIs
      <4>3. q \in Seeds /\ NoSeed \notin Seeds
        BY ResourcesAssumption, PoolFileAssumption DEF ResourcesAssumption, PoolFileAssumption
      <4>4. QED
        BY <2>1, <3>1, <4>1, <4>2, <4>3 DEF Fresh
    <3>4. QED
      BY <2>3, <3>2, <3>3
  <2>9. SeedsOK'
    BY <2>8 DEF SeedsOK, Fresh
  <2>10. CommandsOK' /\ RefusedIffNobodyIsPaid'
    BY <1>1, <1>3, <2>4 DEF NotesInv, CommandsOK, RefusedIffNobodyIsPaid, Lost
  <2>11. QED
    BY <2>7, <2>9, <2>10 DEF NotesInv
<1>4. CASE ~(Goto(p, "failed") /\ pool' = pool) /\ Lost(cmd[p])
  <2>1. pool' = pool /\ Goto(p, "rejected")
    BY <1>1, <1>4, Builds
  <2>2. \A q \in Procs : pc'[q] = IF q = p THEN "rejected" ELSE pc[q]
    BY <1>1, <2>1 DEF Goto
  <2>3. PoolsOK'
    BY <2>1 DEF NotesInv, PoolsOK, PoolOK, NoteOK, SpentOK, Fresh
  <2>4. SeedsOK'
    BY <2>1, <2>2 DEF NotesInv, SeedsOK, Fresh
  <2>5. CommandsOK' /\ RefusedIffNobodyIsPaid'
    BY <1>1, <1>4, <2>2 DEF NotesInv, CommandsOK, RefusedIffNobodyIsPaid, Lost
  <2>6. QED
    BY <2>3, <2>4, <2>5 DEF NotesInv
<1>5. QED
  BY <1>2, <1>3, <1>4

LEMMA NotesNext == IInv /\ NotesInv /\ [Next]_vars => NotesInv'
<1> SUFFICES ASSUME IInv, NotesInv, [Next]_vars PROVE NotesInv'
  OBVIOUS
<1>1. ASSUME NEW p \in Procs, NEW t \in Transfers, Read(p, t) PROVE NotesInv'
  BY <1>1, NotesRead
<1>2. ASSUME NEW p \in Procs, Transfer(p) PROVE NotesInv'
  BY <1>2, NotesTransfer
<1>3. ASSUME NEW p \in Procs, Open(p) \/ Save(p) \/ Crash(p) PROVE NotesInv'
  <2>1. /\ pool' = pool /\ cmd' = cmd
        /\ \E label \in {"open", "saved", "crashed"} :
             /\ Goto(p, label)
             /\ label # "crashed" => pc[p] \in {"submitted", "open"}
    BY <1>3 DEF Open, Save, Crash
  <2>2. \A label \in {"open", "saved", "crashed"} : label \notin {"idle", "read", "rejected"}
    OBVIOUS
  <2>3. QED
    BY <2>1, <2>2, NotesStay
<1>4. CASE UNCHANGED vars
  <2>1. pool' = pool /\ cmd' = cmd /\ pc' = pc
    BY <1>4 DEF vars
  <2>2. QED
    BY <2>1 DEF NotesInv, PoolsOK, PoolOK, NoteOK, SpentOK, SeedsOK, Fresh, CommandsOK, RefusedIffNobodyIsPaid
<1>5. QED
  BY <1>1, <1>2, <1>3, <1>4 DEF Next

\* It also keeps what the notes of every pool, the command's unused seeds and the
\* commands themselves must be for submit to accept what a transfer builds.
THEOREM PoolsInvariant == Spec => [](IInv /\ NotesInv)
<1>1. Init => IInv /\ NotesInv
  BY InitOK, NotesInit
<1>2. IInv /\ NotesInv /\ [Next]_vars => (IInv /\ NotesInv)'
  BY NextOK, NotesNext
<1>3. QED
  BY <1>1, <1>2, PTL DEF Spec

-----------------------------------------------------------------------------
(* The results. *)

\* The file is one of the pools that were saved, unless it is missing, emptied or
\* torn; what a command submitted is the last transaction of its copy (main.rs:361
\* to 489).
THEOREM TypeCorrect == Spec => []TypeOK
<1>1. IInv => TypeOK
  BY DEF IInv, ControlOK, TypeOK, Labels, Active
<1>2. QED
  BY <1>1, Invariant, PTL

\* However commands interleave and are killed, a transfer that was saved is in the
\* file as long as the file is readable, unless a command that had read the file
\* before saved after it (main.rs:361 reads, 489 writes, nothing locks).
THEOREM TransfersStayHolds == Spec => []TransfersStay
<1>1. IInv => TransfersStay
  BY DEF IInv, FileOK, TransfersStay, Recorded, Overwritten
<1>2. QED
  BY <1>1, Invariant, PTL

\* The file is unreadable only while a command writes it, after one was killed
\* writing it, or after two had it open at the same time (main.rs:489).
THEOREM UnreadableOnlyByChanceHolds == Spec => []UnreadableOnlyByChance
<1>1. IInv => UnreadableOnlyByChance
  BY DEF IInv
<1>2. QED
  BY <1>1, Invariant, PTL

\* Whatever was transferred before, by whom and in which order: what a command builds
\* from the pool it read is accepted by its copy if somebody is paid or nothing is to
\* be paid, and refused otherwise (main.rs:463 to 486).
THEOREM RefusedIffNobodyIsPaidHolds == Spec => []RefusedIffNobodyIsPaid
<1>1. IInv /\ NotesInv => RefusedIffNobodyIsPaid
  BY DEF NotesInv
<1>2. QED
  BY <1>1, PoolsInvariant, PTL

\* A transfer changes the balances that clients compute (main.rs:504 to 520) by
\* its amount and no other.
THEOREM MovesAmountHolds == Spec => MovesAmount
<1> DEFINE Moves(p) ==
      pc[p] = "read" /\ pc'[p] = "submitted" =>
        \A o \in Owners : \A k \in Kinds :
          Balance(pool'[p], o, k) =
            Balance(pool[p], o, k)
              + (IF cmd[p].to = o /\ cmd[p].kind = k THEN cmd[p].amount ELSE 0)
              - (IF cmd[p].from = o /\ cmd[p].kind = k THEN cmd[p].amount ELSE 0)
<1>1. IInv /\ NotesInv /\ [Next]_vars => [\A p \in Procs : Moves(p)]_vars
  <2> SUFFICES ASSUME IInv, NotesInv, [Next]_vars, NEW p \in Procs,
                      pc[p] = "read", pc'[p] = "submitted"
               PROVE  \A o \in Owners : \A k \in Kinds :
                        Balance(pool'[p], o, k) =
                          Balance(pool[p], o, k)
                            + (IF cmd[p].to = o /\ cmd[p].kind = k THEN cmd[p].amount ELSE 0)
                            - (IF cmd[p].from = o /\ cmd[p].kind = k THEN cmd[p].amount ELSE 0)
    OBVIOUS
  <2> DEFINE ins == Inputs(p)
             t == Transaction(ins, Outs(p, ins))
             left == Paid(ins) - cmd[p].amount
  <2>1. pc \in [Procs -> Labels] /\ DOMAIN pool = Procs
    BY DEF IInv, ControlOK
  <2>2. Transfer(p)
    <3>1. Next
      BY DEF vars
    <3>2. PICK q \in Procs : \/ \E c \in Transfers : Read(q, c)
                             \/ Transfer(q) \/ Open(q) \/ Save(q) \/ Crash(q)
      BY <3>1 DEF Next
    <3>3. \E label : pc' = [pc EXCEPT ![q] = label]
      BY <3>2 DEF Read, Transfer, Open, Save, Crash, Goto
    <3>4. q = p
      BY <2>1, <3>3
    <3>5. QED
      BY <2>1, <3>2, <3>4 DEF Read, Open, Save, Crash, Goto
  <2>3. Pays(ins, cmd[p].amount) /\ pool' = [pool EXCEPT ![p] = Submitted(@, t)]
    BY <2>1, <2>2 DEF Transfer, Outs, Goto
  <2>4. /\ cmd[p] \in Transfers /\ left \in Nat /\ Consumes(pool[p], cmd[p], t, left)
        /\ Covers(t, cmd[p], left)
    BY <2>3, Builds
  <2> HIDE DEF t, left
  <2>5. pool'[p] = Submitted(pool[p], t)
    BY <2>1, <2>3, <2>4
  <2>6. QED
    BY <2>4, <2>5, BalanceMoves
<1>2. Spec => [][\A p \in Procs : Moves(p)]_vars
  <2>1. IInv /\ NotesInv /\ [Next]_vars => [\A p \in Procs : Moves(p)]_vars
    BY <1>1
  <2>2. QED
    BY <2>1, PoolsInvariant, PTL DEF Spec
<1>3. QED
  BY <1>2 DEF MovesAmount
=============================================================================
