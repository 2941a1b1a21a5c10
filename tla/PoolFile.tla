------------------------------ MODULE PoolFile ------------------------------
(***************************************************************************)
(* The transfer command of the client (nodes/src/main.rs).  Every command  *)
(* is a process of its own: it reads the pool from a file, synchronizes a  *)
(* client with it, pays from the notes it finds, submits the transaction   *)
(* to its copy of the pool, and writes the copy back.  Nothing locks the   *)
(* file, and writing empties it first.                                     *)
(*                                                                         *)
(* Submission to the copy is one step, since nothing else sees the copy.   *)
(***************************************************************************)
EXTENDS SubmitChecks

CONSTANTS
  Procs,         \* processes, each transfers once
  External,      \* stands for the transparent accounts
  Unknown,       \* a name that is neither an account nor an address
  Transfers,     \* what may be transferred: [from, to, kind, amount]
  MaxConcurrent  \* bound: processes that run at the same time

ASSUME PoolFileAssumption ==
  /\ Procs = Seeds
  /\ External \notin Owners /\ Unknown \notin Owners \cup {External}
  /\ \A t \in Transfers : {t.from, t.to} \subseteq Owners \cup {External, Unknown}
  /\ \A t \in Transfers : t.kind \in Kinds /\ t.amount \in Nat
  /\ MaxConcurrent \in Nat \ {0}

VARIABLES
  file,  \* a pool, or Absent, Empty or Torn
  pool,  \* the copy of every process
  cmd,   \* its transfer
  tx,    \* the transaction it built
  pc,    \* "idle", "read", "submitted", "open", then "saved", "failed",
         \* "rejected" or "crashed"
  log    \* history: reads, opens and saves, in order

vars == <<file, pool, cmd, tx, pc, log>>

NewPool ==
  [nullifiers |-> {}, commitments |-> <<>>, transactions |-> <<>>, anchors |-> {EmptyRoot}]

Absent == [file |-> "absent"]
Empty == [file |-> "empty"]
Torn == [file |-> "torn"]
Readable == file \notin {Empty, Torn}

NoTransfer == [from |-> External]
NoTransaction == Transaction(<<>>, <<>>)

Init ==
  /\ file = Absent
  /\ pool = [p \in Procs |-> NewPool]
  /\ cmd = [p \in Procs |-> NoTransfer]
  /\ tx = [p \in Procs |-> NoTransaction]
  /\ pc = [p \in Procs |-> "idle"]
  /\ log = <<>>

-----------------------------------------------------------------------------
(* What a client finds in a pool (ClientState.synchronize). *)

\* mutant: spent notes are not told from unspent ones
AnyNote(po, owner, kind, cm) ==
  LET r == ResourceOf(cm) IN ~r.is_ephemeral /\ r.owner = owner /\ Kind(r) = kind
IsSpendable(po, owner, kind, cm) ==
  LET r == ResourceOf(cm)
  IN  /\ ~r.is_ephemeral /\ r.owner = owner /\ Kind(r) = kind
      /\ Nullifier(r) \notin po.nullifiers

Value(notes) == Total([i \in DOMAIN notes |-> ResourceOf(notes[i]).quantity])

\* The notes an account can spend, added up.
Balance(po, owner, kind) ==
  Total([i \in DOMAIN po.commitments |->
           LET cm == po.commitments[i]
           IN  IF IsSpendable(po, owner, kind, cm) THEN ResourceOf(cm).quantity ELSE 0])

\* The loop over the note positions: it takes notes until they are worth the amount.
Selected(po, owner, kind, amount) ==
  LET taken[i \in 0..Len(po.commitments)] ==
        IF i = 0 THEN <<>>
        ELSE IF IsSpendable(po, owner, kind, po.commitments[i]) /\ Value(taken[i - 1]) < amount
        THEN Append(taken[i - 1], po.commitments[i])
        ELSE taken[i - 1]
  IN  taken[Len(po.commitments)]

-----------------------------------------------------------------------------
Goto(p, label) == pc' = [pc EXCEPT ![p] = label]
Note(event, p) == log' = Append(log, <<event, p>>)
Running == {p \in Procs : pc[p] \in {"read", "submitted", "open"}}

Read(p, t) ==
  /\ pc[p] = "idle"
  /\ Cardinality(Running) < MaxConcurrent
  /\ cmd' = [cmd EXCEPT ![p] = t]
  /\ \/ Readable /\ Goto(p, "read")
     \/ ~Readable /\ Goto(p, "failed")
  /\ pool' = [pool EXCEPT ![p] = IF Readable /\ file # Absent THEN file ELSE NewPool]
  /\ Note("read", p)
  /\ UNCHANGED <<file, tx>>

Output(account, kind, amount) ==
  [owner |-> account, logic_ref |-> kind[1], label_ref |-> kind[2],
   quantity |-> amount, is_ephemeral |-> account = External]

\* A name that is not known is no error: nothing is added for it.
Inputs(p) ==
  LET t == cmd[p]
      notes == Selected(pool[p], t.from, t.kind, t.amount)
  IN  CASE t.from = External -> <<TransparentInput(p, t.amount, t.kind)>>
        [] t.from = Unknown -> <<>>
        [] OTHER -> [i \in DOMAIN notes |-> ShieldedInput(notes[i], pool[p].commitments)]

Paid(ins) == Total([i \in DOMAIN ins |-> ins[i].resource.quantity])

\* mutant: what is left of the notes is not sent back
NoChange(p, ins) == <<>>
Change(p, ins) ==
  LET left == Paid(ins) - cmd[p].amount
  IN  IF left > 0 THEN <<Output(cmd[p].from, cmd[p].kind, left)>> ELSE <<>>

Payment(p) ==
  IF cmd[p].to = Unknown THEN <<>> ELSE <<Output(cmd[p].to, cmd[p].kind, cmd[p].amount)>>

\* The assertions and array bounds on the way to the transaction.
Pays(ins, amount) ==
  /\ Paid(ins) >= amount
  /\ Len(ins) \in 1..MaxConsumed

Accepts(p, t) ==
  /\ Check(t, pool[p].anchors, LogicRefs) = "ok"
  /\ ToSet(t.nullifiers) \cap pool[p].nullifiers = {}

\* mutant: the transaction is recorded as the first one
SubmittedFirst(po, t) ==
  [nullifiers |-> po.nullifiers \cup ToSet(t.nullifiers),
   commitments |-> po.commitments \o t.commitments,
   transactions |-> <<t>> \o po.transactions,
   anchors |-> po.anchors \cup {Root(po.commitments \o t.commitments)}]
Submitted(po, t) ==
  [nullifiers |-> po.nullifiers \cup ToSet(t.nullifiers),
   commitments |-> po.commitments \o t.commitments,
   transactions |-> Append(po.transactions, t),
   anchors |-> po.anchors \cup {Root(po.commitments \o t.commitments)}]

Transfer(p) ==
  /\ pc[p] = "read"
  /\ LET ins == Inputs(p)
         t == Transaction(ins, Change(p, ins) \o Payment(p))
     IN  \/ /\ ~Pays(ins, cmd[p].amount)
            /\ Goto(p, "failed")
            /\ UNCHANGED <<pool, tx>>
         \/ /\ Pays(ins, cmd[p].amount)
            /\ tx' = [tx EXCEPT ![p] = t]
            /\ IF Accepts(p, t)
               THEN pool' = [pool EXCEPT ![p] = Submitted(@, t)] /\ Goto(p, "submitted")
               ELSE UNCHANGED pool /\ Goto(p, "rejected")
  /\ UNCHANGED <<file, cmd, log>>

\* mutant: the file is opened as it is
OpenInPlace == UNCHANGED file
Truncate == file' = Empty

\* fs::write truncates the file and writes at its start.
Open(p) ==
  /\ pc[p] = "submitted"
  /\ Truncate
  /\ Goto(p, "open")
  /\ Note("open", p)
  /\ UNCHANGED <<pool, cmd, tx>>

\* mutant: what is written is not the copy that was submitted to
WriteOther(p) == file' \in {NewPool}
\* If another process wrote in between, its end may stay.
Write(p) == file' \in {pool[p]} \cup (IF file = Empty THEN {} ELSE {Torn})

Save(p) ==
  /\ pc[p] = "open"
  /\ Write(p)
  /\ Goto(p, "saved")
  /\ Note("saved", p)
  /\ UNCHANGED <<pool, cmd, tx>>

\* The process is killed, perhaps in the middle of writing.
Crash(p) ==
  /\ p \in Running
  /\ IF pc[p] = "open" THEN file' \in {file, Torn} ELSE UNCHANGED file
  /\ Goto(p, "crashed")
  /\ UNCHANGED <<pool, cmd, tx, log>>

Next ==
  \E p \in Procs :
    \/ \E t \in Transfers : Read(p, t)
    \/ Transfer(p) \/ Open(p) \/ Save(p) \/ Crash(p)

Spec == Init /\ [][Next]_vars

-----------------------------------------------------------------------------
TypeOK ==
  /\ file \in {Absent, Empty, Torn} \cup {pool[p] : p \in Procs}
  /\ pc \in [Procs -> {"idle", "read", "submitted", "open", "saved", "failed",
                       "rejected", "crashed"}]
  /\ \A p \in Procs : pc[p] \in {"submitted", "open", "saved"} =>
       Last(pool[p].transactions) = tx[p]

\* The pool that a client has just read refuses what the client builds from it if
\* an amount would go to nobody, which the command does not notice (nodes/src/
\* main.rs:463 to 481) before the expect of main.rs:486, and for nothing else.
RefusedIffNobodyIsPaid ==
  \A p \in Procs :
    LET lost == cmd[p].to = Unknown /\ cmd[p].amount > 0
    IN  /\ pc[p] = "rejected" => lost
        /\ pc[p] \in {"submitted", "open", "saved"} => ~lost

\* A transfer that is accepted moves its amount and nothing else: the balance of
\* every account and kind that the client computes changes by what was asked.
MovesAmount ==
  [][\A p \in Procs : pc[p] = "read" /\ pc'[p] = "submitted" =>
       \A o \in Owners : \A k \in Kinds :
         Balance(pool'[p], o, k) =
           Balance(pool[p], o, k)
             + (IF cmd[p].to = o /\ cmd[p].kind = k THEN cmd[p].amount ELSE 0)
             - (IF cmd[p].from = o /\ cmd[p].kind = k THEN cmd[p].amount ELSE 0)]_vars

When(event, p) == CHOOSE i \in DOMAIN log : log[i] = <<event, p>>
Happened(event, p) == <<event, p>> \in ToSet(log)

\* p read the file before q saved, and saved after q did.
Overwrites(p, q) ==
  /\ Happened("saved", p) /\ Happened("saved", q)
  /\ When("read", p) < When("saved", q) /\ When("saved", q) < When("saved", p)

\* "Save the updated state" (nodes/src/main.rs:487): a transfer that succeeded is
\* in the file as long as it is readable, unless a process that ran at the same
\* time saved over it.
TransfersStay ==
  Readable /\ Running = {} =>
    \A q \in Procs : pc[q] = "saved" =>
      \/ file # Absent /\ tx[q] \in ToSet(file.transactions)
      \/ \E p \in Procs \ {q} : Overwrites(p, q)

\* p and q had the file open for writing at the same time.
BothOpen(p, q) ==
  /\ Happened("open", p) /\ Happened("open", q)
  /\ Happened("saved", q) => When("open", p) < When("saved", q)
  /\ Happened("saved", p) => When("open", q) < When("saved", p)

\* The pool is lost only to a process killed while it wrote, or to two that wrote
\* at the same time.
UnreadableOnlyByChance ==
  ~Readable =>
    \/ \E p \in Procs : pc[p] = "open" \/ (pc[p] = "crashed" /\ Happened("open", p))
    \/ \E p, q \in Procs : p # q /\ BothOpen(p, q)
=============================================================================
