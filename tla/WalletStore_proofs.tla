------------------------- MODULE WalletStore_proofs -------------------------
(***************************************************************************)
(* Proofs about WalletStore, for any number of processes and aliases: the  *)
(* lock keeps processes apart, an alias is never given keys of two         *)
(* commands, and what a command stored stays as far as the design allows,  *)
(* however loads, merges, writes and kills interleave.                     *)
(***************************************************************************)
EXTENDS WalletStore, SequenceLemmas

-----------------------------------------------------------------------------
(* The inductive invariant. *)

Labels ==
  {"idle", "loaded", "changed", "locked", "merged", "written", "done", "failed", "crashed"}

ControlOK ==
  /\ pc \in [Procs -> Labels]
  /\ cmd \in [Procs -> Commands]

IInv == TypeOK /\ ControlOK /\ Coherent

-----------------------------------------------------------------------------
(* Stores. *)

\* What an alias may stand for.
CoherentAt(st, a) ==
  Exists(st, a) =>
    \E item \in DOMAIN SectionsOf : \E key \in Procs : \A c \in Sections :
      st[c][a] = IF c \in SectionsOf[item] THEN key ELSE None

LEMMA CoherentByAlias ==
  ASSUME NEW st
  PROVE  CoherentStore(st) <=> \A a \in Aliases : CoherentAt(st, a)
BY DEF CoherentStore, CoherentAt

\* An alias that has the entries it has in another store stands for the same.
LEMMA CoherentLike ==
  ASSUME NEW st, NEW other, NEW a, CoherentAt(other, a),
         \A c \in Sections : st[c][a] = other[c][a]
  PROVE  CoherentAt(st, a)
BY DEF CoherentAt, Exists

LEMMA EmptyIsStore == EmptyStore \in Stores /\ CoherentStore(EmptyStore)
BY DEF EmptyStore, Stores, CoherentStore, Exists

LEMMA TornIsNoStore == Torn \notin Stores
<1>1. DOMAIN Torn = {}
  BY DEF Torn
<1>2. \A st \in Stores : DOMAIN st = Sections
  BY DEF Stores
<1>3. "addresses" \in Sections
  BY DEF Sections
<1>4. QED
  BY <1>1, <1>2, <1>3

LEMMA RemovedOK ==
  ASSUME NEW st \in Stores, NEW a \in Aliases
  PROVE  /\ Removed(st, a) \in Stores
         /\ \A c \in Sections : Removed(st, a)[c][a] = None
         /\ \A c \in Sections : \A b \in Aliases : b # a => Removed(st, a)[c][b] = st[c][b]
         /\ CoherentStore(st) => CoherentStore(Removed(st, a))
<1>1. /\ Removed(st, a) \in Stores
      /\ \A c \in Sections : Removed(st, a)[c][a] = None
      /\ \A c \in Sections : \A b \in Aliases : b # a => Removed(st, a)[c][b] = st[c][b]
  BY DEF Removed, Stores
<1>2. ASSUME CoherentStore(st), NEW b \in Aliases
      PROVE  CoherentAt(Removed(st, a), b)
  <2>1. CASE b = a
    BY <1>1, <2>1 DEF CoherentAt, Exists
  <2>2. CASE b # a
    BY <1>1, <1>2, <2>2, CoherentByAlias, CoherentLike
  <2>3. QED
    BY <2>1, <2>2
<1>3. QED
  BY <1>1, <1>2, CoherentByAlias

\* Storing an item empties the other sections of its alias first.
LEMMA InsertOK ==
  ASSUME NEW st \in Stores, NEW a \in Aliases, NEW item \in DOMAIN SectionsOf,
         NEW key \in Procs
  PROVE  /\ Insert(st, a, item, key) \in Stores
         /\ \A c \in SectionsOf[item] : Insert(st, a, item, key)[c][a] = key
         /\ \A c \in Sections : \A b \in Aliases :
              b # a => Insert(st, a, item, key)[c][b] = st[c][b]
         /\ CoherentStore(st) => CoherentStore(Insert(st, a, item, key))
<1> DEFINE new == Insert(st, a, item, key)
<1>1. new \in Stores
  BY RemovedOK DEF Insert, Stores
<1>2. \A c \in Sections : new[c][a] = IF c \in SectionsOf[item] THEN key ELSE None
  BY RemovedOK DEF Insert, Stores
<1>3. \A c \in Sections : \A b \in Aliases : b # a => new[c][b] = st[c][b]
  BY RemovedOK DEF Insert, Stores
<1> HIDE DEF new
<1>4. ASSUME CoherentStore(st), NEW b \in Aliases
      PROVE  CoherentAt(new, b)
  <2>1. CASE b = a
    BY <1>2, <2>1 DEF CoherentAt
  <2>2. CASE b # a
    BY <1>3, <1>4, <2>2, CoherentByAlias, CoherentLike
  <2>3. QED
    BY <2>1, <2>2
<1>5. SectionsOf[item] \subseteq Sections
  BY DEF SectionsOf, Sections
<1>6. QED
  BY <1>1, <1>2, <1>3, <1>4, <1>5, CoherentByAlias DEF new

\* A merge takes an alias whole from one store or the other.
LEMMA MergedOK ==
  ASSUME NEW st \in Stores, NEW other \in Stores
  PROVE  /\ Merged(st, other) \in Stores
         /\ CoherentStore(st) /\ CoherentStore(other) => CoherentStore(Merged(st, other))
<1>1. Merged(st, other) \in Stores
  BY DEF Merged, Stores
<1>2. \A c \in Sections : \A a \in Aliases :
        Merged(st, other)[c][a] = IF Exists(other, a) THEN other[c][a] ELSE st[c][a]
  BY DEF Merged
<1>3. ASSUME CoherentStore(st), CoherentStore(other), NEW a \in Aliases
      PROVE  CoherentAt(Merged(st, other), a)
  <2>1. CASE Exists(other, a)
    BY <1>2, <1>3, <2>1, CoherentByAlias, CoherentLike
  <2>2. CASE ~Exists(other, a)
    BY <1>2, <1>3, <2>2, CoherentByAlias, CoherentLike
  <2>3. QED
    BY <2>1, <2>2
<1>4. QED
  BY <1>1, <1>3, CoherentByAlias
-----------------------------------------------------------------------------
(* Steps. *)

LEMMA InitOK == Init => IInv
<1> SUFFICES ASSUME Init PROVE IInv
  OBVIOUS
<1>1. TypeOK
  BY EmptyIsStore, WalletAssumption DEF Init, TypeOK, WalletAssumption
<1>2. ControlOK
  BY DEF Init, ControlOK, Labels
<1>3. Coherent
  BY EmptyIsStore DEF Init, Coherent
<1>4. QED
  BY <1>1, <1>2, <1>3 DEF IInv

LEMMA StutterOK == IInv /\ UNCHANGED vars => IInv'
BY DEF vars, history, IInv, TypeOK, ControlOK, Coherent

\* A process goes on without touching lock or file; it may have changed its copy
\* into another coherent store, and its command.
LEMMA OwnStepOK ==
  ASSUME IInv, NEW p \in Procs, NEW label \in Labels, NEW st \in Stores, NEW c \in Commands,
         CoherentStore(st),
         pc[p] \in {"locked", "merged", "written"}
           <=> label \in {"locked", "merged", "written"},
         Goto(p, label), UNCHANGED <<disk, lock>>,
         store' = [store EXCEPT ![p] = st],
         cmd' = [cmd EXCEPT ![p] = c]
  PROVE  IInv'
<1>1. TypeOK /\ ControlOK /\ Coherent
  BY DEF IInv
<1>2. pc' = [pc EXCEPT ![p] = label]
  BY DEF Goto
<1>3. TypeOK'
  <2>1. store' \in [Procs -> Stores]
    BY <1>1 DEF TypeOK
  <2>2. ASSUME NEW q \in Procs
        PROVE  lock' = q <=> pc'[q] \in {"locked", "merged", "written"}
    BY <1>1, <1>2 DEF TypeOK, ControlOK
  <2>3. QED
    BY <1>1, <2>1, <2>2 DEF TypeOK
<1>4. ControlOK'
  BY <1>1, <1>2 DEF ControlOK
<1>5. Coherent'
  <2>1. ASSUME NEW q \in Procs PROVE CoherentStore(store'[q])
    BY <1>1 DEF TypeOK, Coherent
  <2>2. QED
    BY <1>1, <2>1 DEF Coherent
<1>6. QED
  BY <1>3, <1>4, <1>5 DEF IInv

\* A process takes the lock or gives it back; it may have written the file.
LEMMA LockStepOK ==
  ASSUME IInv, NEW p \in Procs, NEW label \in Labels,
         Goto(p, label), UNCHANGED <<store, cmd>>,
         disk' \in Stores \cup {Torn}, disk' # Torn => CoherentStore(disk'),
         lock \in {p, None} \/ lock' = lock,
         lock' = p <=> label \in {"locked", "merged", "written"},
         lock' \in {lock, p, None}
  PROVE  IInv'
<1>1. TypeOK /\ ControlOK /\ Coherent
  BY DEF IInv
<1>2. pc' = [pc EXCEPT ![p] = label]
  BY DEF Goto
<1>3. TypeOK'
  <2>1. ASSUME NEW q \in Procs
        PROVE  lock' = q <=> pc'[q] \in {"locked", "merged", "written"}
    <3>1. CASE q = p
      BY <1>1, <1>2, <3>1 DEF ControlOK
    <3>2. CASE q # p
      BY <1>1, <1>2, <3>2, WalletAssumption DEF TypeOK, ControlOK, WalletAssumption
    <3>3. QED
      BY <3>1, <3>2
  <2>2. QED
    BY <1>1, <2>1 DEF TypeOK
<1>4. ControlOK'
  BY <1>1, <1>2 DEF ControlOK
<1>5. Coherent'
  BY <1>1 DEF Coherent
<1>6. QED
  BY <1>3, <1>4, <1>5 DEF IInv

LEMMA RunOK ==
  ASSUME IInv, NEW p \in Procs, Run(p) \/ Crash(p)
  PROVE  IInv'
<1>1. /\ TypeOK /\ ControlOK /\ Coherent
      /\ store[p] \in Stores /\ CoherentStore(store[p]) /\ cmd[p] \in Commands
      /\ store = [store EXCEPT ![p] = store[p]] /\ cmd = [cmd EXCEPT ![p] = cmd[p]]
      /\ pc[p] \in Labels
      /\ lock = p <=> pc[p] \in {"locked", "merged", "written"}
  BY DEF IInv, TypeOK, ControlOK, Coherent
<1>2. CASE Load(p)
  <2> DEFINE st == IF disk = Torn THEN EmptyStore ELSE disk
  <2>1. st \in Stores /\ CoherentStore(st)
    BY <1>1, EmptyIsStore DEF TypeOK, Coherent
  <2>2. /\ pc[p] = "idle" /\ Goto(p, "loaded") /\ UNCHANGED <<disk, lock, cmd>>
        /\ store' = [store EXCEPT ![p] = st]
    BY <1>2 DEF Load
  <2> HIDE DEF st
  <2>3. QED
    BY <1>1, <2>1, <2>2, OwnStepOK DEF Labels
<1>3. CASE StoreItem(p)
  <2> DEFINE st == Insert(store[p], cmd[p].alias, cmd[p].item, p)
  <2>1. /\ pc[p] = "loaded" /\ Goto(p, "changed") /\ UNCHANGED <<disk, lock, cmd>>
        /\ store' = [store EXCEPT ![p] = st] /\ cmd[p].op = "store"
    BY <1>3 DEF StoreItem
  <2>2. cmd[p].alias \in Aliases /\ cmd[p].item \in DOMAIN SectionsOf
    BY <1>1, <2>1, WalletAssumption DEF Commands, WalletAssumption
  <2>3. st \in Stores /\ CoherentStore(st)
    BY <1>1, <2>2, InsertOK
  <2> HIDE DEF st
  <2>4. QED
    BY <1>1, <2>1, <2>3, OwnStepOK DEF Labels
<1>4. CASE FailToEncrypt(p)
  <2> DEFINE st == Removed(store[p], cmd[p].alias)
  <2>1. /\ pc[p] = "loaded" /\ Goto(p, "changed") /\ UNCHANGED <<disk, lock>>
        /\ store' = [store EXCEPT ![p] = st] /\ cmd[p].op = "store"
        /\ cmd' = [cmd EXCEPT ![p] = [op |-> "list"]]
    BY <1>4 DEF FailToEncrypt
  <2>2. cmd[p].alias \in Aliases /\ [op |-> "list"] \in Commands
    BY <1>1, <2>1 DEF Commands
  <2>3. st \in Stores /\ CoherentStore(st)
    BY <1>1, <2>2, RemovedOK
  <2> HIDE DEF st
  <2>4. QED
    BY <1>1, <2>1, <2>2, <2>3, OwnStepOK DEF Labels
<1>5. CASE RemoveAlias(p)
  <2> DEFINE st == Removed(store[p], cmd[p].alias)
  <2>1. /\ pc[p] = "loaded" /\ Goto(p, "changed") /\ UNCHANGED <<disk, lock, cmd>>
        /\ store' = [store EXCEPT ![p] = st] /\ cmd[p].op = "remove"
    BY <1>5 DEF RemoveAlias
  <2>2. cmd[p].alias \in Aliases
    BY <1>1, <2>1 DEF Commands
  <2>3. st \in Stores /\ CoherentStore(st)
    BY <1>1, <2>2, RemovedOK
  <2> HIDE DEF st
  <2>4. QED
    BY <1>1, <2>1, <2>3, OwnStepOK DEF Labels
<1>6. CASE View(p)
  <2>1. /\ pc[p] = "loaded" /\ UNCHANGED <<disk, lock, store, cmd>>
        /\ Goto(p, "changed") \/ Goto(p, "done")
    BY <1>6 DEF View
  <2>2. QED
    BY <1>1, <2>1, OwnStepOK DEF Labels
<1>7. CASE List(p)
  BY <1>1, <1>7, OwnStepOK DEF List, Labels
<1>8. CASE Lock(p)
  BY <1>1, <1>8, LockStepOK DEF Lock, Labels, TypeOK, Coherent
<1>9. CASE MergeDisk(p)
  <2> DEFINE st == Merged(disk, store[p])
  <2>1. /\ pc[p] = "locked" /\ Goto(p, "merged") /\ UNCHANGED <<disk, lock, cmd>>
        /\ store' = [store EXCEPT ![p] = st] /\ disk # Torn
    BY <1>9 DEF MergeDisk
  <2>2. st \in Stores /\ CoherentStore(st)
    BY <1>1, <2>1, MergedOK DEF TypeOK, Coherent
  <2> HIDE DEF st
  <2>3. QED
    BY <1>1, <2>1, <2>2, OwnStepOK DEF Labels
<1>10. CASE RefuseDisk(p)
  <2>1. lock = p /\ lock' = None /\ p # None
    BY <1>1, <1>10, WalletAssumption DEF RefuseDisk, Unlock, WalletAssumption
  <2>2. QED
    BY <1>1, <1>10, <2>1, LockStepOK DEF RefuseDisk, Labels, TypeOK, Coherent
<1>11. CASE Write(p)
  <2>1. lock = p /\ lock' = p
    BY <1>1, <1>11 DEF Write
  <2>2. disk' \in Stores \cup {Torn} /\ (disk' # Torn => CoherentStore(disk'))
    BY <1>1, <1>11 DEF Write
  <2>3. QED
    BY <1>1, <1>11, <2>1, <2>2, LockStepOK DEF Write, Labels
<1>12. CASE Finish(p)
  <2>1. lock = p /\ lock' = None /\ p # None
    BY <1>1, <1>12, WalletAssumption DEF Finish, WalletAssumption
  <2>2. disk' \in Stores \cup {Torn} /\ (disk' # Torn => CoherentStore(disk'))
    BY <1>1, <1>12 DEF Finish, Truncate
  <2>3. QED
    BY <1>1, <1>12, <2>1, <2>2, LockStepOK DEF Finish, Labels
<1>13. CASE Crash(p)
  <2>1. /\ Goto(p, "crashed") /\ UNCHANGED <<disk, store, cmd>>
        /\ lock' = IF lock = p THEN None ELSE lock
    BY <1>13 DEF Crash
  <2>2. p # None
    BY WalletAssumption DEF WalletAssumption
  <2>3. QED
    BY <1>1, <2>1, <2>2, LockStepOK DEF Labels, TypeOK, Coherent
<1>14. QED
  BY <1>2, <1>3, <1>4, <1>5, <1>6, <1>7, <1>8, <1>9, <1>10, <1>11, <1>12, <1>13 DEF Run

LEMMA NextOK == IInv /\ [Next]_vars => IInv'
BY RunOK, StutterOK DEF Next, Ended

\* Every interleaving of the wallet's commands (wallet.rs:573), killed anywhere,
\* leaves the lock with its holder and a store whose sections agree.
THEOREM Invariant == Spec => []IInv
BY InitOK, NextOK, PTL DEF Spec

\* The lock is held exactly by the one process at work on the file (wallet.rs:573
\* to 604), for any number of processes, killed anywhere.
THEOREM TypeCorrect == Spec => []TypeOK
<1>1. IInv => TypeOK
  BY DEF IInv
<1>2. QED
  BY <1>1, Invariant, PTL

\* Neither the file nor the copy of any process ever gives an alias keys of two
\* commands, though synchronize merges section by section (wallet.rs:550).
THEOREM CoherentHolds == Spec => []Coherent
<1>1. IInv => Coherent
  BY DEF IInv
<1>2. QED
  BY <1>1, Invariant, PTL
-----------------------------------------------------------------------------
(* What was stored stays: the invariant. *)

\* Every process has loaded and committed at most once, in this order.
LogOK ==
  /\ held \in [Procs -> SUBSET Aliases]
  /\ IsSeq(log)
  /\ Distinct(log)
  /\ \A p \in Procs : <<"load", p>> \in ToSet(log) <=> pc[p] # "idle"
  /\ \A p \in Procs : Committed(p) => pc[p] \in {"written", "done", "crashed"}

ShownAs(st, c, q) == \A section \in SectionsOf[c.item] : st[section][c.alias] = q

Stored(q) == Committed(q) /\ cmd[q].op = "store"

\* The exceptions of StoredStays.
Replaced(q) ==
  \E p \in Procs \ {q} : Committed(p) /\
    \/ Later(p, q) /\ cmd[p].op = "store" /\ cmd[p].alias = cmd[q].alias
    \/ Stale(p, q) /\ cmd[q].alias \in held[p]

Kept(st, q) == ShownAs(st, cmd[q], q) \/ Replaced(q)

Own(p, a) == cmd[p].op = "store" /\ cmd[p].alias = a

\* p took its copy before q committed, and had something at that alias.
Outdated(p, q) ==
  When(<<"load", p>>) < When(<<"commit", q>>) /\ cmd[q].alias \in held[p]

\* The copy of a process that has not merged yet: where it has an alias, that
\* is what was stored last, what the command itself stores, or outdated.
CopyOK(p) ==
  pc[p] \in {"loaded", "changed", "locked"} =>
    /\ \A a \in Aliases : Exists(store[p], a) =>
         a \in held[p] \/ (pc[p] # "loaded" /\ Own(p, a))
    /\ pc[p] # "loaded" /\ cmd[p].op = "store" => ShownAs(store[p], cmd[p], p)
    /\ \A q \in Procs : Stored(q) /\ Exists(store[p], cmd[q].alias) =>
         \/ Kept(store[p], q)
         \/ pc[p] # "loaded" /\ Own(p, cmd[q].alias)
         \/ Outdated(p, q)

MergeOK(p) ==
  pc[p] = "merged" =>
    /\ cmd[p].op = "store" => ShownAs(store[p], cmd[p], p)
    /\ \A q \in Procs : Stored(q) =>
         Kept(store[p], q) \/ Own(p, cmd[q].alias) \/ Outdated(p, q)

WrittenOK(p) ==
  pc[p] = "written" =>
    /\ disk \in {store[p], Torn}
    /\ \A q \in Procs : Stored(q) => Kept(store[p], q)

DiskOK ==
  /\ disk # Torn => \A q \in Procs : Stored(q) => Kept(disk, q)
  /\ disk = Torn => \E p \in Procs : pc[p] = "written" \/ (MayCrash /\ pc[p] = "crashed")

HInv ==
  /\ LogOK
  /\ \A p \in Procs : CopyOK(p) /\ MergeOK(p) /\ WrittenOK(p)
  /\ DiskOK

-----------------------------------------------------------------------------
(* The log. *)

LEMMA WhenIs ==
  ASSUME LogOK, NEW e \in ToSet(log)
  PROVE  When(e) \in 1..Len(log) /\ log[When(e)] = e /\ Len(log) \in Nat
<1>1. When(e) = PlaceOf(log, e)
  BY DEF When, PlaceOf
<1>2. QED
  BY <1>1, PlaceIs DEF LogOK

\* An event that is new to the log comes after all the others, which stay where
\* they are.
LEMMA NewEvent ==
  ASSUME LogOK, NEW e, e \notin ToSet(log), log' = Append(log, e)
  PROVE  /\ IsSeq(log') /\ Distinct(log')
         /\ ToSet(log') = ToSet(log) \cup {e}
         /\ \A f \in ToSet(log) : When(f)' = When(f)
         /\ When(e)' = Len(log) + 1
<1>1. \A f : When(f) = PlaceOf(log, f) /\ When(f)' = PlaceOf(log', f)
  BY DEF When, PlaceOf
<1>2. QED
  BY <1>1, PlacesStay DEF LogOK
-----------------------------------------------------------------------------
(* Steps that commit nothing. *)

LogGrows == log' = log \/ \E e : e \notin ToSet(log) /\ log' = Append(log, e)

LEMMA EventsStay ==
  ASSUME LogOK, LogGrows, NEW f \in ToSet(log)
  PROVE  f \in ToSet(log') /\ When(f)' = When(f)
<1>1. CASE log' = log
  BY <1>1 DEF When
<1>2. CASE \E e : e \notin ToSet(log) /\ log' = Append(log, e)
  BY <1>2, NewEvent
<1>3. QED
  BY <1>1, <1>2 DEF LogGrows

\* What was replaced stays replaced, what is outdated stays outdated.
LEMMA HistoryStays ==
  ASSUME LogOK, LogGrows,
         \A q \in Procs : Committed(q) => cmd'[q] = cmd[q],
         \A q \in Procs : pc[q] # "idle" => held'[q] = held[q]
  PROVE  /\ \A q \in Procs : Committed(q) => Committed(q)'
         /\ \A q \in Procs : Committed(q) /\ Replaced(q) => Replaced(q)'
         /\ \A p, q \in Procs : pc[p] # "idle" /\ Committed(q) /\ Outdated(p, q)
                                => Outdated(p, q)'
<1>1. ASSUME NEW q \in Procs, Committed(q)
      PROVE  /\ Committed(q)' /\ When(<<"commit", q>>)' = When(<<"commit", q>>)
             /\ cmd'[q] = cmd[q]
  BY <1>1, EventsStay DEF Committed
<1>2. ASSUME NEW q \in Procs, pc[q] # "idle"
      PROVE  When(<<"load", q>>)' = When(<<"load", q>>) /\ held'[q] = held[q]
  BY <1>2, EventsStay DEF LogOK
<1>3. ASSUME NEW q \in Procs, Committed(q)
      PROVE  pc[q] # "idle"
  BY <1>3 DEF LogOK
<1>4. ASSUME NEW q \in Procs, Committed(q), Replaced(q)
      PROVE  Replaced(q)'
  <2>1. PICK p \in Procs \ {q} :
          /\ Committed(p)
          /\ \/ Later(p, q) /\ cmd[p].op = "store" /\ cmd[p].alias = cmd[q].alias
             \/ Stale(p, q) /\ cmd[q].alias \in held[p]
    BY <1>4 DEF Replaced
  <2>2. /\ Committed(p)' /\ When(<<"commit", p>>)' = When(<<"commit", p>>)
        /\ When(<<"commit", q>>)' = When(<<"commit", q>>)
        /\ When(<<"load", p>>)' = When(<<"load", p>>)
        /\ cmd'[p] = cmd[p] /\ cmd'[q] = cmd[q] /\ held'[p] = held[p]
    BY <1>1, <1>2, <1>3, <1>4, <2>1
  <2>3. (Later(p, q) => Later(p, q)') /\ (Stale(p, q) => Stale(p, q)')
    BY <2>2 DEF Later, Stale
  <2>4. QED
    BY <2>1, <2>2, <2>3 DEF Replaced
<1>5. ASSUME NEW p \in Procs, NEW q \in Procs, pc[p] # "idle", Committed(q), Outdated(p, q)
      PROVE  Outdated(p, q)'
  BY <1>1, <1>2, <1>5 DEF Outdated
<1>6. QED
  BY <1>1, <1>4, <1>5

\* The other processes, and the file where it is not written, when p makes a step
\* that commits nothing.
LEMMA OthersOK ==
  ASSUME HInv, LogGrows, NEW p \in Procs,
         \A q \in Procs : Committed(q)' => Committed(q),
         \A q \in Procs : q # p \/ Committed(q) => cmd'[q] = cmd[q],
         \A q \in Procs : pc[q] # "idle" => held'[q] = held[q],
         \A q \in Procs : q # p => pc'[q] = pc[q] /\ store'[q] = store[q]
  PROVE  /\ \A q \in Procs : Stored(q)' =>
              Stored(q) /\ cmd'[q] = cmd[q] /\ (Replaced(q) => Replaced(q)')
         /\ \A q \in Procs \ {p} : CopyOK(q)' /\ MergeOK(q)' /\ (disk' = disk => WrittenOK(q)')
         /\ disk' = disk /\ pc[p] \notin {"written", "crashed"} => DiskOK'
<1>1. LogOK /\ DiskOK
  BY DEF HInv
<1>2. ASSUME NEW q \in Procs, Stored(q)'
      PROVE  Stored(q) /\ cmd'[q] = cmd[q] /\ (Replaced(q) => Replaced(q)') /\ Committed(q)
  BY <1>1, <1>2, HistoryStays DEF Stored
<1>3. ASSUME NEW st, NEW q \in Procs, Stored(q)',
             ShownAs(st, cmd[q], q) \/ Replaced(q)
      PROVE  ShownAs(st, cmd'[q], q) \/ Replaced(q)'
  BY <1>2, <1>3
<1>4. ASSUME NEW q \in Procs \ {p}
      PROVE  /\ CopyOK(q)' /\ MergeOK(q)' /\ (disk' = disk => WrittenOK(q)')
  <2>1. /\ pc'[q] = pc[q] /\ store'[q] = store[q] /\ cmd'[q] = cmd[q]
        /\ pc[q] # "idle" => held'[q] = held[q]
        /\ CopyOK(q) /\ MergeOK(q) /\ WrittenOK(q)
    BY DEF HInv
  <2>2. ASSUME NEW r \in Procs, Stored(r)'
        PROVE  /\ Kept(store[q], r) => Kept(store[q], r)'
               /\ Own(q, cmd[r].alias) => Own(q, cmd[r].alias)'
               /\ Outdated(q, r) /\ pc[q] # "idle" => Outdated(q, r)'
               /\ cmd'[r] = cmd[r] /\ Stored(r)
    BY <1>1, <1>2, <1>3, <2>1, <2>2, HistoryStays DEF Kept, Own
  <2>3. CopyOK(q)'
    <3>1. SUFFICES ASSUME pc[q] \in {"loaded", "changed", "locked"}
                   PROVE  CopyOK(q)'
      BY <2>1 DEF CopyOK
    <3>2. \A a \in Aliases : Exists(store[q], a)' =>
            a \in held'[q] \/ (pc'[q] # "loaded" /\ Own(q, a)')
      BY <2>1, <3>1 DEF CopyOK, Exists, Own
    <3>3. pc'[q] # "loaded" /\ cmd'[q].op = "store" => ShownAs(store'[q], cmd'[q], q)
      BY <2>1, <3>1 DEF CopyOK
    <3>4. ASSUME NEW r \in Procs, Stored(r)', Exists(store'[q], cmd'[r].alias)
          PROVE  \/ Kept(store[q], r)'
                 \/ pc'[q] # "loaded" /\ Own(q, cmd[r].alias)'
                 \/ Outdated(q, r)'
      BY <2>1, <2>2, <3>1, <3>4 DEF CopyOK
    <3>5. QED
      BY <3>2, <3>3, <3>4 DEF CopyOK
  <2>4. MergeOK(q)'
    BY <2>1, <2>2 DEF MergeOK
  <2>5. disk' = disk => WrittenOK(q)'
    BY <2>1, <2>2 DEF WrittenOK
  <2>6. QED
    BY <2>3, <2>4, <2>5
<1>5. ASSUME disk' = disk, pc[p] \notin {"written", "crashed"}
      PROVE  DiskOK'
  <2>1. disk # Torn => \A q \in Procs : Stored(q)' => Kept(disk, q)'
    BY <1>1, <1>2, <1>5 DEF DiskOK, Kept
  <2>2. disk = Torn =>
          \E q \in Procs : pc'[q] = "written" \/ (MayCrash /\ pc'[q] = "crashed")
    BY <1>1, <1>5 DEF DiskOK
  <2>3. QED
    BY <1>5, <2>1, <2>2 DEF DiskOK
<1>6. QED
  BY <1>2, <1>4, <1>5
-----------------------------------------------------------------------------
(* Every step. *)

LEMMA HInitOK == Init => HInv
<1> SUFFICES ASSUME Init PROVE HInv
  OBVIOUS
<1>1. log = <<>> /\ ToSet(log) = {} /\ IsSeq(log) /\ Len(log) = 0
  BY DEF Init, ToSet, IsSeq
<1>2. LogOK
  BY <1>1 DEF LogOK, Distinct, Committed, Init
<1>3. disk # Torn /\ \A q \in Procs : ~Stored(q)
  BY <1>1, EmptyIsStore, TornIsNoStore DEF Stored, Committed, Init
<1>4. QED
  BY <1>2, <1>3 DEF HInv, CopyOK, MergeOK, WrittenOK, DiskOK, Init

\* Aliases of commands are aliases, and what stores an item makes an entry.
LEMMA CommandsOK ==
  ASSUME IInv, NEW q \in Procs, cmd[q].op = "store"
  PROVE  /\ cmd[q].alias \in Aliases
         /\ SectionsOf[cmd[q].item] \subseteq Sections
         /\ \A st : ShownAs(st, cmd[q], q) => Exists(st, cmd[q].alias)
<1>1. cmd[q].alias \in Aliases /\ cmd[q].item \in DOMAIN SectionsOf
  BY WalletAssumption DEF IInv, ControlOK, Commands, WalletAssumption
<1>2. \A item \in DOMAIN SectionsOf : SectionsOf[item] \subseteq Sections /\ SectionsOf[item] # {}
  BY DEF SectionsOf, Sections
<1>3. q # None
  BY WalletAssumption DEF WalletAssumption
<1>4. QED
  BY <1>1, <1>2, <1>3 DEF ShownAs, Exists

\* A step of p that neither loads nor commits.
LEMMA QuietOK ==
  ASSUME IInv, HInv, NEW p \in Procs, NEW label \in Labels \ {"idle"},
         pc[p] # "idle", Goto(p, label), UNCHANGED history,
         pc[p] \in {"written", "done", "crashed"} => label \in {"written", "done", "crashed"},
         Committed(p) => cmd' = cmd,
         \A q \in Procs : q # p => cmd'[q] = cmd[q] /\ store'[q] = store[q]
  PROVE  /\ LogOK' /\ LogGrows
         /\ \A q \in Procs : pc'[q] = IF q = p THEN label ELSE pc[q]
         /\ \A q \in Procs : Stored(q)' =>
              Stored(q) /\ cmd'[q] = cmd[q] /\ (Replaced(q) => Replaced(q)')
         /\ \A q \in Procs : Committed(q) /\ Outdated(p, q) => Outdated(p, q)'
         /\ \A q \in Procs \ {p} : CopyOK(q)' /\ MergeOK(q)' /\ (disk' = disk => WrittenOK(q)')
         /\ disk' = disk /\ pc[p] \notin {"written", "crashed"} => DiskOK'
<1>1. LogOK /\ pc \in [Procs -> Labels] /\ log' = log /\ held' = held
  BY DEF HInv, IInv, ControlOK, history
<1>2. \A q \in Procs : pc'[q] = IF q = p THEN label ELSE pc[q]
  BY <1>1 DEF Goto
<1>3. LogOK'
  BY <1>1, <1>2 DEF LogOK, Committed
<1>4. LogGrows
  BY <1>1 DEF LogGrows
<1>5. /\ \A q \in Procs : Committed(q)' => Committed(q)
      /\ \A q \in Procs : q # p \/ Committed(q) => cmd'[q] = cmd[q]
      /\ \A q \in Procs : Committed(q) => cmd'[q] = cmd[q]
      /\ \A q \in Procs : q # p => pc'[q] = pc[q] /\ store'[q] = store[q]
  BY <1>1, <1>2 DEF Committed
<1>6. \A q \in Procs : Committed(q) /\ Outdated(p, q) => Outdated(p, q)'
  BY <1>1, <1>4, <1>5, HistoryStays
<1>7. QED
  BY <1>1, <1>2, <1>3, <1>4, <1>5, <1>6, OthersOK

\* A command changes its copy at its own alias only.
LEMMA ChangedOK ==
  ASSUME IInv, HInv, NEW p \in Procs,
         pc[p] = "loaded", Goto(p, "changed"), UNCHANGED <<disk, history>>,
         \A q \in Procs : q # p => cmd'[q] = cmd[q] /\ store'[q] = store[q],
         \A a \in Aliases :
           \/ \A section \in Sections : store'[p][section][a] = store[p][section][a]
           \/ ~Exists(store'[p], a)
           \/ cmd'[p].op = "store" /\ cmd'[p].alias = a,
         cmd'[p].op = "store" => ShownAs(store'[p], cmd'[p], p)
  PROVE  HInv'
<1>1. LogOK /\ CopyOK(p)
  BY DEF HInv
<1>2. ~Committed(p)
  BY <1>1 DEF LogOK
<1>3. /\ LogOK' /\ pc'[p] = "changed" /\ DiskOK'
      /\ \A q \in Procs : Stored(q)' =>
           Stored(q) /\ cmd'[q] = cmd[q] /\ (Replaced(q) => Replaced(q)')
      /\ \A q \in Procs : Committed(q) /\ Outdated(p, q) => Outdated(p, q)'
      /\ \A q \in Procs \ {p} : CopyOK(q)' /\ MergeOK(q)' /\ WrittenOK(q)'
  BY <1>1, <1>2, QuietOK DEF Labels
<1>4. CopyOK(p)'
  <2>1. \A a \in Aliases : Exists(store'[p], a) =>
          \/ Own(p, a)'
          \/ /\ \A section \in Sections : store'[p][section][a] = store[p][section][a]
             /\ Exists(store[p], a)
    BY <1>1 DEF Own, Exists
  <2>2. \A a \in Aliases : Exists(store'[p], a) => a \in held'[p] \/ Own(p, a)'
    BY <1>1, <2>1 DEF CopyOK, history
  <2>3. ASSUME NEW q \in Procs, Stored(q)', Exists(store'[p], cmd'[q].alias)
        PROVE  Kept(store[p], q)' \/ Own(p, cmd[q].alias)' \/ Outdated(p, q)'
    <3>1. /\ Stored(q) /\ Committed(q) /\ cmd'[q] = cmd[q] /\ cmd[q].op = "store"
          /\ cmd[q].alias \in Aliases /\ SectionsOf[cmd[q].item] \subseteq Sections
      BY <1>3, <2>3, CommandsOK DEF Stored
    <3>2. CASE Own(p, cmd[q].alias)'
      BY <3>2
    <3>3. CASE /\ \A section \in Sections :
                    store'[p][section][cmd[q].alias] = store[p][section][cmd[q].alias]
               /\ Exists(store[p], cmd[q].alias)
      <4>1. Kept(store[p], q) \/ Outdated(p, q)
        BY <1>1, <3>1, <3>3 DEF CopyOK
      <4>2. ShownAs(store[p], cmd[q], q) => ShownAs(store'[p], cmd'[q], q)
        BY <1>1, <3>1, <3>3 DEF ShownAs
      <4>3. QED
        BY <1>3, <2>3, <3>1, <4>1, <4>2 DEF Kept
    <3>4. QED
      BY <2>1, <2>3, <3>1, <3>2, <3>3
  <2>4. cmd'[p].op = "store" => ShownAs(store'[p], cmd'[p], p)
    BY <1>1
  <2>5. QED
    BY <1>3, <2>2, <2>3, <2>4 DEF CopyOK
<1>5. MergeOK(p)' /\ WrittenOK(p)'
  BY <1>3 DEF MergeOK, WrittenOK
<1>6. QED
  BY <1>3, <1>4, <1>5 DEF HInv

\* Reading the file: what it keeps, the copy keeps.
LEMMA LoadHOK ==
  ASSUME IInv, HInv, NEW p \in Procs, Load(p)
  PROVE  HInv'
<1> DEFINE e == <<"load", p>>
           st == IF disk = Torn THEN EmptyStore ELSE disk
<1>1. /\ LogOK /\ pc[p] = "idle" /\ UNCHANGED <<disk, lock, cmd>> /\ log' = Append(log, e)
      /\ store' = [store EXCEPT ![p] = st] /\ store'[p] = st
      /\ held' \in [Procs -> SUBSET Aliases]
      /\ held'[p] = {a \in Aliases : Exists(store'[p], a)}
      /\ \A q \in Procs : pc'[q] = IF q = p THEN "loaded" ELSE pc[q]
      /\ \A q \in Procs : q # p => store'[q] = store[q] /\ held'[q] = held[q]
  BY DEF HInv, IInv, TypeOK, ControlOK, LogOK, Load, Goto
<1>2. e \notin ToSet(log)
  BY <1>1 DEF LogOK
<1>3. IsSeq(log') /\ Distinct(log') /\ ToSet(log') = ToSet(log) \cup {e} /\ LogGrows
  BY <1>1, <1>2, NewEvent DEF LogGrows
<1>4. \A q \in Procs : Committed(q)' <=> Committed(q)
  BY <1>3 DEF Committed
<1>5. LogOK'
  BY <1>1, <1>3, <1>4 DEF LogOK
<1>6. /\ \A q \in Procs : Stored(q)' =>
           Stored(q) /\ cmd'[q] = cmd[q] /\ (Replaced(q) => Replaced(q)')
      /\ \A q \in Procs \ {p} : CopyOK(q)' /\ MergeOK(q)' /\ WrittenOK(q)'
      /\ DiskOK'
  BY <1>1, <1>3, <1>4, OthersOK
<1>7. CopyOK(p)'
  <2>1. ASSUME NEW q \in Procs, Stored(q)', Exists(store'[p], cmd'[q].alias)
        PROVE  Kept(store[p], q)'
    <3>1. disk # Torn
      <4>1. SUFFICES ASSUME disk = Torn PROVE FALSE
        OBVIOUS
      <4>2. cmd[q].alias \in Aliases
        BY <1>6, <2>1, CommandsOK DEF Stored
      <4>3. QED
        BY <1>1, <2>1, <4>1, <4>2 DEF Exists, EmptyStore
    <3>2. Kept(disk, q)
      BY <1>6, <2>1, <3>1 DEF HInv, DiskOK
    <3>3. QED
      BY <1>1, <1>6, <2>1, <3>1, <3>2 DEF Kept
  <2>2. QED
    BY <1>1, <2>1 DEF CopyOK
<1>8. MergeOK(p)' /\ WrittenOK(p)'
  BY <1>1 DEF MergeOK, WrittenOK
<1>9. QED
  BY <1>5, <1>6, <1>7, <1>8 DEF HInv

\* Merging: an alias the copy has wins, the others are as the file keeps them.
LEMMA MergeHOK ==
  ASSUME IInv, HInv, NEW p \in Procs, MergeDisk(p)
  PROVE  HInv'
<1>1. /\ LogOK /\ CopyOK(p) /\ DiskOK /\ pc[p] = "locked" /\ disk # Torn
      /\ Goto(p, "merged") /\ UNCHANGED <<disk, lock, cmd, history>>
      /\ store'[p] = Merged(disk, store[p])
      /\ \A q \in Procs : q # p => store'[q] = store[q]
  BY DEF HInv, IInv, TypeOK, ControlOK, MergeDisk
<1>2. /\ LogOK' /\ pc'[p] = "merged" /\ DiskOK'
      /\ \A q \in Procs : Stored(q)' =>
           Stored(q) /\ cmd'[q] = cmd[q] /\ (Replaced(q) => Replaced(q)')
      /\ \A q \in Procs : Committed(q) /\ Outdated(p, q) => Outdated(p, q)'
      /\ \A q \in Procs \ {p} : CopyOK(q)' /\ MergeOK(q)' /\ WrittenOK(q)'
  BY <1>1, QuietOK DEF Labels
<1>3. \A a \in Aliases : \A c \in Sections :
        store'[p][c][a] = IF Exists(store[p], a) THEN store[p][c][a] ELSE disk[c][a]
  BY <1>1 DEF Merged
<1>4. \A q \in Procs : cmd[q].op = "store" =>
        /\ Exists(store[p], cmd[q].alias) /\ ShownAs(store[p], cmd[q], q)
             => ShownAs(store'[p], cmd[q], q)
        /\ ~Exists(store[p], cmd[q].alias) /\ ShownAs(disk, cmd[q], q)
             => ShownAs(store'[p], cmd[q], q)
  BY <1>3, CommandsOK DEF ShownAs
<1>5. MergeOK(p)'
  <2>1. cmd'[p].op = "store" => ShownAs(store'[p], cmd'[p], p)
    BY <1>1, <1>4, CommandsOK DEF CopyOK
  <2>2. ASSUME NEW q \in Procs, Stored(q)'
        PROVE  Kept(store[p], q)' \/ Own(p, cmd[q].alias)' \/ Outdated(p, q)'
    <3>1. Stored(q) /\ Committed(q) /\ cmd[q].op = "store" /\ cmd' = cmd
      BY <1>1, <1>2, <2>2 DEF Stored
    <3>2. CASE Exists(store[p], cmd[q].alias)
      <4>1. Kept(store[p], q) \/ Own(p, cmd[q].alias) \/ Outdated(p, q)
        BY <1>1, <3>1, <3>2 DEF CopyOK
      <4>2. QED
        BY <1>2, <1>4, <2>2, <3>1, <3>2, <4>1 DEF Kept, Own
    <3>3. CASE ~Exists(store[p], cmd[q].alias)
      <4>1. Kept(disk, q)
        BY <1>1, <3>1 DEF DiskOK
      <4>2. QED
        BY <1>2, <1>4, <2>2, <3>1, <3>3, <4>1 DEF Kept
    <3>4. QED
      BY <3>2, <3>3
  <2>3. QED
    BY <1>2, <2>1, <2>2 DEF MergeOK
<1>6. CopyOK(p)' /\ WrittenOK(p)'
  BY <1>2 DEF CopyOK, WrittenOK
<1>7. QED
  BY <1>2, <1>5, <1>6 DEF HInv

\* Writing: what the copy does not keep is replaced from now on, by what p stores
\* or by what it still had from before.
LEMMA WriteHOK ==
  ASSUME IInv, HInv, NEW p \in Procs, Write(p)
  PROVE  HInv'
<1> DEFINE e == <<"commit", p>>
<1>1. /\ LogOK /\ MergeOK(p) /\ pc[p] = "merged" /\ log' = Append(log, e)
      /\ disk' \in {store[p], Torn} /\ UNCHANGED <<lock, store, cmd, held>>
      /\ store[p] \in Stores
      /\ \A q \in Procs : pc'[q] = IF q = p THEN "written" ELSE pc[q]
  BY DEF HInv, IInv, TypeOK, ControlOK, Write, Goto
<1>2. e \notin ToSet(log)
  BY <1>1 DEF LogOK, Committed
<1>3. /\ IsSeq(log') /\ Distinct(log') /\ ToSet(log') = ToSet(log) \cup {e} /\ LogGrows
      /\ When(e)' = Len(log) + 1
  BY <1>1, <1>2, NewEvent DEF LogGrows
<1>4. \A q \in Procs : Committed(q)' <=> Committed(q) \/ q = p
  BY <1>3 DEF Committed
<1>5. \A q \in Procs : <<"load", q>> \in ToSet(log') <=> <<"load", q>> \in ToSet(log)
  BY <1>3
<1>6. LogOK'
  BY <1>1, <1>3, <1>4, <1>5 DEF LogOK
<1>7. \A f \in ToSet(log) : When(f)' = When(f) /\ When(f)' < When(e)'
  BY <1>1, <1>2, <1>3, NewEvent, WhenIs
<1>8. /\ \A q \in Procs : Committed(q) /\ Replaced(q) => Replaced(q)'
      /\ \A r, q \in Procs : pc[r] # "idle" /\ Committed(q) /\ Outdated(r, q)
                             => Outdated(r, q)'
  BY <1>1, <1>3, HistoryStays
<1>9. ASSUME NEW q \in Procs \ {p}, Stored(q)'
      PROVE  Kept(store[p], q)'
  <2>1. /\ Stored(q) /\ Committed(q) /\ <<"commit", q>> \in ToSet(log)
        /\ <<"load", p>> \in ToSet(log)
    BY <1>1, <1>4, <1>9 DEF Stored, Committed, LogOK
  <2>2. Later(p, q)' /\ Committed(p)'
    BY <1>4, <1>7, <2>1 DEF Later
  <2>3. CASE Kept(store[p], q)
    BY <1>1, <1>8, <2>1, <2>3 DEF Kept
  <2>4. CASE Own(p, cmd[q].alias)
    BY <1>1, <2>2, <2>4 DEF Kept, Replaced, Own
  <2>5. CASE Outdated(p, q)
    <3>1. Stale(p, q)' /\ cmd'[q].alias \in held'[p]
      BY <1>1, <1>7, <2>1, <2>5 DEF Outdated, Stale
    <3>2. QED
      BY <2>2, <3>1 DEF Kept, Replaced
  <2>6. QED
    BY <1>1, <2>1, <2>3, <2>4, <2>5 DEF MergeOK
<1>10. ASSUME Stored(p)' PROVE Kept(store[p], p)'
  BY <1>1, <1>10 DEF Stored, Kept, MergeOK
<1>11. \A q \in Procs : Stored(q)' => Kept(store[p], q)'
  BY <1>9, <1>10
<1>12. WrittenOK(p)' /\ CopyOK(p)' /\ MergeOK(p)'
  BY <1>1, <1>11 DEF WrittenOK, CopyOK, MergeOK
<1>13. DiskOK'
  <2>1. CASE disk' = store[p]
    BY <1>11, <2>1, <1>1, TornIsNoStore DEF DiskOK, Kept
  <2>2. CASE disk' = Torn
    BY <1>1, <2>2 DEF DiskOK
  <2>3. QED
    BY <1>1, <2>1, <2>2
<1>14. ASSUME NEW r \in Procs \ {p}
       PROVE  CopyOK(r)' /\ MergeOK(r)' /\ WrittenOK(r)'
  <2>1. pc[r] \notin {"locked", "merged", "written"} /\ pc'[r] = pc[r] /\ CopyOK(r)
    BY <1>1 DEF HInv, IInv, TypeOK
  <2>2. MergeOK(r)' /\ WrittenOK(r)'
    BY <2>1 DEF MergeOK, WrittenOK
  <2>3. SUFFICES ASSUME pc[r] \in {"loaded", "changed"}
                 PROVE  CopyOK(r)'
    BY <2>1, <2>2 DEF CopyOK
  <2>4. \A a \in Aliases : Exists(store[r], a) =>
          a \in held[r] \/ (pc[r] # "loaded" /\ Own(r, a))
    BY <2>1, <2>3 DEF CopyOK
  <2>5. ASSUME NEW q \in Procs, Stored(q)', Exists(store[r], cmd[q].alias)
        PROVE  \/ Kept(store[r], q)'
               \/ pc[r] # "loaded" /\ Own(r, cmd[q].alias)
               \/ Outdated(r, q)'
    <3>1. cmd[q].op = "store" /\ cmd[q].alias \in Aliases
      BY <1>1, <2>5, CommandsOK DEF Stored
    <3>2. CASE q = p
      <4>1. <<"load", r>> \in ToSet(log)
        BY <2>3, <1>1 DEF LogOK
      <4>2. When(<<"load", r>>)' < When(<<"commit", q>>)'
        BY <1>7, <3>2, <4>1
      <4>3. QED
        BY <1>1, <2>4, <2>5, <3>1, <4>2 DEF Outdated
    <3>3. CASE q # p
      <4>1. Stored(q) /\ Committed(q)
        BY <1>1, <1>4, <2>5, <3>3 DEF Stored
      <4>2. \/ Kept(store[r], q)
            \/ pc[r] # "loaded" /\ Own(r, cmd[q].alias)
            \/ Outdated(r, q)
        BY <2>1, <2>3, <2>5, <4>1 DEF CopyOK
      <4>3. QED
        BY <1>1, <1>8, <2>3, <4>1, <4>2 DEF Kept
    <3>4. QED
      BY <3>2, <3>3
  <2>6. pc[r] # "loaded" /\ cmd[r].op = "store" => ShownAs(store[r], cmd[r], r)
    BY <2>1, <2>3 DEF CopyOK
  <2>7. QED
    BY <1>1, <2>1, <2>4, <2>5, <2>6 DEF CopyOK, Own
<1>15. QED
  BY <1>6, <1>12, <1>13, <1>14 DEF HInv

LEMMA FinishHOK ==
  ASSUME IInv, HInv, NEW p \in Procs, Finish(p)
  PROVE  HInv'
<1>1. /\ LogOK /\ WrittenOK(p) /\ pc[p] = "written" /\ Goto(p, "done")
      /\ disk' = store[p] /\ UNCHANGED <<store, cmd, history>> /\ store[p] \in Stores
  BY DEF HInv, IInv, TypeOK, Finish, Truncate
<1>2. /\ LogOK' /\ \A q \in Procs : pc'[q] = IF q = p THEN "done" ELSE pc[q]
      /\ \A q \in Procs : Stored(q)' =>
           Stored(q) /\ cmd'[q] = cmd[q] /\ (Replaced(q) => Replaced(q)')
      /\ \A q \in Procs \ {p} : CopyOK(q)' /\ MergeOK(q)'
  BY <1>1, QuietOK DEF Labels
<1>3. disk' # Torn /\ DiskOK'
  BY <1>1, <1>2, TornIsNoStore DEF WrittenOK, DiskOK, Kept
<1>4. \A q \in Procs : WrittenOK(q)'
  BY <1>1, <1>2 DEF WrittenOK, IInv, TypeOK
<1>5. CopyOK(p)' /\ MergeOK(p)'
  BY <1>2 DEF CopyOK, MergeOK
<1>6. QED
  BY <1>2, <1>3, <1>4, <1>5 DEF HInv

\* A process that is killed while it writes may leave the file torn.
LEMMA CrashHOK ==
  ASSUME IInv, HInv, NEW p \in Procs, Crash(p)
  PROVE  HInv'
<1>1. /\ MayCrash /\ pc[p] \notin {"idle", "crashed"} /\ Goto(p, "crashed")
      /\ UNCHANGED <<disk, store, cmd, history>> /\ DiskOK
  BY DEF HInv, Crash
<1>2. /\ LogOK' /\ \A q \in Procs : pc'[q] = IF q = p THEN "crashed" ELSE pc[q]
      /\ \A q \in Procs : Stored(q)' =>
           Stored(q) /\ cmd'[q] = cmd[q] /\ (Replaced(q) => Replaced(q)')
      /\ \A q \in Procs \ {p} : CopyOK(q)' /\ MergeOK(q)' /\ WrittenOK(q)'
  BY <1>1, QuietOK DEF Labels
<1>3. DiskOK'
  <2>1. disk # Torn => \A q \in Procs : Stored(q)' => Kept(disk, q)'
    BY <1>1, <1>2 DEF DiskOK, Kept
  <2>2. \E q \in Procs : pc'[q] = "written" \/ (MayCrash /\ pc'[q] = "crashed")
    BY <1>1, <1>2
  <2>3. QED
    BY <1>1, <2>1, <2>2 DEF DiskOK
<1>4. CopyOK(p)' /\ MergeOK(p)' /\ WrittenOK(p)'
  BY <1>2 DEF CopyOK, MergeOK, WrittenOK
<1>5. QED
  BY <1>2, <1>3, <1>4 DEF HInv

\* A step after which the copy of p is of no use any more: it ends without writing.
LEMMA EndedHOK ==
  ASSUME IInv, HInv, NEW p \in Procs, NEW label \in {"done", "failed"},
         pc[p] \in {"loaded", "locked"}, Goto(p, label),
         UNCHANGED <<disk, store, cmd, history>>
  PROVE  HInv'
<1>1. /\ LogOK' /\ DiskOK' /\ pc'[p] = label
      /\ \A q \in Procs \ {p} : CopyOK(q)' /\ MergeOK(q)' /\ WrittenOK(q)'
  BY QuietOK DEF Labels
<1>2. CopyOK(p)' /\ MergeOK(p)' /\ WrittenOK(p)'
  BY <1>1 DEF CopyOK, MergeOK, WrittenOK
<1>3. QED
  BY <1>1, <1>2 DEF HInv

LEMMA LockHOK ==
  ASSUME IInv, HInv, NEW p \in Procs, Lock(p)
  PROVE  HInv'
<1>1. /\ pc[p] = "changed" /\ Goto(p, "locked") /\ UNCHANGED <<disk, store, cmd, history>>
      /\ CopyOK(p)
  BY DEF HInv, Lock
<1>2. /\ LogOK' /\ DiskOK' /\ pc'[p] = "locked"
      /\ \A q \in Procs : Stored(q)' =>
           Stored(q) /\ cmd'[q] = cmd[q] /\ (Replaced(q) => Replaced(q)')
      /\ \A q \in Procs : Committed(q) /\ Outdated(p, q) => Outdated(p, q)'
      /\ \A q \in Procs \ {p} : CopyOK(q)' /\ MergeOK(q)' /\ WrittenOK(q)'
  BY <1>1, QuietOK DEF Labels
<1>3. ASSUME NEW q \in Procs, Stored(q)', Exists(store[p], cmd[q].alias)
      PROVE  Kept(store[p], q)' \/ Own(p, cmd[q].alias) \/ Outdated(p, q)'
  BY <1>1, <1>2, <1>3 DEF CopyOK, Kept, Stored
<1>4. CopyOK(p)'
  BY <1>1, <1>2, <1>3 DEF CopyOK, Own, history
<1>5. MergeOK(p)' /\ WrittenOK(p)'
  BY <1>2 DEF MergeOK, WrittenOK
<1>6. QED
  BY <1>2, <1>4, <1>5 DEF HInv

LEMMA StoredRunOK ==
  ASSUME IInv, HInv, NEW p \in Procs, Run(p) \/ Crash(p)
  PROVE  HInv'
<1>1. /\ store[p] \in Stores /\ DOMAIN store = Procs
      /\ cmd[p] \in Commands /\ DOMAIN cmd = Procs
  BY DEF IInv, TypeOK, ControlOK
<1>2. CASE StoreItem(p)
  <2> DEFINE st == Insert(store[p], cmd[p].alias, cmd[p].item, p)
  <2>1. /\ pc[p] = "loaded" /\ Goto(p, "changed") /\ UNCHANGED <<disk, cmd, history>>
        /\ store' = [store EXCEPT ![p] = st] /\ cmd[p].op = "store"
        /\ cmd[p].alias \in Aliases /\ cmd[p].item \in DOMAIN SectionsOf
    BY <1>1, <1>2, CommandsOK, WalletAssumption DEF StoreItem, Commands, WalletAssumption
  <2>2. ShownAs(st, cmd[p], p)
    BY <1>1, <2>1, InsertOK DEF ShownAs
  <2>3. \A b \in Aliases : b # cmd[p].alias =>
          \A section \in Sections : st[section][b] = store[p][section][b]
    BY <1>1, <2>1, InsertOK
  <2> HIDE DEF st
  <2>4. \A b \in Aliases :
          \/ \A section \in Sections : st[section][b] = store[p][section][b]
          \/ ~Exists(st, b)
          \/ cmd[p].op = "store" /\ cmd[p].alias = b
    BY <2>1, <2>3
  <2>5. QED
    BY <1>1, <2>1, <2>2, <2>4, ChangedOK DEF IInv, TypeOK
<1>3. ASSUME NEW a \in Aliases, NEW c \in Commands, c.op # "store",
             pc[p] = "loaded", Goto(p, "changed"), UNCHANGED <<disk, history>>,
             store' = [store EXCEPT ![p] = Removed(store[p], a)],
             cmd' = [cmd EXCEPT ![p] = c]
      PROVE  HInv'
  <2> DEFINE st == Removed(store[p], a)
  <2>1. \A b \in Aliases :
          \/ \A section \in Sections : st[section][b] = store[p][section][b]
          \/ ~Exists(st, b)
          \/ c.op = "store" /\ c.alias = b
    <3>1. ASSUME NEW b \in Aliases, b # a
          PROVE  \A section \in Sections : st[section][b] = store[p][section][b]
      BY <1>1, <3>1, RemovedOK
    <3>2. ~Exists(st, a)
      BY <1>1, RemovedOK DEF Exists
    <3>3. QED
      BY <3>1, <3>2
  <2> HIDE DEF st
  <2>2. store' = [store EXCEPT ![p] = st]
    BY <1>3 DEF st
  <2>3. QED
    BY <1>1, <1>3, <2>1, <2>2, ChangedOK
<1>4. CASE FailToEncrypt(p)
  <2>1. cmd[p].alias \in Aliases /\ [op |-> "list"] \in Commands
    BY <1>4, CommandsOK DEF FailToEncrypt, Commands
  <2>2. QED
    BY <1>3, <1>4, <2>1 DEF FailToEncrypt
<1>5. CASE RemoveAlias(p)
  <2>1. cmd[p].alias \in Aliases /\ cmd[p].op # "store"
    BY <1>1, <1>5 DEF RemoveAlias, Commands
  <2>2. cmd' = [cmd EXCEPT ![p] = cmd[p]]
    BY <1>5 DEF RemoveAlias, IInv, ControlOK
  <2>3. QED
    BY <1>1, <1>3, <1>5, <2>1, <2>2 DEF RemoveAlias
<1>6. CASE View(p)
  <2>1. /\ pc[p] = "loaded" /\ UNCHANGED <<disk, store, cmd, history>> /\ cmd[p].op # "store"
        /\ Goto(p, "changed") \/ Goto(p, "done")
    BY <1>6 DEF View
  <2>2. CASE Goto(p, "done")
    BY <2>1, <2>2, EndedHOK
  <2>3. CASE Goto(p, "changed")
    BY <1>1, <2>1, <2>3, ChangedOK
  <2>4. QED
    BY <2>1, <2>2, <2>3
<1>7. CASE List(p)
  <2>1. /\ pc[p] = "loaded" /\ UNCHANGED <<disk, store, cmd, history>> /\ cmd[p].op # "store"
        /\ Goto(p, "changed")
    BY <1>7 DEF List
  <2>2. QED
    BY <1>1, <2>1, ChangedOK
<1>8. CASE RefuseDisk(p)
  BY <1>8, EndedHOK DEF RefuseDisk
<1>9. QED
  BY <1>2, <1>4, <1>5, <1>6, <1>7, <1>8, LoadHOK, LockHOK, MergeHOK, WriteHOK, FinishHOK,
     CrashHOK DEF Run

LEMMA StoredNextOK == IInv /\ HInv /\ [Next]_vars => HInv'
<1>1. ASSUME HInv, UNCHANGED vars PROVE HInv'
  <2>1. /\ disk' = disk /\ store' = store /\ cmd' = cmd /\ pc' = pc
        /\ held' = held /\ log' = log
    BY <1>1 DEF vars, history
  <2>2. LogOK'
    BY <1>1, <2>1 DEF HInv, LogOK, Committed
  <2>3. \A q \in Procs : (Stored(q)' <=> Stored(q)) /\ (Replaced(q)' <=> Replaced(q))
    BY <2>1 DEF Stored, Replaced, Committed, Later, Stale, When
  <2>4. \A p, q \in Procs : Outdated(p, q)' <=> Outdated(p, q)
    BY <2>1 DEF Outdated, When
  <2>5. \A p \in Procs : CopyOK(p)' /\ MergeOK(p)' /\ WrittenOK(p)'
    BY <1>1, <2>1, <2>3, <2>4 DEF HInv, CopyOK, MergeOK, WrittenOK, Kept, Own
  <2>6. DiskOK'
    BY <1>1, <2>1, <2>3 DEF HInv, DiskOK, Kept
  <2>7. QED
    BY <2>2, <2>5, <2>6 DEF HInv
<1>2. QED
  BY <1>1, StoredRunOK DEF Next, Ended

\* What a command stored stays in the wallet file unless a later command stores the
\* same alias or one that read the file before still had something else there
\* (wallet.rs:550 to 604), for any number of processes and aliases, and for any
\* order in which they read, merge, write and are killed.
THEOREM StoredStaysHolds == Spec => []StoredStays
<1>1. HInv => StoredStays
  <2> SUFFICES ASSUME HInv PROVE StoredStays
    OBVIOUS
  <2>1. CASE disk = Torn
    BY <2>1 DEF HInv, DiskOK, StoredStays
  <2>2. CASE disk # Torn
    BY <2>2 DEF HInv, DiskOK, StoredStays, Stored, Kept, Replaced, ShownAs
  <2>3. QED
    BY <2>1, <2>2
<1>2. Spec => []HInv
  BY HInitOK, StoredNextOK, Invariant, PTL DEF Spec
<1>3. QED
  BY <1>1, <1>2, PTL
=============================================================================
