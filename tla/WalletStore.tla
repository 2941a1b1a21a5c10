---------------------------- MODULE WalletStore ----------------------------
(***************************************************************************)
(* The wallet file and the commands that work on it (nodes/src/wallet.rs,  *)
(* nodes/src/main.rs).  A command reads the file without a lock, may wait  *)
(* for a passphrase, changes its copy, and in the end merges the copy into *)
(* the file under a lock.  Commands run in processes of their own, at the  *)
(* same time, and a process may be killed anywhere.                        *)
(*                                                                         *)
(* The keys and addresses that one command stores are abstracted to one    *)
(* value, the name of its process.  The text of a store is abstracted to   *)
(* the store; one that is written in part is Torn and does not parse.      *)
(***************************************************************************)
EXTENDS Naturals, FiniteSets, Sequences, SequencesExt

CONSTANTS
  Procs,    \* processes, each runs one command
  Aliases,
  Items,    \* what commands store: some of DOMAIN SectionsOf
  MayCrash, \* whether processes are killed
  None


VARIABLES
  disk,   \* wallet.toml
  lock,   \* the process that holds the lock of the file
  store,  \* the copy of every process
  cmd,    \* its command
  pc,     \* "idle", "loaded", "changed", "locked", "merged", "written", then
          \* "done", "failed" or "crashed"
  held,   \* history: the aliases in the copy of every process when it was read
  log     \* history: loads and commits, in order

history == <<held, log>>
vars == <<disk, lock, store, cmd, pc, history>>

Sections ==
  {"viewing_keys", "spending_keys", "payment_addrs", "signing_keys", "verifying_keys", "addresses"}

\* The sections in which storing an item makes an entry.
SectionsOf ==
  [spending_key |-> {"viewing_keys", "spending_keys", "payment_addrs"},
   viewing_key |-> {"viewing_keys", "payment_addrs"},
   payment_address |-> {"payment_addrs"},
   signing_key |-> {"signing_keys", "verifying_keys", "addresses"},
   address |-> {"addresses"}]

ASSUME WalletAssumption ==
  /\ None \notin Procs
  /\ MayCrash \in BOOLEAN
  /\ Items \subseteq DOMAIN SectionsOf

EmptyStore == [c \in Sections |-> [a \in Aliases |-> None]]
Torn == <<>>   \* a text without any section

Commands ==
  [op : {"store"}, alias : Aliases, item : Items]
    \cup [op : {"remove", "view"}, alias : Aliases]
    \cup [op : {"list"}]

Init ==
  /\ disk = EmptyStore
  /\ lock = None
  /\ store = [p \in Procs |-> EmptyStore]
  /\ cmd \in [Procs -> Commands]
  /\ pc = [p \in Procs |-> "idle"]
  /\ held = [p \in Procs |-> {}]
  /\ log = <<>>

-----------------------------------------------------------------------------
(* Store. *)

Exists(st, a) == \E c \in Sections : st[c][a] # None

Removed(st, a) == [c \in Sections |-> [st[c] EXCEPT ![a] = None]]

\* mutant: what the alias had stays in the other sections
InsertOver(st, a, item, key) ==
  [c \in Sections |-> IF c \in SectionsOf[item] THEN [st[c] EXCEPT ![a] = key] ELSE st[c]]
Insert(st, a, item, key) ==
  [c \in Sections |-> IF c \in SectionsOf[item] THEN [Removed(st, a)[c] EXCEPT ![a] = key]
                                                ELSE Removed(st, a)[c]]

\* mutant: the entries on disk win
MergedUnder(st, other) ==
  [c \in Sections |-> [a \in Aliases |-> IF Exists(st, a) THEN st[c][a] ELSE other[c][a]]]
\* st.merge(other): the aliases of other are cleared in st first.
Merged(st, other) ==
  [c \in Sections |-> [a \in Aliases |-> IF Exists(other, a) THEN other[c][a] ELSE st[c][a]]]

-----------------------------------------------------------------------------
(* A command. *)

Goto(p, label) == pc' = [pc EXCEPT ![p] = label]

\* A file that does not parse is an empty store: unwrap_or_default.
Load(p) ==
  /\ pc[p] = "idle"
  /\ store' = [store EXCEPT ![p] = IF disk = Torn THEN EmptyStore ELSE disk]
  /\ held' = [held EXCEPT ![p] = {a \in Aliases : Exists(store'[p], a)}]
  /\ log' = Append(log, <<"load", p>>)
  /\ Goto(p, "loaded")
  /\ UNCHANGED <<disk, lock, cmd>>

StoreItem(p) ==
  /\ pc[p] = "loaded" /\ cmd[p].op = "store"
  /\ store' = [store EXCEPT ![p] = Insert(@, cmd[p].alias, cmd[p].item, p)]
  /\ Goto(p, "changed")
  /\ UNCHANGED <<disk, lock, cmd, history>>

\* Encrypting fails after the alias was cleared; the command reports it and goes on.
FailToEncrypt(p) ==
  /\ pc[p] = "loaded" /\ cmd[p].op = "store"
  /\ cmd[p].item \in {"spending_key", "signing_key"}
  /\ store' = [store EXCEPT ![p] = Removed(@, cmd[p].alias)]
  /\ cmd' = [cmd EXCEPT ![p] = [op |-> "list"]]
  /\ Goto(p, "changed")
  /\ UNCHANGED <<disk, lock, history>>

RemoveAlias(p) ==
  /\ pc[p] = "loaded" /\ cmd[p].op = "remove"
  /\ store' = [store EXCEPT ![p] = Removed(@, cmd[p].alias)]
  /\ Goto(p, "changed")
  /\ UNCHANGED <<disk, lock, cmd, history>>

View(p) ==
  /\ pc[p] = "loaded" /\ cmd[p].op = "view"
  /\ Goto(p, IF Exists(store[p], cmd[p].alias) THEN "changed" ELSE "done")
  /\ UNCHANGED <<disk, lock, store, cmd, history>>

List(p) ==
  /\ pc[p] = "loaded" /\ cmd[p].op = "list"
  /\ Goto(p, "changed")
  /\ UNCHANGED <<disk, lock, store, cmd, history>>

\* synchronize, under the lock.
Lock(p) ==
  /\ pc[p] = "changed"
  /\ lock = None
  /\ lock' = p
  /\ Goto(p, "locked")
  /\ UNCHANGED <<disk, store, cmd, history>>

MergeDisk(p) ==
  /\ pc[p] = "locked"
  /\ disk # Torn
  /\ store' = [store EXCEPT ![p] = Merged(disk, @)]
  /\ Goto(p, "merged")
  /\ UNCHANGED <<disk, lock, cmd, history>>

\* mutant: the error leaves the file locked
KeepLock == UNCHANGED lock
Unlock == lock' = None

RefuseDisk(p) ==
  /\ pc[p] = "locked"
  /\ disk = Torn
  /\ Unlock
  /\ Goto(p, "failed")
  /\ UNCHANGED <<disk, store, cmd, history>>

\* The new text over the old one, which may be longer, or may be read before all
\* of it is written; the same text changes nothing.
Write(p) ==
  /\ pc[p] = "merged"
  /\ disk' \in {store[p]} \cup (IF disk = store[p] THEN {} ELSE {Torn})
  /\ log' = Append(log, <<"commit", p>>)
  /\ Goto(p, "written")
  /\ UNCHANGED <<lock, store, cmd, held>>

Truncate(p) == disk' = store[p]

Finish(p) ==
  /\ pc[p] = "written"
  /\ Truncate(p)
  /\ lock' = None
  /\ Goto(p, "done")
  /\ UNCHANGED <<store, cmd, history>>

\* The process is killed: its lock goes with it.
Crash(p) ==
  /\ MayCrash
  /\ pc[p] \notin {"idle", "done", "failed", "crashed"}
  /\ lock' = IF lock = p THEN None ELSE lock
  /\ Goto(p, "crashed")
  /\ UNCHANGED <<disk, store, cmd, history>>

-----------------------------------------------------------------------------
Run(p) ==
  \/ Load(p)
  \/ StoreItem(p) \/ FailToEncrypt(p) \/ RemoveAlias(p) \/ View(p) \/ List(p)
  \/ Lock(p) \/ MergeDisk(p) \/ RefuseDisk(p) \/ Write(p) \/ Finish(p)

\* All the commands have ended: the only way to stop, since deadlock is checked.
Ended ==
  /\ \A p \in Procs : pc[p] \in {"done", "failed", "crashed"}
  /\ UNCHANGED vars

Next == (\E p \in Procs : Run(p) \/ Crash(p)) \/ Ended

Spec == Init /\ [][Next]_vars

-----------------------------------------------------------------------------
Stores == [Sections -> [Aliases -> Procs \cup {None}]]

\* The lock is held exactly while its holder is at work on the file.
TypeOK ==
  /\ disk \in Stores \cup {Torn}
  /\ lock \in Procs \cup {None}
  /\ store \in [Procs -> Stores]
  /\ \A p \in Procs : lock = p <=> pc[p] \in {"locked", "merged", "written"}

\* "avoid inconsistent state where the same alias has unrelated keys"
\* (nodes/src/wallet.rs:551): an alias stands for one item, whole and of one command.
CoherentStore(st) ==
  \A a \in Aliases : Exists(st, a) =>
    \E item \in DOMAIN SectionsOf : \E key \in Procs : \A c \in Sections :
      st[c][a] = IF c \in SectionsOf[item] THEN key ELSE None

Coherent ==
  /\ disk # Torn => CoherentStore(disk)
  /\ \A p \in Procs : CoherentStore(store[p])

When(event) == CHOOSE i \in DOMAIN log : log[i] = event
Committed(p) == <<"commit", p>> \in ToSet(log)

\* p has the file as it was before q wrote it, and wrote later.
Stale(p, q) == When(<<"load", p>>) < When(<<"commit", q>>)
                 /\ When(<<"commit", q>>) < When(<<"commit", p>>)
Later(p, q) == When(<<"commit", q>>) < When(<<"commit", p>>)

\* What a command stored stays in the file, though nothing locks it from load to
\* synchronize: only a later command that stores the same alias replaces it, or
\* one that ran at the same time and still had something else at the alias. The
\* whole file is lost only to a process that was killed between writing it and
\* cutting off the rest of the longer old text.
StoredStays ==
  \/ /\ disk = Torn
     /\ \E p \in Procs : pc[p] = "written" \/ (MayCrash /\ pc[p] = "crashed")
  \/ /\ disk # Torn
     /\ \A q \in Procs : Committed(q) /\ cmd[q].op = "store" =>
          \/ \A c \in SectionsOf[cmd[q].item] : disk[c][cmd[q].alias] = q
          \/ \E p \in Procs \ {q} : Committed(p) /\
               \/ Later(p, q) /\ cmd[p].op = "store" /\ cmd[p].alias = cmd[q].alias
               \/ Stale(p, q) /\ cmd[q].alias \in held[p]

\* "Always synchronize changes to disk at the end of the operation"
\* (nodes/src/main.rs:332): an alias that was removed is not in the file.
RemovalSynchronized ==
  [][\A p \in Procs : pc[p] = "written" /\ pc'[p] = "done" /\ cmd[p].op = "remove"
                        => ~Exists(disk', cmd[p].alias)]_vars
=============================================================================
