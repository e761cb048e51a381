---------------------------- MODULE DurableStore ----------------------------
(***************************************************************************)
(* The state file (rpc-src/store.ts).  A transaction reads the whole file, *)
(* applies its callback to a copy, asserts that the state lock is held,    *)
(* writes a temporary file and renames it over the state file; init        *)
(* creates the file in place.  Any call to the file system may fail, a     *)
(* process may be killed between two of them, and a power loss leaves of   *)
(* what was not synced anything that the file system may have written.     *)
(* The state lock is the one that StateLock promises: one holder, which    *)
(* keeps it while it is inside a transaction.                              *)
(***************************************************************************)
CONSTANTS
  Procs,    \* the processes that open this state file
  Updates,  \* the updates their transactions make
  Nobody,   \* not a process: the lock is free
  Absent,   \* not a state: there is no file
  Torn      \* not a state: an empty or truncated file, which does not parse

ASSUME StoreAssumption ==
  /\ Nobody \notin Procs
  /\ \A v \in SUBSET Updates : v # Absent /\ v # Torn
  /\ Absent # Torn

VARIABLES
  visible, \* the state file as a reader finds it: the updates it holds
  after,   \* what a power loss at this moment may leave of it
  holder,  \* the process whose state lock is held
  pc,      \* pc[p]: the call that p is about to make
  draft,   \* draft[p]: the state that p writes, empty outside of a transaction
  update,  \* update[p]: the update that p's transaction makes, none outside of one
  acked    \* the updates whose transaction has returned

vars == <<visible, after, holder, pc, draft, update, acked>>

State == SUBSET Updates

\* The file parses.
Whole(v) == v \notin {Absent, Torn}

-----------------------------------------------------------------------------
Init ==
  /\ visible \in {Absent, {}} /\ after = {visible}
  /\ holder = Nobody
  /\ pc = [p \in Procs |-> "idle"]
  /\ draft = [p \in Procs |-> {}] /\ update = [p \in Procs |-> {}]
  /\ acked = {}

Goto(p, step) == pc' = [pc EXCEPT ![p] = step]

\* The transaction, or the creation of the file, is over.
Over(p) ==
  /\ Goto(p, "idle")
  /\ draft' = [draft EXCEPT ![p] = {}] /\ update' = [update EXCEPT ![p] = {}]

\* The call throws; a transaction removes its temporary file and gives up.
Throw(p) ==
  /\ Over(p)
  /\ UNCHANGED <<visible, after, acked>>

\* The calls of a transaction are synchronous: the lock does not change hands
\* between them.
Lock(p) ==
  /\ holder = Nobody /\ pc[p] = "idle"
  /\ holder' = p
  /\ UNCHANGED <<visible, after, pc, draft, update, acked>>

Unlock(p) ==
  /\ holder = p /\ pc[p] = "idle"
  /\ holder' = Nobody
  /\ UNCHANGED <<visible, after, pc, draft, update, acked>>

-----------------------------------------------------------------------------
(***************************************************************************)
(* transaction.                                                            *)
(***************************************************************************)
\* The file is read and the callback applied; a callback that throws, like a
\* file that is missing or does not parse, ends the transaction here.
ReadState(p) ==
  /\ pc[p] = "idle"
  /\ Whole(visible)
  /\ \E u \in Updates \ visible :
       /\ update' = [update EXCEPT ![p] = {u}]
       /\ draft' = [draft EXCEPT ![p] = visible \cup {u}]
  /\ Goto(p, "assert")
  /\ UNCHANGED <<visible, after, holder, acked>>

\* Mutant: a process that has lost the lock writes nonetheless.
WritableAlways(p) == TRUE

\* assertWritable() passes.
Writable(p) == holder = p

AssertWritable(p) ==
  /\ pc[p] = "assert"
  /\ \/ Writable(p) /\ Goto(p, "write") /\ UNCHANGED <<visible, after, draft, update, acked>>
     \/ ~Writable(p) /\ Throw(p)
  /\ UNCHANGED holder

\* The temporary file, which nobody else opens, is written and synced.
WriteTemporary(p) ==
  /\ pc[p] = "write"
  /\ \/ Goto(p, "rename") /\ UNCHANGED <<visible, after, draft, update, acked>>
     \/ Throw(p)
  /\ UNCHANGED holder

\* Mutant: the temporary file is not synced before it is renamed.
RenamedUnsynced(p) == {draft[p], Torn}

\* What the new directory entry may stand for after a power loss.
Renamed(p) == {draft[p]}

Rename(p) ==
  /\ pc[p] = "rename"
  /\ \/ /\ visible' = draft[p]
        /\ after' = after \cup Renamed(p)
        /\ Goto(p, "sync")
        /\ UNCHANGED <<draft, update, acked>>
     \/ Throw(p)
  /\ UNCHANGED holder

\* Only now does the transaction return; if the directory cannot be synced it
\* throws, and the update is there all the same.
SyncDirectory(p) ==
  /\ pc[p] = "sync"
  /\ \/ /\ after' = {visible}
        /\ acked' = acked \cup update[p]
        /\ Over(p)
        /\ UNCHANGED visible
     \/ Throw(p)
  /\ UNCHANGED holder

-----------------------------------------------------------------------------
(***************************************************************************)
(* createStateFile.                                                        *)
(***************************************************************************)
CreateExclusive(p) ==
  /\ pc[p] = "idle"
  /\ visible = Absent
  /\ visible' = Torn
  /\ after' = after \cup {Torn}
  /\ Goto(p, "fill")
  /\ UNCHANGED <<holder, draft, update, acked>>

Fill(p) ==
  /\ pc[p] = "fill"
  /\ \/ /\ visible' = {}
        /\ after' = after \cup {{}}
        /\ Goto(p, "fsync")
        /\ UNCHANGED <<draft, update, acked>>
     \/ Throw(p)
  /\ UNCHANGED holder

SyncFile(p) ==
  /\ pc[p] = "fsync"
  /\ \/ /\ after' = after \ {Torn}
        /\ Goto(p, "enter")
        /\ UNCHANGED <<visible, draft, update, acked>>
     \/ Throw(p)
  /\ UNCHANGED holder

EnterFile(p) ==
  /\ pc[p] = "enter"
  /\ \/ /\ after' = {visible}
        /\ Over(p)
        /\ UNCHANGED <<visible, acked>>
     \/ Throw(p)
  /\ UNCHANGED holder

-----------------------------------------------------------------------------
\* A process is killed; the kernel releases its lock.
Kill(p) ==
  /\ pc[p] # "idle"
  /\ Over(p)
  /\ holder' = IF holder = p THEN Nobody ELSE holder
  /\ UNCHANGED <<visible, after, acked>>

PowerLoss ==
  /\ \E v \in after : visible' = v /\ after' = {v}
  /\ pc' = [p \in Procs |-> "idle"]
  /\ draft' = [p \in Procs |-> {}] /\ update' = [p \in Procs |-> {}]
  /\ holder' = Nobody
  /\ UNCHANGED acked

Next ==
  \/ PowerLoss
  \/ \E p \in Procs :
       \/ Lock(p) \/ Unlock(p) \/ Kill(p)
       \/ ReadState(p) \/ AssertWritable(p) \/ WriteTemporary(p) \/ Rename(p)
       \/ SyncDirectory(p)
       \/ CreateExclusive(p) \/ Fill(p) \/ SyncFile(p) \/ EnterFile(p)

Spec == Init /\ [][Next]_vars

-----------------------------------------------------------------------------
(* State and type: what a reader finds could be there after a power loss    *)
(* too, and only the holder of the lock writes (store.ts, transaction).     *)
TypeOK ==
  /\ visible \in State \cup {Absent, Torn}
  /\ after \subseteq State \cup {Absent, Torn} /\ visible \in after
  /\ holder \in Procs \cup {Nobody}
  /\ pc \in [Procs -> {"idle", "assert", "write", "rename", "sync",
                       "fill", "fsync", "enter"}]
  /\ draft \in [Procs -> State]
  /\ update \in [Procs -> State]
  /\ acked \subseteq Updates
  /\ \A p \in Procs : pc[p] \in {"write", "rename", "sync"} => holder = p

(* An update whose transaction has returned is in the state file, and would *)
(* be after a power loss at any moment (store.ts, _writeState).             *)
AckedKept ==
  acked # {} => \A v \in after : Whole(v) /\ acked \subseteq v

\* The updates that a reader of the state sees.
Applied == IF Whole(visible) THEN visible ELSE {}

(* Seen by its readers the state file is an atomic store: whole updates are *)
(* applied, one at a time, and acknowledged ones stay (store.ts).           *)
Atomic == INSTANCE AtomicStore WITH value <- Applied

Implements == Atomic!Spec
=============================================================================
