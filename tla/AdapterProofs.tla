---------------------------- MODULE AdapterProofs ----------------------------
(***************************************************************************)
(* Proofs about DurableStore and about Adapter, for every set of           *)
(* processes, of updates and of connections.  First the store by itself:   *)
(* what a transaction has returned is kept through every power loss, and   *)
(* the state file implements AtomicStore.  Then its composition with the   *)
(* server, with losses of the lock and restarts: the store still does, and *)
(* the lock covers the transactions of recovery and of requests.           *)
(***************************************************************************)
EXTENDS Adapter, TLAPS

\* Whatever a power loss may leave holds what was acknowledged, and nothing
\* that a reader does not see.
Recoverable ==
  \A v \in after :
    /\ Whole(v) => v \subseteq Applied
    /\ acked # {} => Whole(v) /\ acked \subseteq v

\* The draft of a process that may still rename is the present state and its
\* own update.
Drafts ==
  \A p \in Procs :
    /\ pc[p] \in {"assert", "write", "rename"} /\ holder = p =>
         Whole(visible) /\ draft[p] = visible \cup update[p]
    /\ pc[p] = "sync" => Whole(visible) /\ update[p] \subseteq visible
    /\ pc[p] \in {"assert", "write", "rename", "sync"} => \E u \in Updates : update[p] = {u}

\* A file that is being created is torn until its only creator fills it.
Creation ==
  \A p \in Procs :
    /\ pc[p] = "fill" => visible = Torn /\ \A q \in Procs : pc[q] = "fill" => q = p
    /\ pc[p] \in {"fsync", "enter"} => Whole(visible)

IInv == TypeOK /\ Recoverable /\ Drafts /\ Creation

-----------------------------------------------------------------------------
\* A file that parses holds a set of updates.
LEMMA WholeIsState ==
  ASSUME NEW v \in State \cup {Absent, Torn}
  PROVE  Whole(v) <=> v \in State
  BY StoreAssumption DEF Whole, State

\* The store starts with no file, or with an empty state.
LEMMA Initially == Init => IInv
<1> SUFFICES ASSUME Init PROVE IInv
  OBVIOUS
<1> USE DEF Init
<1>1. TypeOK
  BY DEF TypeOK, State
<1>2. Recoverable
  BY StoreAssumption DEF Recoverable, Applied, Whole
<1>3. Drafts /\ Creation
  BY DEF Drafts, Creation
<1> QED
  BY <1>1, <1>2, <1>3 DEF IInv

\* A call that is over leaves the others theirs.
LEMMA Finished ==
  ASSUME TypeOK, NEW p \in Procs, Over(p)
  PROVE  /\ pc'[p] = "idle" /\ draft'[p] = {} /\ update'[p] = {}
         /\ \A q \in Procs \ {p} : pc'[q] = pc[q] /\ draft'[q] = draft[q] /\ update'[q] = update[q]
         /\ pc' \in [Procs -> {"idle", "assert", "write", "rename", "sync",
                               "fill", "fsync", "enter"}]
         /\ draft' \in [Procs -> State] /\ update' \in [Procs -> State]
  BY DEF Over, Goto, TypeOK, State

\* A call that throws, or whose process is killed, is over; the lock may go.
LEMMA GivingUp ==
  ASSUME IInv, NEW p \in Procs, Throw(p),
         holder' = holder \/ (holder = p /\ holder' = Nobody)
  PROVE  IInv' /\ Applied' = Applied /\ acked' = acked
<1>1. visible' = visible /\ after' = after /\ acked' = acked /\ Over(p)
  BY DEF Throw
<1>2. Applied' = Applied /\ Recoverable'
  BY <1>1 DEF IInv, Applied, Whole, Recoverable
<1>3. /\ pc'[p] = "idle"
      /\ \A q \in Procs \ {p} : pc'[q] = pc[q] /\ draft'[q] = draft[q] /\ update'[q] = update[q]
      /\ pc' \in [Procs -> {"idle", "assert", "write", "rename", "sync",
                            "fill", "fsync", "enter"}]
      /\ draft' \in [Procs -> State] /\ update' \in [Procs -> State]
  BY <1>1, Finished DEF IInv
<1>4. TypeOK'
  BY <1>1, <1>3 DEF IInv, TypeOK
<1>5. Drafts'
  BY <1>1, <1>3, StoreAssumption DEF IInv, TypeOK, Drafts, Whole
<1>6. Creation'
  BY <1>1, <1>3 DEF IInv, Creation, Whole
<1> QED
  BY <1>1, <1>2, <1>4, <1>5, <1>6 DEF IInv

\* The steps that leave the file and the acknowledged updates alone.
LEMMA Private ==
  ASSUME IInv, NEW p \in Procs,
         Lock(p) \/ Unlock(p) \/ Kill(p) \/ AssertWritable(p) \/ WriteTemporary(p)
  PROVE  IInv' /\ Applied' = Applied /\ acked' = acked
<1> DEFINE Still == visible' = visible /\ after' = after /\ acked' = acked
                    /\ draft' = draft /\ update' = update
<1>1. ASSUME Still PROVE Applied' = Applied /\ Recoverable' /\ acked' = acked
  BY <1>1 DEF IInv, Applied, Whole, Recoverable
<1>2. CASE Lock(p)
  <2>1. Still
    BY <1>2 DEF Lock
  <2>2. TypeOK' /\ Drafts' /\ Creation'
    BY <2>1, <1>2, StoreAssumption DEF IInv, Lock, TypeOK, Drafts, Creation, Whole
  <2> QED
    BY <2>1, <2>2, <1>1 DEF IInv
<1>3. CASE Unlock(p)
  <2>1. Still
    BY <1>3 DEF Unlock
  <2>2. TypeOK' /\ Drafts' /\ Creation'
    BY <2>1, <1>3, StoreAssumption DEF IInv, Unlock, TypeOK, Drafts, Creation, Whole
  <2> QED
    BY <2>1, <2>2, <1>1 DEF IInv
<1>4. CASE Kill(p)
  BY <1>4, GivingUp DEF Kill, Throw
<1>5. CASE AssertWritable(p) /\ ~Throw(p)
  <2>1. Still /\ holder' = holder /\ holder = p /\ pc[p] = "assert" /\ Goto(p, "write")
    BY <1>5 DEF AssertWritable, Writable
  <2>2. TypeOK' /\ Drafts' /\ Creation'
    BY <2>1 DEF IInv, Goto, TypeOK, Drafts, Creation, Whole
  <2> QED
    BY <2>1, <2>2, <1>1 DEF IInv
<1>6. CASE WriteTemporary(p) /\ ~Throw(p)
  <2>1. Still /\ holder' = holder /\ pc[p] = "write" /\ Goto(p, "rename")
    BY <1>6 DEF WriteTemporary
  <2>2. TypeOK' /\ Drafts' /\ Creation'
    BY <2>1 DEF IInv, Goto, TypeOK, Drafts, Creation, Whole
  <2> QED
    BY <2>1, <2>2, <1>1 DEF IInv
<1>7. CASE (AssertWritable(p) \/ WriteTemporary(p)) /\ Throw(p)
  BY <1>7, GivingUp DEF AssertWritable, WriteTemporary
<1> QED
  BY <1>2, <1>3, <1>4, <1>5, <1>6, <1>7

\* Reading the state makes a draft of it that no reader sees.
LEMMA Reading ==
  ASSUME IInv, NEW p \in Procs, ReadState(p)
  PROVE  IInv' /\ Applied' = Applied /\ acked' = acked
<1> USE DEF IInv, ReadState, Goto
<1>1. visible' = visible /\ after' = after /\ acked' = acked /\ holder' = holder
  OBVIOUS
<1>2. PICK u \in Updates : update' = [update EXCEPT ![p] = {u}]
                           /\ draft' = [draft EXCEPT ![p] = visible \cup {u}]
  OBVIOUS
<1>3. visible \in State
  BY WholeIsState DEF TypeOK
<1>4. TypeOK'
  BY <1>1, <1>2, <1>3 DEF TypeOK, State
<1>5. Applied' = Applied /\ Recoverable'
  BY <1>1 DEF Applied, Whole, Recoverable
<1>6. Drafts' /\ Creation'
  BY <1>1, <1>2 DEF Drafts, Creation, TypeOK, Whole
<1> QED
  BY <1>1, <1>4, <1>5, <1>6

\* A rename that succeeds adds one update to what readers see.
LEMMA Renaming ==
  ASSUME IInv, NEW p \in Procs, Rename(p)
  PROVE  IInv' /\ acked' = acked /\ (Applied' = Applied \/ Applied' = Applied \cup update[p])
<1>1. CASE Throw(p)
  BY <1>1, GivingUp DEF Rename
<1>2. CASE ~Throw(p)
  <2>1. /\ pc[p] = "rename" /\ Goto(p, "sync") /\ visible' = draft[p]
        /\ after' = after \cup Renamed(p)
        /\ holder' = holder /\ draft' = draft /\ update' = update /\ acked' = acked
    BY <1>2 DEF Rename
  <2>2. holder = p /\ Whole(visible) /\ draft[p] = visible \cup update[p]
    BY <2>1 DEF IInv, TypeOK, Drafts
  <2>3. draft[p] \in State /\ Whole(draft[p]) /\ visible \in after
    BY WholeIsState DEF IInv, TypeOK
  <2>4. Applied = visible /\ Applied' = visible \cup update[p]
    BY <2>1, <2>2, <2>3 DEF Applied, Whole
  <2>5. TypeOK'
    BY <2>1, <2>2, <2>3 DEF IInv, TypeOK, Goto, Renamed
  <2>6. Recoverable'
    BY <2>1, <2>2, <2>3, <2>4 DEF IInv, Recoverable, Renamed, Whole
  <2>7. Drafts'
    BY <2>1, <2>2, <2>3 DEF IInv, Drafts, TypeOK, Goto, Whole
  <2>8. Creation'
    BY <2>1, <2>2, <2>3 DEF IInv, Creation, TypeOK, Goto, Whole
  <2> QED
    BY <2>1, <2>4, <2>5, <2>6, <2>7, <2>8 DEF IInv
<1> QED
  BY <1>1, <1>2

\* The sync of the directory makes what readers see all that is left.
LEMMA Syncing ==
  ASSUME IInv, NEW p \in Procs, SyncDirectory(p)
  PROVE  /\ IInv' /\ Applied' = Applied
         /\ acked' = acked \/ (acked' = acked \cup update[p] /\ update[p] \subseteq Applied)
<1>1. CASE Throw(p)
  BY <1>1, GivingUp DEF SyncDirectory
<1>2. CASE ~Throw(p)
  <2>1. /\ pc[p] = "sync" /\ Over(p) /\ visible' = visible /\ after' = {visible}
        /\ holder' = holder /\ acked' = acked \cup update[p]
    BY <1>2 DEF SyncDirectory
  <2>2. Whole(visible) /\ update[p] \subseteq visible /\ visible \in after
    BY <2>1 DEF IInv, TypeOK, Drafts
  <2>3. Applied = visible /\ Applied' = Applied
    BY <2>1, <2>2 DEF Applied, Whole
  <2>4. /\ pc'[p] = "idle"
        /\ \A q \in Procs \ {p} : pc'[q] = pc[q] /\ draft'[q] = draft[q] /\ update'[q] = update[q]
        /\ pc' \in [Procs -> {"idle", "assert", "write", "rename", "sync",
                              "fill", "fsync", "enter"}]
        /\ draft' \in [Procs -> State] /\ update' \in [Procs -> State]
    BY <2>1, Finished DEF IInv
  <2>5. TypeOK'
    BY <2>1, <2>4 DEF IInv, TypeOK, State
  <2>6. acked' \subseteq visible
    BY <2>1, <2>2 DEF IInv, Recoverable
  <2>7. Recoverable'
    BY <2>1, <2>2, <2>3, <2>6 DEF Recoverable, Whole
  <2>8. Drafts' /\ Creation'
    BY <2>1, <2>4 DEF IInv, Drafts, Creation, TypeOK, Whole
  <2> QED
    BY <2>1, <2>2, <2>3, <2>5, <2>7, <2>8 DEF IInv
<1> QED
  BY <1>1, <1>2

\* A file can be created only where nothing was acknowledged.
LEMMA Creating ==
  ASSUME IInv, NEW p \in Procs,
         CreateExclusive(p) \/ Fill(p) \/ SyncFile(p) \/ EnterFile(p)
  PROVE  IInv' /\ Applied' = Applied /\ acked' = acked
<1>1. CASE ~CreateExclusive(p) /\ Throw(p)
  BY <1>1, GivingUp DEF Fill, SyncFile, EnterFile
<1>2. CASE CreateExclusive(p)
  <2> USE DEF IInv, Goto
  <2>1. acked = {} /\ acked' = acked
    BY <1>2 DEF CreateExclusive, Recoverable, TypeOK, Whole
  <2>2. Applied = {} /\ Applied' = {}
    BY <1>2 DEF CreateExclusive, Applied, Whole
  <2>3. TypeOK'
    BY <1>2 DEF CreateExclusive, TypeOK
  <2>4. Recoverable'
    BY <1>2, <2>1, <2>2 DEF CreateExclusive, Recoverable, Whole
  <2>5. Drafts' /\ Creation'
    BY <1>2, StoreAssumption DEF CreateExclusive, Drafts, Creation, TypeOK, Whole
  <2> QED
    BY <2>1, <2>2, <2>3, <2>4, <2>5
<1>3. CASE Fill(p) /\ ~Throw(p)
  <2> USE DEF IInv, Goto
  <2>1. /\ pc[p] = "fill" /\ visible' = {} /\ after' = after \cup {{}} /\ Goto(p, "fsync")
        /\ UNCHANGED <<acked, holder, draft, update>>
    BY <1>3 DEF Fill
  <2>2. visible = Torn
    BY <2>1 DEF Creation
  <2>3. acked = {} /\ Whole({})
    BY <2>2, StoreAssumption DEF Recoverable, TypeOK, Whole
  <2>4. Applied = {} /\ Applied' = {}
    BY <2>1, <2>2 DEF Applied, Whole
  <2>5. TypeOK'
    BY <2>1 DEF TypeOK, State
  <2>6. Recoverable'
    BY <2>1, <2>3, <2>4 DEF Recoverable, Whole
  <2>7. Drafts'
    BY <2>1, <2>2 DEF Drafts, TypeOK, Whole
  <2>8. Creation'
    BY <2>1, <2>3 DEF Creation, TypeOK, Whole
  <2> QED
    BY <2>1, <2>4, <2>5, <2>6, <2>7, <2>8
<1>4. CASE SyncFile(p) /\ ~Throw(p)
  <2> USE DEF IInv, Goto
  <2>1. /\ pc[p] = "fsync" /\ after' = after \ {Torn} /\ Goto(p, "enter")
        /\ UNCHANGED <<visible, acked, holder, draft, update>>
    BY <1>4 DEF SyncFile
  <2>2. Whole(visible)
    BY <2>1 DEF Creation
  <2> QED
    BY <2>1, <2>2 DEF TypeOK, Recoverable, Drafts, Creation, Applied, Whole
<1>5. CASE EnterFile(p) /\ ~Throw(p)
  <2>1. /\ pc[p] = "enter" /\ after' = {visible} /\ Over(p)
        /\ UNCHANGED <<visible, acked, holder>>
    BY <1>5 DEF EnterFile
  <2>2. /\ pc'[p] = "idle"
        /\ \A q \in Procs \ {p} : pc'[q] = pc[q] /\ draft'[q] = draft[q] /\ update'[q] = update[q]
        /\ pc' \in [Procs -> {"idle", "assert", "write", "rename", "sync",
                              "fill", "fsync", "enter"}]
        /\ draft' \in [Procs -> State] /\ update' \in [Procs -> State]
    BY <2>1, Finished DEF IInv
  <2>3. TypeOK'
    BY <2>1, <2>2 DEF IInv, TypeOK
  <2>4. Applied' = Applied /\ Recoverable'
    BY <2>1 DEF IInv, TypeOK, Recoverable, Applied, Whole
  <2>5. Drafts' /\ Creation'
    BY <2>1, <2>2 DEF IInv, Drafts, Creation, TypeOK, Whole
  <2> QED
    BY <2>1, <2>3, <2>4, <2>5 DEF IInv
<1> QED
  BY <1>1, <1>2, <1>3, <1>4, <1>5

\* A power loss leaves one of the states that Recoverable speaks of.
LEMMA Losing ==
  ASSUME IInv, PowerLoss
  PROVE  IInv' /\ acked' = acked /\ acked \subseteq Applied' /\ Applied' \subseteq Applied
<1> USE DEF IInv, PowerLoss
<1>1. PICK v \in after : visible' = v /\ after' = {v}
  OBVIOUS
<1>2. TypeOK'
  BY <1>1 DEF TypeOK, State
<1>3. acked' = acked /\ acked \subseteq Applied' /\ Applied' \subseteq Applied
  BY <1>1 DEF Recoverable, Applied, Whole
<1>4. Recoverable'
  BY <1>1, <1>3 DEF Recoverable, Applied, Whole
<1>5. Drafts' /\ Creation'
  BY DEF Drafts, Creation
<1> QED
  BY <1>2, <1>3, <1>4, <1>5

\* A step maps to a step of AtomicStore or to a stutter of it.
LEMMA Step ==
  ASSUME IInv, [Next]_vars
  PROVE  IInv' /\ [Atomic!Next]_(Atomic!vars)
<1> USE DEF Atomic!Next, Atomic!Apply, Atomic!Acknowledge, Atomic!PowerLoss, Atomic!vars
<1>1. CASE UNCHANGED vars
  BY <1>1 DEF vars, IInv, TypeOK, Recoverable, Drafts, Creation, Applied, Whole
<1>2. CASE PowerLoss
  BY <1>2, Losing
<1>3. ASSUME NEW p \in Procs,
             \/ Lock(p) \/ Unlock(p) \/ Kill(p)
             \/ ReadState(p) \/ AssertWritable(p) \/ WriteTemporary(p) \/ Rename(p)
             \/ SyncDirectory(p)
             \/ CreateExclusive(p) \/ Fill(p) \/ SyncFile(p) \/ EnterFile(p)
      PROVE  IInv' /\ [Atomic!Next]_(Atomic!vars)
  <2>1. CASE Rename(p)
    <3>1. PICK u \in Updates : update[p] = {u}
      BY <2>1 DEF IInv, Drafts, Rename
    <3> QED
      BY <3>1, <2>1, Renaming
  <2>2. CASE SyncDirectory(p)
    <3>1. PICK u \in Updates : update[p] = {u}
      BY <2>2 DEF IInv, Drafts, SyncDirectory
    <3> QED
      BY <3>1, <2>2, Syncing
  <2>3. CASE ~Rename(p) /\ ~SyncDirectory(p)
    BY <1>3, <2>3, Private, Reading, Creating
  <2> QED
    BY <2>1, <2>2, <2>3
<1> QED
  BY <1>1, <1>2, <1>3 DEF Next

-----------------------------------------------------------------------------
(* IInv is an invariant of the store (store.ts).                            *)
THEOREM Invariance == Spec => []IInv
<1>1. IInv /\ [Next]_vars => IInv'
  BY Step
<1> QED
  BY Initially, <1>1, PTL DEF Spec

(* What a transaction has returned is in the state file and would be after  *)
(* a power loss at any moment (store.ts, _writeState).                      *)
THEOREM AcknowledgedKept == Spec => []AckedKept
<1>1. IInv => AckedKept
  BY DEF IInv, Recoverable, AckedKept
<1> QED
  BY Invariance, <1>1, PTL

(* The state file implements AtomicStore: the step that every other module  *)
(* takes a transaction of the store for (store.ts).                         *)
THEOREM Refinement == Spec => Implements
<1>1. Init => Atomic!Init
  BY DEF Init, Atomic!Init, Applied, Whole
<1>2. IInv /\ [Next]_vars => [Atomic!Next]_(Atomic!vars)
  BY Step
<1> QED
  BY Invariance, <1>1, <1>2, PTL DEF Spec, Implements, Atomic!Spec

-----------------------------------------------------------------------------
(***************************************************************************)
(* The adapter.                                                            *)
(***************************************************************************)
\* What each stage of start() knows of the phase and of the lock.
StartShape ==
  /\ starting = "no" => phase \in {"idle", "stopped"} /\ lock = "none"
  /\ starting = "acquire" => phase = "starting" /\ lock = "none"
  /\ starting \in {"recover", "listen", "bound"} => phase = "starting" /\ lock = "held"
  /\ starting = "release" => phase = "stopped" /\ lock = "held"
  /\ starting = "failed" => phase = "stopped" /\ lock # "held"
  /\ starting = "done" => phase \in {"ready", "draining", "stopped"}
  /\ phase \in {"ready", "draining"} => starting = "done" /\ lock = "held"

\* What each stage of stop() knows.
StopShape ==
  /\ stopping \in {"no", "start"} => phase # "draining"
  /\ stopping \in {"no", "start"} /\ starting = "done" => phase = "ready"
  /\ stopping = "start" => starting # "no"
  /\ stopping \in {"operations", "listener"} => phase = "draining"
  /\ stopping = "release" => phase = "stopped" /\ starting = "done" /\ lock = "held"
  /\ stopping = "done" => phase = "stopped" /\ lock # "held"

\* Where there can be a listener, a connection or an operation.
WorkShape ==
  /\ listening => starting \in {"bound", "done"} /\ stopping \in {"no", "start"}
  /\ starting \notin {"bound", "done"} => Server!Open = {} /\ inFlight = {}
  /\ inFlight # {} => phase \in {"ready", "draining"}
  /\ stopping = "listener" => inFlight = {}
  /\ stopping \in {"release", "done"} => Server!Open = {} /\ inFlight = {}

ServerInv == Server!TypeOK /\ StartShape /\ StopShape /\ WorkShape

\* What the lock and the event loop join: a transaction that is under way is
\* of a work that is under way, and a lock that is held is known to be.
Joined ==
  /\ pc[Self] # "idle" => Working
  /\ holder = Self => lock = "held"

AdapterInv == TypeOK /\ ServerInv /\ Joined

-----------------------------------------------------------------------------
\* Every step of the adapter is a step of its store or leaves it alone.
LEMMA StoreStep == AdapterNext => [Next]_vars
<1> USE SelfAssumption DEF Next, Proceed
<1>1. CASE AcquireLock
  BY <1>1 DEF AcquireLock
<1>2. CASE ReleaseLock
  BY <1>2 DEF ReleaseLock, LetGo
<1>3. CASE Serve
  BY <1>3 DEF Serve
<1>4. CASE LoseLock
  BY <1>4 DEF LoseLock
<1>5. CASE Transact
  BY <1>5 DEF Transact
<1>6. CASE Command
  BY <1>6 DEF Command
<1>7. CASE Restart
  BY <1>7 DEF Restart, LetGo
<1>8. CASE PowerCut
  BY <1>8 DEF PowerCut
<1> QED
  BY <1>1, <1>2, <1>3, <1>4, <1>5, <1>6, <1>7, <1>8 DEF AdapterNext

(* The adapter's steps are those of the store: what is proved of the store  *)
(* holds in it (rpc-src/store.ts).                                          *)
THEOREM AdapterStore == AdapterSpec => Spec
<1>1. AdapterInit => Init
  BY DEF AdapterInit
<1>2. [AdapterNext]_adapterVars => [Next]_vars
  <2>1. CASE AdapterNext
    BY <2>1, StoreStep
  <2>2. CASE UNCHANGED adapterVars
    BY <2>2 DEF adapterVars, vars
  <2> QED
    BY <2>1, <2>2
<1> QED
  BY <1>1, <1>2, PTL DEF AdapterSpec, Spec

-----------------------------------------------------------------------------
\* An idle server has nothing.
LEMMA ServerInitially == Server!Init => ServerInv
  BY DEF Server!Init, Server!AllClosed, ServerInv, Server!TypeOK,
         StartShape, StopShape, WorkShape, Server!Open

\* The steps that leave the connections and the operations alone.
LEMMA ServerQuiet ==
  ASSUME ServerInv,
         \/ Server!Start \/ Server!AcquireLock \/ Server!RecoverStartup \/ Server!Listen
         \/ Server!Ready \/ Server!ReleaseFailedStart
         \/ Server!OperationsEnded \/ Server!ListenerClosed \/ Server!Release
  PROVE  ServerInv'
<1> USE DEF ServerInv, Server!TypeOK, StartShape, StopShape, WorkShape, Server!Open
<1>1. CASE Server!Start
  BY <1>1 DEF Server!Start
<1>2. CASE Server!AcquireLock
  BY <1>2 DEF Server!AcquireLock
<1>3. CASE Server!RecoverStartup
  BY <1>3 DEF Server!RecoverStartup
<1>4. CASE Server!Listen
  <2> USE <1>4 DEF Server!Listen
  <2>1. CASE starting' = "bound"
    BY <2>1
  <2>2. CASE starting' = "release"
    BY <2>2
  <2> QED
    BY <2>1, <2>2
<1>5. CASE Server!Ready
  BY <1>5 DEF Server!Ready
<1>6. CASE Server!ReleaseFailedStart
  BY <1>6 DEF Server!ReleaseFailedStart
<1>7. CASE Server!OperationsEnded
  BY <1>7 DEF Server!OperationsEnded
<1>8. CASE Server!ListenerClosed
  BY <1>8 DEF Server!ListenerClosed
<1>9. CASE Server!Release
  BY <1>9 DEF Server!Release
<1> QED
  BY <1>1, <1>2, <1>3, <1>4, <1>5, <1>6, <1>7, <1>8, <1>9

\* The steps of stop() and of its timer that close connections.
LEMMA ServerClosing ==
  ASSUME ServerInv, Server!Stop \/ Server!AfterStart \/ Server!ForceClose
  PROVE  ServerInv'
<1> USE DEF ServerInv, Server!TypeOK, StartShape, StopShape, WorkShape, Server!Open
<1>1. CASE Server!Stop
  <2>1. CASE Server!StopTarget = "drain"
    BY <1>1, <2>1 DEF Server!Stop, Server!StopTarget, Server!Drain
  <2>2. CASE Server!StopTarget # "drain"
    BY <1>1, <2>2 DEF Server!Stop, Server!StopTarget
  <2> QED
    BY <2>1, <2>2
<1>2. CASE Server!AfterStart
  <2>1. CASE starting = "done"
    BY <1>2, <2>1 DEF Server!AfterStart, Server!Drain
  <2>2. CASE starting = "failed"
    BY <1>2, <2>2 DEF Server!AfterStart
  <2> QED
    BY <1>2, <2>1, <2>2 DEF Server!AfterStart
<1>3. CASE Server!ForceClose
  BY <1>3 DEF Server!ForceClose, Server!ForcedConn, Server!AllClosed
<1> QED
  BY <1>1, <1>2, <1>3

\* The steps of one connection: one that closed stays so unless the server
\* listens, and an operation begins only where the server is ready.
LEMMA ServerServing ==
  ASSUME ServerInv, NEW c \in Conns, Server!ConnStep(c)
  PROVE  ServerInv'
<1> USE DEF ServerInv, Server!TypeOK, StartShape, StopShape, WorkShape, Server!Open
<1>1. CASE Server!Connect(c)
  BY <1>1 DEF Server!Connect
<1>2. CASE Server!SendHeaders(c)
  BY <1>2 DEF Server!SendHeaders
<1>3. CASE Server!BodyArrives(c)
  BY <1>3 DEF Server!BodyArrives, Server!Admits
<1>4. CASE Server!BodyRefused(c)
  BY <1>4 DEF Server!BodyRefused
<1>5. CASE Server!OperationEnds(c)
  BY <1>5 DEF Server!OperationEnds
<1>6. CASE Server!ReadAnswer(c)
  BY <1>6 DEF Server!ReadAnswer
<1>7. CASE Server!Disconnect(c)
  BY <1>7 DEF Server!Disconnect
<1> QED
  BY <1>1, <1>2, <1>3, <1>4, <1>5, <1>6, <1>7 DEF Server!ConnStep

\* Every step of the server keeps IInv.
LEMMA ServerKept ==
  ASSUME ServerInv, [Server!Next]_(Server!vars)
  PROVE  ServerInv'
<1>1. CASE UNCHANGED Server!vars
  BY <1>1 DEF Server!vars, ServerInv, Server!TypeOK, StartShape, StopShape, WorkShape, Server!Open
<1>2. CASE Server!Next
  BY <1>2, ServerQuiet, ServerClosing, ServerServing DEF Server!Next, Server!ServerStep
<1> QED
  BY <1>1, <1>2

-----------------------------------------------------------------------------
\* The stages of start() and stop() that come with the lock held.
LEMMA LockKnown ==
  ASSUME ServerInv
  PROVE  /\ Working => lock = "held"
         /\ starting = "acquire" => lock # "held"
         /\ starting = "release" => lock = "held" /\ ~Working
         /\ stopping = "release" => lock = "held" /\ ~Working
         /\ stopping = "done" => lock # "held" /\ ~listening /\ Server!Open = {} /\ inFlight = {}
  BY DEF ServerInv, Server!TypeOK, StartShape,
         StopShape, WorkShape, Working

\* Where the lock does not change, and no transaction of the adapter begins.
LEMMA JoinedKept ==
  ASSUME Joined, lock' = lock, pc'[Self] = "idle", holder' = Self => holder = Self
  PROVE  Joined'
  BY DEF Joined

LEMMA AdapterStarts == AdapterInit => AdapterInv
<1> SUFFICES ASSUME AdapterInit PROVE AdapterInv
  OBVIOUS
<1>1. TypeOK
  BY Initially DEF AdapterInit, IInv
<1>2. Server!Init
  BY DEF AdapterInit, Server!Init, Server!Init, Server!AllClosed, Server!AllClosed
<1>3. ServerInv
  BY <1>2, ServerInitially
<1>4. Joined
  BY SelfAssumption, StoreAssumption DEF AdapterInit, Init, Joined
<1> QED
  BY <1>1, <1>3, <1>4 DEF AdapterInv

\* The server after a restart is one that has not started.
LEMMA Afresh ==
  ASSUME Anew
  PROVE  ServerInv' /\ lock' = "none"
  BY DEF Anew, Server!AllClosed, ServerInv, Server!TypeOK,
         StartShape, StopShape, WorkShape,
         Server!Open

\* Only start() and stop() take the lock or let it go.
LEMMA LockStays ==
  ASSUME \/ Server!Start \/ Server!RecoverStartup \/ Server!Listen \/ Server!Ready
         \/ Server!Stop \/ Server!AfterStart \/ Server!ForceClose
         \/ Server!OperationsEnded \/ Server!ListenerClosed
         \/ \E c \in Conns : Server!ConnStep(c)
  PROVE  lock' = lock
<1>1. \A c \in Conns : Server!ConnStep(c) => lock' = lock
  BY DEF Server!ConnStep, Server!Connect, Server!SendHeaders, Server!BodyArrives,
         Server!BodyRefused, Server!OperationEnds, Server!ReadAnswer, Server!Disconnect
<1> QED
  BY <1>1 DEF Server!Start, Server!RecoverStartup, Server!Listen, Server!Ready,
              Server!Stop, Server!AfterStart, Server!ForceClose,
              Server!OperationsEnded, Server!ListenerClosed

\* The steps of the server.
LEMMA ServerKeeps ==
  ASSUME AdapterInv, AcquireLock \/ ReleaseLock \/ Serve
  PROVE  ServerInv' /\ Joined'
<1> USE StoreAssumption, SelfAssumption
<1>1. ServerInv /\ TypeOK /\ pc[Self] = "idle"
  BY DEF AdapterInv, AcquireLock, ReleaseLock, Serve, Turn
<1>2. Server!Next => ServerInv'
  BY <1>1, ServerKept
<1>3. CASE AcquireLock
  <2>1. ServerInv'
    BY <1>2, <1>3 DEF AcquireLock, Server!Next, Server!ServerStep
  <2>2. CASE lock' = "held"
    BY <1>1, <1>3, <2>1, <2>2 DEF AcquireLock, Lock, Joined
  <2>3. CASE lock' # "held"
    <3>1. lock' = lock /\ UNCHANGED vars
      BY <1>3, <2>3 DEF AcquireLock, Server!AcquireLock
    <3> QED
      BY <3>1, <2>1, <1>1, JoinedKept DEF AdapterInv, vars
  <2> QED
    BY <2>1, <2>2, <2>3
<1>4. CASE ReleaseLock
  <2>1. ServerInv'
    BY <1>2, <1>4 DEF ReleaseLock, Server!Next, Server!ServerStep
  <2>2. holder' # Self /\ pc' = pc
    BY <1>4 DEF ReleaseLock, LetGo, Unlock, vars
  <2> QED
    BY <1>1, <2>1, <2>2 DEF Joined
<1>5. CASE Serve
  <2>1. \/ Server!Start \/ Server!RecoverStartup \/ Server!Listen \/ Server!Ready
        \/ Server!Stop \/ Server!AfterStart \/ Server!ForceClose
        \/ Server!OperationsEnded \/ Server!ListenerClosed
        \/ \E c \in Conns : Server!ConnStep(c)
    BY <1>5 DEF Serve
  <2>2. ServerInv'
    BY <1>2, <2>1 DEF Server!Next, Server!ServerStep
  <2>3. lock' = lock
    BY <2>1, LockStays
  <2> QED
    BY <1>1, <1>5, <2>2, <2>3, JoinedKept DEF Serve, AdapterInv, vars
<1> QED
  BY <1>3, <1>4, <1>5

\* The steps that the server has no part in.
LEMMA OthersKeep ==
  ASSUME AdapterInv, LoseLock \/ Transact \/ Command
  PROVE  ServerInv' /\ Joined'
<1> USE StoreAssumption, SelfAssumption
<1>1. UNCHANGED serverVars
  BY DEF LoseLock, Transact, Command
<1>2. ServerInv'
  BY <1>1, ServerKept DEF AdapterInv, serverVars, Server!vars
<1>3. Working' = Working /\ lock' = lock
  BY <1>1 DEF serverVars, Working
<1>4. CASE LoseLock
  BY <1>2, <1>3, <1>4 DEF LoseLock, Unlock, AdapterInv, Joined
<1>5. CASE Transact
  <2>1. holder' = holder
    BY <1>5 DEF Transact, Proceed, ReadState, AssertWritable, WriteTemporary, Rename, SyncDirectory
  <2>2. Working
    BY <1>5 DEF Transact, Proceed, AssertWritable, WriteTemporary, Rename, SyncDirectory,
                AdapterInv, Joined
  <2> QED
    BY <1>2, <1>3, <2>1, <2>2 DEF AdapterInv, Joined
<1>6. CASE Command
  <2>1. PICK p \in Procs \ {Self} :
             \/ Lock(p) \/ Unlock(p) \/ Kill(p) \/ ReadState(p) \/ Proceed(p)
             \/ CreateExclusive(p) \/ Fill(p) \/ SyncFile(p) \/ EnterFile(p)
    BY <1>6 DEF Command
  <2>2. pc'[Self] = pc[Self] /\ (holder' = Self => holder = Self)
    BY <2>1 DEF Lock, Unlock, Kill, ReadState, Proceed, AssertWritable, WriteTemporary, Rename,
                SyncDirectory, CreateExclusive, Fill, SyncFile, EnterFile, Throw, Over, Goto,
                AdapterInv, TypeOK
  <2> QED
    BY <1>2, <1>3, <2>2 DEF AdapterInv, Joined
<1> QED
  BY <1>4, <1>5, <1>6

\* The process of the adapter is a new one.
LEMMA AnewKeeps ==
  ASSUME AdapterInv, Restart \/ PowerCut
  PROVE  ServerInv' /\ Joined'
<1> USE StoreAssumption, SelfAssumption
<1>1. ServerInv' /\ lock' = "none"
  BY Afresh DEF Restart, PowerCut
<1>2. pc'[Self] = "idle" /\ holder' # Self
  <2>1. CASE PowerCut
    BY <2>1 DEF PowerCut, PowerLoss
  <2>2. CASE Restart
    BY <2>2 DEF Restart, Turn, LetGo, Unlock, Kill, Over, Goto, AdapterInv, TypeOK, vars
  <2> QED
    BY <2>1, <2>2
<1> QED
  BY <1>1, <1>2 DEF Joined

\* Every step keeps the invariant.
LEMMA AdapterStep ==
  ASSUME IInv, AdapterInv, [AdapterNext]_adapterVars
  PROVE  AdapterInv'
<1>1. TypeOK'
  <2>1. CASE AdapterNext
    BY <2>1, StoreStep, Step DEF IInv
  <2>2. CASE UNCHANGED adapterVars
    BY <2>2, Step DEF adapterVars, IInv
  <2> QED
    BY <2>1, <2>2
<1>2. CASE UNCHANGED adapterVars
  <2>1. ServerInv'
    BY <1>2, ServerKept DEF adapterVars, AdapterInv, serverVars, Server!vars
  <2>2. Joined'
    BY <1>2 DEF adapterVars, vars, serverVars, AdapterInv, Joined, Working
  <2> QED
    BY <1>1, <2>1, <2>2 DEF AdapterInv
<1>3. CASE AdapterNext
  BY <1>1, <1>3, ServerKeeps, OthersKeep, AnewKeeps DEF AdapterNext, AdapterInv
<1> QED
  BY <1>2, <1>3

(* What holds of the lock, of the stages of start() and stop() and of the   *)
(* transactions, through losses of the lock, crashes and power losses       *)
(* (server.ts, store.ts).                                                   *)
THEOREM AdapterInvariance == AdapterSpec => []AdapterInv
<1>1. AdapterSpec => []IInv
  BY AdapterStore, Invariance, PTL
<1>2. IInv /\ AdapterInv /\ [AdapterNext]_adapterVars => AdapterInv'
  BY AdapterStep
<1> QED
  BY <1>1, <1>2, AdapterStarts, PTL DEF AdapterSpec

(* No transaction of recovery or of a request is under way but under the    *)
(* lock, as the server believes (server.ts, handleHttpRequest and stop).    *)
THEOREM LockCovers == AdapterSpec => []LockCoversWork
<1>1. AdapterInv => LockCoversWork
  BY LockKnown DEF AdapterInv, Joined, LockCoversWork
<1> QED
  BY AdapterInvariance, <1>1, PTL

(* A stop that has returned has left no lock, listener, connection,         *)
(* operation or transaction (server.ts, stop).                              *)
THEOREM StoppedClean == AdapterSpec => []StoppedLeavesNothing
<1>1. AdapterInv => StoppedLeavesNothing
  BY LockKnown DEF AdapterInv, Joined, StoppedLeavesNothing, Working,
                   Server!Open, Server!Open, ServerInv, StartShape
<1> QED
  BY AdapterInvariance, <1>1, PTL

(* What a transaction has returned stays, with servers that start, serve,   *)
(* stop, crash and lose their lock beside it (store.ts, _writeState).       *)
THEOREM AdapterKeeps == AdapterSpec => []AckedKept
  BY AdapterStore, AcknowledgedKept, PTL

(* To its readers the state file of an adapter is an atomic store           *)
(* (store.ts).                                                              *)
THEOREM AdapterImplements == AdapterSpec => Implements
  BY AdapterStore, Refinement, PTL
=============================================================================
