------------------------------- MODULE Adapter -------------------------------
(***************************************************************************)
(* An adapter on its host: the life of its server (RpcServer) and the      *)
(* state file (DurableStore), which it shares with other commands, joined  *)
(* by the state lock and by the event loop.  The lock that start()         *)
(* acquires and stop() releases is the one that a write asserts; only      *)
(* recovery and the operations of requests begin transactions, and while   *)
(* one is under way the loop does nothing else.  The process may crash and *)
(* be started anew at any moment, and may lose its lock.                   *)
(***************************************************************************)
EXTENDS DurableStore

CONSTANTS
  Conns,  \* the client connections of the server
  Self    \* the process of the adapter; the others in Procs are commands

ASSUME SelfAssumption == Self \in Procs

VARIABLES phase, starting, stopping, lock, listening, conn, inFlight, grace

serverVars == <<phase, starting, stopping, lock, listening, conn, inFlight, grace>>
adapterVars == <<vars, serverVars>>

Server == INSTANCE RpcServer

-----------------------------------------------------------------------------
AdapterInit == Init /\ Server!Init

\* The event loop is not inside a transaction.
Turn == pc[Self] = "idle"

\* The lock is ours if the scan of its ports succeeds; it may fail although
\* nobody holds it.
AcquireLock ==
  /\ Turn
  /\ Server!AcquireLock
  /\ IF lock' = "held" THEN Lock(Self) ELSE UNCHANGED vars

\* A lock that was lost has been released already.
LetGo == IF holder = Self THEN Unlock(Self) ELSE UNCHANGED vars

ReleaseLock ==
  /\ Turn
  /\ Server!Release \/ Server!ReleaseFailedStart
  /\ LetGo

\* The other steps of the server, of its clients and of whoever stops it.
Serve ==
  /\ Turn
  /\ \/ Server!Start \/ Server!RecoverStartup \/ Server!Listen \/ Server!Ready
     \/ Server!Stop \/ Server!AfterStart \/ Server!ForceClose
     \/ Server!OperationsEnded \/ Server!ListenerClosed
     \/ \E c \in Conns : Server!ConnStep(c)
  /\ UNCHANGED vars

\* One of its listeners closes: the server is not told and serves on.
LoseLock ==
  /\ lock = "held" /\ holder = Self
  /\ Unlock(Self)
  /\ UNCHANGED serverVars

-----------------------------------------------------------------------------
Working == inFlight # {} \/ starting = "recover"

\* The rest of a transaction that has been begun.
Proceed(p) == AssertWritable(p) \/ WriteTemporary(p) \/ Rename(p) \/ SyncDirectory(p)

Transact ==
  /\ \/ Working /\ ReadState(Self)
     \/ Proceed(Self)
  /\ UNCHANGED serverVars

\* Another process: init, which creates the file without the lock, and
\* commands that lock it; one that has lost its lock may not have noticed.
Command ==
  /\ \E p \in Procs \ {Self} :
       \/ Lock(p) \/ Unlock(p) \/ Kill(p) \/ ReadState(p) \/ Proceed(p)
       \/ CreateExclusive(p) \/ Fill(p) \/ SyncFile(p) \/ EnterFile(p)
  /\ UNCHANGED serverVars

-----------------------------------------------------------------------------
\* A new process: nothing of the one before is left but the file.
Anew ==
  /\ phase' = "idle" /\ starting' = "no" /\ stopping' = "no"
  /\ lock' = "none" /\ listening' = FALSE
  /\ conn' = Server!AllClosed /\ inFlight' = {} /\ grace' = "off"

\* The process of the adapter ends, by itself or not, and another is started.
Restart ==
  /\ Anew
  /\ IF Turn THEN LetGo ELSE Kill(Self)

PowerCut ==
  /\ PowerLoss
  /\ Anew

AdapterNext ==
  \/ AcquireLock \/ ReleaseLock \/ Serve \/ LoseLock
  \/ Transact \/ Command
  \/ Restart \/ PowerCut

AdapterSpec == AdapterInit /\ [][AdapterNext]_adapterVars

\* The server takes its own steps, its timer included; recovery and every
\* operation end, as Gateway shows of transactions, after any number of
\* transactions of the store.  A transaction keeps the event loop to itself
\* for a moment, which only delays what waits for its turn: strong fairness.
LiveSpec ==
  /\ AdapterSpec
  /\ WF_adapterVars(AcquireLock) /\ WF_adapterVars(ReleaseLock)
  /\ WF_adapterVars(Proceed(Self) /\ UNCHANGED serverVars)
  /\ WF_adapterVars(Serve /\ (Server!Listen \/ Server!Ready \/ Server!OperationsEnded \/ Server!ListenerClosed))
  /\ SF_adapterVars(Serve /\ Server!AfterStart)
  /\ SF_adapterVars(Serve /\ Server!ForceClose)
  /\ SF_adapterVars(Serve /\ Server!RecoverStartup)
  /\ \A c \in Conns : SF_adapterVars(Serve /\ Server!OperationEnds(c))

-----------------------------------------------------------------------------
(* Recovery, the operations and their transactions are over when the lock   *)
(* is released, so none of them is refused its writes or writes beside the  *)
(* next holder; the server believes to hold the lock whenever it holds it   *)
(* (server.ts, handleHttpRequest and stop; store.ts, transaction).          *)
LockCoversWork ==
  /\ Working \/ pc[Self] # "idle" => lock = "held"
  /\ holder = Self => lock = "held"

(* When stop() has returned, nothing of the server is left: no lock, no     *)
(* listener, no connection, no operation, whatever start() was doing when   *)
(* it was called (server.ts, stop).                                         *)
StoppedLeavesNothing ==
  stopping = "done" => /\ holder # Self /\ ~listening
                       /\ Server!Open = {} /\ inFlight = {} /\ pc[Self] = "idle"

(* A stop ends, even if clients neither read nor disconnect, if the lock is *)
(* lost and if every write fails, unless the process ends before (server.ts,*)
(* forceClose).                                                             *)
StopEnds == stopping # "no" ~> stopping \in {"no", "done"}
=============================================================================
