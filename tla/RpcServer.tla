----------------------------- MODULE RpcServer -----------------------------
(***************************************************************************)
(* The life of the HTTP server (rpc-src/server.ts): start acquires the     *)
(* state lock, completes recovery and listens; a connection sends a body,  *)
(* has its operation run by the handlers and is answered; stop drains,     *)
(* forces the connections closed after the grace period and releases the   *)
(* lock last.  The clients, the handlers and the outcomes of the lock, of  *)
(* recovery and of listening are the environment.                          *)
(***************************************************************************)
EXTENDS FiniteSets

CONSTANT Conns  \* the client connections, each may be used again

VARIABLES
  phase,     \* idle, starting, ready, draining or stopped
  starting,  \* where start() stands
  stopping,  \* where stop() stands
  lock,      \* the state lock of this process: none, held or released
  listening, \* does the listener accept connections?
  conn,      \* conn[c]: closed, idle, sending a body, waiting for the answer, answered
  inFlight,  \* the connections whose operation the handlers are running
  grace      \* the forced close: off, set or fired

vars == <<phase, starting, stopping, lock, listening, conn, inFlight, grace>>

-----------------------------------------------------------------------------
Open == {c \in Conns : conn[c] # "closed"}

AllClosed == [c \in Conns |-> "closed"]

Init ==
  /\ phase = "idle" /\ starting = "no" /\ stopping = "no"
  /\ lock = "none"
  /\ listening = FALSE
  /\ conn = AllClosed
  /\ inFlight = {}
  /\ grace = "off"

-----------------------------------------------------------------------------
(***************************************************************************)
(* start().                                                                *)
(***************************************************************************)
Start ==
  /\ phase = "idle"
  /\ phase' = "starting" /\ starting' = "acquire"
  /\ UNCHANGED <<stopping, lock, listening, conn, inFlight, grace>>

AcquireLock ==
  /\ starting = "acquire"
  /\ \/ /\ lock' = "held" /\ starting' = "recover"
        /\ UNCHANGED phase
     \/ /\ phase' = "stopped" /\ starting' = "failed"
        /\ UNCHANGED lock
  /\ UNCHANGED <<stopping, listening, conn, inFlight, grace>>

RecoverStartup ==
  /\ starting = "recover"
  /\ \/ /\ starting' = "listen"
        /\ UNCHANGED phase
     \/ /\ phase' = "stopped" /\ starting' = "release"
  /\ UNCHANGED <<stopping, lock, listening, conn, inFlight, grace>>

Listen ==
  /\ starting = "listen"
  /\ \/ /\ listening' = TRUE /\ starting' = "bound"
        /\ UNCHANGED phase
     \/ /\ phase' = "stopped" /\ starting' = "release"
        /\ UNCHANGED listening
  /\ UNCHANGED <<stopping, lock, conn, inFlight, grace>>

\* A connection may be there before.
Ready ==
  /\ starting = "bound"
  /\ phase' = "ready" /\ starting' = "done"
  /\ UNCHANGED <<stopping, lock, listening, conn, inFlight, grace>>

ReleaseFailedStart ==
  /\ starting = "release"
  /\ lock' = "released" /\ starting' = "failed"
  /\ UNCHANGED <<phase, stopping, listening, conn, inFlight, grace>>

-----------------------------------------------------------------------------
(***************************************************************************)
(* One request.  The phase is looked at when its headers are there and     *)
(* again when its body is.                                                 *)
(***************************************************************************)
Connect(c) ==
  /\ listening
  /\ conn[c] = "closed" /\ c \notin inFlight
  /\ conn' = [conn EXCEPT ![c] = "idle"]
  /\ UNCHANGED <<phase, starting, stopping, lock, listening, inFlight, grace>>

\* Another path, method or media type is answered at once.
SendHeaders(c) ==
  /\ conn[c] = "idle"
  /\ \/ phase = "ready" /\ conn' = [conn EXCEPT ![c] = "body"]
     \/ conn' = [conn EXCEPT ![c] = "answered"]
  /\ UNCHANGED <<phase, starting, stopping, lock, listening, inFlight, grace>>

\* Mutant: the phase is not looked at again.
AdmitsAny == TRUE

\* May the operation of a request whose body has arrived begin?
Admits == phase = "ready"

\* The body arrives; one that does not parse is answered at once.
BodyArrives(c) ==
  /\ conn[c] = "body"
  /\ \/ /\ Admits
        /\ conn' = [conn EXCEPT ![c] = "waiting"]
        /\ inFlight' = inFlight \cup {c}
     \/ /\ conn' = [conn EXCEPT ![c] = "answered"]
        /\ UNCHANGED inFlight
  /\ UNCHANGED <<phase, starting, stopping, lock, listening, grace>>

\* The body is too large, too late or malformed: answered, then closed.
BodyRefused(c) ==
  /\ conn[c] = "body"
  /\ conn' = [conn EXCEPT ![c] = "closed"]
  /\ UNCHANGED <<phase, starting, stopping, lock, listening, inFlight, grace>>

\* handlers.handle settles; a connection that is gone gets no answer.
OperationEnds(c) ==
  /\ c \in inFlight
  /\ inFlight' = inFlight \ {c}
  /\ conn' = [conn EXCEPT ![c] = IF @ = "waiting" THEN "answered" ELSE @]
  /\ UNCHANGED <<phase, starting, stopping, lock, listening, grace>>

\* The client reads its answer; the connection is kept alive or not.
ReadAnswer(c) ==
  /\ conn[c] = "answered"
  /\ \E next \in {"idle", "closed"} : conn' = [conn EXCEPT ![c] = next]
  /\ UNCHANGED <<phase, starting, stopping, lock, listening, inFlight, grace>>

Disconnect(c) ==
  /\ c \in Open
  /\ conn' = [conn EXCEPT ![c] = "closed"]
  /\ UNCHANGED <<phase, starting, stopping, lock, listening, inFlight, grace>>

-----------------------------------------------------------------------------
(***************************************************************************)
(* stop().                                                                 *)
(***************************************************************************)
\* Mutant: a stop does not wait for a start that failed to release the lock.
StopTargetHasty ==
  CASE phase = "starting" -> "start"
    [] phase = "ready" -> "drain"
    [] OTHER -> "done"

\* What stop() has to wait for first.
StopTarget ==
  CASE phase = "starting" -> "start"
    [] phase = "ready" -> "drain"
    [] starting = "release" -> "start"
    [] OTHER -> "done"

\* server.close() closes the idle connections too.
Drain ==
  /\ phase' = "draining" /\ stopping' = "operations"
  /\ listening' = FALSE
  /\ grace' = "set"
  /\ conn' = [c \in Conns |-> IF conn[c] = "idle" THEN "closed" ELSE conn[c]]

Stop ==
  /\ stopping = "no"
  /\ \/ /\ StopTarget = "drain"
        /\ Drain
     \/ /\ StopTarget # "drain"
        /\ stopping' = StopTarget
        /\ phase' = IF phase = "idle" THEN "stopped" ELSE phase
        /\ UNCHANGED <<listening, conn, grace>>
  /\ UNCHANGED <<starting, lock, inFlight>>

AfterStart ==
  /\ stopping = "start"
  /\ \/ /\ starting = "done"
        /\ Drain
     \/ /\ starting = "failed"
        /\ stopping' = "done"
        /\ UNCHANGED <<phase, listening, conn, grace>>
  /\ UNCHANGED <<starting, lock, inFlight>>

\* Mutant: the grace period closes only the idle connections.
ForcedConnIdle == [c \in Conns |-> IF conn[c] = "idle" THEN "closed" ELSE conn[c]]

ForcedConn == AllClosed

ForceClose ==
  /\ grace = "set"
  /\ grace' = "fired"
  /\ conn' = ForcedConn
  /\ UNCHANGED <<phase, starting, stopping, lock, listening, inFlight>>

OperationsEnded ==
  /\ stopping = "operations" /\ inFlight = {}
  /\ stopping' = "listener"
  /\ UNCHANGED <<phase, starting, lock, listening, conn, inFlight, grace>>

ListenerClosed ==
  /\ stopping = "listener" /\ Open = {}
  /\ phase' = "stopped" /\ stopping' = "release"
  /\ grace' = IF grace = "set" THEN "off" ELSE grace
  /\ UNCHANGED <<starting, lock, listening, conn, inFlight>>

Release ==
  /\ stopping = "release"
  /\ lock' = "released" /\ stopping' = "done"
  /\ UNCHANGED <<phase, starting, listening, conn, inFlight, grace>>

-----------------------------------------------------------------------------
ServerStep ==
  \/ AcquireLock \/ Listen \/ Ready \/ ReleaseFailedStart
  \/ AfterStart \/ ForceClose \/ OperationsEnded \/ ListenerClosed \/ Release

ConnStep(c) ==
  \/ Connect(c) \/ SendHeaders(c) \/ BodyArrives(c) \/ BodyRefused(c)
  \/ OperationEnds(c) \/ ReadAnswer(c) \/ Disconnect(c)

Next ==
  \/ Start \/ RecoverStartup \/ Stop
  \/ ServerStep
  \/ \E c \in Conns : ConnStep(c)

Spec == Init /\ [][Next]_vars

-----------------------------------------------------------------------------
(* State and type: a client waits for an operation that runs, and a stopped *)
(* server runs none (server.ts, createRpcServer).                           *)
TypeOK ==
  /\ phase \in {"idle", "starting", "ready", "draining", "stopped"}
  /\ starting \in {"no", "acquire", "recover", "listen", "bound", "release", "done", "failed"}
  /\ stopping \in {"no", "start", "operations", "listener", "release", "done"}
  /\ lock \in {"none", "held", "released"}
  /\ listening \in BOOLEAN
  /\ conn \in [Conns -> {"closed", "idle", "body", "waiting", "answered"}]
  /\ inFlight \subseteq Conns
  /\ grace \in {"off", "set", "fired"}
  /\ \A c \in Conns : conn[c] = "waiting" => c \in inFlight
  /\ phase = "stopped" => inFlight = {}
=============================================================================
