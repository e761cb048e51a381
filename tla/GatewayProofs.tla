---------------------------- MODULE GatewayProofs ----------------------------
(***************************************************************************)
(* Safety of the write path for every set of transactions, every nonce     *)
(* assignment and every number of builds and crashes.  The properties are  *)
(* not inductive as they stand: what a run of a transaction may do to its  *)
(* record depends on where the run is (TaskRecord), on whether the queue   *)
(* or startup recovery started it (QueueRecords, ReplayRecords) and on     *)
(* what a process that does not serve still holds (OutOfService).          *)
(***************************************************************************)
EXTENDS Gateway, QueueLemmas

\* A record holds a native transaction exactly while it occupies its nonce.
JournalShape ==
  \A t \in Tx :
    /\ OccupiesNonce(t) <=> journal[t].native # 0
    /\ Prepared(t) => ~journal[t].receipt

\* Where a tracked run stands says what its record already is.
TaskRecord ==
  \A t \in Tx :
    /\ task[t] # "idle" => journal[t].state # "absent"
    /\ task[t] = "prepare" => builds[t] # 0
    /\ task[t] \in {"lookup", "send", "mark", "wait"} => Prepared(t)
    /\ task[t] = "capture" => journal[t].state = "confirmed"

\* A process that does not serve has an empty queue, and only recovery replays.
OutOfService ==
  /\ phase # "ready" => queue = NoSigner /\ ~pumpDue /\ \A t \in Tx : settled[t] = "none"
  /\ phase # "recovering" => replay = {}

\* What the queue holds, or has just refused, is received, this process's own
\* and not being run.
QueueRecords ==
  /\ queue.active \notin queue.pending
  /\ \A t \in Tx :
       t \in queue.pending \/ settled[t] = "NONCE_TOO_LOW" =>
         journal[t].state = "received" /\ t \in claimed /\ task[t] = "idle"
  /\ \A t \in queue.pending : settled[t] # "NONCE_TOO_LOW"

\* What recovery has yet to start is unfinished.
ReplayRecords ==
  \A t \in replay : task[t] = "idle" =>
    journal[t].state \in {"received", "native-built", "broadcast"}

\* A received record belongs to this process or waits for its recovery.
ClaimsCovered ==
  phase # "down" => \A t \in Tx : journal[t].state = "received" => t \in claimed \cup replay

\* Two records never hold a native transaction for one nonce.
OneHolder ==
  \A t, u \in Tx : OccupiesNonce(t) /\ OccupiesNonce(u) /\ NonceOf[t] = NonceOf[u] => t = u

\* A refused transaction's record is a failure without a native transaction.
RefusedFailed ==
  \A t \in refused : journal[t].state = "failed" /\ ~journal[t].receipt

\* The inductive invariant about the process, and about the chain besides.
ProcessInv ==
  /\ TypeOK
  /\ JournalShape
  /\ TaskRecord
  /\ OutOfService
  /\ QueueRecords
  /\ ReplayRecords

SafetyInv ==
  /\ ClaimsCovered
  /\ RefusedFailed
  /\ OneHolder
  /\ WrittenAhead
  /\ FinalizedIsSolid

-----------------------------------------------------------------------------
(***************************************************************************)
(* Types.                                                                  *)
(***************************************************************************)
\* The expected nonce is one of the numbers it is the maximum of, and no less
\* than any of them.
LEMMA ExpectedIsMax ==
  ASSUME NEW j
  PROVE  LET S == {Baseline} \cup {NonceOf[t] + 1 : t \in FinalizedIn(j)}
         IN  /\ S \subseteq Nat
             /\ Max(S) \in S
             /\ \A n \in S : n <= Max(S)
<1> DEFINE S == {Baseline} \cup {NonceOf[t] + 1 : t \in FinalizedIn(j)}
<1>1. \A t \in Tx : NonceOf[t] \in Nat /\ NonceOf[t] <= MaxNonce
  BY NonceAssumption
<1>2. S \subseteq Nat /\ S # {}
  BY <1>1, GatewayAssumption DEF FinalizedIn
<1>3. Baseline + MaxNonce + 1 \in Nat /\ \A n \in S : n <= Baseline + MaxNonce + 1
  BY <1>1, GatewayAssumption, NonceAssumption DEF FinalizedIn
<1> HIDE DEF S
<1>4. Max(S) \in S /\ \A n \in S : n <= Max(S)
  BY <1>2, <1>3, MaxOfBounded
<1> QED
  BY <1>2, <1>4 DEF S

LEMMA ExpectedNat == ExpectedNonce \in Nat
  BY ExpectedIsMax DEF ExpectedNonce

\* Whatever run the released entry starts, where the runs stand is well typed.
LEMMA StartReleasedType ==
  ASSUME NEW from \in [Tx -> Pc], StartReleased(from)
  PROVE  task' \in [Tx -> Pc]
  BY DEF StartReleased, Pc

LEMMA TypeInit == Init => TypeOK
<1> SUFFICES ASSUME Init
             PROVE  TypeOK
  OBVIOUS
<1>1. QueueTypeOK
  BY DEF Init, QueueInit, QueueTypeOK, NoSigner, Settlement
<1>2. journal \in [Tx -> [state : State, native : 0..MaxBuilds, receipt : BOOLEAN]]
  BY GatewayAssumption DEF Init, NoRecord, State
<1>3. network \in [Tx -> [BuildId -> NetworkStatus]]
  BY DEF Init, NetworkStatus
<1>4. builds \in [Tx -> 0..MaxBuilds] /\ crashes \in 0..MaxCrashes
  BY GatewayAssumption DEF Init
<1>5. task \in [Tx -> Pc]
  BY DEF Init, Pc
<1> QED
  BY <1>1, <1>2, <1>3, <1>4, <1>5 DEF Init, TypeOK

LEMMA TypeStep == TypeOK /\ [Next]_vars => TypeOK'
<1> SUFFICES ASSUME TypeOK, [Next]_vars
             PROVE  TypeOK'
  OBVIOUS
<1>1. QueueTypeOK'
  <2> USE ExpectedNat DEF TypeOK
  <2>1. CASE UNCHANGED queueVars
    BY <2>1 DEF queueVars, QueueTypeOK
  <2>2. \A t \in Tx : EnqueueBuild(t) => QueueTypeOK'
    BY <2>1, QueueTypeKept DEF EnqueueBuild
  <2>3. ASSUME NEW t \in Tx, Finish(t)
        PROVE  QueueTypeOK'
    <3>1. {"fulfilled", "rejected"} \subseteq Settlement
      BY DEF Settlement
    <3> QED
      BY <2>1, <2>3, <3>1, QueueTypeKept DEF Finish
  <2>4. CASE Crash
    BY <2>4 DEF Crash, QueueTypeOK, NoSigner, Settlement
  <2>5. ASSUME NEW t \in Tx, Run(t)
        PROVE  QueueTypeOK'
    BY <2>1, <2>3, <2>5
       DEF Run, Build, Prepare, BuildFails, Send, SendUnanswered, Mark, Confirm,
           RetainFailure, Lookup, Throws
  <2>6. CASE UNCHANGED vars
    BY <2>1, <2>6 DEF vars
  <2>7. CASE PumpQueue \/ GapDeadline \/ \E t \in Tx : Answer(t)
    BY <2>7, QueueTypeKept DEF PumpQueue, GapDeadline, Answer
  <2>8. CASE Start \/ Listen \/ \E t \in Tx : Recover(t)
    BY <2>1, <2>8 DEF Start, Listen, Recover
  <2>9. CASE \E t \in Tx, i \in BuildId : Execute(t, i) \/ Expire(t, i)
    BY <2>1, <2>9 DEF Execute, Expire
  <2>10. CASE \E t \in Tx : Receive(t) \/ Resubmit(t) \/ Resume(t)
    BY <2>1, <2>2, <2>10 DEF Receive, Resubmit, Resume
  <2> QED
    BY <2>4, <2>5, <2>6, <2>7, <2>8, <2>9, <2>10 DEF Next
<1> DEFINE Records == [Tx -> [state : State, native : 0..MaxBuilds, receipt : BOOLEAN]]
           Chain == [Tx -> [BuildId -> NetworkStatus]]
           Rest == /\ journal' \in Records
                   /\ network' \in Chain
                   /\ builds' \in [Tx -> 0..MaxBuilds]
                   /\ phase' \in {"down", "recovering", "ready"}
                   /\ claimed' \in SUBSET Tx
                   /\ task' \in [Tx -> Pc]
                   /\ replay' \in SUBSET Tx
                   /\ refused' \in SUBSET Tx
                   /\ crashes' \in 0..MaxCrashes
<1>2. /\ journal \in Records
      /\ network \in Chain
      /\ builds \in [Tx -> 0..MaxBuilds]
      /\ phase \in {"down", "recovering", "ready"}
      /\ claimed \in SUBSET Tx
      /\ task \in [Tx -> Pc]
      /\ replay \in SUBSET Tx
      /\ refused \in SUBSET Tx
      /\ crashes \in 0..MaxCrashes
      /\ MaxBuilds \in Nat /\ MaxCrashes \in Nat
  BY GatewayAssumption DEF TypeOK
<1>3. ASSUME NEW t \in Tx, RecordFailed(t)
      PROVE  journal' \in Records
  BY <1>2, <1>3 DEF RecordFailed, State
<1>4. \A t \in Tx : EnqueueBuild(t) => task' \in [Tx -> Pc]
  BY <1>2 DEF EnqueueBuild, Pc
<1>5. ASSUME NEW t \in Tx, Receive(t)
      PROVE  Rest
  <2>1. journal' \in Records
    BY <1>2, <1>5 DEF Receive, State
  <2> QED
    BY <1>2, <1>4, <1>5, <2>1 DEF Receive
<1>6. ASSUME NEW t \in Tx, Resubmit(t) \/ Resume(t)
      PROVE  Rest
  BY <1>2, <1>4, <1>6 DEF Resubmit, Resume, durable, Pc
<1>7. ASSUME PumpQueue \/ GapDeadline
      PROVE  Rest
  BY <1>2, <1>7, StartReleasedType DEF PumpQueue, GapDeadline, durable
<1>8. ASSUME NEW t \in Tx, Answer(t)
      PROVE  Rest
  BY <1>2, <1>3, <1>8 DEF Answer
<1>9. ASSUME NEW t \in Tx, Build(t) \/ Prepare(t) \/ BuildFails(t)
      PROVE  Rest
  <2>1. CASE Build(t)
    BY <1>2, <2>1 DEF Build, Pc
  <2>2. CASE Prepare(t)
    <3>1. task' \in [Tx -> Pc]
      BY <1>2, <2>2 DEF Prepare, Pc
    <3>2. journal' \in Records
      <4>1. builds[t] \in 0..MaxBuilds
        BY <1>2
      <4>2. CASE journal[t].state = "received" /\ t \in claimed /\ ~NonceInFlight(t)
        <5>1. [state |-> "native-built", native |-> builds[t], receipt |-> FALSE] \in
                [state : State, native : 0..MaxBuilds, receipt : BOOLEAN]
          BY <4>1 DEF State
        <5>2. journal' = [journal EXCEPT ![t] = [state |-> "native-built",
                                                native |-> builds[t], receipt |-> FALSE]]
          BY <2>2, <4>2 DEF Prepare
        <5> QED
          BY <1>2, <5>1, <5>2
      <4>3. CASE ~(journal[t].state = "received" /\ t \in claimed /\ ~NonceInFlight(t))
        BY <1>3, <2>2, <4>3 DEF Prepare
      <4> QED
        BY <4>2, <4>3
    <3> QED
      BY <1>2, <2>2, <3>1, <3>2 DEF Prepare
  <2>3. CASE BuildFails(t)
    BY <1>2, <1>3, <2>3 DEF BuildFails, Pc
  <2> QED
    BY <1>9, <2>1, <2>2, <2>3
<1>10. ASSUME NEW t \in Tx, Send(t) \/ SendUnanswered(t) \/ Lookup(t) \/ Throws(t)
       PROVE  Rest
  <2>1. task' \in [Tx -> Pc]
    BY <1>2, <1>10 DEF Send, SendUnanswered, Lookup, Throws, Pc
  <2>2. network' \in Chain
    BY <1>2, <1>10 DEF Send, SendUnanswered, Lookup, Throws, durable, NetworkStatus
  <2> QED
    BY <1>2, <1>10, <2>1, <2>2 DEF Send, SendUnanswered, Lookup, Throws, durable
<1>11. ASSUME NEW t \in Tx, Mark(t) \/ Confirm(t) \/ RetainFailure(t)
       PROVE  Rest
  <2>1. task' \in [Tx -> Pc]
    BY <1>2, <1>11 DEF Mark, Confirm, RetainFailure, Pc
  <2>2. journal' \in Records
    <3>1. PICK r \in [state : State, native : 0..MaxBuilds, receipt : BOOLEAN] :
            journal' = [journal EXCEPT ![t] = r]
      <4>1. journal[t] \in [state : State, native : 0..MaxBuilds, receipt : BOOLEAN]
        BY <1>2
      <4>2. CASE Mark(t)
        BY <4>1, <4>2 DEF Mark, State
      <4>3. CASE Confirm(t)
        BY <4>1, <4>3 DEF Confirm, State
      <4>4. CASE RetainFailure(t)
        BY <4>1, <4>4 DEF RetainFailure, State
      <4> QED
        BY <1>11, <4>2, <4>3, <4>4
    <3> QED
      BY <1>2, <3>1
  <2> QED
    BY <1>2, <1>11, <2>1, <2>2 DEF Mark, Confirm, RetainFailure
<1>12. ASSUME NEW t \in Tx, Finish(t)
       PROVE  Rest
  <2>1. [task EXCEPT ![t] = "idle"] \in [Tx -> Pc]
    BY <1>2 DEF Pc
  <2>2. task' \in [Tx -> Pc]
    BY <1>12, <2>1, StartReleasedType DEF Finish
  <2> QED
    BY <1>2, <1>12, <2>2 DEF Finish, durable
<1>13. ASSUME Start \/ Listen
       PROVE  Rest
  BY <1>2, <1>13 DEF Start, Listen, durable
<1>14. ASSUME NEW t \in Tx, Recover(t)
       PROVE  Rest
  BY <1>2, <1>14 DEF Recover, durable, Pc
<1>15. ASSUME Crash
       PROVE  Rest
  BY <1>2, <1>15 DEF Crash, durable, Pc
<1>16. ASSUME NEW t \in Tx, NEW i \in BuildId, Execute(t, i) \/ Expire(t, i)
       PROVE  Rest
  <2>1. network' \in Chain
    <3>1. PICK status \in NetworkStatus : network' = [network EXCEPT ![t][i] = status]
      BY <1>16 DEF Execute, Expire, NetworkStatus
    <3> QED
      BY <1>2, <3>1
  <2> QED
    BY <1>2, <1>16, <2>1 DEF Execute, Expire
<1>17. ASSUME UNCHANGED vars
       PROVE  Rest
  BY <1>2, <1>17 DEF vars, durable
<1> HIDE DEF Rest
<1>18. Rest
  BY <1>5, <1>6, <1>7, <1>8, <1>9, <1>10, <1>11, <1>12, <1>13, <1>14, <1>15, <1>16, <1>17
     DEF Next, Run
<1> QED
  BY <1>1, <1>18 DEF TypeOK, Rest

-----------------------------------------------------------------------------
(***************************************************************************)
(* What one step may do to the durable state: change one record, or one    *)
(* native transaction, in one of few ways.                                 *)
(***************************************************************************)
JournalMove(t) ==
  \E s \in State, n \in 0..MaxBuilds, r \in BOOLEAN :
    /\ journal' = [journal EXCEPT ![t] = [state |-> s, native |-> n, receipt |-> r]]
    /\ \/ journal[t].state = "absent" /\ s = "received" /\ n = journal[t].native /\ r = journal[t].receipt
       \/ journal[t].state = "received" /\ s = "failed" /\ n = 0 /\ ~r
       \/ journal[t].state = "received" /\ s = "native-built" /\ n # 0 /\ ~r /\ ~NonceInFlight(t)
       \/ Prepared(t) /\ s = "broadcast" /\ n = journal[t].native /\ r = journal[t].receipt
       \/ /\ journal[t].state = "broadcast" /\ s = "confirmed" /\ n = journal[t].native /\ r
          /\ Native(t) = "success"
       \/ /\ journal[t].state = "broadcast" /\ s = "failed" /\ n = journal[t].native /\ r
          /\ Native(t) \in {"success", "reverted"}

NetworkMove(t, i) ==
  \E status \in NetworkStatus :
    /\ network' = [network EXCEPT ![t][i] = status]
    /\ \/ /\ Prepared(t) /\ i = journal[t].native
          /\ network[t][i] = "unseen" /\ status = "pooled"
       \/ network[t][i] = "pooled" /\ status \in {"success", "reverted"}
       \/ network[t][i] \in {"unseen", "pooled"} /\ status = "expired"

DurableMove ==
  \/ UNCHANGED <<journal, network>>
  \/ (\E t \in Tx : JournalMove(t)) /\ UNCHANGED network
  \/ (\E t \in Tx, i \in BuildId : NetworkMove(t, i)) /\ UNCHANGED journal

\* A record is its three fields, so an update of one names the others.
LEMMA RecordUpdate ==
  ASSUME NEW r \in [state : State, native : 0..MaxBuilds, receipt : BOOLEAN], NEW s, NEW b \in BOOLEAN
  PROVE  /\ [r EXCEPT !.state = s] = [state |-> s, native |-> r.native, receipt |-> r.receipt]
         /\ [r EXCEPT !.state = s, !.receipt = b] =
              [state |-> s, native |-> r.native, receipt |-> b]
<1>1. [r EXCEPT !.state = s] = [state |-> s, native |-> r.native, receipt |-> r.receipt]
  OBVIOUS
<1> DEFINE q == [state |-> s, native |-> r.native, receipt |-> r.receipt]
<1>2. [q EXCEPT !.receipt = b] = [state |-> s, native |-> r.native, receipt |-> b]
  OBVIOUS
<1> HIDE DEF q
<1>3. [r EXCEPT !.state = s, !.receipt = b] = [q EXCEPT !.receipt = b]
  BY <1>1 DEF q
<1> QED
  BY <1>1, <1>2, <1>3

\* A failure recorded for a received record is one of the moves.
LEMMA RecordFailedMoves ==
  ASSUME TypeOK, NEW t \in Tx, RecordFailed(t)
  PROVE  JournalMove(t) \/ UNCHANGED journal
<1>1. CASE journal[t].state = "received" /\ t \in claimed
  <2>1. 0 \in 0..MaxBuilds /\ "failed" \in State
    BY GatewayAssumption DEF State
  <2> QED
    BY <1>1, <2>1 DEF RecordFailed, JournalMove
<1> QED
  BY <1>1 DEF RecordFailed

LEMMA DurableStep ==
  ASSUME TypeOK, JournalShape, TaskRecord, [Next]_vars
  PROVE  DurableMove
<1>1. /\ journal \in [Tx -> [state : State, native : 0..MaxBuilds, receipt : BOOLEAN]]
      /\ network \in [Tx -> [BuildId -> NetworkStatus]]
      /\ builds \in [Tx -> 0..MaxBuilds]
  BY DEF TypeOK
<1>2. ASSUME NEW t \in Tx, Receive(t)
      PROVE  DurableMove
  <2>1. journal' = [journal EXCEPT ![t] = [state |-> "received", native |-> journal[t].native,
                                           receipt |-> journal[t].receipt]]
    BY <1>1, <1>2, RecordUpdate DEF Receive
  <2>2. JournalMove(t)
    BY <1>1, <1>2, <2>1 DEF Receive, JournalMove, State
  <2> QED
    BY <1>2, <2>2 DEF Receive, DurableMove
<1>3. ASSUME NEW t \in Tx, Answer(t)
      PROVE  DurableMove
  BY <1>3, RecordFailedMoves DEF Answer, DurableMove
<1>4. ASSUME NEW t \in Tx, Prepare(t)
      PROVE  DurableMove
  <2>1. CASE journal[t].state = "received" /\ t \in claimed /\ ~NonceInFlight(t)
    <3>1. builds[t] \in 0..MaxBuilds /\ builds[t] # 0
      BY <1>1, <1>4 DEF Prepare, TaskRecord
    <3>2. JournalMove(t)
      BY <1>4, <2>1, <3>1 DEF Prepare, JournalMove, State
    <3> QED
      BY <1>4, <3>2 DEF Prepare, DurableMove
  <2>2. CASE ~(journal[t].state = "received" /\ t \in claimed /\ ~NonceInFlight(t))
    BY <1>4, <2>2, RecordFailedMoves DEF Prepare, DurableMove
  <2> QED
    BY <2>1, <2>2
<1>5. ASSUME NEW t \in Tx, BuildFails(t)
      PROVE  DurableMove
  BY <1>5, RecordFailedMoves DEF BuildFails, DurableMove
<1>6. ASSUME NEW t \in Tx, Send(t) \/ SendUnanswered(t)
      PROVE  DurableMove
  <2>1. Prepared(t) /\ journal[t].native \in BuildId
    <3>1. Prepared(t)
      BY <1>6 DEF Send, SendUnanswered, TaskRecord
    <3>2. journal[t].native # 0
      BY <3>1 DEF JournalShape, Prepared, OccupiesNonce
    <3> QED
      BY <1>1, <3>1, <3>2, GatewayAssumption DEF BuildId
  <2>2. CASE Native(t) = "unseen"
    <3>1. network' = [network EXCEPT ![t][journal[t].native] = "pooled"]
      BY <1>6, <2>2 DEF Send, SendUnanswered, Native
    <3>2. NetworkMove(t, journal[t].native)
      BY <2>1, <2>2, <3>1 DEF NetworkMove, Native, NetworkStatus
    <3> QED
      BY <1>6, <2>1, <3>2 DEF Send, SendUnanswered, DurableMove
  <2>3. CASE Native(t) # "unseen"
    <3>1. network' = network
      BY <1>1, <1>6, <2>1, <2>3 DEF Send, SendUnanswered, Native
    <3> QED
      BY <1>6, <3>1 DEF Send, SendUnanswered, DurableMove
  <2> QED
    BY <2>2, <2>3
<1>7. ASSUME NEW t \in Tx, Mark(t)
      PROVE  DurableMove
  <2>1. journal' = [journal EXCEPT ![t] = [state |-> "broadcast", native |-> journal[t].native,
                                           receipt |-> journal[t].receipt]]
    BY <1>1, <1>7, RecordUpdate DEF Mark
  <2>2. JournalMove(t)
    BY <1>1, <1>7, <2>1 DEF Mark, JournalMove, State
  <2> QED
    BY <1>7, <2>2 DEF Mark, DurableMove
<1>8. ASSUME NEW t \in Tx, Confirm(t)
      PROVE  DurableMove
  <2>1. journal' = [journal EXCEPT ![t] = [state |-> "confirmed", native |-> journal[t].native,
                                           receipt |-> TRUE]]
    BY <1>1, <1>8, RecordUpdate DEF Confirm
  <2>2. JournalMove(t)
    BY <1>1, <1>8, <2>1 DEF Confirm, JournalMove, State
  <2> QED
    BY <1>8, <2>2 DEF Confirm, DurableMove
<1>9. ASSUME NEW t \in Tx, RetainFailure(t)
      PROVE  DurableMove
  <2>1. journal' = [journal EXCEPT ![t] = [state |-> "failed", native |-> journal[t].native,
                                           receipt |-> TRUE]]
    BY <1>1, <1>9, RecordUpdate DEF RetainFailure
  <2>2. JournalMove(t)
    BY <1>1, <1>9, <2>1 DEF RetainFailure, JournalMove, State
  <2> QED
    BY <1>9, <2>2 DEF RetainFailure, DurableMove
<1>10. ASSUME NEW t \in Tx, NEW i \in BuildId, Execute(t, i) \/ Expire(t, i)
       PROVE  DurableMove
  <2>1. NetworkMove(t, i)
    BY <1>10 DEF Execute, Expire, NetworkMove, NetworkStatus
  <2> QED
    BY <1>10, <2>1 DEF Execute, Expire, DurableMove
<1>11. ASSUME NEW t \in Tx,
              Resubmit(t) \/ Resume(t) \/ Build(t) \/ Lookup(t) \/ Throws(t) \/ Finish(t) \/ Recover(t)
       PROVE  DurableMove
  BY <1>11
     DEF Resubmit, Resume, Build, Lookup, Throws, Finish, Recover, durable, DurableMove
<1>12. ASSUME PumpQueue \/ GapDeadline \/ Start \/ Listen \/ Crash \/ UNCHANGED vars
       PROVE  DurableMove
  BY <1>12 DEF PumpQueue, GapDeadline, Start, Listen, Crash, vars, durable, DurableMove
<1> QED
  BY <1>2, <1>3, <1>4, <1>5, <1>6, <1>7, <1>8, <1>9, <1>10, <1>11, <1>12 DEF Next, Run

-----------------------------------------------------------------------------
(***************************************************************************)
(* What the moves keep.                                                    *)
(***************************************************************************)
\* The record a journal move changes, field by field, and the records it
\* leaves alone.
LEMMA JournalMoveFields ==
  ASSUME TypeOK, NEW t \in Tx, JournalMove(t)
  PROVE  /\ \A u \in Tx : u # t => journal'[u] = journal[u]
         /\ \/ /\ journal[t].state = "absent" /\ journal'[t].state = "received"
               /\ journal'[t].native = journal[t].native
            \/ /\ journal[t].state = "received" /\ journal'[t].state = "failed"
               /\ journal'[t].native = 0 /\ ~journal'[t].receipt
            \/ /\ journal[t].state = "received" /\ journal'[t].state = "native-built"
               /\ journal'[t].native # 0 /\ ~journal'[t].receipt
               /\ ~NonceInFlight(t)
            \/ /\ Prepared(t) /\ journal'[t].state = "broadcast"
               /\ journal'[t].native = journal[t].native
               /\ journal'[t].receipt = journal[t].receipt
            \/ /\ journal[t].state = "broadcast" /\ journal'[t].state = "confirmed"
               /\ journal'[t].native = journal[t].native /\ journal'[t].receipt
               /\ Native(t) = "success"
            \/ /\ journal[t].state = "broadcast" /\ journal'[t].state = "failed"
               /\ journal'[t].native = journal[t].native /\ journal'[t].receipt
               /\ Native(t) \in {"success", "reverted"}
<1>1. PICK s \in State, n \in 0..MaxBuilds, r \in BOOLEAN :
        JournalMove(t)!(s, n, r)
  BY DEF JournalMove
<1>2. journal' = [journal EXCEPT ![t] = [state |-> s, native |-> n, receipt |-> r]]
  BY <1>1
<1>3. journal \in [Tx -> [state : State, native : 0..MaxBuilds, receipt : BOOLEAN]]
  BY DEF TypeOK
<1>4. \A u \in Tx : u # t => journal'[u] = journal[u]
  BY <1>2, <1>3
<1>5. journal'[t].state = s /\ journal'[t].native = n /\ journal'[t].receipt = r
  BY <1>2, <1>3
<1> QED
  BY <1>1, <1>4, <1>5

\* The native transaction a network move changes, and those it leaves alone.
LEMMA NetworkMoveFields ==
  ASSUME TypeOK, NEW t \in Tx, NEW i \in BuildId, NetworkMove(t, i)
  PROVE  /\ \A u \in Tx, j \in BuildId : u # t \/ j # i => network'[u][j] = network[u][j]
         /\ \/ /\ Prepared(t) /\ i = journal[t].native
               /\ network[t][i] = "unseen" /\ network'[t][i] = "pooled"
            \/ network[t][i] = "pooled" /\ network'[t][i] \in {"success", "reverted"}
            \/ network[t][i] \in {"unseen", "pooled"} /\ network'[t][i] = "expired"
  BY DEF NetworkMove, TypeOK

LEMMA ShapeMoves ==
  ASSUME TypeOK, JournalShape, DurableMove
  PROVE  JournalShape'
<1> USE DEF JournalShape, OccupiesNonce, Prepared
<1>1. CASE UNCHANGED journal
  BY <1>1
<1>2. ASSUME NEW t \in Tx, JournalMove(t)
      PROVE  JournalShape'
  BY <1>2, JournalMoveFields
<1> QED
  BY <1>1, <1>2 DEF DurableMove

LEMMA HolderMoves ==
  ASSUME TypeOK, OneHolder, DurableMove
  PROVE  OneHolder'
<1> USE DEF OneHolder, OccupiesNonce
<1>1. CASE UNCHANGED journal
  BY <1>1
<1>2. ASSUME NEW t \in Tx, JournalMove(t)
      PROVE  OneHolder'
  BY <1>2, JournalMoveFields DEF NonceInFlight, Prepared
<1> QED
  BY <1>1, <1>2 DEF DurableMove

LEMMA WrittenAheadMoves ==
  ASSUME TypeOK, WrittenAhead, DurableMove
  PROVE  WrittenAhead'
<1> USE DEF WrittenAhead, OnTheWire, OccupiesNonce, Prepared
<1>1. CASE UNCHANGED <<journal, network>>
  BY <1>1
<1>2. ASSUME NEW t \in Tx, JournalMove(t), UNCHANGED network
      PROVE  WrittenAhead'
  BY <1>2, JournalMoveFields
<1>3. ASSUME NEW t \in Tx, NEW i \in BuildId, NetworkMove(t, i), UNCHANGED journal
      PROVE  WrittenAhead'
  BY <1>3, NetworkMoveFields
<1> QED
  BY <1>1, <1>2, <1>3 DEF DurableMove

LEMMA SolidMoves ==
  ASSUME TypeOK, JournalShape, FinalizedIsSolid, DurableMove
  PROVE  FinalizedIsSolid'
<1> USE DEF FinalizedIsSolid, FinalizedIn, Solid
<1>1. CASE UNCHANGED <<journal, network>>
  BY <1>1
<1>2. ASSUME NEW t \in Tx, JournalMove(t), UNCHANGED network
      PROVE  FinalizedIsSolid'
  BY <1>2, JournalMoveFields DEF Prepared, Native
<1>3. ASSUME NEW t \in Tx, NEW i \in BuildId, NetworkMove(t, i), UNCHANGED journal
      PROVE  FinalizedIsSolid'
  <2>1. \A u \in FinalizedIn(journal) : journal[u].native \in BuildId
    BY GatewayAssumption DEF JournalShape, OccupiesNonce, TypeOK, BuildId
  <2> QED
    BY <1>3, <2>1, NetworkMoveFields
<1> QED
  BY <1>1, <1>2, <1>3 DEF DurableMove

-----------------------------------------------------------------------------
(***************************************************************************)
(* What the runs, the queue and the recovery keep.                         *)
(***************************************************************************)
\* A run that a queue step starts is of a transaction that waited; the other
\* runs stand where they stood.
LEMMA StartedFromQueue ==
  ASSUME TypeOK, queue.active \notin queue.pending,
         NEW from \in [Tx -> Pc], StartReleased(from),
         \/ Pump(ExpectedNonce) \/ Deadline(ExpectedNonce)
         \/ \E t \in Tx, outcome \in {"fulfilled", "rejected"} : AfterRun(t, outcome, ExpectedNonce)
  PROVE  \A u \in Tx : \/ task'[u] = from[u]
                       \/ u \in queue.pending /\ u = queue'.active /\ task'[u] = "build"
<1>1. queue'.active \in queue.pending \cup {queue.active, None}
  BY QueueReleases, ExpectedNat DEF TypeOK
<1> QED
  BY <1>1 DEF StartReleased

LEMMA FinishTasks ==
  ASSUME TypeOK, queue.active \notin queue.pending, NEW t \in Tx, Finish(t)
  PROVE  \A u \in Tx : \/ task'[u] = [task EXCEPT ![t] = "idle"][u]
                       \/ u \in queue.pending /\ u = queue'.active /\ task'[u] = "build"
<1>1. [task EXCEPT ![t] = "idle"] \in [Tx -> Pc]
  BY DEF TypeOK, Pc
<1>2. CASE t = queue.active
  BY <1>1, <1>2, StartedFromQueue DEF Finish
<1>3. CASE t # queue.active
  BY <1>3 DEF Finish
<1> QED
  BY <1>2, <1>3

\* A failure that is recorded changes a received record, and no other.
LEMMA RecordFailedFields ==
  ASSUME TypeOK, NEW t \in Tx, RecordFailed(t)
  PROVE  /\ \A u \in Tx : u # t => journal'[u] = journal[u]
         /\ \/ journal'[t] = journal[t] /\ (journal[t].state # "received" \/ t \notin claimed)
            \/ /\ journal[t].state = "received" /\ t \in claimed
               /\ journal'[t].state = "failed" /\ ~journal'[t].receipt
<1>1. journal \in [Tx -> [state : State, native : 0..MaxBuilds, receipt : BOOLEAN]]
  BY DEF TypeOK
<1>2. CASE journal[t].state = "received" /\ t \in claimed
  BY <1>1, <1>2 DEF RecordFailed
<1>3. CASE ~(journal[t].state = "received" /\ t \in claimed)
  BY <1>3 DEF RecordFailed
<1> QED
  BY <1>2, <1>3

LEMMA TaskStep ==
  ASSUME TypeOK, TaskRecord, QueueRecords, ReplayRecords, JournalShape, [Next]_vars
  PROVE  TaskRecord'
<1>1. /\ journal \in [Tx -> [state : State, native : 0..MaxBuilds, receipt : BOOLEAN]]
      /\ builds \in [Tx -> 0..MaxBuilds]
      /\ task \in [Tx -> Pc]
      /\ MaxBuilds \in Nat
  BY GatewayAssumption DEF TypeOK
<1> USE DEF TaskRecord, Prepared
<1>2. ASSUME NEW t \in Tx, RecordFailed(t)
      PROVE  /\ \A u \in Tx : u # t => journal'[u] = journal[u]
             /\ \/ journal'[t].state = journal[t].state
                \/ journal[t].state = "received" /\ journal'[t].state = "failed"
  BY <1>2, RecordFailedFields
<1>3. ASSUME NEW t \in Tx, Receive(t)
      PROVE  TaskRecord'
  <2>1. journal'[t].state = "received" /\ \A u \in Tx : u # t => journal'[u] = journal[u]
    BY <1>1, <1>3 DEF Receive
  <2>2. task[t] = "idle"
    BY <1>3 DEF Receive
  <2>3. task' \in {task, [task EXCEPT ![t] = "build"]}
    BY <1>3 DEF Receive, EnqueueBuild
  <2> QED
    BY <1>1, <1>3, <2>1, <2>2, <2>3 DEF Receive
<1>4. ASSUME NEW t \in Tx, Resubmit(t) \/ Resume(t)
      PROVE  TaskRecord'
  <2>1. \/ task' = task
        \/ task' = [task EXCEPT ![t] = "build"] /\ journal[t].state = "received"
        \/ task' = [task EXCEPT ![t] = "lookup"] /\ Prepared(t)
    BY <1>4 DEF Resubmit, Resume, EnqueueBuild
  <2> QED
    BY <1>1, <1>4, <2>1 DEF Resubmit, Resume, durable
<1>5. CASE PumpQueue \/ GapDeadline
  <2>1. \A u \in Tx : \/ task'[u] = task[u]
                      \/ u \in queue.pending /\ task'[u] = "build"
    BY <1>1, <1>5, StartedFromQueue DEF PumpQueue, GapDeadline, QueueRecords
  <2> QED
    BY <1>5, <2>1 DEF PumpQueue, GapDeadline, QueueRecords, durable
<1>6. ASSUME NEW t \in Tx, Answer(t)
      PROVE  TaskRecord'
  BY <1>2, <1>6 DEF Answer
<1>7. ASSUME NEW t \in Tx, Build(t)
      PROVE  TaskRecord'
  BY <1>1, <1>7 DEF Build
<1>8. ASSUME NEW t \in Tx, Prepare(t)
      PROVE  TaskRecord'
  <2>1. CASE journal[t].state = "received" /\ t \in claimed /\ ~NonceInFlight(t)
    <3>1. journal'[t].state = "native-built" /\ \A u \in Tx : u # t => journal'[u] = journal[u]
      BY <1>1, <1>8, <2>1 DEF Prepare
    <3> QED
      BY <1>1, <1>8, <2>1, <3>1 DEF Prepare
  <2>2. CASE ~(journal[t].state = "received" /\ t \in claimed /\ ~NonceInFlight(t))
    <3>1. RecordFailed(t) /\ task' = [task EXCEPT ![t] = "throw"] /\ builds' = builds
      BY <1>8, <2>2 DEF Prepare
    <3>2. journal[t].state # "absent"
      BY <1>8 DEF Prepare
    <3> QED
      BY <1>1, <1>2, <3>1, <3>2
  <2> QED
    BY <2>1, <2>2
<1>9. ASSUME NEW t \in Tx, BuildFails(t)
      PROVE  TaskRecord'
  <2>1. RecordFailed(t) /\ task' = [task EXCEPT ![t] = "throw"] /\ builds' = builds
    BY <1>9 DEF BuildFails
  <2>2. journal[t].state # "absent"
    BY <1>9 DEF BuildFails
  <2> QED
    BY <1>1, <1>2, <2>1, <2>2
<1>10. ASSUME NEW t \in Tx, Send(t) \/ SendUnanswered(t) \/ Lookup(t) \/ Throws(t)
       PROVE  TaskRecord'
  <2>1. journal' = journal /\ builds' = builds
    BY <1>10 DEF Send, SendUnanswered, Lookup, Throws, durable
  <2>2. \/ task[t] \in {"send", "lookup"} /\ \E pc \in {"mark", "send"} : task' = [task EXCEPT ![t] = pc]
        \/ task[t] # "idle" /\ task' = [task EXCEPT ![t] = "throw"]
    BY <1>10 DEF Send, SendUnanswered, Lookup, Throws
  <2> QED
    BY <1>1, <2>1, <2>2
<1>11. ASSUME NEW t \in Tx, Mark(t)
       PROVE  TaskRecord'
  <2>1. journal'[t].state = "broadcast" /\ \A u \in Tx : u # t => journal'[u] = journal[u]
    BY <1>1, <1>11 DEF Mark
  <2> QED
    BY <1>1, <1>11, <2>1 DEF Mark
<1>12. ASSUME NEW t \in Tx, Confirm(t)
       PROVE  TaskRecord'
  <2>1. journal'[t].state = "confirmed" /\ \A u \in Tx : u # t => journal'[u] = journal[u]
    BY <1>1, <1>12 DEF Confirm
  <2> QED
    BY <1>1, <1>12, <2>1 DEF Confirm
<1>13. ASSUME NEW t \in Tx, RetainFailure(t)
       PROVE  TaskRecord'
  <2>1. journal'[t].state = "failed" /\ \A u \in Tx : u # t => journal'[u] = journal[u]
    BY <1>1, <1>13 DEF RetainFailure
  <2> QED
    BY <1>1, <1>13, <2>1 DEF RetainFailure
<1>14. ASSUME NEW t \in Tx, Finish(t)
       PROVE  TaskRecord'
  <2>1. \A u \in Tx : \/ task'[u] = [task EXCEPT ![t] = "idle"][u]
                      \/ u \in queue.pending /\ task'[u] = "build"
    BY <1>14, FinishTasks DEF QueueRecords
  <2>2. \A u \in Tx : \/ task'[u] \in {"idle", task[u]}
                      \/ u \in queue.pending /\ task'[u] = "build"
    BY <1>1, <2>1
  <2> QED
    BY <1>14, <2>2 DEF Finish, QueueRecords, durable
<1>15. ASSUME NEW t \in Tx, Recover(t)
       PROVE  TaskRecord'
  <2>1. \/ task' = [task EXCEPT ![t] = "build"] /\ journal[t].state = "received"
        \/ task' = [task EXCEPT ![t] = "lookup"] /\ Prepared(t)
    BY <1>15 DEF Recover, ReplayRecords
  <2> QED
    BY <1>1, <1>15, <2>1 DEF Recover, durable
<1>16. CASE Start \/ Listen \/ UNCHANGED vars
  BY <1>16 DEF Start, Listen, vars, durable
<1>17. CASE Crash
  BY <1>17 DEF Crash, durable
<1>18. ASSUME NEW t \in Tx, NEW i \in BuildId, Execute(t, i) \/ Expire(t, i)
       PROVE  TaskRecord'
  BY <1>18 DEF Execute, Expire
<1> QED
  BY <1>3, <1>4, <1>5, <1>6, <1>7, <1>8, <1>9, <1>10, <1>11, <1>12, <1>13, <1>14, <1>15, <1>16,
     <1>17, <1>18 DEF Next, Run

LEMMA OutOfServiceStep ==
  ASSUME TypeOK, OutOfService, [Next]_vars
  PROVE  OutOfService'
<1> USE DEF OutOfService
<1>1. CASE UNCHANGED vars
  BY <1>1 DEF vars, queueVars
<1>2. ASSUME NEW t \in Tx, Receive(t) \/ Resubmit(t) \/ Resume(t)
      PROVE  OutOfService'
  BY <1>2 DEF Receive, Resubmit, Resume, Serving
<1>3. ASSUME PumpQueue \/ GapDeadline \/ \E t \in Tx : Answer(t)
      PROVE  OutOfService'
  <2>1. phase' = phase /\ replay' = replay
    BY <1>3 DEF PumpQueue, GapDeadline, Answer
  <2>2. CASE phase = "ready"
    BY <2>1, <2>2
  <2>3. CASE phase # "ready"
    BY <1>3, <2>3 DEF PumpQueue, GapDeadline, Answer, Pump, Deadline, Observe, NoSigner
  <2> QED
    BY <2>2, <2>3
<1>4. ASSUME NEW t \in Tx, Finish(t)
      PROVE  OutOfService'
  <2>1. CASE phase = "ready"
    BY <1>4, <2>1 DEF Finish
  <2>2. CASE phase # "ready"
    <3>1. t # queue.active
      BY <2>2, NoneAssumption DEF NoSigner
    <3>2. phase' # "ready" /\ UNCHANGED queueVars
      BY <1>4, <2>2, <3>1 DEF Finish
    <3>3. phase' # "recovering" => replay' = {}
      BY <1>4, <2>2 DEF Finish
    <3> QED
      BY <2>2, <3>2, <3>3 DEF queueVars
  <2> QED
    BY <2>1, <2>2
<1>5. ASSUME NEW t \in Tx, Run(t)
      PROVE  OutOfService'
  <2>1. CASE Build(t) \/ Prepare(t) \/ BuildFails(t) \/ Send(t) \/ SendUnanswered(t)
    BY <2>1 DEF Build, Prepare, BuildFails, Send, SendUnanswered, queueVars
  <2>2. CASE Mark(t) \/ Confirm(t) \/ RetainFailure(t) \/ Lookup(t) \/ Throws(t)
    BY <2>2 DEF Mark, Confirm, RetainFailure, Lookup, Throws, queueVars
  <2> QED
    BY <1>4, <1>5, <2>1, <2>2 DEF Run
<1>6. CASE Start \/ Listen
  BY <1>6 DEF Start, Listen, queueVars
<1>7. CASE Crash
  BY <1>7 DEF Crash
<1>8. ASSUME NEW t \in Tx, Recover(t)
      PROVE  OutOfService'
  BY <1>8 DEF Recover, queueVars
<1>9. ASSUME NEW t \in Tx, NEW i \in BuildId, Execute(t, i) \/ Expire(t, i)
      PROVE  OutOfService'
  BY <1>9 DEF Execute, Expire, queueVars
<1> QED
  BY <1>1, <1>2, <1>3, <1>5, <1>6, <1>7, <1>8, <1>9 DEF Next

\* A step of t's run changes no record but t's, and neither the queue, the
\* claims nor what is to be replayed, unless it is the last one.
LEMMA RunStep ==
  ASSUME TypeOK, NEW t \in Tx, Run(t), ~Finish(t)
  PROVE  /\ \A u \in Tx : u # t => journal'[u] = journal[u] /\ task'[u] = task[u]
         /\ task[t] # "idle" /\ task'[t] # "idle"
         /\ journal'[t].state = "received" => journal[t].state = "received"
         /\ UNCHANGED <<queue, pumpDue, settled, phase, claimed, replay, refused>>
<1>1. /\ journal \in [Tx -> [state : State, native : 0..MaxBuilds, receipt : BOOLEAN]]
      /\ task \in [Tx -> Pc]
  BY DEF TypeOK
<1>2. CASE Prepare(t)
  <2>1. CASE journal[t].state = "received" /\ t \in claimed /\ ~NonceInFlight(t)
    BY <1>1, <1>2, <2>1 DEF Prepare, queueVars
  <2>2. CASE ~(journal[t].state = "received" /\ t \in claimed /\ ~NonceInFlight(t))
    <3>1. RecordFailed(t) /\ task[t] = "prepare" /\ task' = [task EXCEPT ![t] = "throw"]
      BY <1>2, <2>2 DEF Prepare
    <3> QED
      BY <1>1, <1>2, <3>1, RecordFailedFields DEF Prepare, queueVars
  <2> QED
    BY <2>1, <2>2
<1>3. CASE BuildFails(t)
  <2>1. RecordFailed(t) /\ task[t] # "idle" /\ task' = [task EXCEPT ![t] = "throw"]
    BY <1>3 DEF BuildFails
  <2> QED
    BY <1>1, <1>3, <2>1, RecordFailedFields DEF BuildFails, queueVars
<1>4. CASE Build(t) \/ Send(t) \/ SendUnanswered(t) \/ Lookup(t) \/ Throws(t)
  <2>1. journal' = journal
    BY <1>4 DEF Build, Send, SendUnanswered, Lookup, Throws, durable
  <2>2. task[t] # "idle" /\ \E pc \in Pc \ {"idle"} : task' = [task EXCEPT ![t] = pc]
    BY <1>4 DEF Build, Send, SendUnanswered, Lookup, Throws, Pc
  <2>3. UNCHANGED <<queue, pumpDue, settled, phase, claimed, replay, refused>>
    BY <1>4 DEF Build, Send, SendUnanswered, Lookup, Throws, queueVars
  <2> QED
    BY <1>1, <2>1, <2>2, <2>3
<1>5. CASE Mark(t)
  BY <1>1, <1>5 DEF Mark, queueVars
<1>6. CASE Confirm(t)
  BY <1>1, <1>6 DEF Confirm, queueVars
<1>7. CASE RetainFailure(t)
  BY <1>1, <1>7 DEF RetainFailure, queueVars
<1> QED
  BY <1>2, <1>3, <1>4, <1>5, <1>6, <1>7 DEF Run

\* The queue's steps keep what is said of its records.
LEMMA QueueRecordsReleased ==
  ASSUME TypeOK, QueueRecords,
         \/ Pump(ExpectedNonce) \/ Deadline(ExpectedNonce)
         \/ \E t \in Tx, outcome \in {"fulfilled", "rejected"} : AfterRun(t, outcome, ExpectedNonce),
         UNCHANGED <<journal, claimed>>,
         \A u \in Tx : \/ task'[u] \in {task[u], "idle"}
                       \/ u \in queue.pending /\ u = queue'.active /\ task'[u] = "build"
  PROVE  QueueRecords'
<1>1. /\ queue'.pending \subseteq queue.pending
      /\ queue'.active \notin queue'.pending
      /\ \A u \in Tx : settled'[u] = "NONCE_TOO_LOW" =>
           \/ settled[u] = "NONCE_TOO_LOW"
           \/ u \in queue.pending /\ u \notin queue'.pending /\ u # queue'.active
  BY QueueReleases, ExpectedNat DEF TypeOK, QueueRecords
<1>2. \A u \in Tx : settled[u] = "NONCE_TOO_LOW" => u \notin queue.pending
  BY DEF QueueRecords
<1>3. ASSUME NEW u \in Tx, u \in queue'.pending \/ settled'[u] = "NONCE_TOO_LOW"
      PROVE  journal'[u].state = "received" /\ u \in claimed' /\ task'[u] = "idle"
  <2>1. u \in queue.pending \/ settled[u] = "NONCE_TOO_LOW"
    BY <1>1, <1>3
  <2>2. journal[u].state = "received" /\ u \in claimed /\ task[u] = "idle"
    BY <2>1 DEF QueueRecords
  <2>3. ~(u \in queue.pending /\ u = queue'.active)
    BY <1>1, <1>2, <1>3
  <2> QED
    BY <2>2, <2>3
<1>4. \A u \in queue'.pending : settled'[u] # "NONCE_TOO_LOW"
  <2>1. queue.pending \subseteq Tx
    BY DEF TypeOK, QueueTypeOK
  <2> QED
    BY <1>1, <1>2, <2>1
<1> QED
  BY <1>1, <1>3, <1>4 DEF QueueRecords

LEMMA QueueRecordsStep ==
  ASSUME TypeOK, TaskRecord, OutOfService, QueueRecords, [Next]_vars
  PROVE  QueueRecords'
<1>1. /\ journal \in [Tx -> [state : State, native : 0..MaxBuilds, receipt : BOOLEAN]]
      /\ task \in [Tx -> Pc]
      /\ queue.pending \subseteq Tx
      /\ settled \in [Tx -> Settlement]
      /\ queue \in [pending : SUBSET Tx, cursor : Nat \cup {None},
                    active : Tx \cup {None}, deadline : BOOLEAN]
  BY DEF TypeOK, QueueTypeOK
<1>2. ASSUME phase # "ready"
      PROVE  queue = NoSigner /\ ~pumpDue /\ \A t \in Tx : settled[t] = "none"
  BY <1>2 DEF OutOfService
<1>3. ASSUME queue' = NoSigner, \A t \in Tx : settled'[t] = "none"
      PROVE  QueueRecords'
  BY <1>3, NoneAssumption DEF QueueRecords, NoSigner
<1>4. ASSUME NEW t \in Tx, Receive(t) \/ Resubmit(t)
      PROVE  QueueRecords'
  <2>1. /\ task[t] = "idle" /\ t \in claimed'
        /\ \A u \in Tx : settled[u] = "none"
        /\ claimed \subseteq claimed'
    BY <1>4 DEF Receive, Resubmit, Serving, TaskRecord
  <2>2. journal'[t].state = "received" /\ \A u \in Tx : u # t => journal'[u] = journal[u]
    <3>1. CASE Receive(t)
      BY <1>1, <3>1 DEF Receive
    <3>2. CASE Resubmit(t)
      BY <1>1, <3>2 DEF Resubmit, durable
    <3> QED
      BY <1>4, <3>1, <3>2
  <2>3. CASE t \in Undecodable
    <3>1. task' = [task EXCEPT ![t] = "build"] /\ UNCHANGED queueVars
      BY <1>4, <2>3 DEF Receive, Resubmit, EnqueueBuild
    <3>2. t \notin queue.pending
      BY <1>4 DEF Receive, Resubmit, QueueRecords, Queued
    <3> QED
      BY <1>1, <2>1, <2>2, <3>1, <3>2 DEF QueueRecords, queueVars
  <2>4. CASE t \notin Undecodable
    <3>1. Enqueue(t) /\ task' = task
      BY <1>4, <2>4 DEF Receive, Resubmit, EnqueueBuild
    <3>2. t \notin queue.pending /\ t # queue.active /\ settled' = settled
      BY <3>1, NoneAssumption DEF Enqueue, Queued
    <3>3. queue' = queue \/ queue' = [queue EXCEPT !.pending = @ \cup {t}]
      BY <3>1 DEF Enqueue
    <3>4. queue'.pending \in {queue.pending, queue.pending \cup {t}} /\ queue'.active = queue.active
      BY <1>1, <3>3
    <3> QED
      BY <1>1, <2>1, <2>2, <3>1, <3>2, <3>4 DEF QueueRecords
  <2> QED
    BY <2>3, <2>4
<1>5. ASSUME NEW t \in Tx, Resume(t)
      PROVE  QueueRecords'
  <2>1. journal[t].state # "received" /\ UNCHANGED <<journal, claimed, queue, settled>>
    BY <1>5 DEF Resume, Prepared, durable, queueVars
  <2> QED
    BY <1>1, <1>5, <2>1 DEF Resume, QueueRecords
<1>6. CASE PumpQueue \/ GapDeadline
  <2>1. \A u \in Tx : \/ task'[u] = task[u]
                      \/ u \in queue.pending /\ u = queue'.active /\ task'[u] = "build"
    BY <1>1, <1>6, StartedFromQueue DEF PumpQueue, GapDeadline, QueueRecords
  <2>2. UNCHANGED <<journal, claimed>>
    BY <1>6 DEF PumpQueue, GapDeadline, durable
  <2>3. Pump(ExpectedNonce) \/ Deadline(ExpectedNonce)
    BY <1>6 DEF PumpQueue, GapDeadline
  <2> QED
    BY <2>1, <2>2, <2>3, QueueRecordsReleased
<1>7. ASSUME NEW t \in Tx, Answer(t)
      PROVE  QueueRecords'
  <2>1. /\ settled' = [settled EXCEPT ![t] = "none"]
        /\ UNCHANGED <<queue, task, claimed>>
    BY <1>7 DEF Answer, Observe
  <2>2. /\ \A u \in Tx : u # t => journal'[u] = journal[u]
        /\ settled[t] = "NONCE_TOO_LOW" \/ journal' = journal
    BY <1>7, RecordFailedFields DEF Answer
  <2> QED
    BY <1>1, <2>1, <2>2 DEF QueueRecords
<1>8. ASSUME NEW t \in Tx, Finish(t)
      PROVE  QueueRecords'
  <2>1. \A u \in Tx : \/ task'[u] \in {task[u], "idle"}
                      \/ u \in queue.pending /\ u = queue'.active /\ task'[u] = "build"
    <3>1. \A u \in Tx : \/ task'[u] = [task EXCEPT ![t] = "idle"][u]
                        \/ u \in queue.pending /\ u = queue'.active /\ task'[u] = "build"
      BY <1>8, FinishTasks DEF QueueRecords
    <3> QED
      BY <1>1, <3>1
  <2>2. CASE phase # "ready"
    <3>1. t # queue.active
      BY <1>2, <2>2, NoneAssumption DEF NoSigner
    <3>2. UNCHANGED <<queue, settled>>
      BY <1>8, <3>1 DEF Finish, queueVars
    <3> QED
      BY <1>2, <1>3, <2>2, <3>2
  <2>3. CASE phase = "ready"
    <3>1. UNCHANGED <<journal, claimed>>
      BY <1>8, <2>3 DEF Finish, durable
    <3>2. CASE t = queue.active
      <4>1. \E outcome \in {"fulfilled", "rejected"} : AfterRun(t, outcome, ExpectedNonce)
        BY <1>8, <3>2 DEF Finish
      <4> QED
        BY <2>1, <3>1, <4>1, QueueRecordsReleased
    <3>3. CASE t # queue.active
      <4>1. UNCHANGED <<queue, settled>> /\ task' = [task EXCEPT ![t] = "idle"]
        BY <1>8, <3>3 DEF Finish, queueVars
      <4> QED
        BY <1>1, <3>1, <4>1 DEF QueueRecords
    <3> QED
      BY <3>2, <3>3
  <2> QED
    BY <2>2, <2>3
<1>9. ASSUME NEW t \in Tx, Run(t), ~Finish(t)
      PROVE  QueueRecords'
  BY <1>1, <1>9, RunStep DEF QueueRecords
<1>10. CASE Crash
  BY <1>3, <1>10 DEF Crash
<1>11. ASSUME Start \/ Listen \/ \E t \in Tx : Recover(t)
       PROVE  QueueRecords'
  <2>1. phase # "ready" /\ UNCHANGED <<queue, settled>>
    BY <1>11 DEF Start, Listen, Recover, queueVars
  <2> QED
    BY <1>2, <1>3, <2>1
<1>12. CASE (\E t \in Tx, i \in BuildId : Execute(t, i) \/ Expire(t, i)) \/ UNCHANGED vars
  <2>1. UNCHANGED <<queue, settled, journal, claimed, task>>
    BY <1>12 DEF Execute, Expire, vars, queueVars, durable
  <2> QED
    BY <2>1 DEF QueueRecords
<1> QED
  BY <1>4, <1>5, <1>6, <1>7, <1>8, <1>9, <1>10, <1>11, <1>12 DEF Next

LEMMA ReplayStep ==
  ASSUME TypeOK, OutOfService, ReplayRecords, [Next]_vars
  PROVE  ReplayRecords'
<1>1. /\ journal \in [Tx -> [state : State, native : 0..MaxBuilds, receipt : BOOLEAN]]
      /\ task \in [Tx -> Pc]
      /\ replay \subseteq Tx
  BY DEF TypeOK
<1>2. ASSUME phase # "recovering", replay' = replay
      PROVE  ReplayRecords'
  BY <1>2 DEF OutOfService, ReplayRecords
<1>3. ASSUME NEW t \in Tx, Receive(t) \/ Resubmit(t) \/ Resume(t)
      PROVE  ReplayRecords'
  BY <1>2, <1>3 DEF Receive, Resubmit, Resume, Serving
<1>4. ASSUME PumpQueue \/ GapDeadline \/ \E t \in Tx : Answer(t)
      PROVE  ReplayRecords'
  <2>1. CASE phase # "recovering"
    BY <1>2, <1>4, <2>1 DEF PumpQueue, GapDeadline, Answer
  <2>2. CASE phase = "recovering"
    BY <1>4, <2>2, NoneAssumption
       DEF OutOfService, PumpQueue, GapDeadline, Answer, Pump, Deadline, Observe, NoSigner
  <2> QED
    BY <2>1, <2>2
<1>5. ASSUME NEW t \in Tx, Run(t), ~Finish(t)
      PROVE  ReplayRecords'
  BY <1>1, <1>5, RunStep DEF ReplayRecords
<1>6. ASSUME NEW t \in Tx, Finish(t)
      PROVE  ReplayRecords'
  <2>1. CASE phase # "recovering"
    BY <1>2, <1>6, <2>1 DEF Finish
  <2>2. CASE phase = "recovering"
    <3>1. task' = [task EXCEPT ![t] = "idle"]
      BY <1>6, <2>2, NoneAssumption DEF Finish, OutOfService, NoSigner
    <3>2. replay' \in {replay \ {t}, {}} /\ journal' = journal
      BY <1>6, <2>2 DEF Finish, durable
    <3> QED
      BY <1>1, <3>1, <3>2 DEF ReplayRecords
  <2> QED
    BY <2>1, <2>2
<1>7. CASE Start
  BY <1>1, <1>7 DEF Start, ReplayRecords, durable
<1>8. ASSUME NEW t \in Tx, Recover(t)
      PROVE  ReplayRecords'
  <2>1. \E pc \in Pc \ {"idle"} : task' = [task EXCEPT ![t] = pc]
    BY <1>8 DEF Recover, Pc
  <2> QED
    BY <1>1, <1>8, <2>1 DEF Recover, ReplayRecords, durable
<1>9. CASE Crash
  BY <1>9 DEF Crash, ReplayRecords
<1>10. ASSUME \/ Listen \/ UNCHANGED vars
              \/ \E t \in Tx, i \in BuildId : Execute(t, i) \/ Expire(t, i)
       PROVE  ReplayRecords'
  <2>1. UNCHANGED <<journal, task, replay>>
    BY <1>10 DEF Listen, Execute, Expire, vars, durable
  <2> QED
    BY <2>1 DEF ReplayRecords
<1> QED
  BY <1>3, <1>4, <1>5, <1>6, <1>7, <1>8, <1>9, <1>10 DEF Next

LEMMA ClaimsStep ==
  ASSUME TypeOK, TaskRecord, OutOfService, ClaimsCovered, [Next]_vars
  PROVE  ClaimsCovered'
<1>1. /\ journal \in [Tx -> [state : State, native : 0..MaxBuilds, receipt : BOOLEAN]]
      /\ phase \in {"down", "recovering", "ready"}
  BY DEF TypeOK
<1> USE DEF ClaimsCovered
<1>2. ASSUME UNCHANGED <<phase, claimed, replay>>,
             \A u \in Tx : journal'[u].state = "received" => journal[u].state = "received"
      PROVE  ClaimsCovered'
  BY <1>2
<1>3. ASSUME NEW t \in Tx, Receive(t)
      PROVE  ClaimsCovered'
  <2>1. \A u \in Tx : u # t => journal'[u] = journal[u]
    BY <1>1, <1>3 DEF Receive
  <2> QED
    BY <1>3, <2>1 DEF Receive
<1>4. ASSUME \/ PumpQueue \/ GapDeadline \/ UNCHANGED vars
             \/ \E t \in Tx : Resubmit(t) \/ Resume(t)
             \/ \E t \in Tx, i \in BuildId : Execute(t, i) \/ Expire(t, i)
      PROVE  ClaimsCovered'
  <2>1. UNCHANGED <<journal, phase, claimed, replay>>
    BY <1>4 DEF PumpQueue, GapDeadline, vars, Resubmit, Resume, Execute, Expire, durable
  <2> QED
    BY <2>1
<1>5. ASSUME NEW t \in Tx, Answer(t)
      PROVE  ClaimsCovered'
  <2>1. /\ \A u \in Tx : u # t => journal'[u] = journal[u]
        /\ journal'[t].state = "received" => journal[t].state = "received"
    BY <1>5, RecordFailedFields DEF Answer
  <2> QED
    BY <1>2, <1>5, <2>1 DEF Answer
<1>6. ASSUME NEW t \in Tx, Run(t), ~Finish(t)
      PROVE  ClaimsCovered'
  BY <1>2, <1>6, RunStep
<1>7. ASSUME NEW t \in Tx, Finish(t)
      PROVE  ClaimsCovered'
  <2>1. task[t] = "capture" => journal[t].state # "received"
    BY DEF TaskRecord
  <2>2. journal' = journal
    BY <1>7 DEF Finish, durable
  <2> QED
    BY <1>7, <2>1, <2>2 DEF Finish
<1>8. CASE Start
  BY <1>8 DEF Start, durable
<1>9. CASE Listen
  BY <1>9 DEF Listen, durable
<1>10. ASSUME NEW t \in Tx, Recover(t)
       PROVE  ClaimsCovered'
  BY <1>10 DEF Recover, durable
<1>11. CASE Crash
  BY <1>11 DEF Crash
<1> QED
  BY <1>3, <1>4, <1>5, <1>6, <1>7, <1>8, <1>9, <1>10, <1>11 DEF Next

\* A settled record is never changed again.
LEMMA SettledKept ==
  ASSUME TypeOK, DurableMove, NEW u \in Tx, journal[u].state \in {"confirmed", "failed"}
  PROVE  journal'[u] = journal[u]
<1>1. CASE UNCHANGED journal
  BY <1>1
<1>2. ASSUME NEW t \in Tx, JournalMove(t)
      PROVE  journal'[u] = journal[u]
  BY <1>2, JournalMoveFields DEF Prepared
<1> QED
  BY <1>1, <1>2 DEF DurableMove

LEMMA RefusedStep ==
  ASSUME TypeOK, QueueRecords, RefusedFailed, DurableMove, [Next]_vars
  PROVE  RefusedFailed'
<1>1. refused \subseteq Tx
  BY DEF TypeOK
<1>2. ASSUME refused' = refused
      PROVE  RefusedFailed'
  BY <1>1, <1>2, SettledKept DEF RefusedFailed
<1>3. ASSUME NEW t \in Tx, Answer(t)
      PROVE  RefusedFailed'
  <2>1. CASE settled[t] # "NONCE_TOO_LOW"
    BY <1>2, <1>3, <2>1 DEF Answer
  <2>2. CASE settled[t] = "NONCE_TOO_LOW"
    <3>1. RecordFailed(t) /\ refused' = refused \cup {t}
      BY <1>3, <2>2 DEF Answer
    <3>2. journal[t].state = "received" /\ t \in claimed
      BY <2>2 DEF QueueRecords
    <3>3. journal'[t].state = "failed" /\ ~journal'[t].receipt
      BY <3>1, <3>2, RecordFailedFields
    <3> QED
      BY <1>1, <3>1, <3>3, SettledKept DEF RefusedFailed
  <2> QED
    BY <2>1, <2>2
<1>4. ASSUME ~\E t \in Tx : Answer(t)
      PROVE  refused' = refused
  <2>1. ASSUME NEW t \in Tx, Run(t) \/ Recover(t) \/ Receive(t) \/ Resubmit(t) \/ Resume(t)
        PROVE  refused' = refused
    BY <2>1, RunStep DEF Finish, Recover, Receive, Resubmit, Resume
  <2>2. CASE \/ PumpQueue \/ GapDeadline \/ Start \/ Listen \/ Crash \/ UNCHANGED vars
             \/ \E t \in Tx, i \in BuildId : Execute(t, i) \/ Expire(t, i)
    BY <2>2 DEF PumpQueue, GapDeadline, Start, Listen, Crash, vars, Execute, Expire
  <2> QED
    BY <1>4, <2>1, <2>2 DEF Next
<1> QED
  BY <1>2, <1>3, <1>4

-----------------------------------------------------------------------------
(***************************************************************************)
(* The invariant, and what follows from it.                                *)
(***************************************************************************)
IInv == ProcessInv /\ SafetyInv

LEMMA InvInit == Init => IInv
<1> SUFFICES ASSUME Init
             PROVE  IInv
  OBVIOUS
<1>1. TypeOK
  BY TypeInit
<1>2. JournalShape /\ TaskRecord /\ RefusedFailed /\ OneHolder /\ FinalizedIsSolid
  BY DEF Init, JournalShape, TaskRecord, RefusedFailed, OneHolder, FinalizedIsSolid,
         FinalizedIn, OccupiesNonce, Prepared, NoRecord
<1>3. OutOfService /\ QueueRecords /\ ReplayRecords /\ ClaimsCovered
  BY NoneAssumption
     DEF Init, QueueInit, OutOfService, QueueRecords, ReplayRecords, ClaimsCovered, NoSigner
<1>4. WrittenAhead
  BY DEF Init, WrittenAhead, OnTheWire
<1> QED
  BY <1>1, <1>2, <1>3, <1>4 DEF IInv, ProcessInv, SafetyInv

LEMMA InvNext == IInv /\ [Next]_vars => IInv'
<1> SUFFICES ASSUME ProcessInv, SafetyInv, [Next]_vars
             PROVE  IInv'
  BY DEF IInv
<1>1. TypeOK /\ JournalShape /\ TaskRecord /\ OutOfService /\ QueueRecords /\ ReplayRecords
  BY DEF ProcessInv
<1>2. ClaimsCovered /\ RefusedFailed /\ OneHolder /\ WrittenAhead /\ FinalizedIsSolid
  BY DEF SafetyInv
<1>3. DurableMove
  BY <1>1, DurableStep
<1>4. TypeOK' /\ TaskRecord' /\ OutOfService' /\ QueueRecords' /\ ReplayRecords'
  BY <1>1, TypeStep, TaskStep, OutOfServiceStep, QueueRecordsStep, ReplayStep
<1>5. JournalShape' /\ OneHolder' /\ WrittenAhead' /\ FinalizedIsSolid'
  BY <1>1, <1>2, <1>3, ShapeMoves, HolderMoves, WrittenAheadMoves, SolidMoves
<1>6. ClaimsCovered' /\ RefusedFailed'
  BY <1>1, <1>2, <1>3, ClaimsStep, RefusedStep
<1> QED
  BY <1>4, <1>5, <1>6 DEF IInv, ProcessInv, SafetyInv

LEMMA Invariance == Spec => []IInv
  BY InvInit, InvNext, PTL DEF Spec

\* The write path's state stays well typed in every behaviour: no step of the
\* journal, the queue, a run or a recovery leaves a field out of range.
THEOREM TypeCorrect == Spec => []TypeOK
<1>1. IInv => TypeOK
  BY DEF IInv, ProcessInv
<1> QED
  BY <1>1, Invariance, PTL

\* The journal is ahead of the network (journal.ts recordNativeBuilt before the
\* first broadcast): what the network holds, a record names and answers for.
THEOREM JournalledFirst == Spec => []WrittenAhead
<1>1. IInv => WrittenAhead
  BY DEF IInv, SafetyInv
<1> QED
  BY <1>1, Invariance, PTL

\* No nonce is ever used for two native transactions that reach the network,
\* over any number of crashes, rivals and retries (journal.ts:625-640).
THEOREM NonceUsedOnce == Spec => []OneNativePerNonce
<1>1. IInv => OneNativePerNonce
  <2> SUFFICES ASSUME OneHolder, WrittenAhead
               PROVE  OneNativePerNonce
    BY DEF IInv, SafetyInv
  <2>1. ASSUME NEW t \in Tx, NEW u \in Tx, NEW i \in BuildId, NEW j \in BuildId,
               OnTheWire(t, i), OnTheWire(u, j), NonceOf[t] = NonceOf[u]
        PROVE  t = u /\ i = j
    <3>1. OccupiesNonce(t) /\ OccupiesNonce(u) /\ journal[t].native = i /\ journal[u].native = j
      BY <2>1 DEF WrittenAhead
    <3>2. t = u
      BY <2>1, <3>1 DEF OneHolder
    <3> QED
      BY <3>1, <3>2
  <2> QED
    BY <2>1 DEF OneNativePerNonce
<1> QED
  BY <1>1, Invariance, PTL

\* A transaction whose caller was told NONCE_TOO_LOW never reaches the network,
\* whatever is retried or replayed later (handlers.ts:1428-1438).
THEOREM RefusalIsFinal == Spec => []RefusedNeverSent
<1>1. IInv => RefusedNeverSent
  BY DEF IInv, ProcessInv, SafetyInv, TypeOK, RefusedFailed, WrittenAhead, RefusedNeverSent,
         OccupiesNonce
<1> QED
  BY <1>1, Invariance, PTL

\* A receipt in the journal is of a transaction that is solid on chain
\* (create-reconciler.ts reconcile, recordRetainedFailure).
THEOREM ReceiptsAreSolid == Spec => []FinalizedIsSolid
<1>1. IInv => FinalizedIsSolid
  BY DEF IInv, SafetyInv
<1> QED
  BY <1>1, Invariance, PTL

\* An adapter that serves owns every received record (handlers.ts
\* recoverStartup before server.ts listens).
THEOREM ClaimsAreOwned == Spec => []NoOrphanedClaim
<1>1. IInv => NoOrphanedClaim
  BY DEF IInv, ProcessInv, SafetyInv, ClaimsCovered, OutOfService, NoOrphanedClaim
<1> QED
  BY <1>1, Invariance, PTL

\* The count of finalized nonces never falls, for settled records are kept.
LEMMA ExpectedGrows ==
  ASSUME TypeOK, DurableMove
  PROVE  ExpectedNonce' >= ExpectedNonce
<1>1. FinalizedIn(journal) \subseteq FinalizedIn(journal')
  BY SettledKept DEF FinalizedIn
<1> DEFINE S == {Baseline} \cup {NonceOf[t] + 1 : t \in FinalizedIn(journal)}
           T == {Baseline} \cup {NonceOf[t] + 1 : t \in FinalizedIn(journal')}
<1>2. S \subseteq T
  BY <1>1
<1>3. S \subseteq Nat /\ Max(S) \in S
  BY ExpectedIsMax
<1>4. T \subseteq Nat /\ Max(T) \in T /\ \A n \in T : n <= Max(T)
  BY ExpectedIsMax
<1>5. ExpectedNonce = Max(S) /\ ExpectedNonce' = Max(T)
  BY DEF ExpectedNonce
<1> HIDE DEF S, T
<1> QED
  BY <1>2, <1>3, <1>4, <1>5

\* The transaction count never rewinds and settled records are never changed
\* (handlers.ts virtualTransactionCount, journal.ts _advance).
THEOREM Monotone == Spec => SettledForGood
<1>1. IInv /\ [Next]_vars =>
        [ /\ ExpectedNonce' >= ExpectedNonce
          /\ \A t \in Tx : journal[t].state \in {"confirmed", "failed"} => journal'[t] = journal[t]
        ]_vars
  BY DurableStep, ExpectedGrows, SettledKept DEF IInv, ProcessInv
<1> QED
  BY <1>1, Invariance, PTL DEF Spec, SettledForGood

-----------------------------------------------------------------------------
(***************************************************************************)
(* The write path implements the ledger of nonces.                         *)
(***************************************************************************)
\* A holder is the only one, so the ledger's entry for its nonce names it.
LEMMA LedgerEntry ==
  ASSUME OneHolder, NEW t \in Tx, OccupiesNonce(t)
  PROVE  LedgerOf(NonceOf[t]) =
           [holder |-> t, native |-> journal[t].native, spent |-> Spent(t)]
<1>1. Holder(NonceOf[t]) = {t}
  BY DEF OneHolder, Holder
<1>2. (CHOOSE u \in Holder(NonceOf[t]) : TRUE) = t
  BY <1>1
<1> QED
  BY <1>1, <1>2 DEF LedgerOf

\* The ledger is unchanged while the holders, their native transactions and
\* the solid ones among these are.
LEMMA LedgerKept ==
  ASSUME \A u \in Tx :
           /\ OccupiesNonce(u)' <=> OccupiesNonce(u)
           /\ OccupiesNonce(u) =>
                /\ journal'[u].native = journal[u].native
                /\ Spent(u)' <=> Spent(u)
  PROVE  LedgerNow' = LedgerNow
<1>1. \A n : Holder(n)' = Holder(n)
  BY DEF Holder
<1>2. ASSUME NEW n
      PROVE  LedgerOf(n)' = LedgerOf(n)
  <2>1. CASE Holder(n) = {}
    BY <1>1, <2>1 DEF LedgerOf
  <2>2. CASE Holder(n) # {}
    <3>1. PICK u \in Tx : u = (CHOOSE t \in Holder(n) : TRUE) /\ OccupiesNonce(u)
      BY <2>2 DEF Holder
    <3>2. (CHOOSE t \in Holder(n)' : TRUE) = u
      BY <1>1, <3>1
    <3>3. LedgerOf(n) = [holder |-> u, native |-> journal[u].native, spent |-> Spent(u)]
      BY <2>2, <3>1 DEF LedgerOf
    <3>4. LedgerOf(n)' = [holder |-> u, native |-> journal'[u].native, spent |-> Spent(u)']
      BY <1>1, <2>2, <3>2 DEF LedgerOf, Spent
    <3>5. journal'[u].native = journal[u].native
      BY <3>1
    <3>6. Spent(u)' = Spent(u)
      BY <3>1 DEF Spent, Solid
    <3> QED
      BY <3>3, <3>4, <3>5, <3>6
  <2> QED
    BY <2>1, <2>2
<1> QED
  BY <1>2 DEF LedgerNow

\* Spending a reservation changes nothing else in it.
LEMMA SpentUpdate ==
  ASSUME NEW r \in [holder : Tx, native : 1..MaxBuilds, spent : BOOLEAN], NEW b \in BOOLEAN
  PROVE  [r EXCEPT !.spent = b] = [holder |-> r.holder, native |-> r.native, spent |-> b]
  OBVIOUS

LEMMA LedgerInit == Init => Ledger!Init
<1> SUFFICES ASSUME Init
             PROVE  \A n \in 0..MaxNonce : LedgerOf(n) = None
  BY DEF Ledger!Init, LedgerNow
<1>1. \A n : Holder(n) = {}
  BY DEF Init, Holder, OccupiesNonce, NoRecord
<1> QED
  BY <1>1 DEF LedgerOf

LEMMA LedgerStep ==
  ASSUME IInv, IInv', DurableMove
  PROVE  Ledger!Next \/ LedgerNow' = LedgerNow
<1>1. /\ TypeOK /\ JournalShape /\ OneHolder /\ WrittenAhead
      /\ TypeOK' /\ JournalShape' /\ OneHolder'
  BY DEF IInv, ProcessInv, SafetyInv
<1>2. CASE UNCHANGED <<journal, network>>
  BY <1>2, LedgerKept DEF OccupiesNonce, Solid, Spent
<1>3. ASSUME NEW t \in Tx, JournalMove(t), UNCHANGED network,
             ~(journal[t].state = "received" /\ journal'[t].state = "native-built")
      PROVE  LedgerNow' = LedgerNow
  <2>1. \A u \in Tx :
          /\ OccupiesNonce(u)' <=> OccupiesNonce(u)
          /\ OccupiesNonce(u) => journal'[u].native = journal[u].native
    BY <1>1, <1>3, JournalMoveFields DEF OccupiesNonce, Prepared
  <2> QED
    BY <1>3, <2>1, LedgerKept DEF Solid, Spent
<1>4. ASSUME NEW t \in Tx, JournalMove(t), UNCHANGED network,
             journal[t].state = "received", journal'[t].state = "native-built"
      PROVE  Ledger!Next \/ LedgerNow' = LedgerNow
  <2>1. /\ \A u \in Tx : u # t => journal'[u] = journal[u]
        /\ journal'[t].native # 0 /\ ~NonceInFlight(t)
    BY <1>1, <1>4, JournalMoveFields DEF Prepared
  <2>2. ~OccupiesNonce(t) /\ OccupiesNonce(t)'
    BY <1>4 DEF OccupiesNonce
  <2>3. journal'[t].native \in BuildId
    BY <1>1, <2>1, GatewayAssumption DEF TypeOK, BuildId
  <2>4. NonceOf[t] \in 0..MaxNonce
    BY NonceAssumption
  <2>5. LedgerNow[NonceOf[t]] = None
    <3>1. Holder(NonceOf[t]) = {}
      BY <2>1, <2>2 DEF Holder, NonceInFlight
    <3> QED
      BY <2>4, <3>1 DEF LedgerNow, LedgerOf
  <2>6. LedgerOf(NonceOf[t])' = [holder |-> t, native |-> journal'[t].native, spent |-> FALSE]
    <3>1. (OneHolder /\ OccupiesNonce(t) =>
             LedgerOf(NonceOf[t]) = [holder |-> t, native |-> journal[t].native,
                                     spent |-> Spent(t)])'
      BY LedgerEntry, PTL
    <3>2. ~OnTheWire(t, journal'[t].native)
      BY <1>1, <2>2, <2>3 DEF WrittenAhead
    <3>3. Spent(t)' = FALSE
      BY <1>4, <3>2 DEF Solid, Spent, OnTheWire
    <3> QED
      BY <1>1, <2>2, <3>1, <3>3
  <2>7. ASSUME NEW n, n # NonceOf[t]
        PROVE  LedgerOf(n)' = LedgerOf(n)
    <3>1. Holder(n)' = Holder(n) /\ t \notin Holder(n)
      BY <2>1, <2>7 DEF Holder, OccupiesNonce
    <3>2. CASE Holder(n) = {}
      BY <3>1, <3>2 DEF LedgerOf
    <3>3. CASE Holder(n) # {}
      <4> DEFINE u == CHOOSE r \in Holder(n) : TRUE
      <4>1. u \in Tx /\ u # t /\ (CHOOSE r \in Holder(n)' : TRUE) = u
        BY <3>1, <3>3 DEF Holder
      <4>2. journal'[u] = journal[u] /\ network' = network
        BY <1>4, <2>1, <4>1
      <4> QED
        BY <3>1, <3>3, <4>1, <4>2 DEF LedgerOf, Solid, Spent
    <3> QED
      BY <3>2, <3>3
  <2>8. LedgerNow' = [LedgerNow EXCEPT ![NonceOf[t]] =
                        [holder |-> t, native |-> journal'[t].native, spent |-> FALSE]]
    BY <2>4, <2>6, <2>7 DEF LedgerNow
  <2>9. Ledger!Reserve(t, journal'[t].native)
    BY <2>5, <2>8 DEF Ledger!Reserve
  <2> QED
    BY <2>3, <2>9 DEF Ledger!Next, BuildId
<1>5. ASSUME NEW t \in Tx, NEW i \in BuildId, NetworkMove(t, i), UNCHANGED journal
      PROVE  Ledger!Next \/ LedgerNow' = LedgerNow
  <2>1. \A u \in Tx, j \in BuildId : u # t \/ j # i => network'[u][j] = network[u][j]
    BY <1>1, <1>5, NetworkMoveFields
  <2>2. \A u \in Tx : OccupiesNonce(u)' <=> OccupiesNonce(u)
    BY <1>5 DEF OccupiesNonce
  <2>3. \A u \in Tx : OccupiesNonce(u) => journal[u].native \in BuildId
    BY <1>1, GatewayAssumption DEF JournalShape, TypeOK, BuildId
  <2>4. CASE network'[t][i] \notin {"success", "reverted"}
    <3>1. network[t][i] \notin {"success", "reverted"}
      BY <1>1, <1>5, <2>4, NetworkMoveFields
    <3> QED
      BY <1>5, <2>1, <2>2, <2>3, <2>4, <3>1, LedgerKept DEF Solid, Spent
  <2>5. CASE network'[t][i] \in {"success", "reverted"}
    <3>1. network[t][i] = "pooled"
      BY <1>1, <1>5, <2>5, NetworkMoveFields
    <3>2. journal[t].native = i /\ OccupiesNonce(t)
      BY <1>1, <3>1 DEF WrittenAhead, OnTheWire
    <3>3. NonceOf[t] \in 0..MaxNonce
      BY NonceAssumption
    <3>4. LedgerOf(NonceOf[t]) = [holder |-> t, native |-> i, spent |-> FALSE]
      <4>1. Spent(t) = FALSE
        BY <3>1, <3>2 DEF Solid, Spent
      <4> QED
        BY <1>1, <3>2, <4>1, LedgerEntry
    <3>5. LedgerOf(NonceOf[t])' = [holder |-> t, native |-> i, spent |-> TRUE]
      <4>1. (OneHolder /\ OccupiesNonce(t) =>
               LedgerOf(NonceOf[t]) = [holder |-> t, native |-> journal[t].native,
                                       spent |-> Spent(t)])'
        BY LedgerEntry, PTL
      <4>2. Spent(t)' = TRUE
        BY <1>5, <2>5, <3>2 DEF Solid, Spent
      <4> QED
        BY <1>1, <1>5, <2>2, <3>2, <4>1, <4>2
    <3>6. ASSUME NEW n, n # NonceOf[t]
          PROVE  LedgerOf(n)' = LedgerOf(n)
      <4>1. Holder(n)' = Holder(n) /\ t \notin Holder(n)
        BY <1>5, <3>6 DEF Holder, OccupiesNonce
      <4>2. CASE Holder(n) = {}
        BY <4>1, <4>2 DEF LedgerOf
      <4>3. CASE Holder(n) # {}
        <5> DEFINE u == CHOOSE r \in Holder(n) : TRUE
        <5>1. u \in Tx /\ u # t /\ OccupiesNonce(u) /\ (CHOOSE r \in Holder(n)' : TRUE) = u
          BY <4>1, <4>3 DEF Holder
        <5>2. journal' = journal /\ network'[u][journal[u].native] = network[u][journal[u].native]
          BY <1>5, <2>1, <2>3, <5>1
        <5> QED
          BY <4>1, <4>3, <5>1, <5>2 DEF LedgerOf, Solid, Spent
      <4> QED
        BY <4>2, <4>3
    <3>7. LedgerNow[NonceOf[t]] = [holder |-> t, native |-> i, spent |-> FALSE]
      BY <3>3, <3>4 DEF LedgerNow
    <3>8. LedgerNow' = [LedgerNow EXCEPT ![NonceOf[t]] = [holder |-> t, native |-> i, spent |-> TRUE]]
      BY <3>3, <3>5, <3>6 DEF LedgerNow
    <3>9. Ledger!Spend(NonceOf[t])
      <4>1. LedgerNow[NonceOf[t]] \in [holder : Tx, native : 1..MaxBuilds, spent : BOOLEAN]
        BY <3>7 DEF BuildId
      <4>2. LedgerNow[NonceOf[t]] # None
        BY <4>1, GatewayAssumption
      <4>3. ~LedgerNow[NonceOf[t]].spent
        BY <3>7
      <4>4. LedgerNow' = [LedgerNow EXCEPT ![NonceOf[t]] = [@ EXCEPT !.spent = TRUE]]
        <5>1. [LedgerNow[NonceOf[t]] EXCEPT !.spent = TRUE] =
                [holder |-> t, native |-> i, spent |-> TRUE]
          <6>1. [LedgerNow[NonceOf[t]] EXCEPT !.spent = TRUE] =
                  [holder |-> LedgerNow[NonceOf[t]].holder,
                   native |-> LedgerNow[NonceOf[t]].native, spent |-> TRUE]
            BY <4>1, SpentUpdate
          <6> QED
            BY <3>7, <6>1
        <5> QED
          BY <3>8, <5>1
      <4> QED
        BY <4>2, <4>3, <4>4 DEF Ledger!Spend
    <3> QED
      BY <3>3, <3>9 DEF Ledger!Next
  <2> QED
    BY <2>4, <2>5
<1> QED
  BY <1>2, <1>3, <1>4, <1>5 DEF DurableMove

\* Every behaviour of the write path is one of the ledger: each nonce is
\* reserved once, kept for ever and spent at most once, whatever crashes.
THEOREM ImplementsLedger == Spec => KeepsLedger
<1>1. IInv /\ IInv' /\ [Next]_vars => [Ledger!Next]_LedgerNow
  BY DurableStep, LedgerStep DEF IInv, ProcessInv
<1> QED
  BY <1>1, LedgerInit, Invariance, PTL DEF Spec, KeepsLedger, Ledger!Spec

-----------------------------------------------------------------------------
(***************************************************************************)
(* One transaction out at a time.  The queue releases a transaction whose  *)
(* nonce is the expected one, so in a process that serves whatever is out  *)
(* has that nonce (Turns), and has it alone (OneHolder).  Recovery has no  *)
(* such test, but it replays one record after the other (OneByOne), and a  *)
(* record that waited is below the expected nonce when another is out      *)
(* (LowestFirst).                                                          *)
(***************************************************************************)
Unfinished(t) == journal[t].state \in {"received", "native-built", "broadcast"}

StillWhenDown == phase = "down" => \A t \in Tx : task[t] = "idle"

Decodes == \A t \in Tx : task[t] = "prepare" \/ Prepared(t) => t \notin Undecodable

CursorBehind == queue.cursor # None => queue.cursor <= ExpectedNonce

Turns ==
  phase = "ready" => \A t \in Tx :
    /\ Prepared(t) => NonceOf[t] = ExpectedNonce
    /\ task[t] \in {"build", "prepare"} /\ t \notin Undecodable =>
         NonceOf[t] = ExpectedNonce \/ NonceInFlight(t)

OneByOne ==
  phase = "recovering" =>
    /\ \A t \in Tx : Unfinished(t) => t \in replay
    /\ \A t \in Tx : task[t] # "idle" =>
         /\ t \in replay
         /\ \A u \in replay : RecoveryNonce(t) <= RecoveryNonce(u)
         /\ \A u \in Tx \ {t} : task[u] = "idle"

LowestFirst ==
  \A t, u \in Tx :
    /\ Prepared(u) /\ NonceOf[u] # ExpectedNonce
    /\ journal[t].state = "received" /\ t \notin Undecodable
    => NonceOf[u] <= NonceOf[t]

TurnInv ==
  /\ StillWhenDown
  /\ Decodes
  /\ CursorBehind
  /\ Turns
  /\ OneByOne
  /\ LowestFirst
  /\ OneOutAtATime

\* The ways in which a step changes the record of t, and no other.
RecordStep(t) ==
  /\ \A u \in Tx : u # t => journal'[u] = journal[u]
  /\ \/ phase = "ready" /\ journal[t].state = "absent" /\ journal'[t].state = "received"
     \/ /\ journal[t].state = "received" /\ journal'[t].state = "failed"
        /\ ~journal'[t].receipt
     \/ /\ task[t] = "prepare" /\ ~NonceInFlight(t)
        /\ journal[t].state = "received" /\ journal'[t].state = "native-built"
     \/ Prepared(t) /\ journal'[t].state = "broadcast"
     \/ task[t] = "wait" /\ Prepared(t) /\ t \in FinalizedIn(journal')

LEMMA RecordSteps ==
  ASSUME TypeOK, [Next]_vars
  PROVE  journal' = journal \/ (phase' = phase /\ \E t \in Tx : RecordStep(t))
<1> DEFINE Goal == journal' = journal \/ (phase' = phase /\ \E t \in Tx : RecordStep(t))
<1>1. journal \in [Tx -> [state : State, native : 0..MaxBuilds, receipt : BOOLEAN]]
  BY DEF TypeOK
<1>2. ASSUME NEW t \in Tx, RecordFailed(t), phase' = phase
      PROVE  Goal
  <2>1. CASE journal[t].state = "received" /\ t \in claimed
    BY <1>2, <2>1, RecordFailedFields DEF RecordStep
  <2>2. CASE ~(journal[t].state = "received" /\ t \in claimed)
    BY <1>2, <2>2 DEF RecordFailed
  <2> QED
    BY <2>1, <2>2
<1>3. ASSUME NEW t \in Tx, Receive(t)
      PROVE  Goal
  <2>1. journal'[t].state = "received" /\ \A u \in Tx : u # t => journal'[u] = journal[u]
    BY <1>1, <1>3 DEF Receive
  <2>2. phase = "ready" /\ journal[t].state = "absent" /\ phase' = phase
    BY <1>3 DEF Receive, Serving
  <2> QED
    BY <2>1, <2>2 DEF RecordStep
<1>4. ASSUME NEW t \in Tx, Answer(t) \/ BuildFails(t)
      PROVE  Goal
  BY <1>2, <1>4 DEF Answer, BuildFails
<1>5. ASSUME NEW t \in Tx, Prepare(t)
      PROVE  Goal
  <2>1. CASE journal[t].state = "received" /\ t \in claimed /\ ~NonceInFlight(t)
    <3>1. journal'[t].state = "native-built" /\ \A u \in Tx : u # t => journal'[u] = journal[u]
      BY <1>1, <1>5, <2>1 DEF Prepare
    <3> QED
      BY <1>5, <2>1, <3>1 DEF Prepare, RecordStep
  <2>2. CASE ~(journal[t].state = "received" /\ t \in claimed /\ ~NonceInFlight(t))
    BY <1>2, <1>5, <2>2 DEF Prepare
  <2> QED
    BY <2>1, <2>2
<1>6. ASSUME NEW t \in Tx, Mark(t)
      PROVE  Goal
  <2>1. journal'[t].state = "broadcast" /\ \A u \in Tx : u # t => journal'[u] = journal[u]
    BY <1>1, <1>6 DEF Mark
  <2> QED
    BY <1>6, <2>1 DEF Mark, RecordStep
<1>7. ASSUME NEW t \in Tx, Confirm(t) \/ RetainFailure(t)
      PROVE  Goal
  <2>1. /\ journal'[t].state \in {"confirmed", "failed"} /\ journal'[t].receipt
        /\ \A u \in Tx : u # t => journal'[u] = journal[u]
    <3>1. journal[t] \in [state : State, native : 0..MaxBuilds, receipt : BOOLEAN]
      BY <1>1
    <3>2. \E s \in {"confirmed", "failed"} :
            journal' = [journal EXCEPT ![t] = [state |-> s, native |-> journal[t].native,
                                               receipt |-> TRUE]]
      BY <1>7, <3>1, RecordUpdate DEF Confirm, RetainFailure
    <3> QED
      BY <1>1, <3>2
  <2>2. task[t] = "wait" /\ Prepared(t) /\ phase' = phase
    BY <1>7 DEF Confirm, RetainFailure, Prepared
  <2> QED
    BY <2>1, <2>2 DEF RecordStep, FinalizedIn
<1>8. ASSUME NEW t \in Tx,
             \/ Resubmit(t) \/ Resume(t) \/ Build(t) \/ Send(t) \/ SendUnanswered(t)
             \/ Lookup(t) \/ Throws(t) \/ Finish(t) \/ Recover(t)
      PROVE  Goal
  BY <1>8
     DEF Resubmit, Resume, Build, Send, SendUnanswered, Lookup, Throws, Finish, Recover, durable
<1>9. ASSUME \/ PumpQueue \/ GapDeadline \/ Start \/ Listen \/ Crash \/ UNCHANGED vars
             \/ \E t \in Tx, i \in BuildId : Execute(t, i) \/ Expire(t, i)
      PROVE  Goal
  BY <1>9 DEF PumpQueue, GapDeadline, Start, Listen, Crash, vars, Execute, Expire, durable
<1> HIDE DEF Goal
<1>10. Goal
  BY <1>3, <1>4, <1>5, <1>6, <1>7, <1>8, <1>9 DEF Next, Run
<1> QED
  BY <1>10 DEF Goal

\* Only a receipt moves the expected nonce, to the one above its transaction's.
LEMMA ExpectedMoves ==
  ASSUME NEW t \in Tx, RecordStep(t)
  PROVE  /\ t \notin FinalizedIn(journal') => ExpectedNonce' = ExpectedNonce
         /\ t \in FinalizedIn(journal') =>
              /\ ExpectedNonce' \in {ExpectedNonce, NonceOf[t] + 1}
              /\ NonceOf[t] < ExpectedNonce'
<1>1. \A u \in Tx : u # t => (u \in FinalizedIn(journal') <=> u \in FinalizedIn(journal))
  BY DEF RecordStep, FinalizedIn
<1>2. t \notin FinalizedIn(journal)
  BY DEF RecordStep, FinalizedIn, Prepared
<1>3. CASE t \notin FinalizedIn(journal')
  <2>1. FinalizedIn(journal') = FinalizedIn(journal)
    BY <1>1, <1>2, <1>3 DEF FinalizedIn
  <2> QED
    BY <1>3, <2>1 DEF ExpectedNonce
<1>4. CASE t \in FinalizedIn(journal')
  <2> DEFINE S == {Baseline} \cup {NonceOf[u] + 1 : u \in FinalizedIn(journal)}
             T == {Baseline} \cup {NonceOf[u] + 1 : u \in FinalizedIn(journal')}
  <2>1. FinalizedIn(journal') = FinalizedIn(journal) \cup {t}
    BY <1>1, <1>4 DEF FinalizedIn
  <2>2. T = S \cup {NonceOf[t] + 1}
    BY <2>1
  <2>3. S \subseteq Nat /\ Max(S) \in S /\ \A n \in S : n <= Max(S)
    BY ExpectedIsMax
  <2>4. T \subseteq Nat /\ Max(T) \in T /\ \A n \in T : n <= Max(T)
    BY ExpectedIsMax
  <2>5. ExpectedNonce = Max(S) /\ ExpectedNonce' = Max(T) /\ NonceOf[t] \in Nat
    BY NonceAssumption DEF ExpectedNonce
  <2> HIDE DEF S, T
  <2>6. Max(T) \in {Max(S), NonceOf[t] + 1} /\ NonceOf[t] + 1 <= Max(T)
    BY <2>2, <2>3, <2>4
  <2>7. Max(T) \in Nat
    BY <2>4
  <2> QED
    BY <1>4, <2>5, <2>6, <2>7
<1> QED
  BY <1>3, <1>4

\* A record that occupies its nonce never ceases to.
LEMMA InFlightKept ==
  ASSUME TypeOK, [Next]_vars, NEW t \in Tx, NonceInFlight(t)
  PROVE  NonceInFlight(t)'
<1>1. \A u \in Tx : OccupiesNonce(u) => OccupiesNonce(u)'
  BY RecordSteps DEF RecordStep, OccupiesNonce, FinalizedIn, Prepared
<1> QED
  BY <1>1 DEF NonceInFlight

\* Where a run that builds came from: it went on, or it was started by a
\* request for what does not decode, by recovery, or by the queue, in turn.
LEMMA BuildMoves ==
  ASSUME TypeOK, QueueRecords, CursorBehind, [Next]_vars,
         NEW t \in Tx, task'[t] \in {"build", "prepare"}
  PROVE  \/ /\ task[t] \in {"build", "prepare"}
            /\ task'[t] = "prepare" => task[t] = "prepare" \/ t \notin Undecodable
         \/ /\ task'[t] = "build"
            /\ \/ t \in Undecodable \/ phase = "recovering"
               \/ NonceOf[t] = ExpectedNonce /\ journal' = journal
<1> DEFINE Goal == \/ /\ task[t] \in {"build", "prepare"}
                      /\ task'[t] = "prepare" => task[t] = "prepare" \/ t \notin Undecodable
                   \/ /\ task'[t] = "build"
                      /\ \/ t \in Undecodable \/ phase = "recovering"
                         \/ NonceOf[t] = ExpectedNonce /\ journal' = journal
<1>1. task \in [Tx -> Pc]
  BY DEF TypeOK
<1>2. ASSUME task'[t] = task[t]
      PROVE  Goal
  BY <1>2
<1>3. ASSUME NEW from \in [Tx -> Pc], StartReleased(from), from[t] \in {task[t], "idle"},
             \/ Pump(ExpectedNonce) \/ Deadline(ExpectedNonce)
             \/ \E u \in Tx, outcome \in {"fulfilled", "rejected"} : AfterRun(u, outcome, ExpectedNonce),
             journal' = journal
      PROVE  Goal
  <2>1. CASE queue'.active \notin {None, queue.active} /\ t = queue'.active
    <3>1. NonceOf[t] = ExpectedNonce
      BY <1>3, <2>1, QueueInTurn, ExpectedNat DEF CursorBehind, TypeOK
    <3>2. task'[t] = "build"
      BY <1>3, <2>1 DEF StartReleased
    <3> QED
      BY <1>3, <3>1, <3>2
  <2>2. CASE ~(queue'.active \notin {None, queue.active} /\ t = queue'.active)
    <3>1. task'[t] = from[t]
      BY <1>3, <2>2 DEF StartReleased
    <3> QED
      BY <1>2, <1>3, <3>1
  <2> QED
    BY <2>1, <2>2
<1>4. ASSUME NEW u \in Tx, Receive(u) \/ Resubmit(u)
      PROVE  Goal
  <2>1. task' = task \/ (u \in Undecodable /\ task' = [task EXCEPT ![u] = "build"])
    BY <1>4 DEF Receive, Resubmit, EnqueueBuild
  <2> QED
    BY <1>1, <2>1
<1>5. ASSUME NEW u \in Tx, Resume(u)
      PROVE  Goal
  BY <1>1, <1>5 DEF Resume
<1>6. ASSUME PumpQueue \/ GapDeadline
      PROVE  Goal
  BY <1>1, <1>3, <1>6 DEF PumpQueue, GapDeadline, durable
<1>7. ASSUME NEW u \in Tx, Build(u)
      PROVE  Goal
  BY <1>1, <1>7 DEF Build
<1>8. ASSUME NEW u \in Tx, Finish(u)
      PROVE  Goal
  <2>1. [task EXCEPT ![u] = "idle"] \in [Tx -> Pc] /\ journal' = journal
    BY <1>1, <1>8 DEF Pc, Finish, durable
  <2>2. [task EXCEPT ![u] = "idle"][t] \in {task[t], "idle"}
    BY <1>1
  <2>3. CASE u = queue.active
    BY <1>3, <1>8, <2>1, <2>2, <2>3 DEF Finish
  <2>4. CASE u # queue.active
    <3>1. task'[t] \in {task[t], "idle"}
      BY <1>8, <2>2, <2>4 DEF Finish
    <3> QED
      BY <1>2, <3>1
  <2> QED
    BY <2>3, <2>4
<1>9. ASSUME NEW u \in Tx, Recover(u)
      PROVE  Goal
  BY <1>1, <1>9 DEF Recover
<1>10. ASSUME NEW u \in Tx,
              \/ Prepare(u) \/ BuildFails(u) \/ Send(u) \/ SendUnanswered(u) \/ Mark(u)
              \/ Confirm(u) \/ RetainFailure(u) \/ Lookup(u) \/ Throws(u)
       PROVE  Goal
  <2>1. \E pc \in {"send", "throw", "mark", "wait", "capture"} : task' = [task EXCEPT ![u] = pc]
    BY <1>10 DEF Prepare, BuildFails, Send, SendUnanswered, Mark, Confirm, RetainFailure, Lookup,
                 Throws
  <2> QED
    BY <1>1, <1>2, <2>1
<1>11. ASSUME Crash
       PROVE  Goal
  BY <1>11 DEF Crash
<1>12. ASSUME \/ Start \/ Listen \/ UNCHANGED vars \/ \E u \in Tx : Answer(u)
              \/ \E u \in Tx, i \in BuildId : Execute(u, i) \/ Expire(u, i)
       PROVE  Goal
  <2>1. task' = task
    BY <1>12 DEF Start, Listen, vars, Answer, Execute, Expire
  <2> QED
    BY <1>2, <2>1
<1> HIDE DEF Goal
<1>13. ASSUME NEW u \in Tx, Run(u)
       PROVE  Goal
  BY <1>7, <1>8, <1>10, <1>13 DEF Run
<1>14. Goal
  BY <1>4, <1>5, <1>6, <1>9, <1>11, <1>12, <1>13 DEF Next
<1> QED
  BY <1>14 DEF Goal

LEMMA DecodesStep ==
  ASSUME TypeOK, QueueRecords, CursorBehind, Decodes, [Next]_vars
  PROVE  Decodes'
<1>1. ASSUME NEW t \in Tx, task'[t] = "prepare"
      PROVE  t \notin Undecodable
  BY <1>1, BuildMoves DEF Decodes
<1>2. ASSUME NEW t \in Tx, Prepared(t)'
      PROVE  t \notin Undecodable
  BY <1>2, RecordSteps DEF Decodes, RecordStep, Prepared, FinalizedIn
<1> QED
  BY <1>1, <1>2 DEF Decodes

LEMMA CursorStep ==
  ASSUME TypeOK, OutOfService, CursorBehind, DurableMove, [Next]_vars
  PROVE  CursorBehind'
<1>1. queue \in [pending : SUBSET Tx, cursor : Nat \cup {None},
                 active : Tx \cup {None}, deadline : BOOLEAN]
  BY DEF TypeOK, QueueTypeOK
<1>2. ExpectedNonce' >= ExpectedNonce /\ ExpectedNonce \in Nat /\ ExpectedNonce' \in Nat
  <2>1. ExpectedNonce' \in Nat
    BY ExpectedIsMax DEF ExpectedNonce
  <2> QED
    BY <2>1, ExpectedGrows, ExpectedNat
<1>3. ASSUME queue'.cursor \in {queue.cursor, None}
      PROVE  CursorBehind'
  BY <1>1, <1>2, <1>3 DEF CursorBehind
<1>4. ASSUME \/ Pump(ExpectedNonce) \/ Deadline(ExpectedNonce)
             \/ \E t \in Tx, outcome \in {"fulfilled", "rejected"} : AfterRun(t, outcome, ExpectedNonce),
             TypeOK'
      PROVE  CursorBehind'
  <2>1. queue'.cursor # None => queue'.cursor <= ExpectedNonce
    BY <1>2, <1>4, QueueInTurn DEF TypeOK, CursorBehind
  <2>2. queue'.cursor \in Nat \cup {None}
    BY <1>4 DEF TypeOK, QueueTypeOK
  <2> QED
    BY <1>2, <2>1, <2>2 DEF CursorBehind
<1>5. TypeOK'
  BY TypeStep
<1>6. ASSUME NEW t \in Tx, Receive(t) \/ Resubmit(t)
      PROVE  CursorBehind'
  <2>1. queue' = queue \/ queue' = [queue EXCEPT !.pending = @ \cup {t}]
    BY <1>6 DEF Receive, Resubmit, EnqueueBuild, Enqueue, queueVars
  <2> QED
    BY <1>1, <1>3, <2>1
<1>7. CASE PumpQueue \/ GapDeadline
  BY <1>4, <1>5, <1>7 DEF PumpQueue, GapDeadline
<1>8. ASSUME NEW t \in Tx, Finish(t)
      PROVE  CursorBehind'
  <2>1. CASE t = queue.active
    BY <1>4, <1>5, <1>8, <2>1 DEF Finish
  <2>2. CASE t # queue.active
    BY <1>3, <1>8, <2>2 DEF Finish, queueVars
  <2> QED
    BY <2>1, <2>2
<1>9. ASSUME NEW t \in Tx, Run(t), ~Finish(t)
      PROVE  CursorBehind'
  BY <1>3, <1>9, RunStep
<1>10. ASSUME \/ Start \/ Listen \/ Crash \/ UNCHANGED vars
              \/ \E t \in Tx : Resume(t) \/ Answer(t) \/ Recover(t)
              \/ \E t \in Tx, i \in BuildId : Execute(t, i) \/ Expire(t, i)
       PROVE  CursorBehind'
  <2>1. queue' \in {queue, NoSigner}
    BY <1>10 DEF Start, Listen, Crash, vars, Resume, Answer, Observe, Recover, Execute, Expire,
                 queueVars
  <2> QED
    BY <1>3, <2>1 DEF NoSigner
<1> QED
  BY <1>6, <1>7, <1>8, <1>9, <1>10 DEF Next

\* While the process does not serve, the queue makes no step.
LEMMA QueueAtRest ==
  ASSUME OutOfService, phase # "ready"
  PROVE  /\ ~PumpQueue /\ ~GapDeadline
         /\ \A t \in Tx : t # queue.active /\ ~Answer(t)
         /\ \A t \in Tx : ~Receive(t) /\ ~Resubmit(t) /\ ~Resume(t)
<1>1. queue = NoSigner /\ ~pumpDue /\ \A t \in Tx : settled[t] = "none"
  BY DEF OutOfService
<1>2. ~PumpQueue /\ ~GapDeadline
  BY <1>1 DEF PumpQueue, Pump, GapDeadline, Deadline, NoSigner
<1>3. \A t \in Tx : t # queue.active /\ ~Answer(t)
  BY <1>1, NoneAssumption DEF NoSigner, Answer, Observe
<1>4. \A t \in Tx : ~Receive(t) /\ ~Resubmit(t) /\ ~Resume(t)
  BY DEF Receive, Resubmit, Resume, Serving
<1> QED
  BY <1>2, <1>3, <1>4

LEMMA StillStep ==
  ASSUME TypeOK, OutOfService, StillWhenDown, OneByOne, [Next]_vars
  PROVE  StillWhenDown'
<1>1. task \in [Tx -> Pc] /\ phase \in {"down", "recovering", "ready"}
  BY DEF TypeOK
<1> USE DEF StillWhenDown
<1>2. ASSUME NEW t \in Tx, Finish(t)
      PROVE  StillWhenDown'
  <2>1. CASE phase = "recovering"
    <3>1. task' = [task EXCEPT ![t] = "idle"]
      BY <1>2, <2>1, QueueAtRest DEF Finish
    <3>2. \A u \in Tx \ {t} : task[u] = "idle"
      BY <1>2, <2>1 DEF Finish, OneByOne
    <3> QED
      BY <1>1, <3>1, <3>2
  <2>2. CASE phase # "recovering"
    <3>1. phase' = phase
      BY <1>2, <2>2 DEF Finish
    <3>2. phase # "down"
      BY <1>2 DEF Finish
    <3> QED
      BY <3>1, <3>2
  <2> QED
    BY <2>1, <2>2
<1>3. ASSUME NEW t \in Tx, Run(t), ~Finish(t)
      PROVE  StillWhenDown'
  BY <1>3, RunStep
<1>4. ASSUME \/ PumpQueue \/ GapDeadline
             \/ \E t \in Tx : Receive(t) \/ Resubmit(t) \/ Resume(t) \/ Answer(t)
      PROVE  StillWhenDown'
  <2>1. phase = "ready"
    BY <1>4, QueueAtRest
  <2>2. phase' = phase
    BY <1>4 DEF PumpQueue, GapDeadline, Receive, Resubmit, Resume, Answer
  <2> QED
    BY <2>1, <2>2
<1>5. ASSUME Start \/ Listen \/ \E t \in Tx : Recover(t)
      PROVE  StillWhenDown'
  BY <1>5 DEF Start, Listen, Recover
<1>6. ASSUME Crash
      PROVE  StillWhenDown'
  BY <1>6 DEF Crash
<1>7. ASSUME UNCHANGED vars \/ \E t \in Tx, i \in BuildId : Execute(t, i) \/ Expire(t, i)
      PROVE  StillWhenDown'
  <2>1. UNCHANGED <<phase, task>>
    BY <1>7 DEF vars, Execute, Expire
  <2> QED
    BY <2>1
<1> QED
  BY <1>2, <1>3, <1>4, <1>5, <1>6, <1>7 DEF Next

LEMMA OneByOneStep ==
  ASSUME TypeOK, TaskRecord, OutOfService, StillWhenDown, OneByOne, [Next]_vars
  PROVE  OneByOne'
<1>1. task \in [Tx -> Pc] /\ replay \subseteq Tx
  BY DEF TypeOK
<1>2. CASE Start
  BY <1>2 DEF Start, StillWhenDown, OneByOne, Unfinished, durable
<1>3. ASSUME phase' # "recovering"
      PROVE  OneByOne'
  BY <1>3 DEF OneByOne
<1>4. ASSUME phase = "recovering"
      PROVE  \A u \in Tx : Unfinished(u)' => Unfinished(u)
  BY <1>4, RecordSteps DEF RecordStep, Unfinished, Prepared, FinalizedIn
<1>5. ASSUME NEW t \in Tx, Recover(t)
      PROVE  OneByOne'
  <2>1. /\ phase = "recovering" /\ replay' = replay /\ t \in replay
        /\ \A u \in Tx : task[u] = "idle"
        /\ \A u \in replay : RecoveryNonce(t) <= RecoveryNonce(u)
    BY <1>5 DEF Recover
  <2>2. \E pc \in Pc : task' = [task EXCEPT ![t] = pc]
    BY <1>5 DEF Recover, Pc
  <2>3. \A u \in Tx : u # t => task'[u] = "idle"
    BY <1>1, <2>1, <2>2
  <2> QED
    BY <1>4, <2>1, <2>3 DEF OneByOne
<1>6. ASSUME NEW t \in Tx, Run(t), ~Finish(t)
      PROVE  OneByOne'
  <2>1. /\ \A u \in Tx : u # t => task'[u] = task[u]
        /\ task[t] # "idle" /\ phase' = phase /\ replay' = replay
    BY <1>6, RunStep
  <2>2. CASE phase = "recovering"
    BY <1>4, <2>1, <2>2 DEF OneByOne
  <2> QED
    BY <1>3, <2>1, <2>2
<1>7. ASSUME NEW t \in Tx, Finish(t)
      PROVE  OneByOne'
  <2>1. CASE phase' = "recovering"
    <3>1. phase = "recovering" /\ task[t] = "capture" /\ replay' = replay \ {t}
      BY <1>7, <2>1 DEF Finish
    <3>2. task' = [task EXCEPT ![t] = "idle"] /\ journal' = journal
      BY <1>7, <3>1, QueueAtRest DEF Finish, durable
    <3>3. ~Unfinished(t)
      BY <3>1 DEF TaskRecord, Unfinished
    <3>4. \A u \in Tx : task'[u] = "idle"
      BY <1>1, <3>1, <3>2 DEF OneByOne
    <3> QED
      BY <3>1, <3>2, <3>3, <3>4 DEF OneByOne, Unfinished
  <2> QED
    BY <1>3, <2>1
<1>8. ASSUME \/ PumpQueue \/ GapDeadline
             \/ \E t \in Tx : Receive(t) \/ Resubmit(t) \/ Resume(t) \/ Answer(t)
      PROVE  OneByOne'
  <2>1. phase = "ready"
    BY <1>8, QueueAtRest
  <2>2. phase' = phase
    BY <1>8 DEF PumpQueue, GapDeadline, Receive, Resubmit, Resume, Answer
  <2> QED
    BY <1>3, <2>1, <2>2
<1>9. CASE Listen \/ Crash
  BY <1>3, <1>9 DEF Listen, Crash
<1>10. ASSUME UNCHANGED vars \/ \E t \in Tx, i \in BuildId : Execute(t, i) \/ Expire(t, i)
       PROVE  OneByOne'
  <2>1. UNCHANGED <<phase, task, replay, journal>>
    BY <1>10 DEF vars, durable, Execute, Expire
  <2> QED
    BY <2>1 DEF OneByOne, Unfinished
<1> QED
  BY <1>2, <1>5, <1>6, <1>7, <1>8, <1>9, <1>10 DEF Next

\* The run that is under way during a startup is of the lowest nonce that is
\* unfinished.
LEMMA RunningIsLowest ==
  ASSUME TypeOK, StillWhenDown, OneByOne, phase # "ready",
         NEW t \in Tx, task[t] # "idle", t \notin Undecodable,
         NEW u \in Tx, Unfinished(u), u \notin Undecodable
  PROVE  phase = "recovering" /\ NonceOf[t] <= NonceOf[u]
<1>1. phase = "recovering"
  BY DEF TypeOK, StillWhenDown
<1>2. u \in replay /\ RecoveryNonce(t) <= RecoveryNonce(u)
  BY <1>1 DEF OneByOne
<1> QED
  BY <1>1, <1>2 DEF RecoveryNonce

LEMMA TurnsStep ==
  ASSUME TypeOK, TaskRecord, OutOfService, QueueRecords, OneHolder, OneHolder', TurnInv, [Next]_vars
  PROVE  Turns'
<1>1. Turns /\ OneByOne /\ CursorBehind /\ Decodes
  BY DEF TurnInv
<1>2. CASE phase' # "ready"
  BY <1>2 DEF Turns
<1>3. CASE phase # "ready" /\ phase' = "ready"
  <2>1. Listen
    <3>1. \A t \in Tx : Run(t) => phase' # "ready"
      BY <1>3, RunStep DEF Finish
    <3> QED
      BY <1>3, <3>1, QueueAtRest DEF Next, Start, Crash, Recover, Execute, Expire, vars
  <2>2. \A t \in Tx : ~Unfinished(t) /\ task[t] = "idle"
    BY <1>1, <2>1 DEF Listen, OneByOne
  <2>3. UNCHANGED <<journal, task>>
    BY <2>1 DEF Listen, durable
  <2> QED
    BY <2>2, <2>3 DEF Turns, Unfinished, Prepared
<1>4. CASE phase = "ready" /\ phase' = "ready"
  <2>1. \A t \in Tx : NonceInFlight(t) => NonceInFlight(t)'
    BY InFlightKept
  <2>2. ASSUME NEW t \in Tx, task'[t] \in {"build", "prepare"}, t \notin Undecodable
        PROVE  \/ NonceOf[t] = ExpectedNonce \/ NonceInFlight(t)
               \/ NonceOf[t] = ExpectedNonce /\ journal' = journal
    BY <1>1, <1>4, <2>2, BuildMoves DEF Turns
  <2>3. CASE journal' = journal
    <3>1. ExpectedNonce' = ExpectedNonce /\ \A t \in Tx : Prepared(t)' = Prepared(t)
      BY <2>3 DEF ExpectedNonce, Prepared
    <3> QED
      BY <1>1, <1>4, <2>1, <2>2, <3>1 DEF Turns
  <2>4. ASSUME NEW r \in Tx, RecordStep(r), journal' # journal
        PROVE  Turns'
    <3>1. CASE r \notin FinalizedIn(journal')
      <4>1. ExpectedNonce' = ExpectedNonce
        BY <2>4, <3>1, ExpectedMoves
      <4>2. ASSUME NEW t \in Tx, Prepared(t)'
            PROVE  NonceOf[t] = ExpectedNonce
        <5>1. CASE Prepared(t)
          BY <1>1, <1>4, <5>1 DEF Turns
        <5>2. CASE ~Prepared(t)
          <6>1. t = r /\ task[t] = "prepare" /\ ~NonceInFlight(t)
            BY <2>4, <3>1, <4>2, <5>2 DEF RecordStep, Prepared
          <6> QED
            BY <1>1, <1>4, <6>1 DEF Turns, Decodes
        <5> QED
          BY <5>1, <5>2
      <4> QED
        BY <2>1, <2>2, <4>1, <4>2 DEF Turns
    <3>2. CASE r \in FinalizedIn(journal')
      <4>1. Prepared(r) /\ \A u \in Tx : u # r => journal'[u] = journal[u]
        BY <2>4, <3>2 DEF RecordStep, FinalizedIn
      <4>2. NonceOf[r] = ExpectedNonce
        BY <1>1, <1>4, <4>1 DEF Turns
      <4>3. ~Prepared(r)' /\ OccupiesNonce(r) /\ OccupiesNonce(r)'
        BY <3>2, <4>1 DEF FinalizedIn, Prepared, OccupiesNonce
      <4>4. \A t \in Tx : ~Prepared(t)'
        <5>1. \A t \in Tx : t # r /\ Prepared(t)' => Prepared(t)
          BY <4>1 DEF Prepared
        <5>2. \A t \in Tx : t # r => ~Prepared(t)
          BY <1>1, <1>4, <4>2, <4>3 DEF Turns, OneHolder, OccupiesNonce, Prepared
        <5> QED
          BY <4>3, <5>1, <5>2
      <4>5. task[r] = "wait"
        BY <2>4, <3>2 DEF RecordStep, FinalizedIn
      <4>6. ASSUME NEW t \in Tx, task'[t] \in {"build", "prepare"}, t \notin Undecodable
            PROVE  NonceInFlight(t)'
        <5>1. t # r
          BY <1>4, <2>4, <4>5, <4>6, <1>1, BuildMoves
        <5>2. CASE NonceOf[t] = ExpectedNonce
          BY <4>2, <4>3, <5>1, <5>2 DEF NonceInFlight
        <5> QED
          BY <2>1, <2>2, <4>6, <5>2
      <4> QED
        BY <4>4, <4>6 DEF Turns
    <3> QED
      BY <3>1, <3>2
  <2> QED
    BY <2>3, <2>4, RecordSteps
<1> QED
  BY <1>2, <1>3, <1>4

\* What is out when another is finalized in a recovery has a higher nonce.
LEMMA OthersAreHigher ==
  ASSUME TypeOK, OneHolder, TurnInv, phase # "ready",
         NEW t \in Tx, task[t] # "idle", Prepared(t) \/ ~NonceInFlight(t), t \notin Undecodable,
         NEW u \in Tx, u # t, Prepared(u)
  PROVE  NonceOf[t] < NonceOf[u]
<1>1. NonceOf[t] \in Nat /\ NonceOf[u] \in Nat
  BY NonceAssumption
<1>2. NonceOf[t] <= NonceOf[u]
  BY RunningIsLowest DEF TurnInv, Decodes, Unfinished, Prepared
<1>3. NonceOf[t] # NonceOf[u]
  BY DEF OneHolder, NonceInFlight, OccupiesNonce, Prepared
<1> QED
  BY <1>1, <1>2, <1>3

LEMMA LowestStep ==
  ASSUME TypeOK, OneHolder, TurnInv, Turns', DurableMove, [Next]_vars
  PROVE  LowestFirst'
<1> USE DEF LowestFirst
<1>1. \A t \in Tx : NonceOf[t] \in Nat
  BY NonceAssumption
<1>2. CASE phase' = "ready"
  BY <1>2 DEF Turns
<1>3. CASE journal' = journal
  <2>1. ExpectedNonce' = ExpectedNonce /\ \A t \in Tx : Prepared(t)' = Prepared(t)
    BY <1>3 DEF ExpectedNonce, Prepared
  <2> QED
    BY <1>3, <2>1 DEF TurnInv
<1>4. ASSUME NEW r \in Tx, RecordStep(r), phase # "ready"
      PROVE  LowestFirst'
  <2>1. /\ \A u \in Tx : u # r => journal'[u] = journal[u]
        /\ journal'[r].state # "received"
    BY <1>4 DEF RecordStep, FinalizedIn
  <2>2. \A u \in Tx : journal'[u].state = "received" => journal[u].state = "received"
    BY <2>1
  <2>3. CASE r \notin FinalizedIn(journal')
    <3>1. ExpectedNonce' = ExpectedNonce
      BY <1>4, <2>3, ExpectedMoves
    <3>2. ASSUME NEW t \in Tx, NEW u \in Tx, Prepared(u)', NonceOf[u] # ExpectedNonce,
                 journal'[t].state = "received", t \notin Undecodable
          PROVE  NonceOf[u] <= NonceOf[t]
      <4>1. CASE Prepared(u)
        BY <2>2, <3>2, <4>1 DEF TurnInv
      <4>2. CASE ~Prepared(u)
        <5>1. u = r /\ task[u] = "prepare"
          BY <1>4, <2>1, <2>3, <3>2, <4>2 DEF RecordStep, Prepared
        <5>2. u \notin Undecodable /\ Unfinished(t)
          BY <2>2, <3>2, <5>1 DEF TurnInv, Decodes, Unfinished
        <5> QED
          BY <1>4, <3>2, <5>1, <5>2, RunningIsLowest DEF TurnInv
      <4> QED
        BY <4>1, <4>2
    <3> QED
      BY <3>1, <3>2
  <2>4. CASE r \in FinalizedIn(journal')
    <3>1. task[r] = "wait" /\ Prepared(r) /\ ~Prepared(r)' /\ r \notin Undecodable
      BY <1>4, <2>4 DEF RecordStep, FinalizedIn, Prepared, TurnInv, Decodes
    <3>2. ASSUME NEW t \in Tx, NEW u \in Tx, Prepared(u)', NonceOf[u] # ExpectedNonce',
                 journal'[t].state = "received", t \notin Undecodable
          PROVE  NonceOf[u] <= NonceOf[t]
      <4>1. u # r /\ Prepared(u)
        BY <2>1, <3>1, <3>2 DEF Prepared
      <4>2. NonceOf[r] < NonceOf[u]
        BY <1>4, <3>1, <4>1, OthersAreHigher
      <4>3. CASE NonceOf[u] # ExpectedNonce
        BY <2>2, <3>2, <4>1, <4>3 DEF TurnInv
      <4>4. CASE NonceOf[u] = ExpectedNonce
        <5>1. ExpectedNonce' = NonceOf[r] + 1
          BY <1>4, <2>4, <3>2, <4>4, ExpectedMoves
        <5>2. ExpectedNonce' >= ExpectedNonce
          BY ExpectedGrows
        <5> QED
          BY <1>1, <3>2, <4>2, <4>4, <5>1, <5>2
      <4> QED
        BY <4>3, <4>4
    <3> QED
      BY <3>2
  <2> QED
    BY <2>3, <2>4
<1> QED
  BY <1>2, <1>3, <1>4, RecordSteps

LEMMA OneOutStep ==
  ASSUME TypeOK, OneHolder, OneHolder', TurnInv, Turns', DurableMove, [Next]_vars
  PROVE  OneOutAtATime'
<1>1. \A t \in Tx : NonceOf[t] \in Nat
  BY NonceAssumption
<1>2. OneOutAtATime /\ LowestFirst /\ Decodes
  BY DEF TurnInv
<1>3. CASE phase' = "ready"
  <2>1. \A t, u \in Tx : Prepared(t)' /\ Prepared(u)' => t = u
    BY <1>3 DEF Turns, OneHolder, OccupiesNonce, Prepared
  <2> QED
    BY <2>1 DEF OneOutAtATime
<1>4. CASE journal' = journal /\ phase' # "ready"
  <2>1. ExpectedNonce' = ExpectedNonce /\ \A t \in Tx : Prepared(t)' = Prepared(t)
    BY <1>4 DEF ExpectedNonce, Prepared
  <2> QED
    BY <1>2, <1>4, <2>1 DEF OneOutAtATime
<1>5. ASSUME NEW r \in Tx, RecordStep(r), phase # "ready", phase' = phase
      PROVE  OneOutAtATime'
  <2>1. \A u \in Tx : u # r /\ Prepared(u)' => Prepared(u)
    BY <1>5 DEF RecordStep, Prepared
  <2>2. CASE r \notin FinalizedIn(journal')
    <3>1. ExpectedNonce' = ExpectedNonce
      BY <1>5, <2>2, ExpectedMoves
    <3>2. CASE Prepared(r)' => Prepared(r)
      BY <1>2, <1>5, <2>1, <3>1, <3>2 DEF OneOutAtATime
    <3>3. CASE Prepared(r)' /\ ~Prepared(r)
      <4>1. task[r] = "prepare" /\ ~NonceInFlight(r) /\ journal[r].state = "received"
        BY <1>5, <2>2, <3>3 DEF RecordStep, Prepared
      <4>2. r \notin Undecodable
        BY <1>2, <4>1 DEF Decodes
      <4>3. \A u \in Tx : u # r /\ Prepared(u) => NonceOf[r] < NonceOf[u]
        BY <1>5, <4>1, <4>2, OthersAreHigher
      <4>4. \A u \in Tx : u # r /\ Prepared(u) => NonceOf[u] = ExpectedNonce
        BY <1>1, <1>2, <4>1, <4>2, <4>3 DEF LowestFirst
      <4>5. ExpectedNonce \in Nat
        BY ExpectedNat
      <4>6. ASSUME NEW t \in Tx, NEW u \in Tx, Prepared(t)', Prepared(u)',
                   NonceOf[t] <= NonceOf[u], t # u
            PROVE  NonceOf[t] < ExpectedNonce /\ NonceOf[u] >= ExpectedNonce
        <5>1. CASE t = r
          BY <1>1, <2>1, <4>3, <4>4, <4>5, <4>6, <5>1
        <5>2. CASE u = r
          BY <1>1, <2>1, <4>3, <4>6, <5>2
        <5>3. CASE t # r /\ u # r
          BY <1>2, <2>1, <4>6, <5>3 DEF OneOutAtATime
        <5> QED
          BY <5>1, <5>2, <5>3
      <4> QED
        BY <1>5, <3>1, <4>6 DEF OneOutAtATime
    <3> QED
      BY <3>2, <3>3
  <2>3. CASE r \in FinalizedIn(journal')
    <3>1. task[r] = "wait" /\ Prepared(r) /\ ~Prepared(r)' /\ r \notin Undecodable
      BY <1>2, <1>5, <2>3 DEF RecordStep, FinalizedIn, Prepared, Decodes
    <3>2. \A u \in Tx : u # r /\ Prepared(u) => NonceOf[r] < NonceOf[u]
      BY <1>5, <3>1, OthersAreHigher
    <3>3. \A u \in Tx : u # r /\ Prepared(u) => NonceOf[u] >= ExpectedNonce
      BY <1>1, <1>2, <3>1, <3>2 DEF OneOutAtATime
    <3>4. ExpectedNonce \in Nat
      BY ExpectedNat
    <3>5. ASSUME NEW t \in Tx, NEW u \in Tx, Prepared(t)', Prepared(u)',
                 NonceOf[t] <= NonceOf[u], t # u
          PROVE  FALSE
      <4>1. t # r /\ u # r /\ Prepared(t) /\ Prepared(u)
        BY <2>1, <3>1, <3>5
      <4>2. NonceOf[t] < ExpectedNonce /\ NonceOf[t] >= ExpectedNonce
        BY <1>2, <3>3, <3>5, <4>1 DEF OneOutAtATime
      <4> QED
        BY <1>1, <3>4, <4>2
    <3> QED
      BY <3>5 DEF OneOutAtATime
  <2> QED
    BY <2>2, <2>3
<1> QED
  BY <1>3, <1>4, <1>5, RecordSteps

LEMMA TurnInit == Init => TurnInv
<1> SUFFICES ASSUME Init
             PROVE  TurnInv
  OBVIOUS
<1>1. \A t \in Tx : ~Prepared(t) /\ task[t] = "idle"
  BY DEF Init, Prepared, NoRecord
<1>2. queue.cursor = None /\ phase = "down"
  BY DEF Init, QueueInit, NoSigner
<1> QED
  BY <1>1, <1>2
     DEF TurnInv, StillWhenDown, Decodes, CursorBehind, Turns, OneByOne, LowestFirst, OneOutAtATime

LEMMA TurnNext == IInv /\ IInv' /\ TurnInv /\ [Next]_vars => TurnInv'
<1> SUFFICES ASSUME IInv, IInv', TurnInv, [Next]_vars
             PROVE  TurnInv'
  OBVIOUS
<1>1. /\ TypeOK /\ JournalShape /\ TaskRecord /\ OutOfService /\ QueueRecords /\ OneHolder
      /\ OneHolder'
  BY DEF IInv, ProcessInv, SafetyInv
<1>2. DurableMove
  BY <1>1, DurableStep
<1>3. StillWhenDown' /\ OneByOne'
  BY <1>1, StillStep, OneByOneStep DEF TurnInv
<1>4. Decodes' /\ CursorBehind'
  BY <1>1, <1>2, DecodesStep, CursorStep DEF TurnInv
<1>5. Turns'
  BY <1>1, TurnsStep
<1>6. LowestFirst' /\ OneOutAtATime'
  BY <1>1, <1>2, <1>5, LowestStep, OneOutStep
<1> QED
  BY <1>3, <1>4, <1>5, <1>6 DEF TurnInv

\* While the adapter serves, at most one native transaction is out and not
\* settled, and after a crash at most one below the expected nonce is out beside
\* another, for any number of sources, crashes and startups that abort
\* (transaction-queue.ts _pump, handlers.ts recoverStartup).
THEOREM OneAtATime == Spec => []OneOutAtATime
<1>1. TurnInv => OneOutAtATime
  BY DEF TurnInv
<1> QED
  BY <1>1, TurnInit, TurnNext, Invariance, PTL DEF Spec
=============================================================================
