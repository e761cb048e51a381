------------------------------- MODULE Gateway -------------------------------
(***************************************************************************)
(* The adapter's write path: eth_sendRawTransaction, the transaction       *)
(* journal, the nonce-ordered queue, native broadcast and confirmation,    *)
(* crash and startup recovery (rpc-src/handlers.ts, rpc-src/journal.ts,    *)
(* rpc-src/create-reconciler.ts, rpc-src/tron-client.ts), over an external *)
(* TRON network that may lose an answer, revert a transaction or let it    *)
(* expire.  TRON has no account nonce: what keeps a nonce from being       *)
(* executed twice is this code alone.                                      *)
(*                                                                         *)
(* Every journal operation is one transaction of the durable store, so one *)
(* step.  The journal and the network survive a crash, everything else is  *)
(* process memory.  One process runs at a time (module StateLock).         *)
(***************************************************************************)
EXTENDS NonceOrderedQueue, FiniteSetsExt

CONSTANTS
  Undecodable,  \* the members of Tx whose bytes do not decode
  Baseline,     \* the nonce baseline an adoption recorded, 0 without one
  MaxBuilds,    \* bound: native transactions built per source transaction
  MaxCrashes    \* bound: crashes of the process

ASSUME GatewayAssumption ==
  /\ Undecodable \subseteq Tx
  /\ Baseline \in Nat
  /\ MaxBuilds \in Nat
  /\ MaxCrashes \in Nat
  /\ None \notin [holder : Tx, native : 1..MaxBuilds, spent : BOOLEAN]

VARIABLES
  journal,  \* journal[t]: the durable record of t
  network,  \* network[t][i]: what became of the i-th native transaction of t
  builds,   \* builds[t]: native transactions built and signed for t
  phase,    \* the process: down, recovering at startup, or ready to serve
  claimed,  \* the records whose buildClaimOwner is this process
  task,     \* task[t]: where the tracked run (inFlight) of t stands
  replay,   \* what startup recovery has yet to replay
  refused,  \* the transactions whose caller was answered NONCE_TOO_LOW
  crashes   \* crashes so far

durable == <<journal, network, builds>>
vars == <<queueVars, durable, phase, claimed, task, replay, refused, crashes>>

-----------------------------------------------------------------------------
(***************************************************************************)
(* The journal (journal.ts).  A failed record with a receipt is a failure  *)
(* retained after the native transaction was solid on chain.               *)
(***************************************************************************)
State == {"absent", "received", "native-built", "broadcast", "confirmed", "failed"}
BuildId == 1..MaxBuilds

NoRecord == [state |-> "absent", native |-> 0, receipt |-> FALSE]

\* The tests of a record take the journal, for a step may need them of the next.
FinalizedIn(j) ==
  {t \in Tx : j[t].state = "confirmed" \/ (j[t].state = "failed" /\ j[t].receipt)}
OccupiesNonce(t) ==
  \/ journal[t].state \in {"native-built", "broadcast", "confirmed"}
  \/ journal[t].state = "failed" /\ journal[t].receipt
Prepared(t) == journal[t].state \in {"native-built", "broadcast"}

\* Mutant of ExpectedNonce: the count at 'pending', which includes what is out
\* but not solid.
ExpectedNoncePending ==
  Max({Baseline} \cup {NonceOf[t] + 1 : t \in {u \in Tx : OccupiesNonce(u)}})

\* virtualTransactionCount at 'latest', the queue's expectedNonce: one above
\* the highest finalized nonce, and not below the adopted baseline.
ExpectedNonce == Max({Baseline} \cup {NonceOf[t] + 1 : t \in FinalizedIn(journal)})

\* recordFailed as its callers use it: only of a received record, and of one
\* this process claimed (it throws for another, and nothing is recorded).
RecordFailed(t) ==
  journal' = IF journal[t].state = "received" /\ t \in claimed
             THEN [journal EXCEPT ![t] = [state |-> "failed", native |-> 0, receipt |-> FALSE]]
             ELSE journal

-----------------------------------------------------------------------------
Pc == {"idle", "build", "prepare", "lookup", "send", "mark", "wait", "capture", "throw"}
NetworkStatus == {"unseen", "pooled", "success", "reverted", "expired"}

TypeOK ==
  /\ QueueTypeOK
  /\ journal \in [Tx -> [state : State, native : 0..MaxBuilds, receipt : BOOLEAN]]
  /\ network \in [Tx -> [BuildId -> NetworkStatus]]
  /\ builds \in [Tx -> 0..MaxBuilds]
  /\ phase \in {"down", "recovering", "ready"}
  /\ claimed \in SUBSET Tx
  /\ task \in [Tx -> Pc]
  /\ replay \in SUBSET Tx
  /\ refused \in SUBSET Tx
  /\ crashes \in 0..MaxCrashes

Init ==
  /\ QueueInit
  /\ journal = [t \in Tx |-> NoRecord]
  /\ network = [t \in Tx |-> [i \in BuildId |-> "unseen"]]
  /\ builds = [t \in Tx |-> 0]
  /\ phase = "down"
  /\ claimed = {}
  /\ task = [t \in Tx |-> "idle"]
  /\ replay = {}
  /\ refused = {}
  /\ crashes = 0

\* The run of the entry that the queue released in this step starts.
StartReleased(from) ==
  task' = IF queue'.active \notin {None, queue.active}
          THEN [from EXCEPT ![queue'.active] = "build"] ELSE from

\* The current native transaction of t, the one its record holds.
Native(t) == network[t][journal[t].native]

-----------------------------------------------------------------------------
(***************************************************************************)
(* eth_sendRawTransaction.  A request for a transaction that is queued or  *)
(* in flight joins its promise, one for a settled record is answered from  *)
(* it, and one for a record another process claimed is refused: none of    *)
(* these changes the state.                                                *)
(***************************************************************************)
Serving == phase = "ready" /\ \A u \in Tx : settled[u] = "none"

\* enqueueBuild: what does not decode has no nonce and bypasses the queue.
EnqueueBuild(t) ==
  IF t \in Undecodable
    THEN task' = [task EXCEPT ![t] = "build"] /\ UNCHANGED queueVars
    ELSE Enqueue(t) /\ UNCHANGED task

\* The first request for t: journal.receive, then enqueueBuild.
Receive(t) ==
  /\ Serving
  /\ journal[t].state = "absent"
  /\ journal' = [journal EXCEPT ![t] = [@ EXCEPT !.state = "received"]]
  /\ claimed' = claimed \cup {t}
  /\ EnqueueBuild(t)
  /\ UNCHANGED <<network, builds, phase, replay, refused, crashes>>

\* A retry of a received transaction that is neither queued nor in flight.
Resubmit(t) ==
  /\ Serving
  /\ journal[t].state = "received"
  /\ t \in claimed
  /\ t \notin Queued
  /\ task[t] = "idle"
  /\ EnqueueBuild(t)
  /\ UNCHANGED <<durable, phase, claimed, replay, refused, crashes>>

\* Mutant of Resume: a broadcast record is not resumed.
ResumeNativeBuilt(t) ==
  /\ Serving
  /\ journal[t].state = "native-built"
  /\ t \notin Queued
  /\ task[t] = "idle"
  /\ task' = [task EXCEPT ![t] = "lookup"]
  /\ UNCHANGED <<queueVars, durable, phase, claimed, replay, refused, crashes>>

\* A retry of a prepared transaction that is not in flight: outside the queue.
Resume(t) ==
  /\ Serving
  /\ Prepared(t)
  /\ t \notin Queued
  /\ task[t] = "idle"
  /\ task' = [task EXCEPT ![t] = "lookup"]
  /\ UNCHANGED <<queueVars, durable, phase, claimed, replay, refused, crashes>>

-----------------------------------------------------------------------------
(***************************************************************************)
(* The queue's own steps, and the reaction to its rejections.              *)
(***************************************************************************)
PumpQueue ==
  /\ Pump(ExpectedNonce)
  /\ StartReleased(task)
  /\ UNCHANGED <<durable, phase, claimed, replay, refused, crashes>>

GapDeadline ==
  /\ Deadline(ExpectedNonce)
  /\ StartReleased(task)
  /\ UNCHANGED <<durable, phase, claimed, replay, refused, crashes>>

\* Mutant of Answer: the rejection is not recorded.
AnswerUnrecorded(t) ==
  /\ Observe(t)
  /\ refused' = IF settled[t] = "NONCE_TOO_LOW" THEN refused \cup {t} ELSE refused
  /\ UNCHANGED <<journal, network, builds, phase, claimed, task, replay, crashes>>

\* The catch of enqueueBuild, then the answer to the caller.
Answer(t) ==
  /\ Observe(t)
  /\ IF settled[t] = "NONCE_TOO_LOW"
       THEN RecordFailed(t) /\ refused' = refused \cup {t}
       ELSE UNCHANGED <<journal, refused>>
  /\ UNCHANGED <<network, builds, phase, claimed, task, replay, crashes>>

-----------------------------------------------------------------------------
(***************************************************************************)
(* processClaimed.                                                         *)
(***************************************************************************)

\* Decode, rewrite against the address map, build and sign.
Build(t) ==
  /\ Quiet
  /\ task[t] = "build"
  /\ t \notin Undecodable
  /\ builds[t] < MaxBuilds
  /\ builds' = [builds EXCEPT ![t] = @ + 1]
  /\ task' = [task EXCEPT ![t] = "prepare"]
  /\ UNCHANGED <<queueVars, journal, network, phase, claimed, replay, refused, crashes>>

\* Mutant of NonceInFlight: rivals are not looked for.
NonceInFlightNever(t) == FALSE

\* Another record holds a native transaction for the same nonce.
NonceInFlight(t) == \E u \in Tx \ {t} : OccupiesNonce(u) /\ NonceOf[u] = NonceOf[t]

\* recordPreparedNative: the native transaction is journalled before its first
\* broadcast, or the preparation is refused and the record failed.
Prepare(t) ==
  /\ Quiet
  /\ task[t] = "prepare"
  /\ IF journal[t].state = "received" /\ t \in claimed /\ ~NonceInFlight(t)
       THEN /\ journal' = [journal EXCEPT ![t] = [state |-> "native-built",
                                                  native |-> builds[t], receipt |-> FALSE]]
            /\ task' = [task EXCEPT ![t] = "send"]
       ELSE /\ RecordFailed(t)
            /\ task' = [task EXCEPT ![t] = "throw"]
  /\ UNCHANGED <<queueVars, network, builds, phase, claimed, replay, refused, crashes>>

\* A deterministic failure before the preparation (it does not decode, no
\* artifact matches, the simulation reverts): the catch of processClaimed.
BuildFails(t) ==
  /\ Quiet
  /\ task[t] \in {"build", "prepare"}
  /\ RecordFailed(t)
  /\ task' = [task EXCEPT ![t] = "throw"]
  /\ UNCHANGED <<queueVars, network, builds, phase, claimed, replay, refused, crashes>>

\* broadcastSigned of the journalled bytes succeeds: the node accepts them, or
\* calls them a duplicate of what it has.
Send(t) ==
  /\ Quiet
  /\ task[t] = "send"
  /\ Native(t) # "expired"
  /\ network' = [network EXCEPT ![t][journal[t].native] = IF @ = "unseen" THEN "pooled" ELSE @]
  /\ task' = [task EXCEPT ![t] = "mark"]
  /\ UNCHANGED <<queueVars, journal, builds, phase, claimed, replay, refused, crashes>>

\* The node took the bytes and its answers were lost: broadcastSigned throws.
SendUnanswered(t) ==
  /\ Quiet
  /\ task[t] = "send"
  /\ Native(t) = "unseen"
  /\ network' = [network EXCEPT ![t][journal[t].native] = "pooled"]
  /\ task' = [task EXCEPT ![t] = "throw"]
  /\ UNCHANGED <<queueVars, journal, builds, phase, claimed, replay, refused, crashes>>

\* recordBroadcast, which keeps a record that is broadcast already.
Mark(t) ==
  /\ Quiet
  /\ task[t] = "mark"
  /\ Prepared(t)
  /\ journal' = [journal EXCEPT ![t] = [@ EXCEPT !.state = "broadcast"]]
  /\ task' = [task EXCEPT ![t] = "wait"]
  /\ UNCHANGED <<queueVars, network, builds, phase, claimed, replay, refused, crashes>>

\* Mutant of Confirm: a transaction the node merely knows is taken as solid.
ConfirmPooled(t) ==
  /\ Quiet
  /\ task[t] = "wait"
  /\ journal[t].state = "broadcast"
  /\ Native(t) \in {"pooled", "success"}
  /\ journal' = [journal EXCEPT ![t] = [@ EXCEPT !.state = "confirmed", !.receipt = TRUE]]
  /\ task' = [task EXCEPT ![t] = "capture"]
  /\ UNCHANGED <<queueVars, network, builds, phase, claimed, replay, refused, crashes>>

\* waitForReceipt and reconcile: a success that matches its plan is confirmed.
Confirm(t) ==
  /\ Quiet
  /\ task[t] = "wait"
  /\ journal[t].state = "broadcast"
  /\ Native(t) = "success"
  /\ journal' = [journal EXCEPT ![t] = [@ EXCEPT !.state = "confirmed", !.receipt = TRUE]]
  /\ task' = [task EXCEPT ![t] = "capture"]
  /\ UNCHANGED <<queueVars, network, builds, phase, claimed, replay, refused, crashes>>

\* Mutant of RetainFailure: the failure is recorded without its receipt.
RetainNothing(t) ==
  /\ Quiet
  /\ task[t] = "wait"
  /\ journal[t].state = "broadcast"
  /\ Native(t) \in {"success", "reverted"}
  /\ journal' = [journal EXCEPT ![t] = [@ EXCEPT !.state = "failed"]]
  /\ task' = [task EXCEPT ![t] = "throw"]
  /\ UNCHANGED <<queueVars, network, builds, phase, claimed, replay, refused, crashes>>

\* A revert, or a success that does not match its plan, is a retained failure.
RetainFailure(t) ==
  /\ Quiet
  /\ task[t] = "wait"
  /\ journal[t].state = "broadcast"
  /\ Native(t) \in {"success", "reverted"}
  /\ journal' = [journal EXCEPT ![t] = [@ EXCEPT !.state = "failed", !.receipt = TRUE]]
  /\ task' = [task EXCEPT ![t] = "throw"]
  /\ UNCHANGED <<queueVars, network, builds, phase, claimed, replay, refused, crashes>>

\* resumePrepared: the node is asked for the native transaction.  It may not
\* yet show one that it holds in its pool.
Lookup(t) ==
  /\ Quiet
  /\ task[t] = "lookup"
  /\ \/ Native(t) \in {"pooled", "success", "reverted"} /\ task' = [task EXCEPT ![t] = "mark"]
     \/ Native(t) \in {"unseen", "pooled", "expired"} /\ task' = [task EXCEPT ![t] = "send"]
  /\ UNCHANGED <<queueVars, durable, phase, claimed, replay, refused, crashes>>

\* Mutant of Throws: the catch records a failure whatever the record's state.
ThrowsRecorded(t) ==
  /\ Quiet
  /\ task[t] \in {"build", "prepare", "send", "mark", "wait", "lookup", "capture"}
  /\ task' = [task EXCEPT ![t] = "throw"]
  /\ journal' = [journal EXCEPT ![t] = [state |-> "failed", native |-> 0, receipt |-> FALSE]]
  /\ UNCHANGED <<queueVars, network, builds, phase, claimed, replay, refused, crashes>>

\* A step throws without a journal change: the node cannot be reached, the
\* broadcast is not accepted, the wait times out, a store write is refused,
\* or the snapshot of a confirmed deployment cannot be kept.
Throws(t) ==
  /\ Quiet
  /\ task[t] \in {"build", "prepare", "send", "mark", "wait", "lookup", "capture"}
  /\ task' = [task EXCEPT ![t] = "throw"]
  /\ UNCHANGED <<queueVars, durable, phase, claimed, replay, refused, crashes>>

\* The tracked run settles: its queue entry pumps the next one, a recovery
\* goes on to its next record or aborts the startup.
Finish(t) ==
  LET returned == task[t] = "capture"
  IN  /\ Quiet
      /\ task[t] \in {"capture", "throw"}
      /\ IF t = queue.active
           THEN /\ AfterRun(t, IF returned THEN "fulfilled" ELSE "rejected", ExpectedNonce)
                /\ StartReleased([task EXCEPT ![t] = "idle"])
           ELSE task' = [task EXCEPT ![t] = "idle"] /\ UNCHANGED queueVars
      /\ replay' = IF phase = "recovering" /\ returned THEN replay \ {t} ELSE
                   IF phase = "recovering" THEN {} ELSE replay
      /\ phase' = IF phase = "recovering" /\ ~returned THEN "down" ELSE phase
      /\ claimed' = IF phase = "recovering" /\ ~returned THEN {} ELSE claimed
      /\ UNCHANGED <<durable, refused, crashes>>

-----------------------------------------------------------------------------
(***************************************************************************)
(* Startup recovery, before the listener opens.                            *)
(***************************************************************************)
\* Mutant of Start: only prepared records are replayed.
StartPrepared ==
  /\ phase = "down"
  /\ phase' = "recovering"
  /\ replay' = {t \in Tx : Prepared(t)}
  /\ UNCHANGED <<queueVars, durable, claimed, task, refused, crashes>>

Start ==
  /\ phase = "down"
  /\ phase' = "recovering"
  /\ replay' = {t \in Tx : journal[t].state \in {"received", "native-built", "broadcast"}}
  /\ UNCHANGED <<queueVars, durable, claimed, task, refused, crashes>>

\* recoveryNonce: records that do not decode sort last.
RecoveryNonce(t) == IF t \in Undecodable THEN MaxNonce + 1 ELSE NonceOf[t]

\* recoverStartup replays one record after the other, lowest nonce first: a
\* received one is claimed and built, a prepared one resumed.
Recover(t) ==
  /\ phase = "recovering"
  /\ \A u \in Tx : task[u] = "idle"
  /\ t \in replay
  /\ \A u \in replay : RecoveryNonce(t) <= RecoveryNonce(u)
  /\ IF journal[t].state = "received"
       THEN /\ claimed' = claimed \cup {t}
            /\ task' = [task EXCEPT ![t] = "build"]
       ELSE /\ task' = [task EXCEPT ![t] = "lookup"]
            /\ UNCHANGED claimed
  /\ UNCHANGED <<queueVars, durable, phase, replay, refused, crashes>>

Listen ==
  /\ phase = "recovering"
  /\ replay = {}
  /\ phase' = "ready"
  /\ UNCHANGED <<queueVars, durable, claimed, task, replay, refused, crashes>>

\* The process dies between any two steps; its memory is gone.
Crash ==
  /\ phase # "down"
  /\ crashes < MaxCrashes
  /\ crashes' = crashes + 1
  /\ phase' = "down"
  /\ claimed' = {}
  /\ task' = [t \in Tx |-> "idle"]
  /\ replay' = {}
  /\ queue' = NoSigner
  /\ pumpDue' = FALSE
  /\ settled' = [t \in Tx |-> "none"]
  /\ UNCHANGED <<durable, refused>>

-----------------------------------------------------------------------------
(***************************************************************************)
(* The TRON network: a pooled transaction gets into a solid block, where   *)
(* it succeeds or reverts, or its expiration passes first.                 *)
(***************************************************************************)
Execute(t, i) ==
  /\ network[t][i] = "pooled"
  /\ \E outcome \in {"success", "reverted"} : network' = [network EXCEPT ![t][i] = outcome]
  /\ UNCHANGED <<queueVars, journal, builds, phase, claimed, task, replay, refused, crashes>>

Expire(t, i) ==
  /\ i <= builds[t]
  /\ network[t][i] \in {"unseen", "pooled"}
  /\ network' = [network EXCEPT ![t][i] = "expired"]
  /\ UNCHANGED <<queueVars, journal, builds, phase, claimed, task, replay, refused, crashes>>

-----------------------------------------------------------------------------
Run(t) ==
  \/ Build(t) \/ Prepare(t) \/ BuildFails(t)
  \/ Send(t) \/ SendUnanswered(t) \/ Mark(t)
  \/ Confirm(t) \/ RetainFailure(t)
  \/ Lookup(t) \/ Throws(t) \/ Finish(t)

Next ==
  \/ \E t \in Tx : Receive(t) \/ Resubmit(t) \/ Resume(t)
  \/ PumpQueue \/ GapDeadline
  \/ \E t \in Tx : Answer(t)
  \/ \E t \in Tx : Run(t)
  \/ Start \/ Listen \/ Crash
  \/ \E t \in Tx : Recover(t)
  \/ \E t \in Tx, i \in BuildId : Execute(t, i) \/ Expire(t, i)

Spec == Init /\ [][Next]_vars

(***************************************************************************)
(* What the event loop and the bounded waits of the code justify: due      *)
(* microtasks run, an armed timer fires if it stays armed, a startup goes  *)
(* on, and every tracked run takes its next step, since a request to the   *)
(* node ends in an answer or a timeout.  The last is strong fairness: the  *)
(* event loop gets to every completed request although the microtasks of   *)
(* others come first again and again.  Nothing is assumed of the callers,  *)
(* the network or the operator.                                            *)
(***************************************************************************)
Fairness ==
  /\ WF_vars(PumpQueue)
  /\ WF_vars(GapDeadline)
  /\ WF_vars(Listen)
  /\ \A t \in Tx : WF_vars(Answer(t)) /\ SF_vars(Run(t)) /\ WF_vars(Recover(t))

FairSpec == Spec /\ Fairness

\* Besides: the operator restarts a process that is down, the caller of a
\* prepared transaction asks again, and a node asked again and again answers
\* at last.
Persistence ==
  /\ WF_vars(Start)
  /\ \A t \in Tx :
       /\ SF_vars(Resume(t))
       /\ SF_vars(Lookup(t)) /\ SF_vars(Send(t)) /\ SF_vars(Mark(t))
       /\ SF_vars(Confirm(t) \/ RetainFailure(t))

PersistentSpec == FairSpec /\ Persistence

-----------------------------------------------------------------------------
(***************************************************************************)
(* Properties.                                                             *)
(***************************************************************************)
OnTheWire(t, i) == network[t][i] \in {"pooled", "success", "reverted"}
Solid(t, i) == network[t][i] \in {"success", "reverted"}

\* A nonce is used for at most one native transaction that ever reaches the
\* network, whatever crashes, retries and rival sources there are: TRON would
\* execute two (journal.ts:625-640).
OneNativePerNonce ==
  \A t, u \in Tx : \A i, j \in BuildId :
    OnTheWire(t, i) /\ OnTheWire(u, j) /\ NonceOf[t] = NonceOf[u] => t = u /\ i = j

\* What the network holds, the journal held before: the record names exactly
\* those bytes and still occupies the nonce, so no crash can make the adapter
\* build a second transaction for a source that is already out.
WrittenAhead ==
  \A t \in Tx : \A i \in BuildId :
    OnTheWire(t, i) => journal[t].native = i /\ OccupiesNonce(t)

\* A caller that was answered NONCE_TOO_LOW may reuse its intent under another
\* nonce: the refused transaction must never execute, not even after a restart
\* (handlers.ts:1428-1438).
RefusedNeverSent == \A t \in refused : \A i \in BuildId : ~OnTheWire(t, i)

\* A receipt in the journal, confirmed or retained, is of a native transaction
\* that is solid on chain, and a confirmed one succeeded.
FinalizedIsSolid ==
  \A t \in FinalizedIn(journal) :
    /\ Solid(t, journal[t].native)
    /\ journal[t].state = "confirmed" => network[t][journal[t].native] = "success"

\* While the adapter serves, at most one native transaction is out and not
\* settled: the next one is simulated and its addresses are planned on what is
\* solid, never on what is pending (handlers.ts:403-425).  A startup may find
\* one more: a record that was received below the expected nonce, and not yet
\* refused when the process ended, is built before the one that is out.
OneOutAtATime ==
  \A t, u \in Tx :
    Prepared(t) /\ Prepared(u) /\ NonceOf[t] <= NonceOf[u] /\ t # u =>
      phase # "ready" /\ NonceOf[t] < ExpectedNonce /\ NonceOf[u] >= ExpectedNonce

\* While the adapter serves, no received record belongs to a dead process: a
\* retry is never refused as in progress elsewhere with nobody building it.
NoOrphanedClaim ==
  phase = "ready" => \A t \in Tx : journal[t].state = "received" => t \in claimed

(***************************************************************************)
(* The reservations of the journal, each spent once the network executed   *)
(* its native transaction, implement NonceLedger.                          *)
(***************************************************************************)
Holder(n) == {t \in Tx : NonceOf[t] = n /\ OccupiesNonce(t)}

Spent(t) == Solid(t, journal[t].native)

LedgerOf(n) ==
  IF Holder(n) = {} THEN None
  ELSE LET t == CHOOSE t \in Holder(n) : TRUE
       IN  [holder |-> t, native |-> journal[t].native, spent |-> Spent(t)]

LedgerNow == [n \in 0..MaxNonce |-> LedgerOf(n)]

Ledger == INSTANCE NonceLedger WITH ledger <- LedgerNow

\* Every behaviour of the write path, crashes and recoveries included, is one
\* of the ledger: a nonce once reserved is never released, moved to another
\* transaction or spent twice.
KeepsLedger == Ledger!Spec

\* The transaction count served to Forge and used by the queue never rewinds,
\* and a settled record is never changed.
SettledForGood ==
  [][ /\ ExpectedNonce' >= ExpectedNonce
      /\ \A t \in Tx : journal[t].state \in {"confirmed", "failed"} => journal'[t] = journal[t]
    ]_vars

\* handlers.ts:1651-1654 and transaction-queue.ts:2-3: a source transaction is
\* only built once every lower nonce of the signer has settled on chain, so
\* the address mappings it is rewritten with are published.
BuiltInTurn ==
  [][ \A t \in Tx : builds'[t] # builds[t] =>
        \A n \in Baseline..(NonceOf[t] - 1) :
          \E u \in FinalizedIn(journal) : NonceOf[u] = n
    ]_vars

\* Every request that waits in the queue or on a tracked run is answered,
\* unless a transaction it waits behind is retried for ever: every release of
\* that one clears the gap deadline of those behind it.
EveryRequestEnds ==
  \A t \in Tx :
    \/ []<>(t \notin Queued /\ task[t] = "idle")
    \/ []<>(\E u \in Tx : NonceOf[u] < NonceOf[t] /\ task[u] # "idle")

\* What the chain executed the journal eventually learns: crashes, timeouts and
\* lost answers only delay the receipt, for no retry is ever made of anything
\* but the journalled bytes.
SolidIsLearned ==
  \A t \in Tx : (\E i \in BuildId : Solid(t, i)) ~> (t \in FinalizedIn(journal))
=============================================================================
