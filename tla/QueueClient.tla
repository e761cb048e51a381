----------------------------- MODULE QueueClient -----------------------------
(***************************************************************************)
(* The nonce-ordered queue driven by the callers it has in the adapter:    *)
(* requests that submit or resubmit a source transaction, the run of a     *)
(* released transaction, which consumes its nonce or fails before it does, *)
(* and a prepared transaction resumed outside the queue, which may consume *)
(* the expected nonce at any time (rpc-src/handlers.ts sendRawTransaction  *)
(* and resumePrepared).                                                    *)
(***************************************************************************)
EXTENDS NonceOrderedQueue

CONSTANTS
  Baseline,    \* the expected nonce of an untouched signer
  MaxSubmits   \* bound: how often one transaction is submitted

ASSUME ClientAssumption == Baseline \in Nat /\ MaxSubmits \in Nat

VARIABLES
  expected,  \* what expectedNonce returns
  submits    \* submits[t]: submissions of t so far

vars == <<queue, pumpDue, settled, expected, submits>>

TypeOK ==
  /\ QueueTypeOK
  /\ expected \in Nat
  /\ submits \in [Tx -> 0..MaxSubmits]

Init ==
  /\ QueueInit
  /\ expected = Baseline
  /\ submits = [t \in Tx |-> 0]

\* A request, or one of a batch: the batch is submitted before any pump.
Submit(t) ==
  /\ \A u \in Tx : settled[u] = "none"
  /\ submits[t] < MaxSubmits
  /\ Enqueue(t)
  /\ submits' = [submits EXCEPT ![t] = @ + 1]
  /\ UNCHANGED expected

PumpStep == Pump(expected) /\ UNCHANGED <<expected, submits>>

\* The released run consumes its nonce (a solid receipt), if no one else has.
RunConsumes(t) ==
  /\ Quiet
  /\ queue.active = t
  /\ NonceOf[t] = expected
  /\ expected' = expected + 1
  /\ AfterRun(t, "fulfilled", expected')
  /\ UNCHANGED submits

\* The released run fails and leaves its nonce where it is.
RunFails(t) ==
  /\ Quiet
  /\ AfterRun(t, "rejected", expected)
  /\ UNCHANGED <<expected, submits>>

\* A broadcast transaction that a request resumed reaches its solid receipt.
ResumedElsewhere ==
  /\ Quiet
  /\ expected <= MaxNonce
  /\ expected' = expected + 1
  /\ UNCHANGED <<queueVars, submits>>

DeadlineStep == Deadline(expected) /\ UNCHANGED <<expected, submits>>

ObserveStep(t) == Observe(t) /\ UNCHANGED <<expected, submits>>

Next ==
  \/ \E t \in Tx : Submit(t)
  \/ PumpStep
  \/ \E t \in Tx : RunConsumes(t)
  \/ \E t \in Tx : RunFails(t)
  \/ ResumedElsewhere
  \/ DeadlineStep
  \/ \E t \in Tx : ObserveStep(t)

(***************************************************************************)
(* Microtasks run, a released run ends (every wait in it is bounded by a   *)
(* timeout), and an armed timer fires if it stays armed: weak fairness     *)
(* only, for _pump cancels the timer whenever it releases an entry.        *)
(***************************************************************************)
Fairness ==
  /\ WF_vars(PumpStep)
  /\ WF_vars(DeadlineStep)
  /\ \A t \in Tx : WF_vars(RunConsumes(t) \/ RunFails(t)) /\ WF_vars(ObserveStep(t))

Spec == Init /\ [][Next]_vars /\ Fairness

-----------------------------------------------------------------------------
\* Between microtasks nobody can be left behind: if entries wait and none
\* runs, the gap deadline is armed, so the signer is never forgotten by both
\* the run and the timer; and a signer with nothing waiting holds no timer.
NobodyStranded ==
  Quiet => /\ queue.pending # {} /\ queue.active = None => queue.deadline
           /\ queue.deadline => queue.pending # {} /\ queue.active = None

\* A transaction is released only when its nonce is the expected nonce at
\* that instant, never ahead of it and never below it, and only when the
\* previous run has ended.
ReleasedInTurn ==
  [][ \A t \in Tx : queue'.active = t /\ queue.active # t =>
        /\ NonceOf[t] = expected'
        /\ queue.active # None => settled'[queue.active] \in {"fulfilled", "rejected"}
    ]_vars

\* The two verdicts differ in what the caller may do next, so neither may be
\* given for the other's reason: NONCE_TOO_LOW only for a consumed nonce, and
\* the deadline may not fail a transaction whose turn has come.
VerdictsJustified ==
  [][ \A t \in Tx : settled[t] = "none" =>
        /\ settled'[t] = "NONCE_TOO_LOW" => NonceOf[t] < expected'
        /\ settled'[t] = "NONCE_GAP_TIMEOUT" => NonceOf[t] # expected'
    ]_vars

\* Every queued transaction is eventually settled: run, rejected as stale, or
\* timed out behind a gap.
EventuallySettled == \A t \in Tx : (t \in Queued) ~> (t \notin Queued)
=============================================================================
