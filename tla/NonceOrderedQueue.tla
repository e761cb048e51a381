-------------------------- MODULE NonceOrderedQueue --------------------------
(***************************************************************************)
(* The per-signer, nonce-ordered admission queue of                        *)
(* rpc-src/transaction-queue.ts.  The adapter accepts one configured       *)
(* sender, and signers never share state, so the module is one signer's    *)
(* state machine.                                                          *)
(*                                                                         *)
(* A source transaction is a member of Tx; the pair of its hash and its    *)
(* nonce is fixed by its bytes, so a nonce is a function of the            *)
(* transaction.  expectedNonce is a callback of the queue's owner: every   *)
(* operation that calls it takes its result as the argument exp.           *)
(*                                                                         *)
(* Promise reactions and the deferred first pump are microtasks: they run  *)
(* before the next timer, socket or I/O completion of the same process.    *)
(* Quiet says that none is due.                                            *)
(***************************************************************************)
EXTENDS Naturals, FiniteSets

CONSTANTS
  Tx,        \* the source transactions
  NonceOf,   \* [Tx -> 0..MaxNonce], the nonce a source transaction carries
  MaxNonce,  \* a bound on the nonces of Tx
  None       \* the undefined value

ASSUME NonceAssumption ==
  /\ MaxNonce \in Nat
  /\ NonceOf \in [Tx -> 0..MaxNonce]

ASSUME NoneAssumption == None \notin Tx \cup Nat

VARIABLES
  queue,    \* the signer's SignerState, active naming the entry that runs
  pumpDue,  \* a microtask calling _pump is queued
  settled   \* settled[t]: the settlement of t's promise that is not yet observed

queueVars == <<queue, pumpDue, settled>>

Settlement == {"none", "fulfilled", "rejected", "NONCE_TOO_LOW", "NONCE_GAP_TIMEOUT"}

\* The state of a signer with no entry in the signers map.
NoSigner == [pending |-> {}, cursor |-> None, active |-> None, deadline |-> FALSE]

QueueTypeOK ==
  /\ queue \in [pending : SUBSET Tx, cursor : Nat \cup {None},
                active : Tx \cup {None}, deadline : BOOLEAN]
  /\ pumpDue \in BOOLEAN
  /\ settled \in [Tx -> Settlement]

QueueInit ==
  /\ queue = NoSigner
  /\ pumpDue = FALSE
  /\ settled = [t \in Tx |-> "none"]

\* The hashes of byHash: those waiting and the one that runs.
Queued == queue.pending \cup ({queue.active} \ {None})

Quiet == ~pumpDue /\ \A t \in Tx : settled[t] = "none"

\* Mutant of CursorAt: the cursor stays where the first pump pinned it.
CursorPinned(s, exp) == IF s.cursor = None THEN exp ELSE s.cursor

(***************************************************************************)
(* The cursor after it advanced to the durable expected nonce.             *)
(***************************************************************************)
CursorAt(s, exp) ==
  IF s.cursor = None \/ exp > s.cursor THEN exp ELSE s.cursor

Stale(s, c) == {t \in s.pending : NonceOf[t] < c}
Ready(s, c) == {t \in s.pending : NonceOf[t] = c}
Ahead(s, c) == {t \in s.pending : NonceOf[t] > c}

\* Mutant of Pumped: no gap deadline is armed.
PumpedUnarmed(s, exp) ==
  LET c == CursorAt(s, exp)
  IN  CASE s.active # None -> s
        [] s.active = None /\ Ready(s, c) # {} ->
             [pending |-> Ahead(s, c), cursor |-> c,
              active |-> CHOOSE t \in Ready(s, c) : TRUE, deadline |-> FALSE]
        [] s.active = None /\ Ready(s, c) = {} /\ Ahead(s, c) # {} ->
             [pending |-> Ahead(s, c), cursor |-> c, active |-> None, deadline |-> FALSE]
        [] OTHER -> NoSigner

(***************************************************************************)
(* What _pump leaves of the signer state s.  Either it returns at once, or *)
(* it drops the stale entries and then releases the entry at the cursor,   *)
(* forgets a signer with nothing left, or arms the gap deadline.           *)
(***************************************************************************)
Pumped(s, exp) ==
  LET c == CursorAt(s, exp)
  IN  CASE s.active # None -> s
        [] s.active = None /\ Ready(s, c) # {} ->
             [pending |-> Ahead(s, c), cursor |-> c,
              active |-> CHOOSE t \in Ready(s, c) : TRUE, deadline |-> FALSE]
        [] s.active = None /\ Ready(s, c) = {} /\ Ahead(s, c) # {} ->
             [pending |-> Ahead(s, c), cursor |-> c, active |-> None, deadline |-> TRUE]
        [] OTHER -> NoSigner

\* The entries _pump rejects with NONCE_TOO_LOW.
TooLow(s, exp) == IF s.active = None THEN Stale(s, CursorAt(s, exp)) ELSE {}

SettleAs(f, S, outcome) == [t \in Tx |-> IF t \in S THEN outcome ELSE f[t]]

-----------------------------------------------------------------------------
(***************************************************************************)
(* The operations.                                                         *)
(***************************************************************************)

\* NONCE_ALREADY_QUEUED: another transaction waits at the same nonce.
Contested(t) == \E u \in queue.pending : u # t /\ NonceOf[u] = NonceOf[t]

\* enqueue of a hash byHash does not hold; one it holds joins its promise.
Enqueue(t) ==
  /\ t \notin Queued
  /\ IF Contested(t)
       THEN UNCHANGED <<queue, pumpDue>>
       ELSE /\ queue' = [queue EXCEPT !.pending = @ \cup {t}]
            /\ pumpDue' = TRUE
  /\ UNCHANGED settled

\* The microtask of enqueue.
Pump(exp) ==
  /\ pumpDue
  /\ pumpDue' = FALSE
  /\ queue' = Pumped(queue, exp)
  /\ settled' = SettleAs(settled, TooLow(queue, exp), "NONCE_TOO_LOW")

\* _afterRun: clear active, settle the entry, pump.
AfterRun(t, outcome, exp) ==
  LET s == [queue EXCEPT !.active = None]
  IN  /\ queue.active = t
      /\ queue' = Pumped(s, exp)
      /\ settled' = [SettleAs(settled, TooLow(s, exp), "NONCE_TOO_LOW") EXCEPT ![t] = outcome]
      /\ UNCHANGED pumpDue

\* Mutant of Deadline: everyone is rejected without looking at the cursor.
DeadlineRejectsAll(exp) ==
  /\ queue.deadline
  /\ queue.active = None
  /\ Quiet
  /\ queue' = NoSigner
  /\ settled' = SettleAs(settled, queue.pending, "NONCE_GAP_TIMEOUT")
  /\ UNCHANGED pumpDue

\* The callback of the gap deadline: a releasable entry is pumped, otherwise
\* everyone waiting is rejected and the signer forgotten.  Its early return
\* while an entry runs is never taken: _pump clears the deadline when it
\* releases and returns before arming it while an entry runs.
Deadline(exp) ==
  LET s == [queue EXCEPT !.deadline = FALSE, !.cursor = CursorAt(queue, exp)]
  IN  /\ queue.deadline
      /\ queue.active = None
      /\ Quiet
      /\ IF Ready(s, s.cursor) # {}
           THEN /\ queue' = Pumped(s, exp)
                /\ settled' = SettleAs(settled, TooLow(s, exp), "NONCE_TOO_LOW")
           ELSE /\ queue' = NoSigner
                /\ settled' = SettleAs(settled, queue.pending, "NONCE_GAP_TIMEOUT")
      /\ UNCHANGED pumpDue

\* The reaction to a settled promise ran.
Observe(t) ==
  /\ settled[t] # "none"
  /\ settled' = [settled EXCEPT ![t] = "none"]
  /\ UNCHANGED <<queue, pumpDue>>

=============================================================================
