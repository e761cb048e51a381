-------------------------- MODULE QueueClientProofs --------------------------
(***************************************************************************)
(* Safety of the queue under callers that do anything, for every set of    *)
(* transactions, every nonce assignment and every number of submissions.   *)
(***************************************************************************)
EXTENDS QueueClient, QueueLemmas

\* What waits has a run, a pump or a timer that gets to it.
Attended ==
  /\ queue.pending # {} /\ queue.active = None /\ ~pumpDue => queue.deadline
  /\ queue.deadline => queue.pending # {} /\ queue.active = None

\* Besides, the cursor never gets ahead of the expected nonce, and the entry
\* that runs does not wait.
QueueInv ==
  /\ TypeOK
  /\ queue.cursor # None => queue.cursor <= expected
  /\ queue.active \notin queue.pending
  /\ Attended

-----------------------------------------------------------------------------
\* What _pump leaves is attended to, whatever was before, if a timer was only
\* armed for those who wait behind nobody.
LEMMA PumpedAttended ==
  ASSUME NEW s \in [pending : SUBSET Tx, cursor : Nat \cup {None},
                    active : Tx \cup {None}, deadline : BOOLEAN],
         NEW exp \in Nat,
         s.active # None => ~s.deadline
  PROVE  LET q == Pumped(s, exp)
         IN  /\ q.pending # {} /\ q.active = None => q.deadline
             /\ q.deadline => q.pending # {} /\ q.active = None
<1> DEFINE c == CursorAt(s, exp)
<1>1. CASE s.active # None
  BY <1>1 DEF Pumped
<1>2. CASE s.active = None /\ Ready(s, c) # {}
  <2>1. PICK t \in Ready(s, c) : t = (CHOOSE r \in Ready(s, c) : TRUE)
    BY <1>2
  <2>2. t # None
    BY <2>1, NoneAssumption DEF Ready
  <2>3. Pumped(s, exp) = [pending |-> Ahead(s, c), cursor |-> c, active |-> t, deadline |-> FALSE]
    BY <1>2, <2>1 DEF Pumped
  <2> QED
    BY <2>2, <2>3
<1>3. CASE s.active = None /\ Ready(s, c) = {}
  BY <1>3 DEF Pumped, NoSigner
<1> QED
  BY <1>1, <1>2, <1>3

\* The operations that pump attend to everyone, and end a run before they
\* release another entry.
LEMMA QueueAttended ==
  ASSUME QueueTypeOK, NEW exp \in Nat, Attended,
         \/ Pump(exp) \/ Deadline(exp)
         \/ \E t \in Tx, outcome \in {"fulfilled", "rejected"} : AfterRun(t, outcome, exp)
  PROVE  /\ queue'.pending # {} /\ queue'.active = None => queue'.deadline
         /\ queue'.deadline => queue'.pending # {} /\ queue'.active = None
         /\ queue.active \notin {None, queue'.active} =>
              settled'[queue.active] \in {"fulfilled", "rejected"}
<1> DEFINE Signer == [pending : SUBSET Tx, cursor : Nat \cup {None},
                      active : Tx \cup {None}, deadline : BOOLEAN]
<1>1. queue \in Signer /\ settled \in [Tx -> Settlement]
  BY DEF QueueTypeOK
<1>2. CASE Pump(exp)
  <2>1. queue' = Pumped(queue, exp)
    BY <1>2 DEF Pump
  <2> QED
    BY <1>1, <2>1, PumpedAttended, PumpedEntries DEF Attended
<1>3. ASSUME NEW t \in Tx, NEW outcome \in {"fulfilled", "rejected"}, AfterRun(t, outcome, exp)
      PROVE  /\ queue'.pending # {} /\ queue'.active = None => queue'.deadline
             /\ queue'.deadline => queue'.pending # {} /\ queue'.active = None
             /\ queue.active = t /\ settled'[t] \in {"fulfilled", "rejected"}
  <2> DEFINE s == [queue EXCEPT !.active = None]
  <2>1. s \in Signer /\ s.active = None
    BY <1>1
  <2>2. queue' = Pumped(s, exp) /\ queue.active = t
    BY <1>3 DEF AfterRun
  <2>3. settled'[t] \in {"fulfilled", "rejected"}
    BY <1>3 DEF AfterRun, SettleAs
  <2> HIDE DEF s
  <2> QED
    BY <2>1, <2>2, <2>3, PumpedAttended
<1>4. CASE Deadline(exp)
  <2> DEFINE s == [queue EXCEPT !.deadline = FALSE, !.cursor = CursorAt(queue, exp)]
  <2>1. CursorAt(queue, exp) \in Nat /\ queue.active = None
    BY <1>1, <1>4, PumpedType DEF Deadline
  <2>2. s \in Signer /\ s.active = None
    BY <1>1, <2>1
  <2>3. queue' \in {Pumped(s, exp), NoSigner}
    BY <1>4 DEF Deadline
  <2> HIDE DEF s
  <2>4. CASE queue' = Pumped(s, exp)
    BY <2>1, <2>2, <2>4, PumpedAttended
  <2>5. CASE queue' = NoSigner
    BY <2>1, <2>5 DEF NoSigner
  <2> QED
    BY <2>3, <2>4, <2>5
<1> HIDE DEF Signer
<1> QED
  BY <1>2, <1>3, <1>4

\* A step pumps with the expected nonce that it leaves, or it leaves alone
\* what runs and who was told what.
LEMMA PumpsOrNot ==
  ASSUME TypeOK, [Next]_vars
  PROVE  \/ /\ \/ Pump(expected') \/ Deadline(expected')
               \/ \E t \in Tx, outcome \in {"fulfilled", "rejected"} : AfterRun(t, outcome, expected')
            /\ expected' \in {expected, expected + 1}
         \/ /\ expected' \in {expected, expected + 1}
            /\ \/ queue' = queue /\ pumpDue' = pumpDue
               \/ /\ pumpDue'
                  /\ \E t \in Tx \ {queue.active} :
                       queue' = [queue EXCEPT !.pending = @ \cup {t}]
            /\ \A t \in Tx : settled'[t] \in {settled[t], "none"}
<1> DEFINE Goal ==
         \/ /\ \/ Pump(expected') \/ Deadline(expected')
               \/ \E t \in Tx, outcome \in {"fulfilled", "rejected"} : AfterRun(t, outcome, expected')
            /\ expected' \in {expected, expected + 1}
         \/ /\ expected' \in {expected, expected + 1}
            /\ \/ queue' = queue /\ pumpDue' = pumpDue
               \/ /\ pumpDue'
                  /\ \E t \in Tx \ {queue.active} :
                       queue' = [queue EXCEPT !.pending = @ \cup {t}]
            /\ \A t \in Tx : settled'[t] \in {settled[t], "none"}
<1>1. settled \in [Tx -> Settlement]
  BY DEF TypeOK, QueueTypeOK
<1>2. ASSUME NEW t \in Tx, Submit(t)
      PROVE  Goal
  BY <1>2, NoneAssumption DEF Submit, Enqueue, Queued
<1>3. ASSUME PumpStep \/ DeadlineStep
      PROVE  Goal
  BY <1>3 DEF PumpStep, DeadlineStep
<1>4. ASSUME NEW t \in Tx, RunConsumes(t) \/ RunFails(t)
      PROVE  Goal
  BY <1>4 DEF RunConsumes, RunFails
<1>5. ASSUME NEW t \in Tx, ObserveStep(t)
      PROVE  Goal
  BY <1>1, <1>5 DEF ObserveStep, Observe
<1>6. ASSUME ResumedElsewhere \/ UNCHANGED vars
      PROVE  Goal
  BY <1>6 DEF ResumedElsewhere, queueVars, vars
<1> HIDE DEF Goal
<1>7. Goal
  BY <1>2, <1>3, <1>4, <1>5, <1>6 DEF Next
<1> QED
  BY <1>7 DEF Goal

LEMMA ClientTypes == TypeOK /\ [Next]_vars => TypeOK'
<1> SUFFICES ASSUME TypeOK, [Next]_vars
             PROVE  TypeOK'
  OBVIOUS
<1>1. QueueTypeOK /\ expected \in Nat /\ submits \in [Tx -> 0..MaxSubmits] /\ MaxSubmits \in Nat
  BY ClientAssumption DEF TypeOK
<1>2. expected' \in Nat
  BY <1>1, PumpsOrNot
<1>3. QueueTypeOK'
  <2>1. ASSUME NEW t \in Tx, Submit(t) \/ ObserveStep(t)
        PROVE  QueueTypeOK'
    BY <1>1, <2>1, QueueTypeKept DEF Submit, ObserveStep
  <2>2. ASSUME PumpStep \/ DeadlineStep
        PROVE  QueueTypeOK'
    BY <1>1, <2>2, QueueTypeKept DEF PumpStep, DeadlineStep
  <2>3. ASSUME NEW t \in Tx, RunConsumes(t) \/ RunFails(t)
        PROVE  QueueTypeOK'
    <3>1. {"fulfilled", "rejected"} \subseteq Settlement
      BY DEF Settlement
    <3> QED
      BY <1>1, <1>2, <2>3, <3>1, QueueTypeKept DEF RunConsumes, RunFails
  <2>4. ASSUME ResumedElsewhere \/ UNCHANGED vars
        PROVE  QueueTypeOK'
    BY <1>1, <2>4 DEF ResumedElsewhere, queueVars, vars, QueueTypeOK
  <2> QED
    BY <2>1, <2>2, <2>3, <2>4 DEF Next
<1>4. submits' \in [Tx -> 0..MaxSubmits]
  <2>1. ASSUME NEW t \in Tx, Submit(t)
        PROVE  submits' \in [Tx -> 0..MaxSubmits]
    BY <1>1, <2>1 DEF Submit
  <2>2. (\A t \in Tx : ~Submit(t)) => submits' = submits
    BY DEF Next, PumpStep, DeadlineStep, RunConsumes, RunFails, ObserveStep, ResumedElsewhere, vars
  <2> QED
    BY <1>1, <2>1, <2>2
<1> QED
  BY <1>2, <1>3, <1>4 DEF TypeOK

LEMMA QueueInvNext == QueueInv /\ [Next]_vars => QueueInv'
<1> SUFFICES ASSUME QueueInv, [Next]_vars
             PROVE  QueueInv'
  OBVIOUS
<1>1. /\ TypeOK /\ QueueTypeOK /\ expected \in Nat /\ TypeOK'
      /\ queue.cursor # None => queue.cursor <= expected
      /\ queue.active \notin queue.pending
      /\ Attended
  BY ClientTypes DEF QueueInv, TypeOK
<1>2. queue \in [pending : SUBSET Tx, cursor : Nat \cup {None},
                 active : Tx \cup {None}, deadline : BOOLEAN]
  BY <1>1 DEF QueueTypeOK
<1>3. CASE /\ \/ Pump(expected') \/ Deadline(expected')
              \/ \E t \in Tx, outcome \in {"fulfilled", "rejected"} : AfterRun(t, outcome, expected')
           /\ expected' \in {expected, expected + 1}
  <2>1. expected' \in Nat /\ (queue.cursor # None => queue.cursor <= expected')
    BY <1>1, <1>2, <1>3
  <2>2. queue'.cursor # None => queue'.cursor <= expected'
    BY <1>1, <1>3, <2>1, QueueInTurn
  <2>3. queue'.active \notin queue'.pending
    BY <1>1, <1>3, <2>1, QueueReleases
  <2>4. Attended'
    BY <1>1, <1>3, <2>1, QueueAttended DEF Attended
  <2> QED
    BY <1>1, <2>2, <2>3, <2>4 DEF QueueInv
<1>4. CASE expected' \in {expected, expected + 1} /\ queue' = queue /\ pumpDue' = pumpDue
  BY <1>1, <1>2, <1>4 DEF QueueInv, Attended
<1>5. ASSUME NEW t \in Tx \ {queue.active}, pumpDue', expected' \in {expected, expected + 1},
             queue' = [queue EXCEPT !.pending = @ \cup {t}]
      PROVE  QueueInv'
  <2>1. /\ queue'.pending = queue.pending \cup {t}
        /\ queue'.cursor = queue.cursor /\ queue'.active = queue.active
        /\ queue'.deadline = queue.deadline
    BY <1>2, <1>5
  <2> QED
    BY <1>1, <1>2, <1>5, <2>1 DEF QueueInv, Attended
<1> QED
  BY <1>1, <1>3, <1>4, <1>5, PumpsOrNot

LEMMA QueueInvariance == Spec => []QueueInv
<1>1. Init => QueueInv
  <2> SUFFICES ASSUME Init
               PROVE  QueueInv
    OBVIOUS
  <2>1. QueueTypeOK
    BY DEF Init, QueueInit, QueueTypeOK, NoSigner, Settlement
  <2>2. expected \in Nat /\ submits \in [Tx -> 0..MaxSubmits]
    BY ClientAssumption DEF Init
  <2> QED
    BY <2>1, <2>2 DEF Init, QueueInit, NoSigner, QueueInv, TypeOK, Attended
<1> QED
  BY <1>1, QueueInvNext, PTL DEF Spec

-----------------------------------------------------------------------------
\* Nobody waits without a run, a pump or a timer that gets to them, however
\* requests, runs and deadlines follow each other (transaction-queue.ts
\* _pump, _afterRun, _armDeadline).
THEOREM NobodyForgotten == Spec => []NobodyStranded
<1>1. QueueInv => NobodyStranded
  BY DEF QueueInv, Attended, NobodyStranded, Quiet
<1> QED
  BY <1>1, QueueInvariance, PTL

\* A transaction is released when its nonce is the expected one and nothing
\* runs any more, even if others consume nonces outside the queue
\* (transaction-queue.ts:140-174).
THEOREM ReleasesAreInTurn == Spec => ReleasedInTurn
<1>1. ASSUME QueueInv, [Next]_vars, NEW t \in Tx, queue'.active = t, queue.active # t
      PROVE  /\ NonceOf[t] = expected'
             /\ queue.active # None => settled'[queue.active] \in {"fulfilled", "rejected"}
  <2>1. /\ TypeOK /\ QueueTypeOK /\ expected \in Nat /\ Attended
        /\ queue.cursor # None => queue.cursor <= expected
    BY <1>1 DEF QueueInv, TypeOK
  <2>2. queue \in [pending : SUBSET Tx, cursor : Nat \cup {None},
                   active : Tx \cup {None}, deadline : BOOLEAN]
    BY <2>1 DEF QueueTypeOK
  <2>3. /\ \/ Pump(expected') \/ Deadline(expected')
           \/ \E u \in Tx, outcome \in {"fulfilled", "rejected"} : AfterRun(u, outcome, expected')
        /\ expected' \in {expected, expected + 1}
    <3>1. ASSUME NEW u, queue' = [queue EXCEPT !.pending = @ \cup {u}]
          PROVE  queue'.active = queue.active
      BY <2>2, <3>1
    <3> QED
      BY <1>1, <2>1, <3>1, PumpsOrNot
  <2>4. expected' \in Nat /\ (queue.cursor # None => queue.cursor <= expected')
    BY <2>1, <2>2, <2>3
  <2>5. t # None
    BY NoneAssumption
  <2> QED
    BY <1>1, <2>1, <2>3, <2>4, <2>5, QueueInTurn, QueueAttended
<1>2. QueueInv /\ [Next]_vars =>
        [ \A t \in Tx : queue'.active = t /\ queue.active # t =>
            /\ NonceOf[t] = expected'
            /\ queue.active # None => settled'[queue.active] \in {"fulfilled", "rejected"}
        ]_vars
  BY <1>1
<1> QED
  BY <1>2, QueueInvariance, PTL DEF Spec, ReleasedInTurn

\* A caller is told NONCE_TOO_LOW only when the nonce is consumed, and of a gap
\* only when its turn has not come (transaction-queue.ts:156-161, 203-214).
THEOREM VerdictsAreJustified == Spec => VerdictsJustified
<1>1. ASSUME QueueInv, [Next]_vars, NEW t \in Tx, settled[t] = "none"
      PROVE  /\ settled'[t] = "NONCE_TOO_LOW" => NonceOf[t] < expected'
             /\ settled'[t] = "NONCE_GAP_TIMEOUT" => NonceOf[t] # expected'
  <2> DEFINE Signer == [pending : SUBSET Tx, cursor : Nat \cup {None},
                        active : Tx \cup {None}, deadline : BOOLEAN]
  <2>1. /\ TypeOK /\ expected \in Nat /\ queue \in Signer /\ settled \in [Tx -> Settlement]
        /\ queue.cursor # None => queue.cursor <= expected
    BY <1>1 DEF QueueInv, TypeOK, QueueTypeOK
  <2>2. CASE \A u \in Tx : settled'[u] \in {settled[u], "none"}
    BY <1>1, <2>2
  <2>3. ASSUME NEW s \in Signer, expected' \in Nat, s.cursor # None => s.cursor <= expected',
               NEW u \in Tx, u \in TooLow(s, expected')
        PROVE  NonceOf[u] < expected'
    <3>1. CursorAt(s, expected') = expected'
      BY <2>3, PumpedInTurn
    <3> QED
      BY <2>3, <3>1 DEF TooLow, Stale
  <2>4. CASE expected' \in {expected, expected + 1} /\ Pump(expected')
    <3>1. settled'[t] = IF t \in TooLow(queue, expected') THEN "NONCE_TOO_LOW" ELSE "none"
      BY <1>1, <2>4 DEF Pump, SettleAs
    <3> QED
      BY <2>1, <2>3, <2>4, <3>1
  <2>5. ASSUME NEW u \in Tx, NEW outcome \in {"fulfilled", "rejected"},
               AfterRun(u, outcome, expected'), expected' \in {expected, expected + 1}
        PROVE  /\ settled'[t] = "NONCE_TOO_LOW" => NonceOf[t] < expected'
               /\ settled'[t] # "NONCE_GAP_TIMEOUT"
    <3> DEFINE s == [queue EXCEPT !.active = None]
    <3>1. s \in Signer /\ s.cursor = queue.cursor
      BY <2>1
    <3>2. settled' = [SettleAs(settled, TooLow(s, expected'), "NONCE_TOO_LOW") EXCEPT ![u] = outcome]
      BY <2>5 DEF AfterRun
    <3> HIDE DEF s
    <3>3. settled'[t] \in {outcome, "none"} \/ (settled'[t] = "NONCE_TOO_LOW" /\ t \in TooLow(s, expected'))
      BY <1>1, <3>2 DEF SettleAs
    <3> QED
      BY <2>1, <2>3, <2>5, <3>1, <3>3
  <2>6. CASE expected' \in {expected, expected + 1} /\ Deadline(expected')
    <3> DEFINE s == [queue EXCEPT !.deadline = FALSE, !.cursor = CursorAt(queue, expected')]
    <3>1. CursorAt(queue, expected') = expected'
      BY <2>1, <2>6, PumpedInTurn
    <3>2. s \in Signer /\ s.cursor = expected' /\ s.pending = queue.pending /\ expected' \in Nat
      <4>1. expected' \in Nat
        BY <2>1, <2>6
      <4> QED
        BY <2>1, <3>1, <4>1
    <3>3. \/ settled' = SettleAs(settled, TooLow(s, expected'), "NONCE_TOO_LOW")
          \/ /\ Ready(s, s.cursor) = {}
             /\ settled' = SettleAs(settled, queue.pending, "NONCE_GAP_TIMEOUT")
      BY <2>6 DEF Deadline
    <3> HIDE DEF s
    <3>4. CASE settled' = SettleAs(settled, TooLow(s, expected'), "NONCE_TOO_LOW")
      BY <1>1, <2>3, <3>2, <3>4 DEF SettleAs
    <3>5. CASE /\ Ready(s, s.cursor) = {}
               /\ settled' = SettleAs(settled, queue.pending, "NONCE_GAP_TIMEOUT")
      BY <1>1, <3>2, <3>5 DEF SettleAs, Ready
    <3> QED
      BY <3>3, <3>4, <3>5
  <2> HIDE DEF Signer
  <2> QED
    BY <1>1, <2>1, <2>2, <2>4, <2>5, <2>6, PumpsOrNot
<1>2. QueueInv /\ [Next]_vars =>
        [ \A t \in Tx : settled[t] = "none" =>
            /\ settled'[t] = "NONCE_TOO_LOW" => NonceOf[t] < expected'
            /\ settled'[t] = "NONCE_GAP_TIMEOUT" => NonceOf[t] # expected'
        ]_vars
  BY <1>1
<1> QED
  BY <1>2, QueueInvariance, PTL DEF Spec, VerdictsJustified
=============================================================================
