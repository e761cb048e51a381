----------------------------- MODULE QueueLemmas -----------------------------
(***************************************************************************)
(* Facts about the operators of NonceOrderedQueue and about maxima of      *)
(* bounded sets of naturals, cited by the proofs about the gateway.        *)
(***************************************************************************)
EXTENDS NonceOrderedQueue, FiniteSetsExt, WellFoundedInduction, TLAPS

\* A nonempty set of naturals has a least element: the order is well founded.
LEMMA LeastNatural ==
  ASSUME NEW S, S \subseteq Nat, S # {}
  PROVE  \E x \in S : \A y \in S : x <= y
<1> DEFINE R == {ss \in Nat \X Nat : ss[1] < ss[2]}
<1>1. IsWellFoundedOn(R, Nat)
  BY NatLessThanWellFounded DEF OpToRel
<1> HIDE DEF R
<1>2. PICK x \in S : \A y \in S : ~(<<y, x>> \in R)
  BY <1>1, WFMin
<1>3. \A y \in S : x <= y
  <2>1. SUFFICES ASSUME NEW y \in S, y < x
                 PROVE  FALSE
    OBVIOUS
  <2>2. x \in Nat /\ y \in Nat
    OBVIOUS
  <2>3. <<y, x>> \in R
    BY <2>1, <2>2 DEF R
  <2> QED
    BY <1>2, <2>3
<1> QED
  BY <1>3

\* A nonempty bounded set of naturals has a maximum, which Max returns
\* (handlers.ts virtualTransactionCount takes one over the journal).
LEMMA MaxOfBounded ==
  ASSUME NEW S, S \subseteq Nat, S # {}, NEW m \in Nat, \A x \in S : x <= m
  PROVE  /\ Max(S) \in S
         /\ \A x \in S : x <= Max(S)
<1> DEFINE Upper == {n \in Nat : \A x \in S : x <= n}
<1>1. PICK u \in Upper : \A n \in Upper : u <= n
  <2>1. Upper \subseteq Nat /\ m \in Upper
    OBVIOUS
  <2> QED
    BY <2>1, LeastNatural
<1>2. u \in S
  <2>1. SUFFICES ASSUME u \notin S
                 PROVE  FALSE
    OBVIOUS
  <2>2. PICK s \in S : TRUE
    OBVIOUS
  <2>3. \A x \in S : x < u
    BY <1>1, <2>1
  <2>4. u - 1 \in Upper
    BY <1>1, <2>2, <2>3
  <2> QED
    BY <1>1, <2>4
<1>3. \E x \in S : \A y \in S : x >= y
  BY <1>1, <1>2
<1> QED
  BY <1>3 DEF Max

-----------------------------------------------------------------------------
\* What _pump leaves of a well-typed signer state is well typed.
LEMMA PumpedType ==
  ASSUME NEW s \in [pending : SUBSET Tx, cursor : Nat \cup {None},
                    active : Tx \cup {None}, deadline : BOOLEAN],
         NEW exp \in Nat
  PROVE  /\ Pumped(s, exp) \in [pending : SUBSET Tx, cursor : Nat \cup {None},
                                active : Tx \cup {None}, deadline : BOOLEAN]
         /\ CursorAt(s, exp) \in Nat
<1> DEFINE c == CursorAt(s, exp)
<1>1. c \in Nat
  BY DEF CursorAt
<1>2. Ahead(s, c) \subseteq Tx /\ Ready(s, c) \subseteq Tx
  BY DEF Ahead, Ready
<1>3. CASE Ready(s, c) # {}
  <2>1. (CHOOSE t \in Ready(s, c) : TRUE) \in Tx
    BY <1>2, <1>3
  <2> QED
    BY <1>1, <1>2, <1>3, <2>1 DEF Pumped, NoSigner
<1>4. CASE Ready(s, c) = {}
  BY <1>1, <1>2, <1>4 DEF Pumped, NoSigner
<1> QED
  BY <1>1, <1>3, <1>4

\* The entries of _pump's result were entries before: what runs afterwards ran
\* or waited, what waits afterwards waited, and a stale entry is gone.
LEMMA PumpedEntries ==
  ASSUME NEW s \in [pending : SUBSET Tx, cursor : Nat \cup {None},
                    active : Tx \cup {None}, deadline : BOOLEAN],
         NEW exp \in Nat
  PROVE  /\ Pumped(s, exp).pending \subseteq s.pending
         /\ Pumped(s, exp).active \in s.pending \cup {s.active, None}
         /\ s.active # None => Pumped(s, exp) = s
         /\ TooLow(s, exp) \subseteq s.pending
         /\ Pumped(s, exp).active = None \/ Pumped(s, exp).active = s.active
              \/ Pumped(s, exp).active \notin Pumped(s, exp).pending
         /\ TooLow(s, exp) \cap Pumped(s, exp).pending = {}
         /\ Pumped(s, exp).active \in TooLow(s, exp) => Pumped(s, exp).active = s.active
<1> DEFINE c == CursorAt(s, exp)
<1>1. c \in Nat
  BY PumpedType
<1>2. CASE s.active # None
  BY <1>2 DEF Pumped, TooLow
<1>3. CASE s.active = None /\ Ready(s, c) # {}
  <2>1. PICK t : t = (CHOOSE r \in Ready(s, c) : TRUE)
    OBVIOUS
  <2>2. t \in s.pending /\ NonceOf[t] = c /\ NonceOf[t] \in Nat
    BY <1>3, <2>1, NonceAssumption DEF Ready
  <2>3. Pumped(s, exp) = [pending |-> Ahead(s, c), cursor |-> c, active |-> t, deadline |-> FALSE]
    BY <1>3, <2>1 DEF Pumped
  <2>4. TooLow(s, exp) = Stale(s, c)
    BY <1>3 DEF TooLow
  <2>5. t \notin Ahead(s, c) /\ t \notin Stale(s, c)
    BY <1>1, <2>2 DEF Ahead, Stale
  <2>6. Stale(s, c) \cap Ahead(s, c) = {}
    BY <1>1, NonceAssumption DEF Ahead, Stale
  <2> QED
    BY <1>3, <2>2, <2>3, <2>4, <2>5, <2>6 DEF Ahead, Stale
<1>4. CASE s.active = None /\ Ready(s, c) = {}
  <2>1. Stale(s, c) \cap Ahead(s, c) = {}
    BY <1>1, NonceAssumption DEF Ahead, Stale
  <2> QED
    BY <1>4, <2>1, NoneAssumption DEF Pumped, TooLow, NoSigner, Ahead, Stale
<1> QED
  BY <1>2, <1>3, <1>4

-----------------------------------------------------------------------------
\* Every operation of the queue keeps its state well typed, and the entry it
\* releases, if any, is a transaction.
LEMMA QueueTypeKept ==
  ASSUME QueueTypeOK, NEW exp \in Nat,
         \/ \E t \in Tx : Enqueue(t) \/ Observe(t)
         \/ \E t \in Tx, outcome \in Settlement : AfterRun(t, outcome, exp)
         \/ Pump(exp) \/ Deadline(exp)
  PROVE  QueueTypeOK'
<1> USE DEF QueueTypeOK, Settlement
<1>1. ASSUME NEW t \in Tx, Enqueue(t)
      PROVE  QueueTypeOK'
  <2>1. CASE Contested(t)
    BY <1>1, <2>1 DEF Enqueue
  <2>2. CASE ~Contested(t)
    BY <1>1, <2>2 DEF Enqueue
  <2> QED
    BY <2>1, <2>2
<1>2. ASSUME NEW t \in Tx, Observe(t)
      PROVE  QueueTypeOK'
  BY <1>2 DEF Observe
<1>3. ASSUME NEW t \in Tx, NEW outcome \in Settlement, AfterRun(t, outcome, exp)
      PROVE  QueueTypeOK'
  <2>1. [queue EXCEPT !.active = None] \in
          [pending : SUBSET Tx, cursor : Nat \cup {None},
           active : Tx \cup {None}, deadline : BOOLEAN]
    OBVIOUS
  <2>2. queue' \in [pending : SUBSET Tx, cursor : Nat \cup {None},
                    active : Tx \cup {None}, deadline : BOOLEAN]
    BY <1>3, <2>1, PumpedType DEF AfterRun
  <2> QED
    BY <1>3, <2>2 DEF AfterRun, SettleAs
<1>4. CASE Pump(exp)
  BY <1>4, PumpedType DEF Pump, SettleAs
<1>5. CASE Deadline(exp)
  <2> DEFINE s == [queue EXCEPT !.deadline = FALSE, !.cursor = CursorAt(queue, exp)]
  <2>1. CursorAt(queue, exp) \in Nat
    BY PumpedType
  <2>2. s \in [pending : SUBSET Tx, cursor : Nat \cup {None},
               active : Tx \cup {None}, deadline : BOOLEAN]
    BY <2>1
  <2>3. Pumped(s, exp) \in [pending : SUBSET Tx, cursor : Nat \cup {None},
                            active : Tx \cup {None}, deadline : BOOLEAN]
    BY <2>2, PumpedType
  <2>4. queue' \in {Pumped(s, exp), NoSigner}
    BY <1>5 DEF Deadline
  <2>5. settled' \in [Tx -> Settlement] /\ pumpDue' = pumpDue
    BY <1>5 DEF Deadline, SettleAs
  <2>6. NoSigner \in [pending : SUBSET Tx, cursor : Nat \cup {None},
                      active : Tx \cup {None}, deadline : BOOLEAN]
    BY DEF NoSigner
  <2> HIDE DEF s
  <2>7. queue' \in [pending : SUBSET Tx, cursor : Nat \cup {None},
                    active : Tx \cup {None}, deadline : BOOLEAN]
    BY <2>3, <2>4, <2>6
  <2> QED
    BY <2>5, <2>7
<1> QED
  BY <1>1, <1>2, <1>3, <1>4, <1>5

\* Whenever _pump or the deadline ran: nothing new waits, what runs now ran or
\* waited, and what was refused as too low waited and does neither now.
LEMMA QueueReleases ==
  ASSUME QueueTypeOK, queue.active \notin queue.pending, NEW exp \in Nat,
         \/ Pump(exp) \/ Deadline(exp)
         \/ \E t \in Tx, outcome \in {"fulfilled", "rejected"} : AfterRun(t, outcome, exp)
  PROVE  /\ queue'.pending \subseteq queue.pending
         /\ queue'.active \notin queue'.pending
         /\ queue'.active \in queue.pending \cup {queue.active, None}
         /\ \A u \in Tx : settled'[u] = "NONCE_TOO_LOW" =>
              \/ settled[u] = "NONCE_TOO_LOW"
              \/ u \in queue.pending /\ u \notin queue'.pending /\ u # queue'.active
<1> DEFINE Signer == [pending : SUBSET Tx, cursor : Nat \cup {None},
                      active : Tx \cup {None}, deadline : BOOLEAN]
<1>1. queue \in Signer /\ settled \in [Tx -> Settlement] /\ None \notin Tx
  BY NoneAssumption DEF QueueTypeOK
<1>2. \A t \in queue.pending : t \in Tx
  BY <1>1
<1>3. ASSUME NEW s \in Signer, s.pending = queue.pending, s.active \in {queue.active, None},
             queue' = Pumped(s, exp),
             \A u \in Tx : settled'[u] = "NONCE_TOO_LOW" =>
               settled[u] = "NONCE_TOO_LOW" \/ u \in TooLow(s, exp)
      PROVE  /\ queue'.pending \subseteq queue.pending
             /\ queue'.active \notin queue'.pending
             /\ queue'.active \in queue.pending \cup {queue.active, None}
             /\ \A u \in Tx : settled'[u] = "NONCE_TOO_LOW" =>
                  \/ settled[u] = "NONCE_TOO_LOW"
                  \/ u \in queue.pending /\ u \notin queue'.pending /\ u # queue'.active
  <2>1. /\ queue'.pending \subseteq s.pending
        /\ queue'.active \in s.pending \cup {s.active, None}
        /\ TooLow(s, exp) \subseteq s.pending
        /\ queue'.active = None \/ queue'.active = s.active \/ queue'.active \notin queue'.pending
        /\ TooLow(s, exp) \cap queue'.pending = {}
        /\ queue'.active \in TooLow(s, exp) => queue'.active = s.active
    BY <1>3, PumpedEntries
  <2>2. s.active \notin s.pending
    BY <1>1, <1>2, <1>3
  <2> QED
    BY <1>1, <1>2, <1>3, <2>1, <2>2
<1>4. CASE Pump(exp)
  <2>1. queue' = Pumped(queue, exp)
    BY <1>4 DEF Pump
  <2>2. \A u \in Tx : settled'[u] = "NONCE_TOO_LOW" =>
          settled[u] = "NONCE_TOO_LOW" \/ u \in TooLow(queue, exp)
    BY <1>4 DEF Pump, SettleAs
  <2> QED
    BY <1>1, <1>3, <2>1, <2>2
<1>5. ASSUME NEW t \in Tx, NEW outcome \in {"fulfilled", "rejected"}, AfterRun(t, outcome, exp)
      PROVE  \E s \in Signer :
               /\ s.pending = queue.pending /\ s.active \in {queue.active, None}
               /\ queue' = Pumped(s, exp)
               /\ \A u \in Tx : settled'[u] = "NONCE_TOO_LOW" =>
                    settled[u] = "NONCE_TOO_LOW" \/ u \in TooLow(s, exp)
  <2> DEFINE s == [queue EXCEPT !.active = None]
  <2>1. s \in Signer /\ s.pending = queue.pending /\ s.active = None
    BY <1>1
  <2>2. queue' = Pumped(s, exp)
    BY <1>5 DEF AfterRun
  <2>3. settled' = [SettleAs(settled, TooLow(s, exp), "NONCE_TOO_LOW") EXCEPT ![t] = outcome]
    BY <1>5 DEF AfterRun
  <2> HIDE DEF s
  <2>4. \A u \in Tx : settled'[u] = "NONCE_TOO_LOW" =>
          settled[u] = "NONCE_TOO_LOW" \/ u \in TooLow(s, exp)
    BY <2>3 DEF SettleAs
  <2> QED
    BY <2>1, <2>2, <2>4
<1>6. CASE Deadline(exp)
  <2> DEFINE s == [queue EXCEPT !.deadline = FALSE, !.cursor = CursorAt(queue, exp)]
  <2>1. CursorAt(queue, exp) \in Nat
    BY <1>1, PumpedType
  <2>2. s \in Signer /\ s.pending = queue.pending /\ s.active = queue.active
    BY <1>1, <2>1
  <2>3. \/ /\ queue' = Pumped(s, exp)
           /\ settled' = SettleAs(settled, TooLow(s, exp), "NONCE_TOO_LOW")
        \/ /\ queue' = NoSigner
           /\ settled' = SettleAs(settled, queue.pending, "NONCE_GAP_TIMEOUT")
    BY <1>6 DEF Deadline
  <2> HIDE DEF s
  <2>4. CASE queue' = Pumped(s, exp) /\ settled' = SettleAs(settled, TooLow(s, exp), "NONCE_TOO_LOW")
    <3>1. \A u \in Tx : settled'[u] = "NONCE_TOO_LOW" =>
            settled[u] = "NONCE_TOO_LOW" \/ u \in TooLow(s, exp)
      BY <2>4 DEF SettleAs
    <3> QED
      BY <1>3, <2>2, <2>4, <3>1
  <2>5. CASE queue' = NoSigner /\ settled' = SettleAs(settled, queue.pending, "NONCE_GAP_TIMEOUT")
    BY <1>1, <2>5 DEF NoSigner, SettleAs
  <2> QED
    BY <2>3, <2>4, <2>5
<1> HIDE DEF Signer
<1> QED
  BY <1>3, <1>4, <1>5, <1>6

-----------------------------------------------------------------------------
\* _pump with a cursor that is not above the expected nonce leaves it so, and
\* what it releases carries the expected nonce.
LEMMA PumpedInTurn ==
  ASSUME NEW s \in [pending : SUBSET Tx, cursor : Nat \cup {None},
                    active : Tx \cup {None}, deadline : BOOLEAN],
         NEW exp \in Nat,
         s.cursor # None => s.cursor <= exp
  PROVE  /\ CursorAt(s, exp) = exp
         /\ Pumped(s, exp).cursor # None => Pumped(s, exp).cursor <= exp
         /\ Pumped(s, exp).active \notin {None, s.active} => NonceOf[Pumped(s, exp).active] = exp
<1>1. CursorAt(s, exp) = exp
  BY DEF CursorAt
<1>2. CASE s.active # None
  BY <1>1, <1>2 DEF Pumped
<1>3. CASE s.active = None /\ Ready(s, exp) # {}
  <2>1. PICK t \in Ready(s, exp) : t = (CHOOSE r \in Ready(s, exp) : TRUE)
    BY <1>3
  <2>2. Pumped(s, exp) = [pending |-> Ahead(s, exp), cursor |-> exp, active |-> t, deadline |-> FALSE]
    BY <1>1, <1>3, <2>1 DEF Pumped
  <2> QED
    BY <1>1, <2>1, <2>2 DEF Ready
<1>4. CASE s.active = None /\ Ready(s, exp) = {}
  BY <1>1, <1>4 DEF Pumped, NoSigner
<1> QED
  BY <1>2, <1>3, <1>4

\* So does every operation that pumps.
LEMMA QueueInTurn ==
  ASSUME QueueTypeOK, NEW exp \in Nat, queue.cursor # None => queue.cursor <= exp,
         \/ Pump(exp) \/ Deadline(exp)
         \/ \E t \in Tx, outcome \in {"fulfilled", "rejected"} : AfterRun(t, outcome, exp)
  PROVE  /\ queue'.cursor # None => queue'.cursor <= exp
         /\ queue'.active \notin {None, queue.active} => NonceOf[queue'.active] = exp
<1> DEFINE Signer == [pending : SUBSET Tx, cursor : Nat \cup {None},
                      active : Tx \cup {None}, deadline : BOOLEAN]
<1>1. queue \in Signer
  BY DEF QueueTypeOK
<1>2. CASE Pump(exp)
  BY <1>1, <1>2, PumpedInTurn DEF Pump
<1>3. ASSUME NEW t \in Tx, NEW outcome \in {"fulfilled", "rejected"}, AfterRun(t, outcome, exp)
      PROVE  /\ queue'.cursor # None => queue'.cursor <= exp
             /\ queue'.active \notin {None, queue.active} => NonceOf[queue'.active] = exp
  <2> DEFINE s == [queue EXCEPT !.active = None]
  <2>1. s \in Signer /\ s.cursor = queue.cursor /\ s.active = None
    BY <1>1
  <2>2. queue' = Pumped(s, exp)
    BY <1>3 DEF AfterRun
  <2> HIDE DEF s
  <2> QED
    BY <2>1, <2>2, PumpedInTurn
<1>4. CASE Deadline(exp)
  <2> DEFINE s == [queue EXCEPT !.deadline = FALSE, !.cursor = CursorAt(queue, exp)]
  <2>1. CursorAt(queue, exp) = exp
    BY <1>1, PumpedInTurn
  <2>2. s \in Signer /\ s.cursor = exp /\ s.active = queue.active
    BY <1>1, <2>1
  <2>3. queue' \in {Pumped(s, exp), NoSigner}
    BY <1>4 DEF Deadline
  <2> HIDE DEF s
  <2>4. CASE queue' = Pumped(s, exp)
    BY <2>2, <2>4, PumpedInTurn
  <2>5. CASE queue' = NoSigner
    BY <2>5 DEF NoSigner
  <2> QED
    BY <2>3, <2>4, <2>5
<1> HIDE DEF Signer
<1> QED
  BY <1>2, <1>3, <1>4
=============================================================================
