--------------------------- MODULE StateLockProofs ---------------------------
(***************************************************************************)
(* Proofs about StateLock, for any number of candidate ports, of scans and *)
(* of faults: two processes that use one state file exclude each other, if *)
(* no stranger takes the last candidate port.  The run lock_chased shows   *)
(* that three do not, and a stranger on the last port is one process more  *)
(* that never answers.                                                     *)
(***************************************************************************)
EXTENDS StateLock, TLAPS

\* At most two processes; strangers leave the last candidate port alone.
OneOther == \A p, q, r \in Procs : p = q \/ q = r \/ p = r
LastPortOurs == Ports \notin StrangerPorts

\* Where a scan is, and what it has reserved on its way.
Shape ==
  /\ \A i \in 1..Ports : port[i] = Stranger => i \in StrangerPorts
  /\ \A p \in Procs :
       /\ \A i \in reserved[p] : i < at[p]
       /\ phase[p] = "off" => at[p] = 1 /\ reserved[p] = {}
       /\ phase[p] \in {"probe", "told"} => at[p] <= Ports
       /\ phase[p] = "held" => at[p] > Ports

\* q will not hold the lock in this life of it, or it is too slow to answer.
Doomed(q) ==
  \/ phase[q] \in {"off", "lost", "refused"} \/ q \in slow
  \/ ~Intact(q) \/ (at[q] > Ports /\ reserved[q] = {})

\* The scan of q has yet to come to a port on which p answers.
Stops(p, q) == Scanning(q) /\ \E i \in reserved[p] : at[q] <= i

\* p has the lock, or will have it, unless the last probe is answered.
Firm(p) ==
  /\ Intact(p) /\ reserved[p] # {} /\ p \notin slow
  /\ \/ phase[p] \in {"bind", "held"} /\ at[p] > Ports
     \/ phase[p] = "probe" /\ at[p] = Ports

Guarded(p, q) ==
  Firm(p) => Doomed(q) \/ Stops(p, q) \/ (phase[p] = "probe" /\ port[Ports] = q)

IInv ==
  /\ TypeOK /\ Shape
  /\ \A p, q \in Procs : p # q => Guarded(p, q)

-----------------------------------------------------------------------------
LEMMA Initially == Init => IInv
<1> SUFFICES ASSUME Init PROVE IInv
  OBVIOUS
<1> USE LockAssumption DEF Init
<1>1. TypeOK
  BY DEF TypeOK, Listening, Released
<1>2. Shape
  BY DEF Shape
<1>3. \A p \in Procs : ~Firm(p)
  BY DEF Firm
<1> QED
  BY <1>1, <1>2, <1>3 DEF IInv, Guarded

\* Who listens on a port has reserved it.
LEMMA Reserved ==
  ASSUME TypeOK, NEW q \in Procs, NEW i \in 1..Ports, port[i] = q
  PROVE  i \in reserved[q]
  BY DEF TypeOK, Listening

\* The types and the shape hold by themselves, however many processes.
LEMMA ShapeKept ==
  ASSUME TypeOK, Shape, Next
  PROVE  TypeOK' /\ Shape'
<1> USE LockAssumption DEF TypeOK, Shape, Candidate, Listening, Fault
<1>1. ASSUME NEW p \in Procs, Acquire(p) PROVE TypeOK' /\ Shape'
  BY <1>1 DEF Acquire
<1>2. ASSUME NEW p \in Procs, Bind(p) PROVE TypeOK' /\ Shape'
  <2>1. /\ phase[p] = "bind" /\ at[p] \in 1..Ports /\ at[p] + 1 \in 1..(Ports + 1)
        /\ slow' = slow /\ starts' = starts /\ faults' = faults /\ p \notin slow
    BY <1>2 DEF Bind
  <2>2. CASE port[at[p]] = Free
    <3>1. /\ port' = [port EXCEPT ![at[p]] = p]
          /\ reserved' = [reserved EXCEPT ![p] = reserved[p] \cup {at[p]}]
          /\ at' = [at EXCEPT ![p] = at[p] + 1] /\ phase' = phase
      BY <1>2, <2>2 DEF Bind
    <3>2. /\ reserved'[p] = reserved[p] \cup {at[p]} /\ at'[p] = at[p] + 1
          /\ \A q \in Procs \ {p} : reserved'[q] = reserved[q] /\ at'[q] = at[q]
          /\ \A i \in 1..Ports : port'[i] = IF i = at[p] THEN p ELSE port[i]
      <4> HIDE DEF Shape
      <4> QED
        BY <2>1, <3>1
    <3>3. \A q \in Procs : \A i \in 1..Ports : port'[i] = q => i \in reserved'[q]
      BY <3>2
    <3>4. TypeOK'
      <4>1. /\ port' \in [1..Ports -> Procs \cup {Free, Stranger}]
            /\ at' \in [Procs -> 1..(Ports + 1)]
            /\ reserved' \in [Procs -> SUBSET (1..Ports)]
        BY <2>1, <3>1
      <4>2. \A q \in Procs : phase[q] \in {"off", "lost", "refused"} =>
                              \A i \in 1..Ports : port'[i] # q
        <5>1. ASSUME NEW q \in Procs, phase[q] \in {"off", "lost", "refused"}
              PROVE  q # p /\ \A i \in 1..Ports : port[i] # q
          BY <2>1, <5>1
        <5> QED
          BY <3>2, <5>1
      <4>3. \A q \in Procs : phase[q] = "held" => reserved'[q] # {}
        BY <3>2
      <4>4. /\ phase' \in [Procs -> {"off", "bind", "probe", "told", "held", "lost", "refused"}]
            /\ slow' \subseteq {q \in Procs : phase'[q] \in {"held", "lost"}}
            /\ starts' \in 0..MaxStarts /\ faults' \in 0..MaxFaults
        BY <2>1, <3>1
      <4> HIDE DEF Shape
      <4> QED
        BY <3>1, <3>3, <4>1, <4>2, <4>3, <4>4
    <3>5. Shape'
      BY <2>1, <3>1, <3>2
    <3> QED
      BY <3>4, <3>5
  <2>3. CASE port[at[p]] # Free
    <3>1. phase' = [phase EXCEPT ![p] = "probe"] /\ UNCHANGED <<port, at, reserved>>
      BY <1>2, <2>3 DEF Bind
    <3> QED
      BY <2>1, <3>1
  <2> QED
    BY <2>2, <2>3
<1>3. ASSUME NEW p \in Procs, Probe(p) PROVE TypeOK' /\ Shape'
  <2>1. /\ phase[p] = "probe" /\ at[p] \in 1..Ports /\ at[p] + 1 \in 1..(Ports + 1)
        /\ UNCHANGED <<port, reserved, slow, starts, faults>> /\ p \notin slow
    BY <1>3 DEF Probe
  <2>2. CASE phase' = [phase EXCEPT ![p] = "told"] /\ at' = at
    BY <2>1, <2>2
  <2>3. CASE phase' = [phase EXCEPT ![p] = "bind"] /\ at' = [at EXCEPT ![p] = at[p] + 1]
    <3>1. at'[p] = at[p] + 1 /\ \A q \in Procs \ {p} : at'[q] = at[q]
      BY <2>3
    <3> QED
      BY <2>1, <2>3, <3>1
  <2> QED
    BY <1>3, <2>2, <2>3 DEF Probe
<1>4. ASSUME NEW p \in Procs, Refuse(p) PROVE TypeOK' /\ Shape'
  BY <1>4 DEF Refuse, Released
<1>5. ASSUME NEW p \in Procs, Conclude(p) PROVE TypeOK' /\ Shape'
  BY <1>5 DEF Conclude, Outcome, Released
<1>6. ASSUME NEW p \in Procs, Exit(p) PROVE TypeOK' /\ Shape'
  BY <1>6 DEF Exit, Released
<1>7. ASSUME NEW p \in Procs, LoseListener(p) PROVE TypeOK' /\ Shape'
  BY <1>7 DEF LoseListener
<1>8. ASSUME NEW p \in Procs, Invalidate(p) PROVE TypeOK' /\ Shape'
  BY <1>8 DEF Invalidate, Released
<1>9. ASSUME NEW p \in Procs, Stall(p) PROVE TypeOK' /\ Shape'
  BY <1>9 DEF Stall
<1>10. ASSUME NEW i \in 1..Ports, StrangerComes(i) \/ StrangerGoes(i) PROVE TypeOK' /\ Shape'
  BY <1>10 DEF StrangerComes, StrangerGoes
<1> QED
  BY <1>1, <1>2, <1>3, <1>4, <1>5, <1>6, <1>7, <1>8, <1>9, <1>10 DEF Next

\* A step of p: the one that brings it to hold the lock finds q stopped.
LEMMA OwnStep ==
  ASSUME OneOther, LastPortOurs, IInv, NEW p \in Procs, NEW q \in Procs, p # q,
         \/ Acquire(p) \/ Bind(p) \/ Probe(p) \/ Refuse(p) \/ Conclude(p) \/ Exit(p)
         \/ LoseListener(p) \/ Invalidate(p) \/ Stall(p)
  PROVE  Guarded(p, q)'
<1> USE LockAssumption
<1>1. TypeOK /\ Shape /\ Guarded(p, q) /\ Guarded(q, p)
  BY DEF IInv
<1>2. SUFFICES ASSUME Firm(p)' PROVE (Doomed(q) \/ Stops(p, q) \/ (phase[p] = "probe" /\ port[Ports] = q))'
  BY DEF Guarded
<1>3. /\ phase'[p] \in {"bind", "held", "probe"} /\ reserved'[p] # {} /\ p \notin slow'
      /\ phase'[p] \in {"bind", "held"} => at'[p] > Ports
      /\ phase'[p] = "probe" => at'[p] = Ports
  BY <1>2 DEF Firm
<1>4. CASE Acquire(p) \/ Refuse(p) \/ Exit(p) \/ Invalidate(p) \/ Stall(p)
  BY <1>1, <1>3, <1>4 DEF Acquire, Refuse, Exit, Invalidate, Stall, TypeOK, Shape
<1>5. CASE LoseListener(p)
  <2>1. PICK i \in Listening(p) : port' = [port EXCEPT ![i] = Free]
    BY <1>5 DEF LoseListener
  <2>2. i \in reserved'[p] /\ i \notin Listening(p)'
    BY <1>1, <1>5, <2>1 DEF LoseListener, Listening, TypeOK
  <2> QED
    BY <1>2, <2>2 DEF Firm, Intact
<1>6. CASE Bind(p)
  <2>1. /\ phase[p] = "bind" /\ at[p] \in 1..Ports /\ Ports \notin reserved[p]
        /\ UNCHANGED slow /\ p \notin slow
    BY <1>1, <1>6 DEF Bind, TypeOK, Shape
  <2>2. CASE port[at[p]] = Free
    <3>1. /\ port' = [port EXCEPT ![at[p]] = p]
          /\ reserved' = [reserved EXCEPT ![p] = reserved[p] \cup {at[p]}]
          /\ at' = [at EXCEPT ![p] = at[p] + 1] /\ phase' = phase
      BY <1>6, <2>2 DEF Bind, Candidate
    <3>2. /\ at[p] = Ports /\ Ports \in reserved'[p]
          /\ at'[q] = at[q] /\ reserved'[q] = reserved[q]
      BY <1>1, <1>3, <2>1, <3>1 DEF TypeOK
    <3>3. port[Ports] = Free /\ Ports \notin Listening(q) /\ Ports \notin Listening(q)'
      BY <2>2, <3>1, <3>2 DEF Listening
    <3>4. \A i \in 1..Ports : port'[i] = q <=> port[i] = q
      BY <1>1, <3>1, <3>2, <3>3 DEF TypeOK, Listening
    <3>5. Intact(q)' <=> Intact(q)
      BY <3>2, <3>4 DEF Intact, Listening
    <3>6. Intact(p)
      BY <1>1, <1>2, <2>1, <3>1, <3>2 DEF Firm, Intact, Listening, TypeOK
    <3>7. CASE Scanning(q) /\ at[q] <= Ports
      BY <3>1, <3>2, <3>7 DEF Stops, Scanning
    <3>8. CASE phase[q] \in {"off", "lost", "refused"}
      BY <3>1, <3>8 DEF Doomed
    <3>9. CASE phase[q] \in {"bind", "held"} /\ at[q] > Ports
      <4>1. ~Firm(q)
        <5>1. SUFFICES ASSUME Firm(q) PROVE FALSE
          OBVIOUS
        <5>2. ~Doomed(p)
          BY <1>1, <2>1, <3>2, <3>6 DEF Doomed, TypeOK
        <5>3. ~Stops(q, p)
          BY <1>1, <3>2, <3>3, <5>1 DEF Stops, Firm, Intact, TypeOK, Listening
        <5> QED
          BY <1>1, <3>9, <5>1, <5>2, <5>3 DEF Guarded
      <4>2. Doomed(q)
        BY <3>9, <4>1 DEF Firm, Doomed
      <4> QED
        BY <2>1, <3>1, <3>2, <3>5, <4>2 DEF Doomed
    <3> QED
      BY <1>1, <3>7, <3>8, <3>9 DEF TypeOK, Shape, Scanning
  <2>3. CASE port[at[p]] # Free
    <3>1. phase' = [phase EXCEPT ![p] = "probe"] /\ UNCHANGED <<port, at, reserved>>
      BY <1>6, <2>3 DEF Bind, Candidate
    <3>2. phase'[p] = "probe" /\ at[p] = Ports /\ port[Ports] # Free
      BY <1>1, <1>3, <2>3, <3>1 DEF TypeOK
    <3>3. port[Ports] \in Procs
      BY <1>1, <3>2 DEF TypeOK, Shape, LastPortOurs
    <3>4. port[Ports] # p
      BY <1>1, <2>1 DEF TypeOK, Listening
    <3>5. port'[Ports] = q
      BY <3>1, <3>3, <3>4 DEF OneOther
    <3> QED
      BY <3>2, <3>5
  <2> QED
    BY <2>2, <2>3
<1>7. CASE Probe(p)
  <2>1. phase[p] = "probe" /\ UNCHANGED <<port, reserved, slow, starts, faults>>
    BY <1>7 DEF Probe
  <2>2. /\ PassedOver(at[p])
        /\ phase' = [phase EXCEPT ![p] = "bind"] /\ at' = [at EXCEPT ![p] = at[p] + 1]
    BY <1>1, <1>3, <1>7 DEF Probe, Candidate, TypeOK
  <2>3. at[p] = Ports
    BY <1>1, <1>3, <2>1, <2>2 DEF TypeOK, Shape
  <2>4. Firm(p)
    BY <1>2, <2>1, <2>3 DEF Firm, Intact, Listening
  <2>5. Doomed(q) \/ Stops(p, q)
    <3>1. CASE port[Ports] = q
      BY <2>2, <2>3, <3>1 DEF PassedOver, AnswersHeld, Doomed
    <3> QED
      BY <1>1, <2>4, <3>1 DEF Guarded
  <2>6. phase'[q] = phase[q] /\ at'[q] = at[q]
    BY <1>1, <2>2 DEF TypeOK
  <2> QED
    BY <2>1, <2>5, <2>6 DEF Doomed, Stops, Scanning, Intact, Listening
<1>8. CASE Conclude(p)
  <2>1. /\ phase[p] = "bind" /\ at[p] > Ports
        /\ UNCHANGED <<at, reserved, slow, starts, faults>>
        /\ phase' = [phase EXCEPT ![p] = Outcome(p)]
    BY <1>8 DEF Conclude
  <2>2. Outcome(p) = "held" /\ port' = port
    BY <1>1, <1>3, <1>8, <2>1 DEF Conclude, Outcome, TypeOK
  <2>3. Firm(p)
    BY <1>2, <2>1, <2>2 DEF Firm, Intact, Listening
  <2>4. Doomed(q) \/ Stops(p, q)
    BY <1>1, <2>1, <2>3 DEF Guarded
  <2>5. phase'[q] = phase[q]
    BY <1>1, <2>1 DEF TypeOK
  <2> QED
    BY <2>1, <2>2, <2>4, <2>5 DEF Doomed, Stops, Scanning, Intact, Listening
<1> QED
  BY <1>4, <1>5, <1>6, <1>7, <1>8

\* A step of q: while p has its ports, q neither passes them nor concludes.
LEMMA OtherStep ==
  ASSUME IInv, NEW p \in Procs, NEW q \in Procs, p # q,
         \/ Acquire(q) \/ Bind(q) \/ Probe(q) \/ Refuse(q) \/ Conclude(q) \/ Exit(q)
         \/ LoseListener(q) \/ Invalidate(q) \/ Stall(q)
  PROVE  Guarded(p, q)'
<1> USE LockAssumption
<1>1. TypeOK /\ Shape /\ Guarded(p, q)
  BY DEF IInv
<1>2. SUFFICES ASSUME Firm(p)' PROVE (Doomed(q) \/ Stops(p, q) \/ (phase[p] = "probe" /\ port[Ports] = q))'
  BY DEF Guarded
<1>3. /\ phase'[p] = phase[p] /\ at'[p] = at[p] /\ reserved'[p] = reserved[p]
      /\ \A i \in 1..Ports : port'[i] = p <=> port[i] = p
      /\ p \notin slow' => p \notin slow
  BY <1>1 DEF Acquire, Bind, Probe, Refuse, Conclude, Exit, LoseListener, Invalidate, Stall,
              Released, Candidate, Listening, TypeOK
<1>4. Firm(p)
  BY <1>2, <1>3 DEF Firm, Intact, Listening
<1>5. /\ reserved[p] # {} /\ reserved[p] \subseteq 1..Ports
      /\ \A i \in reserved[p] : port[i] = p /\ p \notin slow
  BY <1>1, <1>4 DEF Firm, Intact, Listening, TypeOK
<1>6. CASE Acquire(q)
  <2>1. phase'[q] = "bind" /\ at'[q] = 1
    BY <1>1, <1>6 DEF Acquire, TypeOK, Shape
  <2>2. PICK i \in reserved[p] : TRUE
    BY <1>5
  <2> QED
    BY <1>3, <1>5, <2>1, <2>2 DEF Stops, Scanning
<1>7. CASE Bind(q)
  <2>1. /\ phase[q] = "bind" /\ at[q] \in 1..Ports /\ q \notin slow
        /\ \A i \in reserved[q] : i < at[q]
    <3>1. phase[q] = "bind" /\ at[q] <= Ports
      BY <1>7 DEF Bind
    <3>2. at[q] \in 1..(Ports + 1) /\ \A i \in reserved[q] : i < at[q]
      BY <1>1 DEF TypeOK, Shape
    <3>3. q \notin slow
      BY <1>1, <3>1 DEF TypeOK
    <3> QED
      BY <3>1, <3>2, <3>3
  <2>2. port[Ports] # q
    BY <1>1, <2>1, Reserved
  <2>3. ~Intact(q) \/ Stops(p, q)
    BY <1>1, <1>4, <2>1, <2>2 DEF Guarded, Doomed
  <2>4. CASE port[at[q]] = Free
    <3>1. /\ port' = [port EXCEPT ![at[q]] = q]
          /\ reserved' = [reserved EXCEPT ![q] = reserved[q] \cup {at[q]}]
          /\ at' = [at EXCEPT ![q] = at[q] + 1] /\ phase' = phase
      BY <1>7, <2>4 DEF Bind, Candidate
    <3>2. at'[q] = at[q] + 1 /\ reserved'[q] = reserved[q] \cup {at[q]}
      BY <1>1, <3>1 DEF TypeOK
    <3>3. CASE ~Intact(q)
      <4>1. PICK i \in reserved[q] : port[i] # q
        BY <1>1, <3>3 DEF Intact, Listening, TypeOK
      <4>2. port'[i] # q /\ i \in reserved'[q]
        BY <1>1, <2>1, <3>1, <3>2, <4>1 DEF TypeOK
      <4> QED
        BY <4>2 DEF Doomed, Intact, Listening
    <3>4. CASE Stops(p, q)
      <4>1. PICK i \in reserved[p] : at[q] <= i
        BY <3>4 DEF Stops
      <4>2. at[q] # i
        BY <1>1, <1>5, <2>4, <4>1
      <4> QED
        BY <1>1, <1>3, <1>5, <2>1, <3>1, <3>2, <4>1, <4>2 DEF Stops, Scanning, TypeOK
    <3> QED
      BY <2>3, <3>3, <3>4
  <2>5. CASE port[at[q]] # Free
    <3>1. phase' = [phase EXCEPT ![q] = "probe"] /\ UNCHANGED <<port, at, reserved>>
      BY <1>7, <2>5 DEF Bind, Candidate
    <3>2. phase'[q] = "probe"
      BY <1>1, <3>1 DEF TypeOK
    <3> QED
      BY <2>3, <3>1, <3>2 DEF Doomed, Intact, Listening, Stops, Scanning
  <2> QED
    BY <2>4, <2>5
<1>8. CASE Probe(q)
  <2>1. /\ phase[q] = "probe" /\ at[q] \in 1..Ports /\ q \notin slow
        /\ UNCHANGED <<port, reserved, slow>>
        /\ \A i \in reserved[q] : i < at[q]
    BY <1>1, <1>8 DEF Probe, TypeOK, Shape
  <2>2. port[Ports] # q
    BY <1>1, <2>1, Reserved
  <2>3. ~Intact(q) \/ Stops(p, q)
    BY <1>1, <1>4, <2>1, <2>2 DEF Guarded, Doomed
  <2>4. CASE ~Intact(q)
    BY <2>1, <2>4 DEF Doomed, Intact, Listening
  <2>5. CASE Stops(p, q)
    <3>1. PICK i \in reserved[p] : at[q] <= i
      BY <2>5 DEF Stops
    <3>2. CASE phase' = [phase EXCEPT ![q] = "told"] /\ at' = at
      <4>1. phase'[q] = "told"
        BY <1>1, <3>2 DEF TypeOK
      <4> QED
        BY <1>3, <3>1, <3>2, <4>1 DEF Stops, Scanning
    <3>3. CASE PassedOver(at[q]) /\ phase' = [phase EXCEPT ![q] = "bind"] /\ at' = [at EXCEPT ![q] = at[q] + 1]
      <4>1. at[q] # i
        BY <1>5, <3>1, <3>3 DEF PassedOver, AnswersHeld
      <4>2. phase'[q] = "bind" /\ at'[q] = at[q] + 1
        BY <1>1, <3>3 DEF TypeOK
      <4> QED
        BY <1>3, <1>5, <2>1, <3>1, <4>1, <4>2 DEF Stops, Scanning
    <3> QED
      BY <1>8, <3>2, <3>3 DEF Probe, Candidate
  <2> QED
    BY <2>3, <2>4, <2>5
<1>9. CASE Conclude(q)
  <2>1. /\ phase[q] = "bind" /\ at[q] > Ports
        /\ UNCHANGED <<at, reserved, slow, starts, faults>>
        /\ phase' = [phase EXCEPT ![q] = Outcome(q)]
    BY <1>9 DEF Conclude
  <2>2. phase'[q] = Outcome(q)
    BY <1>1, <2>1 DEF TypeOK
  <2>3. CASE Outcome(q) = "held"
    <3>1. port' = port /\ reserved[q] # {} /\ Intact(q) /\ q \notin slow
      BY <1>1, <1>9, <2>1, <2>3 DEF Conclude, Outcome, TypeOK
    <3>2. ~Doomed(q) /\ ~Stops(p, q)
      BY <1>1, <1>5, <2>1, <3>1 DEF Doomed, Stops, TypeOK
    <3> QED
      BY <1>1, <1>3, <1>4, <3>1, <3>2 DEF Guarded
  <2>4. CASE Outcome(q) # "held"
    BY <2>2, <2>4 DEF Outcome, Doomed
  <2> QED
    BY <2>3, <2>4
<1>10. CASE LoseListener(q)
  <2>1. PICK i \in Listening(q) : port' = [port EXCEPT ![i] = Free]
    BY <1>10 DEF LoseListener
  <2>2. i \in reserved'[q] /\ i \notin Listening(q)'
    BY <1>1, <1>10, <2>1 DEF LoseListener, Listening, TypeOK
  <2> QED
    BY <2>2 DEF Doomed, Intact
<1>11. CASE Refuse(q) \/ Exit(q) \/ Invalidate(q) \/ Stall(q)
  BY <1>1, <1>11 DEF Refuse, Exit, Invalidate, Stall, TypeOK, Doomed
<1> QED
  BY <1>6, <1>7, <1>8, <1>9, <1>10, <1>11

\* Strangers take only what is free.
LEMMA StrangerStep ==
  ASSUME IInv, NEW p \in Procs, NEW q \in Procs, p # q,
         NEW i \in 1..Ports, StrangerComes(i) \/ StrangerGoes(i)
  PROVE  Guarded(p, q)'
<1> USE LockAssumption
<1>1. TypeOK /\ Guarded(p, q)
  BY DEF IInv
<1>2. /\ UNCHANGED <<phase, at, reserved, slow, starts, faults>>
      /\ \A j \in 1..Ports : (port'[j] = p <=> port[j] = p) /\ (port'[j] = q <=> port[j] = q)
  BY <1>1 DEF StrangerComes, StrangerGoes, TypeOK
<1>3. (Intact(p)' <=> Intact(p)) /\ (Intact(q)' <=> Intact(q))
  BY <1>2 DEF Intact, Listening
<1> QED
  BY <1>1, <1>2, <1>3 DEF Guarded, Firm, Doomed, Stops, Scanning

(* IInv is an invariant where two processes use the state file              *)
(* (state-lock.ts, acquireStateLock).                                       *)
THEOREM Invariance ==
  ASSUME OneOther, LastPortOurs
  PROVE  Spec => []IInv
<1>1. ASSUME IInv, Next PROVE IInv'
  <2>1. TypeOK' /\ Shape'
    BY <1>1, ShapeKept DEF IInv
  <2>2. ASSUME NEW p \in Procs, NEW q \in Procs, p # q PROVE Guarded(p, q)'
    <3>1. CASE \E i \in 1..Ports : StrangerComes(i) \/ StrangerGoes(i)
      BY <1>1, <2>2, <3>1, StrangerStep
    <3>2. ASSUME NEW r \in Procs,
                 \/ Acquire(r) \/ Bind(r) \/ Probe(r) \/ Refuse(r) \/ Conclude(r) \/ Exit(r)
                 \/ LoseListener(r) \/ Invalidate(r) \/ Stall(r)
          PROVE  Guarded(p, q)'
      <4>1. r = p \/ r = q
        BY <2>2 DEF OneOther
      <4>2. CASE r = p
        BY <1>1, <2>2, <3>2, <4>2, OwnStep
      <4>3. CASE r = q
        BY <1>1, <2>2, <3>2, <4>3, OtherStep
      <4> QED
        BY <4>1, <4>2, <4>3
    <3> QED
      BY <1>1, <3>1, <3>2 DEF Next
  <2> QED
    BY <2>1, <2>2 DEF IInv
<1>2. IInv /\ UNCHANGED vars => IInv'
  <2> SUFFICES ASSUME IInv, UNCHANGED vars PROVE IInv'
    OBVIOUS
  <2>1. TypeOK'
    BY DEF vars, IInv, TypeOK, Listening
  <2>2. Shape'
    BY DEF vars, IInv, Shape
  <2>3. \A p, q \in Procs : p # q => Guarded(p, q)'
    BY DEF vars, IInv, Guarded, Firm, Doomed, Stops, Scanning, Intact, Listening
  <2> QED
    BY <2>1, <2>2, <2>3 DEF IInv
<1>3. IInv /\ [Next]_vars => IInv'
  BY <1>1, <1>2
<1> QED
  BY Initially, <1>3, PTL DEF Spec

(* Two processes never both pass assertHeld(), but for one that is too slow *)
(* to answer: for any number of ports, of scans, of lost listeners and of   *)
(* strangers, if the last candidate port is spared by these (state-lock.ts, *)
(* assertStateLockHeld).                                                    *)
THEOREM TwoExclude ==
  ASSUME OneOther, LastPortOurs
  PROVE  Spec => []Exclusive
<1>1. IInv => Exclusive
  <2> SUFFICES ASSUME IInv, NEW p \in Procs, NEW q \in Procs, Held(p), Held(q), p # q,
                      p \notin slow, q \notin slow
               PROVE  FALSE
    BY DEF Exclusive
  <2>1. Firm(p) /\ phase[p] = "held"
    BY DEF IInv, TypeOK, Shape, Held, Firm
  <2>2. ~Doomed(q) /\ ~Stops(p, q)
    BY DEF IInv, TypeOK, Held, Doomed, Stops, Scanning
  <2> QED
    BY <2>1, <2>2 DEF IInv, Guarded
<1> QED
  BY Invariance, <1>1, PTL
=============================================================================
