----------------------------- MODULE StateLock -----------------------------
(***************************************************************************)
(* The lock over one state file (rpc-src/state-lock.ts).  There is no lock *)
(* file: a process binds as many as it can of the candidate loopback ports *)
(* that the path hashes to, in their order.  A port that it cannot bind it *)
(* probes: an adapter with the same state file answers HELD and the scan   *)
(* is given up, anything else (a stranger that happens to use the port, no *)
(* listener any more, no answer in time) is passed over.  A scan that ends *)
(* with at least one port bound holds the lock, as long as all the ports   *)
(* that it reserved are still bound.                                       *)
(***************************************************************************)
EXTENDS Integers, FiniteSets

CONSTANTS
  Procs,         \* the adapter processes that use this state file
  Ports,         \* number of candidate ports, 8 in the code
  Free,          \* not a process: nobody listens
  Stranger,      \* not a process: a listener of another program
  StrangerPorts, \* the candidate ports that strangers may use
  Stallable,     \* the processes whose event loop may be blocked
  MaxStarts,     \* bound on the number of scans
  MaxFaults      \* bound on the scans killed and the listeners closed

ASSUME LockAssumption ==
  /\ Ports \in Nat \ {0} /\ MaxStarts \in Nat /\ MaxFaults \in Nat
  /\ Free \notin Procs /\ Stranger \notin Procs /\ Free # Stranger
  /\ StrangerPorts \subseteq 1..Ports /\ Stallable \subseteq Procs

VARIABLES
  port,     \* port[i]: who listens on the i-th candidate port
  phase,    \* phase[p]: where p stands
  at,       \* at[p]: the place of the scan of p
  reserved, \* reserved[p]: the ports that p bound in its scan
  slow,     \* holders that may take longer to answer than a probe waits
  starts,   \* number of scans so far
  faults    \* number of faults so far

vars == <<port, phase, at, reserved, slow, starts, faults>>

-----------------------------------------------------------------------------
\* Mutant: processes scan their candidates in different orders.
CandidateShuffled(p, i) == IF p = CHOOSE q \in Procs : TRUE THEN Ports + 1 - i ELSE i

\* The i-th candidate of every process is the same port.
Candidate(p, i) == i

Scanning(p) == phase[p] \in {"bind", "probe", "told"}

Listening(p) == {i \in 1..Ports : port[i] = p}

Released(p) == [i \in 1..Ports |-> IF port[i] = p THEN Free ELSE port[i]]

\* Mutant: only a holder answers, a scan in progress does not.
AnswersHeldOnly(i) == port[i] \in {p \in Procs : phase[p] = "held"}

\* Every process that listens answers a probe, while it scans too.
AnswersHeld(i) == port[i] \in Procs

\* The probe of a port comes to nothing: no adapter answers, or not in time.
PassedOver(i) == ~AnswersHeld(i) \/ port[i] \in slow

\* None of the listeners that p bound has closed.
Intact(p) == reserved[p] \subseteq Listening(p)

\* assertHeld() passes.
Held(p) == phase[p] = "held" /\ Intact(p)

-----------------------------------------------------------------------------
Init ==
  /\ port \in [1..Ports -> {Free, Stranger}]
  /\ \A i \in 1..Ports : port[i] = Stranger => i \in StrangerPorts
  /\ phase = [p \in Procs |-> "off"]
  /\ at = [p \in Procs |-> 1]
  /\ reserved = [p \in Procs |-> {}]
  /\ slow = {}
  /\ starts = 0 /\ faults = 0

\* One fault more.
Fault == faults < MaxFaults /\ faults' = faults + 1

Acquire(p) ==
  /\ phase[p] = "off"
  /\ starts < MaxStarts
  /\ starts' = starts + 1
  /\ phase' = [phase EXCEPT ![p] = "bind"]
  /\ UNCHANGED <<port, at, reserved, slow, faults>>

Bind(p) ==
  /\ phase[p] = "bind" /\ at[p] <= Ports
  /\ LET i == Candidate(p, at[p])
     IN  \/ /\ port[i] = Free
            /\ port' = [port EXCEPT ![i] = p]
            /\ reserved' = [reserved EXCEPT ![p] = @ \cup {i}]
            /\ at' = [at EXCEPT ![p] = @ + 1]
            /\ UNCHANGED phase
         \/ /\ port[i] # Free
            /\ phase' = [phase EXCEPT ![p] = "probe"]
            /\ UNCHANGED <<port, at, reserved>>
  /\ UNCHANGED <<slow, starts, faults>>

\* Between the bind that failed and its probe anybody may have moved.
Probe(p) ==
  /\ phase[p] = "probe"
  /\ \/ /\ AnswersHeld(Candidate(p, at[p]))
        /\ phase' = [phase EXCEPT ![p] = "told"]
        /\ UNCHANGED at
     \/ /\ PassedOver(Candidate(p, at[p]))
        /\ phase' = [phase EXCEPT ![p] = "bind"]
        /\ at' = [at EXCEPT ![p] = @ + 1]
  /\ UNCHANGED <<port, reserved, slow, starts, faults>>

\* The answer HELD arrives; until then p itself answers the probes of others.
Refuse(p) ==
  /\ phase[p] = "told"
  /\ phase' = [phase EXCEPT ![p] = "refused"]
  /\ port' = Released(p)
  /\ UNCHANGED <<at, reserved, slow, starts, faults>>

\* A scan at its end; it fails if it bound nothing, or if a listener that it
\* bound has closed meanwhile (it has no address any more).
Outcome(p) == IF reserved[p] # {} /\ Intact(p) THEN "held" ELSE "refused"

Conclude(p) ==
  /\ phase[p] = "bind" /\ at[p] > Ports
  /\ phase' = [phase EXCEPT ![p] = Outcome(p)]
  /\ port' = IF Outcome(p) = "held" THEN port ELSE Released(p)
  /\ UNCHANGED <<at, reserved, slow, starts, faults>>

\* A listener closes.
LoseListener(p) ==
  /\ Fault
  /\ \E i \in Listening(p) : port' = [port EXCEPT ![i] = Free]
  /\ UNCHANGED <<phase, at, reserved, slow, starts>>

\* The holder hears of it and closes the others.
Invalidate(p) ==
  /\ phase[p] = "held" /\ ~Held(p)
  /\ phase' = [phase EXCEPT ![p] = "lost"]
  /\ port' = Released(p)
  /\ UNCHANGED <<at, reserved, slow, starts, faults>>

\* The holder releases the lock, or the process ends; a new one may start.
Exit(p) ==
  /\ phase[p] # "off"
  /\ IF Scanning(p) THEN Fault ELSE UNCHANGED faults
  /\ phase' = [phase EXCEPT ![p] = "off"]
  /\ port' = Released(p)
  /\ at' = [at EXCEPT ![p] = 1]
  /\ reserved' = [reserved EXCEPT ![p] = {}]
  /\ slow' = slow \ {p}
  /\ UNCHANGED starts

StrangerComes(i) ==
  /\ i \in StrangerPorts /\ port[i] = Free
  /\ port' = [port EXCEPT ![i] = Stranger]
  /\ UNCHANGED <<phase, at, reserved, slow, starts, faults>>

StrangerGoes(i) ==
  /\ port[i] = Stranger
  /\ port' = [port EXCEPT ![i] = Free]
  /\ UNCHANGED <<phase, at, reserved, slow, starts, faults>>

Stall(p) ==
  /\ phase[p] = "held" /\ p \in Stallable \ slow
  /\ slow' = slow \cup {p}
  /\ UNCHANGED <<port, phase, at, reserved, starts, faults>>

Next ==
  \/ \E p \in Procs :
       \/ Acquire(p) \/ Bind(p) \/ Probe(p) \/ Refuse(p) \/ Conclude(p) \/ Exit(p)
       \/ LoseListener(p) \/ Invalidate(p) \/ Stall(p)
  \/ \E i \in 1..Ports : StrangerComes(i) \/ StrangerGoes(i)

Spec == Init /\ [][Next]_vars

\* The calls of a scan return: a bind at once, a probe within its timeout.
LiveSpec == Spec /\ \A p \in Procs : WF_vars(Bind(p) \/ Probe(p) \/ Refuse(p) \/ Conclude(p))

\* The scan of p found a stranger wherever it tried to bind.
Crowded(p) == phase[p] = "refused" /\ reserved[p] = {} /\ at[p] > Ports

-----------------------------------------------------------------------------
(* State and type: what a process listens on it has reserved, a holder      *)
(* reserved something, and a process whose scan or lock failed has let      *)
(* every port go (state-lock.ts, acquireStateLock and closeReservations).   *)
TypeOK ==
  /\ port \in [1..Ports -> Procs \cup {Free, Stranger}]
  /\ phase \in [Procs -> {"off", "bind", "probe", "told", "held", "lost", "refused"}]
  /\ at \in [Procs -> 1..(Ports + 1)]
  /\ reserved \in [Procs -> SUBSET (1..Ports)]
  /\ slow \subseteq {p \in Procs : phase[p] \in {"held", "lost"}}
  /\ starts \in 0..MaxStarts /\ faults \in 0..MaxFaults
  /\ \A p \in Procs :
       /\ Listening(p) \subseteq reserved[p]
       /\ phase[p] = "held" => reserved[p] # {}
       /\ phase[p] \in {"off", "lost", "refused"} => Listening(p) = {}

(* Two processes pass assertHeld() at the same moment only when the probes  *)
(* of one of them went unanswered because the other was too slow: otherwise *)
(* no write of one lands while another has the state file (state-lock.ts,   *)
(* assertStateLockHeld).                                                    *)
Exclusive ==
  \A p, q \in Procs : Held(p) /\ Held(q) /\ p # q => {p, q} \cap slow # {}

(* Of processes that scan at the same moment one gets the lock, unless      *)
(* strangers have left it no port, or a scan is killed or loses a listener: *)
(* they never all refuse each other (state-lock.ts, the order of the        *)
(* candidates in acquireStateLock).  The holder that an answer told of may  *)
(* end before it arrives, so that moment is excluded.                       *)
SomeoneWins ==
  (/\ faults = 0
   /\ \E p \in Procs : Scanning(p)
   /\ \A p \in Procs : phase[p] # "told")
    ~> (faults > 0 \/ \E p \in Procs : Held(p) \/ Crowded(p))
=============================================================================
