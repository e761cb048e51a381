-------------------------- MODULE CreateReconciler --------------------------
(***************************************************************************)
(* Predicted addresses (rpc-src/create-reconciler.ts, with the address map *)
(* of rpc-src/address-map.ts).  A Forge script computes the addresses of   *)
(* what it deploys with the Ethereum rule, from creator and nonce; TRON    *)
(* gives every contract another address.  The adapter plans the predicted  *)
(* addresses of a transaction from its simulation, before the broadcast,   *)
(* and publishes the predicted-to-actual mappings once the solid receipt   *)
(* shows the creations that were planned.  An operator may adopt existing  *)
(* contracts in between (rpc-src/cli.ts).                                  *)
(*                                                                         *)
(* Every step is one transaction of the durable store, and all the state   *)
(* is durable: a crash changes nothing here.  A source transaction is      *)
(* named by its nonce, of which there is one per prepared transaction      *)
(* (module Gateway).                                                       *)
(***************************************************************************)
EXTENDS Integers, Sequences, FiniteSets

CONSTANTS
  Tx,         \* the source transactions, by nonce
  Deploys,    \* those that deploy a contract, the others call one
  Proxies,    \* the deployments of the canonical transparent proxy
  To,         \* To[t]: the predicted address that a call is for
  Traces,     \* Traces[t]: the creation attempts an execution of t may make
  Modes,      \* the kinds of simulation the node offers
  Adoptable,  \* the predicted addresses the operator may adopt under
  MaxAdopts   \* bound: adoptions

ASSUME ReconcilerAssumption ==
  /\ Tx \subseteq Nat \ {0}
  /\ Proxies \subseteq Deploys /\ Deploys \subseteq Tx
  /\ To \in [Tx \ Deploys -> Seq(Int)]
  /\ \A t \in Tx : Traces[t] \subseteq Seq([by : Int, ok : BOOLEAN])
  /\ Modes \subseteq {"exact", "constant"}
  /\ Adoptable \subseteq Seq(Nat)
  /\ MaxAdopts \in Nat

\* The constructor of the canonical proxy first creates its ProxyAdmin, and
\* reverts if that fails; the code relies on it (proxyAdminMetadata).
ASSUME ProxyAssumption ==
  \A t \in Proxies : \A trace \in Traces[t] :
    Len(trace) > 0 /\ trace[1].by = 0 /\ trace[1].ok

\* The sender is an account, so nobody adopts a contract under its address.
ASSUME AdoptAssumption == << >> \notin Adoptable

VARIABLES
  state,     \* state[t]: that of the journal record, "retained" when it failed
             \* with a receipt
  plan,      \* plan[t]: what the record says of the prepared transaction
  counter,   \* nextNonceByCaller: what is absent counts as 1
  mappings,  \* the address map with its contract metadata, by predicted address
  chain,     \* chain[t]: what the TRON chain made of the native transaction
  adopts     \* adoptions so far

vars == <<state, plan, counter, mappings, chain, adopts>>

-----------------------------------------------------------------------------
(***************************************************************************)
(* Addresses.  A predicted address is the path of nonces that leads to it  *)
(* from the sender; an actual one starts with 0 and names the transaction  *)
(* and its attempt, 0 for the deployed contract itself.  Simulated ones    *)
(* are actual with the exact simulation, made up with the constant one.    *)
(***************************************************************************)
Sender == << >>
Foreign == <<0>>  \* a contract that the adapter did not deploy
PredictedRoot(t) == IF t \in Deploys THEN <<t>> ELSE To[t]
Root(t) == <<0, t, 0>>
Child(t, k) == <<0, t, k>>
Simulated(t, mode, k) == IF mode = "exact" THEN <<0, t, k>> ELSE <<0, t, k, 0>>

Actuals == {mappings[p].actual : p \in DOMAIN mappings}

\* f, and g where f has nothing.
Over(f, g) == [x \in DOMAIN f \cup DOMAIN g |-> IF x \in DOMAIN f THEN f[x] ELSE g[x]]
One(x, y) == [z \in {x} |-> y]

\* mappedAddress of the handlers: an address without a mapping is itself.
ToActual(p) == IF p \in DOMAIN mappings THEN mappings[p].actual ELSE p

\* Who makes an attempt: the contract the transaction is for (0), the one an
\* earlier attempt j created (j), a foreign contract (-1), or the contract that
\* transaction n deployed (-1 - n).
CallerOf(t, target, by) ==
  IF by = 0 THEN target ELSE
  IF by > 0 THEN Child(t, by) ELSE
  IF by = -1 THEN Foreign ELSE Root(-1 - by)

-----------------------------------------------------------------------------
(***************************************************************************)
(* The TRON chain, as the adapter relies on it.                            *)
(***************************************************************************)
Pending == [done |-> FALSE, ok |-> FALSE, trace |-> << >>]
Succeeded(t) == chain[t].done /\ chain[t].ok

\* The attempts of t that created a contract.
Created(t) == IF Succeeded(t) THEN {k \in DOMAIN chain[t].trace : chain[t].trace[k].ok} ELSE {}

OnChain ==
  {Foreign} \cup {Root(t) : t \in {u \in Deploys : Succeeded(u)}}
            \cup UNION {{Child(t, k) : k \in Created(t)} : t \in Tx}

\* A trace that t can have now: whoever creates in it exists.
CanHappen(t, target, trace) ==
  \A k \in DOMAIN trace :
    LET by == trace[k].by
    IN  \/ by > 0 /\ by < k /\ trace[by].ok
        \/ by = 0 /\ t \in Deploys
        \/ by <= 0 /\ CallerOf(t, target, by) \in OnChain

\* What the contract at an address is: the constructor of the canonical proxy
\* creates its ProxyAdmin first.
KindOf(a) ==
  IF \E t \in Proxies : a = Root(t) THEN "transparent-proxy" ELSE
  IF \E t \in Proxies : Created(t) # {} /\ a = Child(t, 1) /\ chain[t].trace[1].by = 0
    THEN "proxy-admin" ELSE "other"

-----------------------------------------------------------------------------
(***************************************************************************)
(* derivePlan: the attempts of the simulation in order, each given the     *)
(* next nonce of its predicted caller.                                     *)
(***************************************************************************)
Counter(counters, p) == IF p \in DOMAIN counters THEN counters[p] ELSE 1

\* proxyAdminMetadata.
ChildKind(t, caller, nonce) ==
  IF t \in Proxies /\ caller = PredictedRoot(t) /\ nonce = 1 THEN "proxy-admin" ELSE "other"

\* assertConstantProfile: a constant simulation cannot tell CREATE from CREATE2.
ProfileAllowed(t, mode, trace) ==
  \/ mode = "exact"
  \/ t \in Proxies /\ Len(trace) = 1 /\ trace[1].ok /\ trace[1].by = 0
  \/ t \notin Proxies /\ trace = << >>

\* The predicted address of a caller: of this transaction, of the address map,
\* or its own when it is a mapped predicted address.  {} when unmapped.
ResolveCaller(known, actual) ==
  IF actual \in DOMAIN known THEN {known[actual]} ELSE
  IF actual \in Actuals THEN {p \in DOMAIN mappings : mappings[p].actual = actual}
  ELSE {actual} \cap DOMAIN mappings

\* Who makes an attempt in a simulation: the constant one has its own address
\* for the contract that it deploys.
SimulatedCaller(t, mode, target, by) ==
  IF by = 0 /\ mode = "constant" /\ t \in Deploys
    THEN Simulated(t, mode, 0) ELSE CallerOf(t, target, by)

\* Before the first attempt: the callers that are known from the start.
Unplanned(t, mode, trace, target) ==
  [refused  |-> ~ProfileAllowed(t, mode, trace),
   next     |-> << >>,
   known    |-> [a \in {Sender, target, Simulated(t, "constant", 0)} |->
                  IF a = Sender THEN Sender ELSE PredictedRoot(t)],
   attempts |-> << >>]

\* One attempt of the simulation.  The plan is refused when its caller is not
\* mapped or its predicted (with an exact simulation, actual) address is taken.
PlanAttempt(t, mode, trace, target, sofar, k) ==
  LET actual   == SimulatedCaller(t, mode, target, trace[k].by)
      resolved == ResolveCaller(sofar.known, actual)
  IN  IF sofar.refused \/ resolved = {} THEN [sofar EXCEPT !.refused = TRUE] ELSE
      LET caller    == CHOOSE p \in resolved : TRUE
          nonce     == Counter(Over(sofar.next, counter), caller)
          predicted == Append(caller, nonce)
          simulated == Simulated(t, mode, k)
          taken     == \/ predicted \in DOMAIN mappings
                       \/ mode = "exact" /\ simulated \in Actuals
                       \/ simulated \in DOMAIN sofar.known
      IN  [refused  |-> trace[k].ok /\ taken,
           next     |-> Over(One(caller, nonce + 1), sofar.next),
           known    |-> IF trace[k].ok THEN Over(One(simulated, predicted), sofar.known)
                                       ELSE sofar.known,
           attempts |-> Append(sofar.attempts,
                          [caller |-> caller, actualCaller |-> actual,
                           predicted |-> predicted, ok |-> trace[k].ok,
                           kind |-> ChildKind(t, caller, nonce)])]

\* The plan after the first k attempts of the simulation, as a function of k.
PlanSoFar(t, mode, trace, target) ==
  LET sofar[k \in 0..Len(trace)] ==
        IF k = 0 THEN Unplanned(t, mode, trace, target)
        ELSE PlanAttempt(t, mode, trace, target, sofar[k - 1], k)
  IN  sofar

DerivePlan(t, mode, trace, target) == PlanSoFar(t, mode, trace, target)[Len(trace)]

-----------------------------------------------------------------------------
NoPlan == [mode |-> "none", target |-> Sender, attempts |-> << >>, finals |-> << >>]

TypeOK ==
  /\ \A t \in Tx :
       /\ state[t] \in {"received", "native-built", "broadcast", "confirmed", "retained", "failed"}
       /\ plan[t].mode \in Modes \cup {"none"}
       /\ \A k \in DOMAIN plan[t].attempts : plan[t].attempts[k].caller \in Seq(Nat)
       /\ \A p \in DOMAIN plan[t].finals : plan[t].finals[p] \in Nat \ {0, 1}
  /\ \A p \in DOMAIN counter : counter[p] \in Nat \ {0, 1}
  /\ \A p \in DOMAIN mappings :
       /\ mappings[p].actual \in OnChain
       /\ mappings[p].source \in Tx \cup {0}
       /\ mappings[p].kind \in {"transparent-proxy", "proxy-admin", "other"}
  /\ \A t \in Tx : chain[t].done \in BOOLEAN /\ chain[t].ok \in BOOLEAN
  /\ adopts \in 0..MaxAdopts

Init ==
  /\ state = [t \in Tx |-> "received"]
  /\ plan = [t \in Tx |-> NoPlan]
  /\ counter = << >>
  /\ mappings = << >>
  /\ chain = [t \in Tx |-> Pending]
  /\ adopts = 0

-----------------------------------------------------------------------------
(***************************************************************************)
(* recordPreparedNative: the plan, the record and the reservation of the   *)
(* nonces are one transaction; a refused plan fails the record.            *)
(***************************************************************************)

\* Mutant of Reserve: the counters wait for the receipt.
ReserveNothing(finals) == counter

\* reserveChildCreateCounters.
Reserve(finals) == Over(finals, counter)

Prepare(t) ==
  /\ state[t] = "received"
  /\ \E mode \in Modes, trace \in Traces[t] :
       LET target == IF t \in Deploys THEN Root(t) ELSE ToActual(To[t])
           result == DerivePlan(t, mode, trace, target)
       IN  /\ CanHappen(t, target, trace)
           /\ IF result.refused
                THEN /\ state' = [state EXCEPT ![t] = "failed"]
                     /\ UNCHANGED <<plan, counter>>
                ELSE /\ state' = [state EXCEPT ![t] = "native-built"]
                     /\ plan' = [plan EXCEPT ![t] =
                          [mode |-> mode, target |-> target,
                           attempts |-> result.attempts, finals |-> result.next]]
                     /\ counter' = Reserve(result.next)
  /\ UNCHANGED <<mappings, chain, adopts>>

Broadcast(t) ==
  /\ state[t] = "native-built"
  /\ state' = [state EXCEPT ![t] = "broadcast"]
  /\ UNCHANGED <<plan, counter, mappings, chain, adopts>>

\* The chain executes the native transaction: by then what the simulation saw
\* may have changed.
Execute(t) ==
  /\ state[t] \in {"native-built", "broadcast"}
  /\ ~chain[t].done
  /\ \/ chain' = [chain EXCEPT ![t] = [done |-> TRUE, ok |-> FALSE, trace |-> << >>]]
     \/ \E trace \in Traces[t] :
          /\ CanHappen(t, plan[t].target, trace)
          /\ chain' = [chain EXCEPT ![t] = [done |-> TRUE, ok |-> TRUE, trace |-> trace]]
  /\ UNCHANGED <<state, plan, counter, mappings, adopts>>

-----------------------------------------------------------------------------
(***************************************************************************)
(* reconcile.                                                              *)
(***************************************************************************)
Attempts(t) == plan[t].attempts
Planned(t) == {k \in 1..Len(Attempts(t)) : Attempts(t)[k].ok}

\* The contract that a predicted caller of t stands for, {} when none.
StandsFor(t, p) ==
  IF p = PredictedRoot(t) THEN {plan[t].target}
  ELSE {mappings[q].actual : q \in {p} \cap DOMAIN mappings}

\* The actual address of a planned caller: the creation of an earlier attempt,
\* the target, or what the address map now has.  {} when there is none.
ExpectedCaller(t, k) ==
  LET caller == Attempts(t)[k].caller
      before == {j \in Planned(t) : j < k /\ Attempts(t)[j].predicted = caller}
  IN  IF before # {} THEN {Child(t, j) : j \in before} ELSE StandsFor(t, caller)

\* Mutant of TopologyMatches: the creations are counted, not compared.
TopologyCounted(t) ==
  LET trace == chain[t].trace
  IN  /\ Len(trace) = Len(Attempts(t))
      /\ \A k \in DOMAIN trace : trace[k].ok = Attempts(t)[k].ok

\* assertTopLevelReceipt and the ordered comparison of the internal creations.
\* The addresses of an exact simulation are then those of the receipt.
TopologyMatches(t) ==
  LET trace == chain[t].trace
  IN  /\ Len(trace) = Len(Attempts(t))
      /\ \A k \in DOMAIN trace :
           LET actual == CallerOf(t, plan[t].target, trace[k].by)
           IN  /\ trace[k].ok = Attempts(t)[k].ok
               /\ ExpectedCaller(t, k) = {actual}
               /\ plan[t].mode = "exact" => Attempts(t)[k].actualCaller = actual

Matches(t) == Succeeded(t) /\ TopologyMatches(t)

CountersKept(t) ==
  \A p \in DOMAIN plan[t].finals : Counter(counter, p) >= plan[t].finals[p]

\* What the transaction adds to the address map.
RootMapping(t) ==
  [p \in IF t \in Deploys THEN {PredictedRoot(t)} ELSE {} |->
     [actual |-> plan[t].target, creator |-> Sender, source |-> t,
      kind |-> IF t \in Proxies THEN "transparent-proxy" ELSE "other"]]

ChildMappings(t) ==
  [p \in {Attempts(t)[k].predicted : k \in Planned(t)} |->
     LET k == CHOOSE k \in Planned(t) : Attempts(t)[k].predicted = p
     IN  [actual |-> Child(t, k), creator |-> Attempts(t)[k].caller, source |-> t,
          kind |-> Attempts(t)[k].kind]]

NewMappings(t) == Over(RootMapping(t), ChildMappings(t))

\* Mutant of MappingsFree: the reverse index is not consulted.
MappingsFreeForward(new) == DOMAIN new \cap DOMAIN mappings = {}

\* Mutant of MappingsFree: the forward index is not consulted.
MappingsFreeBackward(new) == \A p \in DOMAIN new : new[p].actual \notin Actuals

\* setMappingInChain: neither address is mapped yet.
MappingsFree(new) ==
  /\ DOMAIN new \cap DOMAIN mappings = {}
  /\ \A p \in DOMAIN new : new[p].actual \notin Actuals

\* The same of the mappings of one transaction, which are set one after another.
Distinct(t) ==
  \A j \in Planned(t) :
    /\ t \in Deploys => Attempts(t)[j].predicted # PredictedRoot(t)
    /\ \A k \in Planned(t) : Attempts(t)[j].predicted = Attempts(t)[k].predicted => j = k

Publishable(t) == CountersKept(t) /\ Distinct(t) /\ MappingsFree(NewMappings(t))

\* All mappings, their metadata and the confirmation, or none.
Reconcile(t) ==
  /\ state[t] = "broadcast"
  /\ Matches(t)
  /\ Publishable(t)
  /\ state' = [state EXCEPT ![t] = "confirmed"]
  /\ mappings' = Over(NewMappings(t), mappings)
  /\ UNCHANGED <<plan, counter, chain, adopts>>

\* Mutant of RetainFailure: the deployed contract itself stays published.
RetainRoot(t) ==
  /\ state[t] = "broadcast"
  /\ chain[t].done
  /\ state' = [state EXCEPT ![t] = "retained"]
  /\ mappings' = IF Succeeded(t) /\ PredictedRoot(t) \notin DOMAIN mappings
                   THEN Over(RootMapping(t), mappings) ELSE mappings
  /\ UNCHANGED <<plan, counter, chain, adopts>>

\* The catch of reconcile: a revert, a mismatch, a conflict, or the store
\* throwing on the write of a success, is a failure that keeps its receipt.
RetainFailure(t) ==
  /\ state[t] = "broadcast"
  /\ chain[t].done
  /\ state' = [state EXCEPT ![t] = "retained"]
  /\ UNCHANGED <<plan, counter, mappings, chain, adopts>>

-----------------------------------------------------------------------------
\* Mutant of ControllerFirst: the order of adoption is not enforced.
ControllerAnyOrder(a) == TRUE

\* A transparent proxy is adopted after its ProxyAdmin.
ControllerFirst(a) ==
  \A t \in Proxies : a = Root(t) => Child(t, 1) \in Actuals

\* The adopt command, between two runs of the adapter: the code at the actual
\* address is verified, what conflicts is refused.
Adopt(p, a) ==
  /\ adopts < MaxAdopts
  /\ a \in OnChain
  /\ ControllerFirst(a)
  /\ LET new == One(p, [actual |-> a, creator |-> Sender, source |-> 0, kind |-> KindOf(a)])
     IN  MappingsFree(new) /\ mappings' = Over(new, mappings)
  /\ adopts' = adopts + 1
  /\ UNCHANGED <<state, plan, counter, chain>>

Next ==
  \/ \E t \in Tx : Prepare(t) \/ Broadcast(t) \/ Execute(t) \/ Reconcile(t) \/ RetainFailure(t)
  \/ \E p \in Adoptable : \E a \in OnChain : Adopt(p, a)

Spec == Init /\ [][Next]_vars

-----------------------------------------------------------------------------
(***************************************************************************)
(* Properties.                                                             *)
(***************************************************************************)

\* No two predicted addresses stand for one contract, whatever was adopted
\* between a preparation and its receipt: requireIndexes would reject the state
\* on every later read (address-map.ts:157-203).
OneToOne ==
  \A p, q \in DOMAIN mappings : mappings[p].actual = mappings[q].actual => p = q

\* An address once served to Forge stands for the same contract for ever
\* (address-map.ts:215-232).
MappingsPermanent ==
  [][\A p \in DOMAIN mappings : p \in DOMAIN mappings' /\ mappings'[p] = mappings[p]]_vars

\* A published child was created, on the chain, by the contract that its
\* predicted creator stands for, and has the kind it is labelled with: the
\* execution may differ from the simulation that was planned from.
MappingsTrue ==
  \A p \in DOMAIN mappings : mappings[p].source # 0 =>
    LET t == mappings[p].source
        m == mappings[p]
    IN  \/ m.creator = Sender /\ m.actual = Root(t) /\ Succeeded(t)
        \/ \E k \in Created(t) :
             /\ m.actual = Child(t, k)
             /\ LET actual == CallerOf(t, plan[t].target, chain[t].trace[k].by)
                IN  \/ m.creator = PredictedRoot(t) /\ actual = plan[t].target
                    \/ m.creator \in DOMAIN mappings /\ actual = mappings[m.creator].actual

\* A transaction publishes all that it created or, when it failed, nothing
\* (create-reconciler.ts:655-786).
WholeOrNothing ==
  \A t \in Tx :
    {mappings[p].actual : p \in {q \in DOMAIN mappings : mappings[q].source = t}} =
      IF state[t] # "confirmed" THEN {}
      ELSE {Child(t, k) : k \in Created(t)} \cup (IF t \in Deploys THEN {Root(t)} ELSE {})

\* Whoever can reach a mapped transparent proxy can reach its ProxyAdmin, its
\* code could not be projected otherwise; and a mapping is labelled as a
\* ProxyAdmin where it is that of a transparent proxy, and nowhere else, however
\* the proxy came to be known (cli.ts:866-882, create-reconciler.ts:144-170).
ControllerMapped ==
  /\ \A t \in Proxies : Root(t) \in Actuals => Child(t, 1) \in Actuals
  /\ \A p \in DOMAIN mappings :
       mappings[p].kind = "proxy-admin" <=> \E t \in Proxies : mappings[p].actual = Child(t, 1)

\* The preparations that are out at one time reserve distinct addresses and
\* keep each other's counters: only an adoption can make a receipt that matches
\* its plan unpublishable, after the money is spent (create-reconciler.ts:446).
OnlyAdoptionConflicts ==
  \A t \in Tx : state[t] = "broadcast" /\ Matches(t) =>
    /\ CountersKept(t) /\ Distinct(t)
    /\ \A p \in DOMAIN NewMappings(t) : p \in DOMAIN mappings => mappings[p].source = 0
    /\ \A p \in DOMAIN NewMappings(t), q \in DOMAIN mappings :
         mappings[q].actual = NewMappings(t)[p].actual => mappings[q].source = 0

=============================================================================
