----------------------- MODULE CreateReconcilerProofs -----------------------
(***************************************************************************)
(* What holds of the address map for every set of transactions, every      *)
(* trace of creations and any number of adoptions.                         *)
(***************************************************************************)
EXTENDS CreateReconciler, WellFoundedInduction, TLAPS

PreparedStates == {"native-built", "broadcast", "confirmed"}

\* What is broadcast has its plan, with the deployed contract for target.
RecordShape ==
  /\ state \in [Tx -> {"received", "native-built", "broadcast", "confirmed", "retained", "failed"}]
  /\ DOMAIN plan = Tx
  /\ \A t \in Deploys : state[t] \in PreparedStates => plan[t].target = Root(t)

ChainShape == chain \in [Tx -> [done : BOOLEAN, ok : BOOLEAN, trace : Seq([by : Int, ok : BOOLEAN])]]

\* What a confirmed record published, the chain has executed for good.
ConfirmedDone == \A t \in Tx : state[t] = "confirmed" => Succeeded(t)

Sources == \A p \in DOMAIN mappings : mappings[p].source \in Tx \cup {0}

IInv ==
  /\ RecordShape
  /\ ChainShape
  /\ ConfirmedDone
  /\ Sources
  /\ OneToOne
  /\ WholeOrNothing
  /\ MappingsTrue

-----------------------------------------------------------------------------
(***************************************************************************)
(* The steps that touch the address map, on their own.                     *)
(***************************************************************************)

\* What MappingsTrue says of one mapping.
ExplainedChild(p, k) ==
  LET u == mappings[p].source
      m == mappings[p]
      actual == CallerOf(u, plan[u].target, chain[u].trace[k].by)
  IN  /\ m.actual = Child(u, k)
      /\ \/ m.creator = PredictedRoot(u) /\ actual = plan[u].target
         \/ m.creator \in DOMAIN mappings /\ actual = mappings[m.creator].actual

Explained(p) ==
  LET u == mappings[p].source
  IN  \/ /\ mappings[p].creator = Sender
         /\ mappings[p].actual = Root(u)
         /\ Succeeded(u)
      \/ \E k \in Created(u) : ExplainedChild(p, k)

\* A mapping stays true while the other mappings, its transaction's plan and
\* what the chain made of that transaction stay.
LEMMA ExplainedStays ==
  ASSUME NEW p \in DOMAIN mappings, Explained(p),
         DOMAIN mappings \subseteq DOMAIN mappings',
         \A q \in DOMAIN mappings : mappings'[q] = mappings[q],
         plan'[mappings[p].source] = plan[mappings[p].source],
         chain'[mappings[p].source] = chain[mappings[p].source]
  PROVE  Explained(p)'
<1> DEFINE u == mappings[p].source
           m == mappings[p]
<1>1. u = mappings'[p].source /\ m = mappings'[p] /\ plan'[u] = plan[u] /\ chain'[u] = chain[u]
  OBVIOUS
<1>2. Created(u)' = Created(u) /\ (Succeeded(u)' <=> Succeeded(u))
  BY <1>1 DEF Created, Succeeded
<1>3. CASE m.creator = Sender /\ m.actual = Root(u) /\ Succeeded(u)
  BY <1>1, <1>2, <1>3 DEF Explained, Root, Sender
<1>4. CASE \E k \in Created(u) : ExplainedChild(p, k)
  <2>1. PICK k \in Created(u) : ExplainedChild(p, k)
    BY <1>4
  <2> DEFINE actual == CallerOf(u, plan[u].target, chain[u].trace[k].by)
  <2>2. CallerOf(u, plan'[u].target, chain'[u].trace[k].by) = actual
    BY <1>1
  <2>3. /\ m.actual = Child(u, k)
        /\ \/ m.creator = PredictedRoot(u) /\ actual = plan'[u].target
           \/ m.creator \in DOMAIN mappings' /\ actual = mappings'[m.creator].actual
    BY <1>1, <2>1 DEF ExplainedChild
  <2>4. k \in Created(u)'
    BY <1>2, <2>1
  <2> HIDE DEF u, m, actual
  <2>5. ExplainedChild(p, k)'
    BY <1>1, <2>2, <2>3 DEF ExplainedChild, CallerOf, Child, Root, PredictedRoot, Foreign
  <2> QED
    BY <2>4, <2>5 DEF Explained, u
<1> QED
  BY <1>3, <1>4 DEF Explained

\* What one transaction adds is one-to-one: a child is not the contract
\* deployed, and two children differ.
LEMMA NewMappingsOneToOne ==
  ASSUME NEW t \in Tx, RecordShape, state[t] = "broadcast"
  PROVE  \A p, q \in DOMAIN NewMappings(t) :
           NewMappings(t)[p].actual = NewMappings(t)[q].actual => p = q
<1>1. ASSUME NEW p \in DOMAIN NewMappings(t)
      PROVE  \/ /\ t \in Deploys /\ p = PredictedRoot(t)
                /\ NewMappings(t)[p].actual = Root(t)
             \/ \E k \in Planned(t) : /\ p = Attempts(t)[k].predicted
                                      /\ NewMappings(t)[p].actual = Child(t, k)
  <2>1. CASE t \in Deploys /\ p = PredictedRoot(t)
    <3>1. p \in DOMAIN RootMapping(t) /\ RootMapping(t)[p].actual = plan[t].target
      BY <2>1 DEF RootMapping
    <3>2. plan[t].target = Root(t)
      BY <2>1 DEF RecordShape, PreparedStates
    <3>3. NewMappings(t)[p] = RootMapping(t)[p]
      BY <3>1 DEF NewMappings, Over
    <3> QED
      BY <2>1, <3>1, <3>2, <3>3
  <2>2. CASE ~(t \in Deploys /\ p = PredictedRoot(t))
    <3>1. p \notin DOMAIN RootMapping(t)
      BY <2>2 DEF RootMapping
    <3>2. p \in DOMAIN ChildMappings(t) /\ NewMappings(t)[p] = ChildMappings(t)[p]
      BY <3>1 DEF NewMappings, Over
    <3>3. p \in {Attempts(t)[k].predicted : k \in Planned(t)}
      BY <3>2 DEF ChildMappings
    <3>4. PICK k \in Planned(t) : k = CHOOSE j \in Planned(t) : Attempts(t)[j].predicted = p
      BY <3>3
    <3>5. Attempts(t)[k].predicted = p
      BY <3>3, <3>4
    <3>6. ChildMappings(t)[p].actual = Child(t, k)
      BY <3>3, <3>4 DEF ChildMappings
    <3> QED
      BY <3>2, <3>5, <3>6
  <2> QED
    BY <2>1, <2>2
<1>2. \A k \in Planned(t) : k # 0
  BY DEF Planned
<1> QED
  BY <1>1, <1>2 DEF Root, Child

\* Only confirmed transactions have published anything.
LEMMA SourceConfirmed ==
  ASSUME WholeOrNothing, NEW p \in DOMAIN mappings, mappings[p].source \in Tx
  PROVE  state[mappings[p].source] = "confirmed"
  BY DEF WholeOrNothing

\* The contracts that a transaction has published do not change while the
\* confirmed records, what the chain made of them and the mappings stay.
LEMMA UnpublishedStep ==
  ASSUME IInv, NEW t \in Tx, RecordShape', ChainShape',
         state[t] # "confirmed", state'[t] # "confirmed",
         \A u \in Tx \ {t} : state'[u] = state[u] /\ plan'[u] = plan[u] /\ chain'[u] = chain[u],
         mappings' = mappings
  PROVE  IInv'
<1>1. ConfirmedDone'
  BY DEF IInv, ConfirmedDone, Succeeded
<1>2. Sources' /\ OneToOne'
  BY DEF IInv, Sources, OneToOne
<1>3. WholeOrNothing'
  <2> SUFFICES ASSUME NEW u \in Tx
               PROVE  ({mappings[p].actual : p \in {q \in DOMAIN mappings : mappings[q].source = u}} =
                        IF state[u] # "confirmed" THEN {}
                        ELSE {Child(u, k) : k \in Created(u)}
                             \cup (IF u \in Deploys THEN {Root(u)} ELSE {}))'
    BY DEF WholeOrNothing
  <2>1. CASE u = t
    BY <2>1 DEF IInv, WholeOrNothing
  <2>2. CASE u # t
    <3>1. state'[u] = state[u] /\ plan'[u] = plan[u] /\ chain'[u] = chain[u] /\ mappings' = mappings
      BY <2>2
    <3>2. Created(u)' = Created(u)
      BY <3>1 DEF Created, Succeeded
    <3> QED
      BY <3>1, <3>2 DEF IInv, WholeOrNothing, Child, Root
  <2> QED
    BY <2>1, <2>2
<1>4. MappingsTrue'
  <2> SUFFICES ASSUME NEW p \in DOMAIN mappings, mappings[p].source # 0
               PROVE  Explained(p)'
    BY DEF MappingsTrue, Explained, ExplainedChild
  <2> DEFINE u == mappings[p].source
  <2>1. u \in Tx
    BY DEF IInv, Sources
  <2>2. u # t
    BY <2>1, SourceConfirmed DEF IInv
  <2>3. plan'[u] = plan[u] /\ chain'[u] = chain[u]
    BY <2>1, <2>2
  <2>4. Explained(p)
    BY DEF IInv, MappingsTrue, Explained, ExplainedChild
  <2> QED
    BY <2>3, <2>4, ExplainedStays
<1> QED
  BY <1>1, <1>2, <1>3, <1>4 DEF IInv

\* Mappings that are free and one-to-one extend the address map: what it had
\* stays, and it stays one-to-one.
LEMMA Extend ==
  ASSUME NEW new, MappingsFree(new), mappings' = Over(new, mappings), OneToOne,
         \A p, q \in DOMAIN new : new[p].actual = new[q].actual => p = q
  PROVE  /\ DOMAIN mappings' = DOMAIN new \cup DOMAIN mappings
         /\ \A p \in DOMAIN mappings : mappings'[p] = mappings[p]
         /\ \A p \in DOMAIN new : mappings'[p] = new[p]
         /\ OneToOne'
<1>1. /\ DOMAIN mappings' = DOMAIN new \cup DOMAIN mappings
      /\ \A p \in DOMAIN mappings : mappings'[p] = mappings[p]
      /\ \A p \in DOMAIN new : mappings'[p] = new[p]
  BY DEF Over, MappingsFree
<1>2. \A p \in DOMAIN new, q \in DOMAIN mappings : new[p].actual # mappings[q].actual
  BY DEF MappingsFree, Actuals
<1>3. OneToOne'
  BY <1>1, <1>2 DEF OneToOne
<1> QED
  BY <1>1, <1>3

\* An adoption publishes for no transaction.
LEMMA AdoptStep ==
  ASSUME IInv, NEW p, NEW a, Adopt(p, a)
  PROVE  IInv'
<1> DEFINE new == One(p, [actual |-> a, creator |-> Sender, source |-> 0, kind |-> KindOf(a)])
<1>1. MappingsFree(new) /\ mappings' = Over(new, mappings)
  BY DEF Adopt
<1>2. UNCHANGED <<state, plan, chain>>
  BY DEF Adopt
<1>3. DOMAIN new = {p} /\ new[p].source = 0
  BY DEF One
<1> HIDE DEF new
<1>4. /\ DOMAIN mappings' = {p} \cup DOMAIN mappings
      /\ \A q \in DOMAIN mappings : mappings'[q] = mappings[q]
      /\ mappings'[p] = new[p]
      /\ OneToOne'
  BY <1>1, <1>3, Extend DEF IInv
<1>5. RecordShape' /\ ChainShape' /\ ConfirmedDone' /\ Sources'
  BY <1>2, <1>3, <1>4 DEF IInv, RecordShape, ChainShape, ConfirmedDone, Sources, Succeeded, Root
<1>6. \A q \in DOMAIN mappings' : mappings'[q].source # 0 =>
         q \in DOMAIN mappings /\ mappings'[q] = mappings[q]
  BY <1>3, <1>4
<1>7. WholeOrNothing'
  <2> SUFFICES ASSUME NEW t \in Tx
               PROVE  ({mappings[q].actual : q \in {r \in DOMAIN mappings : mappings[r].source = t}} =
                        IF state[t] # "confirmed" THEN {}
                        ELSE {Child(t, k) : k \in Created(t)}
                             \cup (IF t \in Deploys THEN {Root(t)} ELSE {}))'
    BY DEF WholeOrNothing
  <2>1. t # 0
    BY ReconcilerAssumption
  <2>2. {r \in DOMAIN mappings' : mappings'[r].source = t} = {r \in DOMAIN mappings : mappings[r].source = t}
    BY <1>4, <1>6, <2>1
  <2>3. {mappings'[q].actual : q \in {r \in DOMAIN mappings' : mappings'[r].source = t}}
          = {mappings[q].actual : q \in {r \in DOMAIN mappings : mappings[r].source = t}}
    BY <1>4, <2>2
  <2>4. Created(t)' = Created(t)
    BY <1>2 DEF Created, Succeeded
  <2> QED
    BY <1>2, <2>3, <2>4 DEF IInv, WholeOrNothing, Child, Root
<1>8. MappingsTrue'
  <2> SUFFICES ASSUME NEW q \in DOMAIN mappings', mappings'[q].source # 0
               PROVE  Explained(q)'
    BY DEF MappingsTrue, Explained, ExplainedChild
  <2>1. q \in DOMAIN mappings /\ mappings'[q] = mappings[q]
    BY <1>6
  <2>2. Explained(q)
    BY <2>1 DEF IInv, MappingsTrue, Explained, ExplainedChild
  <2> QED
    BY <1>2, <1>4, <2>1, <2>2, ExplainedStays
<1> QED
  BY <1>4, <1>5, <1>7, <1>8 DEF IInv

\* A confirmation publishes exactly what the chain created, under callers that
\* the receipt bears out.
LEMMA ReconcileStep ==
  ASSUME IInv, NEW t \in Tx, Reconcile(t)
  PROVE  IInv'
<1> DEFINE new == NewMappings(t)
<1>1. /\ state[t] = "broadcast" /\ Succeeded(t) /\ TopologyMatches(t)
      /\ Distinct(t) /\ MappingsFree(new)
      /\ mappings' = Over(new, mappings) /\ chain' = chain
      /\ state' = [state EXCEPT ![t] = "confirmed"] /\ plan' = plan
  BY DEF Reconcile, Matches, Publishable
<1>2. /\ state'[t] = "confirmed"
      /\ \A u \in Tx \ {t} : state'[u] = state[u]
      /\ RecordShape'
  BY <1>1 DEF IInv, RecordShape, PreparedStates, Root
<1>3. ChainShape' /\ ConfirmedDone'
  BY <1>1, <1>2 DEF IInv, ChainShape, ConfirmedDone, Succeeded
<1>4. /\ DOMAIN mappings' = DOMAIN new \cup DOMAIN mappings
      /\ \A p \in DOMAIN mappings : mappings'[p] = mappings[p]
      /\ \A p \in DOMAIN new : mappings'[p] = new[p]
      /\ OneToOne'
  BY <1>1, NewMappingsOneToOne, Extend DEF IInv
\* The attempts that were planned to succeed are those that did.
<1>5. Planned(t) = Created(t)
  <2>1. chain[t].trace \in Seq([by : Int, ok : BOOLEAN])
    BY DEF IInv, ChainShape
  <2>2. DOMAIN chain[t].trace = 1..Len(Attempts(t))
    BY <1>1, <2>1 DEF TopologyMatches
  <2>3. \A k \in DOMAIN chain[t].trace : chain[t].trace[k].ok = Attempts(t)[k].ok
    BY <1>1 DEF TopologyMatches
  <2> QED
    BY <1>1, <2>2, <2>3 DEF Planned, Created
\* What is published, as the chain sees it.
<1>6. /\ \A k \in Planned(t) :
           /\ Attempts(t)[k].predicted \in DOMAIN new
           /\ new[Attempts(t)[k].predicted].actual = Child(t, k)
           /\ new[Attempts(t)[k].predicted].creator = Attempts(t)[k].caller
      /\ t \in Deploys => /\ PredictedRoot(t) \in DOMAIN new
                          /\ new[PredictedRoot(t)].actual = Root(t)
                          /\ new[PredictedRoot(t)].creator = Sender
      /\ \A p \in DOMAIN new : new[p].source = t
      /\ \A p \in DOMAIN new : \/ t \in Deploys /\ p = PredictedRoot(t)
                               \/ \E k \in Planned(t) : p = Attempts(t)[k].predicted
  <2>1. \A p : p \in DOMAIN RootMapping(t) <=> t \in Deploys /\ p = PredictedRoot(t)
    BY DEF RootMapping
  <2>2. DOMAIN ChildMappings(t) = {Attempts(t)[k].predicted : k \in Planned(t)}
    BY DEF ChildMappings
  <2>3. DOMAIN new = DOMAIN RootMapping(t) \cup DOMAIN ChildMappings(t)
    BY DEF NewMappings, Over
  <2>4. ASSUME NEW k \in Planned(t)
        PROVE  /\ new[Attempts(t)[k].predicted].actual = Child(t, k)
               /\ new[Attempts(t)[k].predicted].creator = Attempts(t)[k].caller
               /\ new[Attempts(t)[k].predicted].source = t
    <3> DEFINE q == Attempts(t)[k].predicted
    <3>1. q \notin DOMAIN RootMapping(t)
      BY <1>1, <2>1 DEF Distinct
    <3>2. q \in DOMAIN ChildMappings(t)
      BY <2>2
    <3>3. k = CHOOSE j \in Planned(t) : Attempts(t)[j].predicted = q
      BY <1>1 DEF Distinct
    <3>4. new[q] = ChildMappings(t)[q]
      BY <3>1, <3>2 DEF NewMappings, Over
    <3>5. ChildMappings(t)[q].actual = Child(t, k)
      BY <2>2, <3>2, <3>3 DEF ChildMappings
    <3>6. ChildMappings(t)[q].creator = Attempts(t)[k].caller
      BY <2>2, <3>2, <3>3 DEF ChildMappings
    <3>7. ChildMappings(t)[q].source = t
      BY <2>2, <3>2, <3>3 DEF ChildMappings
    <3> QED
      BY <3>4, <3>5, <3>6, <3>7
  <2>5. t \in Deploys => /\ new[PredictedRoot(t)].actual = Root(t)
                         /\ new[PredictedRoot(t)].creator = Sender
                         /\ new[PredictedRoot(t)].source = t
    <3> SUFFICES ASSUME t \in Deploys
                 PROVE  /\ new[PredictedRoot(t)].actual = Root(t)
                        /\ new[PredictedRoot(t)].creator = Sender
                        /\ new[PredictedRoot(t)].source = t
      OBVIOUS
    <3>1. new[PredictedRoot(t)] = RootMapping(t)[PredictedRoot(t)]
      BY <2>1 DEF NewMappings, Over
    <3>2. plan[t].target = Root(t)
      BY <1>1 DEF IInv, RecordShape, PreparedStates
    <3> QED
      BY <3>1, <3>2 DEF RootMapping
  <2> QED
    BY <2>1, <2>2, <2>3, <2>4, <2>5
<1> HIDE DEF new
<1>7. Sources'
  BY <1>4, <1>6 DEF IInv, Sources
<1>8. WholeOrNothing'
  <2> SUFFICES ASSUME NEW u \in Tx
               PROVE  ({mappings[p].actual : p \in {q \in DOMAIN mappings : mappings[q].source = u}} =
                        IF state[u] # "confirmed" THEN {}
                        ELSE {Child(u, k) : k \in Created(u)}
                             \cup (IF u \in Deploys THEN {Root(u)} ELSE {}))'
    BY DEF WholeOrNothing
  <2>1. Created(u)' = Created(u)
    BY <1>1 DEF Created, Succeeded
  <2>2. CASE u # t
    <3>1. {q \in DOMAIN mappings' : mappings'[q].source = u} = {q \in DOMAIN mappings : mappings[q].source = u}
      BY <1>4, <1>6, <2>2
    <3>2. {mappings'[p].actual : p \in {q \in DOMAIN mappings' : mappings'[q].source = u}}
            = {mappings[p].actual : p \in {q \in DOMAIN mappings : mappings[q].source = u}}
      BY <1>4, <3>1
    <3> QED
      BY <1>2, <2>1, <2>2, <3>2 DEF IInv, WholeOrNothing, Child, Root
  <2>3. CASE u = t
    <3>1. \A q \in DOMAIN mappings : mappings[q].source # t
      BY <1>1, SourceConfirmed DEF IInv
    <3>2. {q \in DOMAIN mappings' : mappings'[q].source = t} = DOMAIN new
      <4>1. \A q \in DOMAIN mappings' : mappings'[q].source = t => q \in DOMAIN new
        BY <1>4, <3>1
      <4>2. \A q \in DOMAIN new : q \in DOMAIN mappings' /\ mappings'[q].source = t
        BY <1>4, <1>6
      <4> QED
        BY <4>1, <4>2
    <3>3. {mappings'[p].actual : p \in DOMAIN new} = {new[p].actual : p \in DOMAIN new}
      BY <1>4
    <3>4. {new[p].actual : p \in DOMAIN new} =
            {Child(t, k) : k \in Planned(t)} \cup (IF t \in Deploys THEN {Root(t)} ELSE {})
      BY <1>6
    <3>5. {Child(t, k) : k \in Planned(t)} = {Child(t, k) : k \in Created(t)'}
      BY <1>5, <2>1, <2>3
    <3>6. {mappings'[p].actual : p \in {q \in DOMAIN mappings' : mappings'[q].source = t}} =
            {Child(t, k) : k \in Created(t)'} \cup (IF t \in Deploys THEN {Root(t)} ELSE {})
      BY <3>2, <3>3, <3>4, <3>5
    <3> QED
      BY <1>2, <2>3, <3>6 DEF Child, Root
  <2> QED
    BY <2>2, <2>3
<1>9. MappingsTrue'
  <2> SUFFICES ASSUME NEW p \in DOMAIN mappings', mappings'[p].source # 0
               PROVE  Explained(p)'
    BY DEF MappingsTrue, Explained, ExplainedChild
  <2>1. \A u : Created(u)' = Created(u) /\ (Succeeded(u)' <=> Succeeded(u))
    BY <1>1 DEF Created, Succeeded
  <2>2. CASE p \in DOMAIN mappings
    <3>1. mappings'[p] = mappings[p]
      BY <1>4, <2>2
    <3>2. Explained(p)
      BY <2>2, <3>1 DEF IInv, MappingsTrue, Explained, ExplainedChild
    <3> QED
      BY <1>1, <1>4, <2>2, <3>2, ExplainedStays
  <2>3. CASE p \in DOMAIN new /\ t \in Deploys /\ p = PredictedRoot(t)
    BY <1>1, <1>4, <1>6, <2>1, <2>3 DEF Explained, Root, Sender
  <2>4. CASE p \in DOMAIN new /\ \E k \in Planned(t) : p = Attempts(t)[k].predicted
    <3>1. PICK k \in Planned(t) : p = Attempts(t)[k].predicted
      BY <2>4
    <3> DEFINE caller == Attempts(t)[k].caller
               actual == CallerOf(t, plan[t].target, chain[t].trace[k].by)
    <3>2. mappings'[p].source = t /\ mappings'[p].actual = Child(t, k) /\ mappings'[p].creator = caller
      BY <1>4, <1>6, <2>4, <3>1
    <3>3. ExpectedCaller(t, k) = {actual}
      BY <1>1, <1>5, <3>1 DEF TopologyMatches, Created
    <3>4. \/ caller = PredictedRoot(t) /\ actual = plan[t].target
          \/ caller \in DOMAIN mappings' /\ actual = mappings'[caller].actual
      <4>1. CASE \E j \in Planned(t) : j < k /\ Attempts(t)[j].predicted = caller
        <5>1. PICK j \in Planned(t) : j < k /\ Attempts(t)[j].predicted = caller
          BY <4>1
        <5>2. actual = Child(t, j)
          BY <3>3, <5>1 DEF ExpectedCaller
        <5> QED
          BY <1>4, <1>6, <5>1, <5>2
      <4>2. CASE ~\E j \in Planned(t) : j < k /\ Attempts(t)[j].predicted = caller
        <5>1. StandsFor(t, caller) = {actual}
          BY <3>3, <4>2 DEF ExpectedCaller
        <5> QED
          BY <1>4, <5>1 DEF StandsFor
      <4> QED
        BY <4>1, <4>2
    <3>5. CallerOf(t, plan'[t].target, chain'[t].trace[k].by) = actual
      BY <1>1, <1>2
    <3> HIDE DEF caller, actual
    <3>6. k \in Created(t)'
      BY <1>5, <2>1, <3>1
    <3>7. plan'[t].target = plan[t].target
      BY <1>1
    <3>8. ExplainedChild(p, k)'
      BY <3>2, <3>4, <3>5, <3>7 DEF ExplainedChild, CallerOf, Child, Root, PredictedRoot, Foreign
    <3> QED
      BY <3>2, <3>6, <3>8 DEF Explained
  <2> QED
    BY <1>4, <1>6, <2>2, <2>3, <2>4
<1> QED
  BY <1>2, <1>3, <1>4, <1>7, <1>8, <1>9 DEF IInv

-----------------------------------------------------------------------------
\* An empty address map satisfies the invariant.
LEMMA InitIInv == Init => IInv
<1> SUFFICES ASSUME Init PROVE IInv
  OBVIOUS
<1>1. DOMAIN mappings = {}
  BY DEF Init
<1>2. RecordShape
  <2>1. Deploys \subseteq Tx
    BY ReconcilerAssumption
  <2> QED
    BY <2>1 DEF Init, RecordShape, PreparedStates
<1>3. ChainShape
  <2>1. << >> \in Seq([by : Int, ok : BOOLEAN])
    OBVIOUS
  <2> QED
    BY <2>1 DEF Init, ChainShape, Pending
<1>4. ConfirmedDone
  BY DEF Init, ConfirmedDone
<1>5. Sources /\ OneToOne /\ MappingsTrue
  BY <1>1 DEF Sources, OneToOne, MappingsTrue
<1>6. WholeOrNothing
  BY <1>1 DEF Init, WholeOrNothing
<1> QED
  BY <1>2, <1>3, <1>4, <1>5, <1>6 DEF IInv

\* A step that changes the state of t alone, and leaves it unconfirmed.
LEMMA StateStep ==
  ASSUME IInv, NEW t \in Tx, NEW s \in {"broadcast", "retained", "failed"},
         state' = [state EXCEPT ![t] = s], UNCHANGED <<plan, mappings, chain>>,
         s = "broadcast" => state[t] = "native-built",
         state[t] # "confirmed"
  PROVE  IInv'
<1>1. state'[t] = s /\ \A u \in Tx \ {t} : state'[u] = state[u]
  BY DEF IInv, RecordShape
<1>2. RecordShape' /\ ChainShape'
  BY <1>1 DEF IInv, RecordShape, ChainShape, PreparedStates, Root
<1> QED
  BY <1>1, <1>2, UnpublishedStep

LEMMA PrepareStep ==
  ASSUME IInv, NEW t \in Tx, Prepare(t)
  PROVE  IInv'
<1>1. state[t] = "received" /\ UNCHANGED <<mappings, chain>>
  BY DEF Prepare
<1>2. PICK mode \in Modes, trace \in Traces[t] :
        LET target == IF t \in Deploys THEN Root(t) ELSE ToActual(To[t])
            result == DerivePlan(t, mode, trace, target)
        IN  \/ state' = [state EXCEPT ![t] = "failed"] /\ plan' = plan
            \/ /\ state' = [state EXCEPT ![t] = "native-built"]
               /\ plan' = [plan EXCEPT ![t] = [mode |-> mode, target |-> target,
                                               attempts |-> result.attempts,
                                               finals |-> result.next]]
  BY DEF Prepare
<1> DEFINE target == IF t \in Deploys THEN Root(t) ELSE ToActual(To[t])
           result == DerivePlan(t, mode, trace, target)
<1>3. CASE state' = [state EXCEPT ![t] = "failed"] /\ plan' = plan
  BY <1>1, <1>3, StateStep
<1>4. CASE /\ state' = [state EXCEPT ![t] = "native-built"]
           /\ plan' = [plan EXCEPT ![t] = [mode |-> mode, target |-> target,
                                           attempts |-> result.attempts,
                                           finals |-> result.next]]
  <2>1. t \in Deploys => target = Root(t)
    OBVIOUS
  <2> HIDE DEF target, result
  <2>2. /\ DOMAIN plan' = Tx /\ plan'[t].target = target
        /\ \A u \in Tx \ {t} : plan'[u] = plan[u]
    BY <1>4 DEF IInv, RecordShape
  <2>3. state'[t] = "native-built" /\ \A u \in Tx \ {t} : state'[u] = state[u]
    BY <1>4 DEF IInv, RecordShape
  <2>4. Deploys \subseteq Tx
    BY ReconcilerAssumption
  <2>5. RecordShape' /\ ChainShape'
    BY <1>1, <1>4, <2>1, <2>2, <2>3, <2>4 DEF IInv, RecordShape, ChainShape, PreparedStates, Root
  <2> QED
    BY <1>1, <2>2, <2>3, <2>5, UnpublishedStep
<1> QED
  BY <1>2, <1>3, <1>4

\* The chain executes what is not confirmed yet.
LEMMA ExecuteStep ==
  ASSUME IInv, NEW t \in Tx, Execute(t)
  PROVE  IInv'
<1>1. /\ state[t] \in {"native-built", "broadcast"}
      /\ UNCHANGED <<state, plan, mappings>>
      /\ \E o \in BOOLEAN, trace \in Traces[t] \cup {<< >>} :
           chain' = [chain EXCEPT ![t] = [done |-> TRUE, ok |-> o, trace |-> trace]]
  BY DEF Execute
<1>2. Traces[t] \cup {<< >>} \subseteq Seq([by : Int, ok : BOOLEAN])
  <2>1. << >> \in Seq([by : Int, ok : BOOLEAN])
    OBVIOUS
  <2> QED
    BY <2>1, ReconcilerAssumption
<1>3. ChainShape' /\ \A u \in Tx \ {t} : chain'[u] = chain[u]
  BY <1>1, <1>2 DEF IInv, ChainShape
<1>4. RecordShape'
  BY <1>1 DEF IInv, RecordShape, Root
<1> QED
  BY <1>1, <1>3, <1>4, UnpublishedStep

\* Every step keeps the invariant.
LEMMA NextIInv == IInv /\ [Next]_vars => IInv'
<1> SUFFICES ASSUME IInv, [Next]_vars PROVE IInv'
  OBVIOUS
<1>1. ASSUME NEW t \in Tx, Prepare(t) PROVE IInv'
  BY <1>1, PrepareStep
<1>2. ASSUME NEW t \in Tx, Broadcast(t) PROVE IInv'
  BY <1>2, StateStep DEF Broadcast, PreparedStates
<1>3. ASSUME NEW t \in Tx, Execute(t) PROVE IInv'
  BY <1>3, ExecuteStep
<1>4. ASSUME NEW t \in Tx, Reconcile(t) PROVE IInv'
  BY <1>4, ReconcileStep
<1>5. ASSUME NEW t \in Tx, RetainFailure(t) PROVE IInv'
  BY <1>5, StateStep DEF RetainFailure, PreparedStates
<1>6. ASSUME NEW p, NEW a, Adopt(p, a) PROVE IInv'
  BY <1>6, AdoptStep
<1>7. CASE UNCHANGED vars
  <2>1. state' = state /\ plan' = plan /\ mappings' = mappings /\ chain' = chain
    BY <1>7 DEF vars
  <2>2. RecordShape' /\ ChainShape' /\ ConfirmedDone' /\ Sources' /\ OneToOne'
    BY <2>1 DEF IInv, RecordShape, ChainShape, ConfirmedDone, Sources, OneToOne, Succeeded, Root
  <2>3. WholeOrNothing'
    BY <2>1 DEF IInv, WholeOrNothing, Created, Succeeded, Child, Root
  <2>4. MappingsTrue'
    <3> SUFFICES ASSUME NEW p \in DOMAIN mappings, mappings[p].source # 0
                 PROVE  Explained(p)'
      BY <2>1 DEF MappingsTrue, Explained, ExplainedChild
    <3>1. Explained(p)
      BY DEF IInv, MappingsTrue, Explained, ExplainedChild
    <3> QED
      BY <2>1, <3>1, ExplainedStays
  <2> QED
    BY <2>2, <2>3, <2>4 DEF IInv
<1> QED
  BY <1>1, <1>2, <1>3, <1>4, <1>5, <1>6, <1>7 DEF Next

\* The invariant that the theorems below are parts of.
THEOREM Invariance == Spec => []IInv
<1> QED
  BY InitIInv, NextIInv, PTL DEF Spec

-----------------------------------------------------------------------------
(***************************************************************************)
(* The theorems.                                                           *)
(***************************************************************************)

\* The address map is one-to-one in every reachable state, whatever is adopted
\* between a preparation and its receipt (setMappingInChain, requireIndexes).
THEOREM AddressesOneToOne == Spec => []OneToOne
<1>1. IInv => OneToOne
  BY DEF IInv
<1> QED
  BY <1>1, Invariance, PTL

\* A transaction publishes all that it created or nothing (reconcile).
THEOREM PublishedWhole == Spec => []WholeOrNothing
<1>1. IInv => WholeOrNothing
  BY DEF IInv
<1> QED
  BY <1>1, Invariance, PTL

\* What is published was created on the chain, by the contract that its creator
\* stands for (the ordered comparison of reconcile).
THEOREM PublishedTrue == Spec => []MappingsTrue
<1>1. IInv => MappingsTrue
  BY DEF IInv
<1> QED
  BY <1>1, Invariance, PTL

\* No step changes or removes a mapping (setMappingInChain).
THEOREM AddressesPermanent == Spec => MappingsPermanent
<1>1. IInv /\ [Next]_vars =>
        [\A p \in DOMAIN mappings : p \in DOMAIN mappings' /\ mappings'[p] = mappings[p]]_vars
  <2> SUFFICES ASSUME IInv, [Next]_vars
               PROVE  \A p \in DOMAIN mappings : p \in DOMAIN mappings' /\ mappings'[p] = mappings[p]
    OBVIOUS
  <2>1. CASE mappings' = mappings
    BY <2>1
  <2>2. ASSUME NEW t \in Tx, Reconcile(t)
        PROVE  \A p \in DOMAIN mappings : p \in DOMAIN mappings' /\ mappings'[p] = mappings[p]
    <3>1. MappingsFree(NewMappings(t)) /\ mappings' = Over(NewMappings(t), mappings)
      BY <2>2 DEF Reconcile, Publishable
    <3> QED
      BY <3>1 DEF Over, MappingsFree
  <2>3. ASSUME NEW p \in Adoptable, NEW a \in OnChain, Adopt(p, a)
        PROVE  \A q \in DOMAIN mappings : q \in DOMAIN mappings' /\ mappings'[q] = mappings[q]
    <3> DEFINE new == One(p, [actual |-> a, creator |-> Sender, source |-> 0, kind |-> KindOf(a)])
    <3>1. MappingsFree(new) /\ mappings' = Over(new, mappings)
      BY <2>3 DEF Adopt
    <3> HIDE DEF new
    <3> QED
      BY <3>1 DEF Over, MappingsFree
  <2>4. ASSUME NEW t \in Tx, Prepare(t) \/ Broadcast(t) \/ Execute(t) \/ RetainFailure(t)
        PROVE  mappings' = mappings
    BY <2>4 DEF Prepare, Broadcast, Execute, RetainFailure
  <2>5. UNCHANGED vars => mappings' = mappings
    BY DEF vars
  <2> QED
    BY <2>1, <2>2, <2>3, <2>4, <2>5 DEF Next
<1> QED
  BY <1>1, Invariance, PTL DEF Spec, MappingsPermanent

-----------------------------------------------------------------------------
(***************************************************************************)
(* Plans.  What is said of them rests on the counters, which are ahead of  *)
(* every attempt that a record has planned.                                *)
(***************************************************************************)
Attempt ==
  [caller : Seq(Nat), actualCaller : Seq(Int), predicted : Seq(Nat), ok : BOOLEAN,
   kind : {"proxy-admin", "other"}]

\* Of a receipt there is a trace that the transaction can have.
Executed == \A t \in Tx : Succeeded(t) => chain[t].trace \in Traces[t]

CountersTyped == \A c \in DOMAIN counter : counter[c] \in Nat \ {0, 1}

\* Predicted addresses are those of contracts.
MappingsTyped ==
  \A p \in DOMAIN mappings :
    /\ p \in Seq(Nat) \ {Sender}
    /\ mappings[p].actual \in OnChain
    /\ mappings[p].kind \in {"transparent-proxy", "proxy-admin", "other"}

PlansTyped ==
  \A t \in Tx :
    /\ plan[t].mode \in Modes \cup {"none"}
    /\ plan[t].attempts \in Seq(Attempt)
    /\ \A c \in DOMAIN plan[t].finals : plan[t].finals[c] \in Nat \ {0, 1}

\* The nonce of an attempt is below the counter of its caller.
ReservedBy(a) ==
  /\ a.caller # Sender
  /\ \E n \in Nat : a.predicted = Append(a.caller, n) /\ n < Counter(counter, a.caller)

Reserved == \A t \in Tx : \A k \in DOMAIN Attempts(t) : ReservedBy(Attempts(t)[k])

Kept == \A t \in Tx : CountersKept(t)

Apart ==
  \A t, u \in Tx : \A j \in DOMAIN Attempts(t), k \in DOMAIN Attempts(u) :
    Attempts(t)[j].predicted = Attempts(u)[k].predicted => t = u /\ j = k

\* What is published was planned.
PublishedPlanned ==
  \A p \in DOMAIN mappings : mappings[p].source \in Tx =>
    LET u == mappings[p].source
    IN  \/ u \in Deploys /\ p = PredictedRoot(u)
        \/ \E k \in DOMAIN Attempts(u) : p = Attempts(u)[k].predicted

\* The first creation of a proxy, and no other, is planned as its ProxyAdmin,
\* unless the predicted address of the proxy is taken.
Labelled(t, attempts) ==
  IF t \in Proxies
    THEN \A k \in DOMAIN attempts : attempts[k].kind = "proxy-admin" <=> k = 1
    ELSE \A k \in DOMAIN attempts : attempts[k].kind = "other"

PlansLabelled ==
  \A t \in Tx : \/ t \in Proxies /\ PredictedRoot(t) \in DOMAIN mappings
               \/ Labelled(t, Attempts(t))

\* Nobody has counted the children of a contract before it was prepared,
\* unless somebody else has its predicted address.
NotCounted ==
  \A t \in Deploys : state[t] = "received" /\ PredictedRoot(t) \in DOMAIN counter =>
    PredictedRoot(t) \in DOMAIN mappings

PlanInv ==
  /\ Executed /\ CountersTyped /\ MappingsTyped /\ PlansTyped
  /\ Reserved /\ Kept /\ Apart /\ PublishedPlanned
  /\ PlansLabelled /\ NotCounted /\ ControllerMapped

-----------------------------------------------------------------------------
(***************************************************************************)
(* Induction.  The library has it for predicates, which the provers cannot *)
(* instantiate; a set of numbers they can, and every non-empty set of      *)
(* numbers has a least one (WFMin).                                        *)
(***************************************************************************)
LEMMA Induction ==
  ASSUME NEW S, 0 \in S, \A n \in Nat : n \in S => n + 1 \in S
  PROVE  Nat \subseteq S
<1> DEFINE T == {n \in Nat : n \notin S}
<1>1. SUFFICES ASSUME T # {} PROVE FALSE
  OBVIOUS
<1> DEFINE R == OpToRel(<, Nat)
<1>2. IsWellFoundedOn(R, Nat)
  BY NatLessThanWellFounded
<1>3. \A x, y \in Nat : <<x, y>> \in R <=> x < y
  BY DEF OpToRel
<1>4. T \subseteq Nat
  OBVIOUS
<1> HIDE DEF R
<1>5. PICK x \in T : \A y \in T : ~(<<y, x>> \in R)
  <2> HIDE DEF T
  <2> QED BY <1>1, <1>2, <1>4, WFMin
<1>6. x # 0 /\ x - 1 \in Nat
  OBVIOUS
<1>7. x - 1 \notin T
  <2>1. <<x - 1, x>> \in R
    <3>1. x \in Nat /\ x - 1 < x
      OBVIOUS
    <3> HIDE DEF T
    <3> QED BY <1>3, <1>6, <3>1
  <2> HIDE DEF T
  <2> QED BY <1>5, <2>1
<1> QED
  BY <1>6, <1>7

\* The recursive function is what its definition says: there is one up to every
\* number of attempts.
LEMMA PlanSoFarDef ==
  ASSUME NEW t, NEW mode, NEW target, NEW trace, Len(trace) \in Nat
  PROVE  PlanSoFar(t, mode, trace, target) =
           [k \in 0..Len(trace) |->
              IF k = 0 THEN Unplanned(t, mode, trace, target)
              ELSE PlanAttempt(t, mode, trace, target, PlanSoFar(t, mode, trace, target)[k - 1], k)]
<1> DEFINE First == Unplanned(t, mode, trace, target)
           Later(s, k) == PlanAttempt(t, mode, trace, target, s, k)
<1>0. PlanSoFar(t, mode, trace, target) =
        CHOOSE g : g = [k \in 0..Len(trace) |-> IF k = 0 THEN First ELSE Later(g[k - 1], k)]
  BY DEF PlanSoFar
<1> HIDE DEF First, Later
<1> DEFINE S == {n \in Nat : \E g : g = [k \in 0..n |-> IF k = 0 THEN First ELSE Later(g[k - 1], k)]}
<1>1. 0 \in S
  <2> DEFINE g == [k \in 0..0 |-> First]
  <2>1. g = [k \in 0..0 |-> IF k = 0 THEN First ELSE Later(g[k - 1], k)]
    OBVIOUS
  <2> QED
    BY <2>1
<1>2. ASSUME NEW n \in Nat, n \in S PROVE n + 1 \in S
  <2>1. PICK g : g = [k \in 0..n |-> IF k = 0 THEN First ELSE Later(g[k - 1], k)]
    BY <1>2
  <2> DEFINE h == [k \in 0..(n + 1) |-> IF k <= n THEN g[k] ELSE Later(g[n], k)]
  <2>2. \A k \in 0..(n + 1) : h[k] = IF k = 0 THEN First ELSE Later(h[k - 1], k)
    <3> SUFFICES ASSUME NEW k \in 0..(n + 1) PROVE h[k] = IF k = 0 THEN First ELSE Later(h[k - 1], k)
      OBVIOUS
    <3>1. CASE k <= n
      <4>1. h[k] = g[k] /\ (k # 0 => h[k - 1] = g[k - 1])
        BY <3>1
      <4> HIDE DEF h
      <4>2. g[k] = IF k = 0 THEN First ELSE Later(g[k - 1], k)
        BY <2>1, <3>1
      <4> QED
        BY <4>1, <4>2
    <3>2. CASE k = n + 1
      BY <3>2
    <3> QED
      BY <3>1, <3>2
  <2>3. h = [k \in 0..(n + 1) |-> IF k = 0 THEN First ELSE Later(h[k - 1], k)]
    <3>1. h = [k \in 0..(n + 1) |-> h[k]]
      OBVIOUS
    <3> HIDE DEF h
    <3> QED
      BY <2>2, <3>1
  <2> HIDE DEF h
  <2> QED
    BY <2>3
<1>3. Nat \subseteq S
  <2> HIDE DEF S
  <2> QED
    BY <1>1, <1>2, Induction
<1>4. \E g : g = [k \in 0..Len(trace) |-> IF k = 0 THEN First ELSE Later(g[k - 1], k)]
  BY <1>3
<1>5. LET g == PlanSoFar(t, mode, trace, target)
      IN  g = [k \in 0..Len(trace) |-> IF k = 0 THEN First ELSE Later(g[k - 1], k)]
  BY <1>0, <1>4
<1> QED
  BY <1>5 DEF First, Later

-----------------------------------------------------------------------------
(***************************************************************************)
(* One attempt of a plan.                                                  *)
(***************************************************************************)

\* Who may be a caller of t: not the sender, and the contract that another
\* transaction is to deploy only if its address is taken.
Fine(t, c) ==
  /\ c \in Seq(Nat) \ {Sender}
  /\ \A u \in Tx \ {t} : c = <<u>> => c \in DOMAIN mappings

\* Where the attempts of a plan find their nonces.
NumberedBy(next, a) ==
  /\ a.caller \in DOMAIN next
  /\ \E n \in Nat : /\ a.predicted = Append(a.caller, n)
                   /\ Counter(counter, a.caller) <= n /\ n < next[a.caller]

NextFine(t, next) ==
  \A c \in DOMAIN next : Fine(t, c) /\ next[c] \in Nat \ {0, 1} /\ next[c] > Counter(counter, c)

FirstKnown(t, target) == {target, Simulated(t, "constant", 0)}

KnownFine(t, target, known) ==
  /\ DOMAIN known \in SUBSET Seq(Int)
  /\ FirstKnown(t, target) \subseteq DOMAIN known
  /\ \A a \in FirstKnown(t, target) \ {Sender} : known[a] = PredictedRoot(t)
  /\ \A a \in DOMAIN known \ (FirstKnown(t, target) \cup {Sender}) : Fine(t, known[a])

Unequal(attempts) ==
  \A i, j \in DOMAIN attempts : attempts[i].predicted = attempts[j].predicted => i = j

\* A plan that is not refused after its first k attempts.
Planning(t, mode, trace, target, s, k) ==
  /\ s.attempts \in Seq(Attempt) /\ Len(s.attempts) = k
  /\ NextFine(t, s.next) /\ (k = 0 => DOMAIN s.next = {})
  /\ \A i \in DOMAIN s.attempts : NumberedBy(s.next, s.attempts[i])
  /\ Unequal(s.attempts)
  /\ KnownFine(t, target, s.known)
  /\ mode = "exact" => \A i \in 1..k : trace[i].ok => Child(t, i) # target
  /\ PredictedRoot(t) \notin DOMAIN counter \/ t \notin Proxies =>
       /\ Labelled(t, s.attempts)
       /\ t \in Proxies /\ k > 0 => PredictedRoot(t) \in DOMAIN s.next

\* What a preparation starts from.
Preparing(t, mode, trace, target) ==
  /\ t \in Tx /\ mode \in Modes /\ trace \in Traces[t]
  /\ target = IF t \in Deploys THEN Root(t) ELSE ToActual(To[t])
  /\ CanHappen(t, target, trace)
  /\ ProfileAllowed(t, mode, trace)

LEMMA TupleLengths ==
  ASSUME NEW x, NEW y, NEW z
  PROVE  /\ <<x, y, z>> # << >>
         /\ \A v : <<x, y, z>> # <<v>>
         /\ \A u, v, w, q : <<x, y, z>> # <<u, v, w, q>>
<1>1. Len(<<x, y, z>>) = 3 /\ Len(<< >>) = 0
  OBVIOUS
<1>2. ASSUME NEW v PROVE <<x, y, z>> # <<v>>
  <2>1. Len(<<v>>) = 1
    OBVIOUS
  <2> QED
    BY <1>1, <2>1
<1>3. ASSUME NEW u, NEW v, NEW w, NEW q PROVE <<x, y, z>> # <<u, v, w, q>>
  <2>1. Len(<<u, v, w, q>>) = 4
    OBVIOUS
  <2> QED
    BY <1>1, <2>1
<1> QED
  BY <1>1, <1>2, <1>3

\* An actual address is that of no transaction and not the sender's.
LEMMA OnChainShape ==
  ASSUME ChainShape, NEW a \in OnChain
  PROVE  /\ a \in Seq(Nat) \ {Sender}
         /\ \A u \in Tx : a # <<u>>
         /\ \A u : a # <<0, u, 0, 0>>
<1>1. CASE a = Foreign
  BY <1>1, ReconcilerAssumption DEF Foreign, Sender
<1>2. ASSUME NEW x \in Nat, NEW y \in Nat, a = <<0, x, y>>
      PROVE  a \in Seq(Nat) \ {Sender} /\ (\A v \in Tx : a # <<v>>) /\ \A v : a # <<0, v, 0, 0>>
  BY <1>2, TupleLengths DEF Sender
<1>3. ASSUME NEW u \in Tx, NEW k \in Created(u)
      PROVE  u \in Nat /\ k \in Nat
  <2>1. k \in DOMAIN chain[u].trace /\ chain[u].trace \in Seq([by : Int, ok : BOOLEAN])
    BY <1>3 DEF Created, ChainShape
  <2> QED
    BY <2>1, ReconcilerAssumption
<1>4. ASSUME NEW u \in Deploys PROVE u \in Nat
  BY ReconcilerAssumption
<1> QED
  BY <1>1, <1>2, <1>3, <1>4 DEF OnChain, Root, Child

LEMMA SeqElement ==
  ASSUME NEW X, NEW q \in Seq(X), NEW k \in DOMAIN q
  PROVE  q[k] \in X /\ k \in Nat /\ k >= 1 /\ k <= Len(q)
  OBVIOUS

\* Whoever has a mapping may be a caller.
LEMMA MappedFine ==
  ASSUME MappingsTyped, NEW t, NEW p \in DOMAIN mappings
  PROVE  Fine(t, p)
  BY DEF MappingsTyped, Fine

\* What a transaction is for, if it can create anything.
LEMMA RootFine ==
  ASSUME ChainShape, MappingsTyped, NEW t, NEW mode, NEW trace, NEW target,
         Preparing(t, mode, trace, target)
  PROVE  /\ target \in Seq(Int)
         /\ t \in Deploys \/ target \in OnChain => Fine(t, PredictedRoot(t)) /\ target # Sender
<1>1. t \in Tx /\ t \in Nat
  BY ReconcilerAssumption DEF Preparing
<1>2. CASE t \in Deploys
  <2>1. target = <<0, t, 0>> /\ PredictedRoot(t) = <<t>>
    BY <1>2 DEF Preparing, Root, PredictedRoot
  <2>2. \A u : <<t>> = <<u>> => t = u
    <3> SUFFICES ASSUME NEW u, <<t>> = <<u>> PROVE t = u
      OBVIOUS
    <3>1. <<t>>[1] = t /\ <<u>>[1] = u
      OBVIOUS
    <3> QED
      BY <3>1
  <2> QED
    BY <1>1, <2>1, <2>2, TupleLengths DEF Fine, Sender
<1>3. CASE t \notin Deploys
  <2>1. target = ToActual(To[t]) /\ PredictedRoot(t) = To[t] /\ To[t] \in Seq(Int)
    BY <1>1, <1>3, ReconcilerAssumption DEF Preparing, PredictedRoot
  <2>2. CASE To[t] \in DOMAIN mappings
    <3>1. target \in OnChain
      BY <2>1, <2>2 DEF MappingsTyped, ToActual
    <3>2. target \in Seq(Nat) \ {Sender}
      BY <3>1, OnChainShape
    <3> QED
      BY <2>1, <2>2, <3>2, MappedFine
  <2>3. CASE To[t] \notin DOMAIN mappings
    <3>1. target = To[t]
      BY <2>1, <2>3 DEF ToActual
    <3>2. target \in OnChain => Fine(t, target) /\ target # Sender
      BY OnChainShape DEF Fine
    <3> QED
      BY <1>3, <2>1, <3>1, <3>2
  <2> QED
    BY <2>2, <2>3
<1> QED
  BY <1>2, <1>3

\* A simulated caller that resolves, resolves to one that may be counted.
LEMMA CallerFine ==
  ASSUME ChainShape, MappingsTyped, NEW t, NEW mode, NEW trace, NEW target,
         Preparing(t, mode, trace, target), NEW k \in DOMAIN trace, k \in Nat,
         NEW s, Planning(t, mode, trace, target, s, k - 1),
         NEW c \in ResolveCaller(s.known, SimulatedCaller(t, mode, target, trace[k].by))
  PROVE  /\ Fine(t, c)
         /\ t \in Deploys /\ trace[k].by = 0 => c = PredictedRoot(t)
         /\ SimulatedCaller(t, mode, target, trace[k].by) \in Seq(Int)
<1> DEFINE by == trace[k].by
           actual == SimulatedCaller(t, mode, target, by)
           Made == FirstKnown(t, target)
<1>1. t \in Nat /\ trace \in Seq([by : Int, ok : BOOLEAN]) /\ mode \in {"exact", "constant"}
  BY ReconcilerAssumption DEF Preparing
<1>2. \/ by > 0 /\ by < k /\ trace[by].ok
      \/ by = 0 /\ t \in Deploys
      \/ by <= 0 /\ CallerOf(t, target, by) \in OnChain
  <2>1. CanHappen(t, target, trace)
    BY DEF Preparing
  <2> QED
    BY <2>1 DEF CanHappen
<1>3. KnownFine(t, target, s.known)
  BY DEF Planning
<1>4. actual \notin DOMAIN s.known => c \in DOMAIN mappings
  BY DEF ResolveCaller
<1>5. actual \in DOMAIN s.known => c = s.known[actual]
  BY DEF ResolveCaller
<1>6. CASE by = 0 /\ t \in Deploys
  <2>1. target = Root(t)
    BY <1>6 DEF Preparing
  <2>2. actual \in Made /\ actual # Sender /\ actual \in Seq(Int)
    BY <1>1, <1>6, <2>1, TupleLengths DEF SimulatedCaller, Simulated, FirstKnown, CallerOf, Root, Sender
  <2>3. c = PredictedRoot(t)
    <3> HIDE DEF actual, by
    <3> QED
      BY <1>3, <1>5, <2>2 DEF KnownFine
  <2> QED
    BY <1>6, <2>2, <2>3, RootFine
<1>7. CASE by > 0 /\ by < k /\ trace[by].ok
  <2>1. by \in Int /\ by \in 1..(k - 1)
    <3>1. trace[k] \in [by : Int, ok : BOOLEAN]
      BY <1>1, SeqElement
    <3>2. by \in Int
      BY <3>1
    <3> HIDE DEF by
    <3> QED
      BY <1>7, <3>2
  <2>2. mode = "exact"
    BY <1>1, <1>7, <2>1 DEF Preparing, ProfileAllowed
  <2>3. actual = <<0, t, by>>
    BY <1>7, <2>2 DEF SimulatedCaller, CallerOf, Child
  <2>4. actual # target
    BY <1>7, <2>1, <2>2, <2>3 DEF Planning, Child
  <2>5. actual \in Seq(Int) /\ actual \notin Made \cup {Sender}
    BY <1>1, <2>1, <2>3, <2>4, TupleLengths DEF FirstKnown, Simulated, Sender
  <2>6. Fine(t, c)
    <3> HIDE DEF actual, by
    <3> QED
      BY <1>3, <1>4, <1>5, <2>5, MappedFine DEF KnownFine
  <2> QED
    BY <1>7, <2>5, <2>6
<1>8. CASE by <= 0 /\ CallerOf(t, target, by) \in OnChain /\ ~(by = 0 /\ t \in Deploys)
  <2>1. actual = CallerOf(t, target, by)
    BY <1>8 DEF SimulatedCaller
  <2>2. /\ actual \in OnChain /\ actual \in Seq(Nat) \ {Sender}
        /\ actual # Simulated(t, "constant", 0)
    BY <1>8, <2>1, OnChainShape DEF Simulated
  <2>3. Fine(t, c)
    <3> HIDE DEF actual, by
    <3>1. CASE actual \notin DOMAIN s.known
      BY <1>4, <3>1, MappedFine
    <3>2. CASE actual = target
      BY <1>3, <1>5, <2>2, <3>2, RootFine DEF KnownFine, FirstKnown
    <3>3. CASE actual \in DOMAIN s.known /\ actual # target
      BY <1>3, <1>5, <2>2, <3>3 DEF KnownFine, FirstKnown
    <3> QED
      BY <3>1, <3>2, <3>3
  <2> QED
    BY <1>8, <2>2, <2>3
<1> QED
  BY <1>2, <1>6, <1>7, <1>8

\* Two predicted addresses are equal when creator and nonce are.
LEMMA AppendOnce ==
  ASSUME NEW p \in Seq(Nat), NEW q \in Seq(Nat), NEW m \in Nat, NEW n \in Nat,
         Append(p, m) = Append(q, n)
  PROVE  p = q /\ m = n
<1>1. Len(p) = Len(q)
  <2>1. Len(Append(p, m)) = Len(p) + 1 /\ Len(Append(q, n)) = Len(q) + 1
    OBVIOUS
  <2> QED
    BY <2>1
<1>2. m = n
  <2>1. Append(p, m)[Len(p) + 1] = m /\ Append(q, n)[Len(q) + 1] = n
    OBVIOUS
  <2> QED
    BY <1>1, <2>1
<1>3. \A i \in 1..Len(p) : p[i] = q[i]
  <2> SUFFICES ASSUME NEW i \in 1..Len(p) PROVE p[i] = q[i]
    OBVIOUS
  <2>1. Append(p, m)[i] = p[i] /\ Append(q, n)[i] = q[i]
    BY <1>1
  <2> QED
    BY <2>1
<1>4. DOMAIN p = 1..Len(p) /\ DOMAIN q = 1..Len(q)
  OBVIOUS
<1>5. p = [i \in 1..Len(p) |-> p[i]] /\ q = [i \in 1..Len(q) |-> q[i]]
  BY <1>4
<1>6. p = q
  BY <1>1, <1>3, <1>5
<1> QED
  BY <1>2, <1>6

\* The predicted address of a child is nobody's but its creator's.
LEMMA ChildFine ==
  ASSUME NEW t, NEW c \in Seq(Nat) \ {Sender}, NEW n \in Nat
  PROVE  Fine(t, Append(c, n))
<1>1. Append(c, n) \in Seq(Nat) /\ Len(Append(c, n)) = Len(c) + 1 /\ Len(c) > 0
  BY DEF Sender
<1>2. \A u : Len(<<u>>) = 1
  OBVIOUS
<1>3. ASSUME NEW u, Append(c, n) = <<u>> PROVE FALSE
  BY <1>1, <1>2, <1>3
<1> QED
  BY <1>1, <1>3 DEF Fine, Sender

LEMMA AttemptPlanned ==
  ASSUME ChainShape, MappingsTyped, CountersTyped,
         NEW t, NEW mode, NEW trace, NEW target, Preparing(t, mode, trace, target),
         NEW k \in DOMAIN trace, NEW s, "refused" \in DOMAIN s, ~s.refused,
         Planning(t, mode, trace, target, s, k - 1),
         ~PlanAttempt(t, mode, trace, target, s, k).refused
  PROVE  Planning(t, mode, trace, target, PlanAttempt(t, mode, trace, target, s, k), k)
<1> DEFINE r == PlanAttempt(t, mode, trace, target, s, k)
           ok == trace[k].ok
           actual == SimulatedCaller(t, mode, target, trace[k].by)
           resolved == ResolveCaller(s.known, actual)
           c == CHOOSE p \in resolved : TRUE
           n == Counter(Over(s.next, counter), c)
           predicted == Append(c, n)
           simulated == Simulated(t, mode, k)
           a == [caller |-> c, actualCaller |-> actual, predicted |-> predicted, ok |-> ok,
                 kind |-> ChildKind(t, c, n)]
<1>1. t \in Nat /\ trace \in Seq([by : Int, ok : BOOLEAN]) /\ mode \in {"exact", "constant"}
  BY ReconcilerAssumption DEF Preparing
<1>2. trace[k] \in [by : Int, ok : BOOLEAN] /\ k \in Nat /\ k >= 1 /\ ok \in BOOLEAN
  <2>1. trace[k] \in [by : Int, ok : BOOLEAN] /\ k \in Nat /\ k >= 1
    <3> HIDE DEF r, actual, resolved, c, n, predicted, simulated, a, ok
    <3> QED
      BY <1>1, SeqElement
  <2> QED
    BY <2>1
<1>3. resolved # {}
  <2>1. CASE resolved = {}
    <3>1. r = [s EXCEPT !.refused = TRUE]
      BY <2>1 DEF PlanAttempt
    <3> QED
      BY <3>1
  <2> QED
    BY <2>1
<1>4. /\ r.next = Over(One(c, n + 1), s.next)
      /\ r.known = IF ok THEN Over(One(simulated, predicted), s.known) ELSE s.known
      /\ r.attempts = Append(s.attempts, a)
      /\ ok => simulated \notin DOMAIN s.known
  BY <1>3 DEF PlanAttempt
<1>5. /\ Fine(t, c)
      /\ t \in Deploys /\ trace[k].by = 0 => c = PredictedRoot(t)
      /\ actual \in Seq(Int)
  <2>1. c \in resolved
    BY <1>3
  <2> QED
    BY <1>2, <2>1, CallerFine
<1> HIDE DEF r, actual, resolved, c
<1>6. c \in Seq(Nat) \ {Sender}
  BY <1>5 DEF Fine
<1>7. /\ n \in Nat \ {0}
      /\ n >= Counter(counter, c)
      /\ n = IF c \in DOMAIN s.next THEN s.next[c] ELSE Counter(counter, c)
  BY DEF Planning, NextFine, Counter, Over, CountersTyped
<1> HIDE DEF n
<1>8. /\ DOMAIN r.next = {c} \cup DOMAIN s.next
      /\ r.next[c] = n + 1
      /\ \A d \in DOMAIN s.next \ {c} : r.next[d] = s.next[d]
  BY <1>4 DEF Over, One
<1>9. Fine(t, predicted) /\ predicted \in Seq(Nat)
  BY <1>6, <1>7, ChildFine
<1>10. a \in Attempt
  BY <1>2, <1>5, <1>6, <1>9 DEF Attempt, ChildKind
<1> HIDE DEF a
<1>11. /\ r.attempts \in Seq(Attempt) /\ Len(r.attempts) = k
       /\ \A i \in DOMAIN s.attempts : r.attempts[i] = s.attempts[i]
       /\ r.attempts[k] = a
       /\ DOMAIN r.attempts = DOMAIN s.attempts \cup {k}
       /\ DOMAIN s.attempts = 1..(k - 1)
  BY <1>2, <1>4, <1>10 DEF Planning
<1>12. NextFine(t, r.next)
  <2>1. NextFine(t, s.next)
    BY DEF Planning
  <2>2. Counter(counter, c) \in Nat
    BY DEF Counter, CountersTyped
  <2>3. Fine(t, c) /\ r.next[c] \in Nat \ {0, 1} /\ r.next[c] > Counter(counter, c)
    BY <1>5, <1>7, <1>8, <2>2
  <2>4. ASSUME NEW d \in DOMAIN s.next \ {c}
        PROVE  Fine(t, d) /\ r.next[d] \in Nat \ {0, 1} /\ r.next[d] > Counter(counter, d)
    BY <1>8, <2>1, <2>4 DEF NextFine
  <2> QED
    BY <1>8, <2>3, <2>4 DEF NextFine
<1>13. a.caller = c /\ a.predicted = Append(c, n) /\ a.kind = ChildKind(t, c, n)
  BY DEF a
<1>14. ASSUME NEW i \in DOMAIN r.attempts
       PROVE  NumberedBy(r.next, r.attempts[i])
  <2>1. CASE i = k
    <3>1. r.attempts[i].caller = c /\ r.attempts[i].predicted = Append(c, n)
      BY <1>11, <1>13, <2>1
    <3>2. c \in DOMAIN r.next /\ n \in Nat /\ Counter(counter, c) <= n /\ n < r.next[c]
      <4>1. Counter(counter, c) \in Nat
        BY DEF Counter, CountersTyped
      <4> QED
        BY <1>7, <1>8, <4>1
    <3> QED
      BY <3>1, <3>2 DEF NumberedBy
  <2>2. CASE i \in DOMAIN s.attempts
    <3>1. NumberedBy(s.next, s.attempts[i]) /\ r.attempts[i] = s.attempts[i]
      BY <1>11, <2>2 DEF Planning
    <3>2. \A d \in DOMAIN s.next : r.next[d] >= s.next[d] /\ s.next[d] \in Nat /\ r.next[d] \in Nat
      BY <1>7, <1>8 DEF Planning, NextFine
    <3>3. Counter(counter, s.attempts[i].caller) \in Nat
      BY DEF Counter, CountersTyped
    <3> QED
      BY <1>8, <3>1, <3>2, <3>3 DEF NumberedBy
  <2> QED
    BY <1>11, <2>1, <2>2
<1>15. ASSUME NEW i \in DOMAIN s.attempts
       PROVE  s.attempts[i].predicted # Append(c, n)
  <2>1. NumberedBy(s.next, s.attempts[i]) /\ s.attempts[i] \in Attempt
    BY SeqElement DEF Planning
  <2>2. PICK m \in Nat : /\ s.attempts[i].predicted = Append(s.attempts[i].caller, m)
                         /\ m < s.next[s.attempts[i].caller]
    BY <2>1 DEF NumberedBy
  <2>3. s.attempts[i].caller \in Seq(Nat) /\ s.attempts[i].caller \in DOMAIN s.next
    BY <2>1 DEF Attempt, NumberedBy
  <2>4. s.next[s.attempts[i].caller] \in Nat
    BY <2>3 DEF Planning, NextFine
  <2> SUFFICES ASSUME s.attempts[i].predicted = Append(c, n) PROVE FALSE
    OBVIOUS
  <2>5. s.attempts[i].caller = c /\ m = n
    <3> DEFINE p == s.attempts[i].caller
    <3>1. Append(p, m) = Append(c, n)
      BY <2>2
    <3>2. p \in Seq(Nat) /\ c \in Seq(Nat)
      BY <1>6, <2>3
    <3> HIDE DEF p
    <3>3. p = c /\ m = n
      BY <1>7, <3>1, <3>2, AppendOnce
    <3> QED
      BY <3>3 DEF p
  <2> QED
    BY <1>7, <2>2, <2>3, <2>4, <2>5
<1>16. Unequal(r.attempts)
  <2>1. Unequal(s.attempts)
    BY DEF Planning
  <2>2. ASSUME NEW i \in DOMAIN r.attempts, NEW j \in DOMAIN r.attempts,
               r.attempts[i].predicted = r.attempts[j].predicted
        PROVE  i = j
    <3>1. CASE i \in DOMAIN s.attempts /\ j \in DOMAIN s.attempts
      BY <1>11, <2>1, <2>2, <3>1 DEF Unequal
    <3>2. CASE i \in DOMAIN s.attempts /\ j = k
      BY <1>11, <1>13, <1>15, <2>2, <3>2
    <3>3. CASE i = k /\ j \in DOMAIN s.attempts
      BY <1>11, <1>13, <1>15, <2>2, <3>3
    <3> QED
      BY <1>11, <3>1, <3>2, <3>3
  <2> QED
    BY <2>2 DEF Unequal
<1>17. KnownFine(t, target, r.known)
  <2>1. KnownFine(t, target, s.known)
    BY DEF Planning
  <2>2. simulated \in Seq(Int)
    BY <1>1, <1>2 DEF Simulated
  <2>3. CASE ok
    <3>1. /\ DOMAIN r.known = {simulated} \cup DOMAIN s.known
          /\ r.known[simulated] = predicted
          /\ \A x \in DOMAIN s.known : r.known[x] = s.known[x]
      BY <1>4, <2>3 DEF Over, One
    <3>2. simulated \notin DOMAIN s.known
      BY <1>4, <2>3
    <3> HIDE DEF simulated, predicted
    <3> QED
      BY <1>9, <2>1, <2>2, <3>1, <3>2 DEF KnownFine
  <2>4. CASE ~ok
    BY <1>4, <2>1, <2>4
  <2> QED
    BY <2>3, <2>4
<1>18. ASSUME mode = "exact", NEW i \in 1..k, trace[i].ok PROVE Child(t, i) # target
  <2>1. CASE i = k
    <3>1. simulated = Child(t, i) /\ simulated \notin DOMAIN s.known
      BY <1>4, <1>18, <2>1 DEF Simulated, Child
    <3>2. target \in DOMAIN s.known
      BY DEF Planning, KnownFine, FirstKnown
    <3> QED
      BY <3>1, <3>2
  <2>2. CASE i # k
    <3>1. i \in 1..(k - 1)
      BY <1>2, <2>2
    <3> QED
      BY <1>18, <3>1 DEF Planning
  <2> QED
    BY <2>1, <2>2
<1>19. ASSUME PredictedRoot(t) \notin DOMAIN counter \/ t \notin Proxies
       PROVE  /\ Labelled(t, r.attempts)
              /\ t \in Proxies => PredictedRoot(t) \in DOMAIN r.next
  <2>1. /\ Labelled(t, s.attempts)
        /\ t \in Proxies /\ k - 1 > 0 => PredictedRoot(t) \in DOMAIN s.next
    BY <1>19 DEF Planning
  <2>2. CASE t \notin Proxies
    BY <1>11, <1>13, <2>1, <2>2 DEF Labelled, ChildKind
  <2>3. CASE t \in Proxies /\ k = 1
    <3>1. trace[1].by = 0 /\ t \in Deploys
      BY <2>3, ProxyAssumption, ReconcilerAssumption DEF Preparing
    <3>2. c = PredictedRoot(t) /\ c \notin DOMAIN s.next
      BY <1>5, <2>3, <3>1 DEF Planning
    <3>3. n = 1
      BY <1>7, <1>19, <2>3, <3>2 DEF Counter
    <3>4. a.kind = "proxy-admin" /\ DOMAIN r.attempts = {1}
      BY <1>11, <1>13, <2>3, <3>2, <3>3 DEF ChildKind
    <3> QED
      BY <1>8, <1>11, <2>3, <3>2, <3>4 DEF Labelled
  <2>4. CASE t \in Proxies /\ k > 1
    <3>1. PredictedRoot(t) \in DOMAIN s.next
      BY <1>2, <2>1, <2>4
    <3>2. c = PredictedRoot(t) => n # 1
      BY <1>7, <3>1 DEF Planning, NextFine
    <3>3. a.kind = "other"
      BY <1>13, <3>2 DEF ChildKind
    <3>4. ASSUME NEW i \in DOMAIN r.attempts
          PROVE  r.attempts[i].kind = "proxy-admin" <=> i = 1
      <4>1. CASE i = k
        BY <1>2, <1>11, <2>4, <3>3, <4>1
      <4>2. CASE i \in DOMAIN s.attempts
        BY <1>11, <2>1, <2>4, <4>2 DEF Labelled
      <4> QED
        BY <1>11, <4>1, <4>2
    <3> QED
      BY <1>8, <2>4, <3>1, <3>4 DEF Labelled
  <2> QED
    BY <1>2, <2>2, <2>3, <2>4
<1> QED
  BY <1>2, <1>11, <1>12, <1>14, <1>16, <1>17, <1>18, <1>19 DEF Planning, r

\* A plan that is not refused is one that every attempt of the simulation has
\* found its place in.
LEMMA PlanDerived ==
  ASSUME ChainShape, MappingsTyped, CountersTyped,
         NEW t \in Tx, NEW mode \in Modes, NEW trace \in Traces[t], NEW target,
         target = IF t \in Deploys THEN Root(t) ELSE ToActual(To[t]),
         CanHappen(t, target, trace),
         ~DerivePlan(t, mode, trace, target).refused
  PROVE  Planning(t, mode, trace, target, DerivePlan(t, mode, trace, target), Len(trace))
<1> DEFINE f == PlanSoFar(t, mode, trace, target)
           Sound(k) == /\ "refused" \in DOMAIN f[k]
                       /\ ~f[k].refused => /\ ProfileAllowed(t, mode, trace)
                                           /\ Planning(t, mode, trace, target, f[k], k)
           S == {k \in Nat : k <= Len(trace) => Sound(k)}
<1>1. trace \in Seq([by : Int, ok : BOOLEAN]) /\ Len(trace) \in Nat /\ DOMAIN trace = 1..Len(trace)
  BY ReconcilerAssumption
<1>2. /\ f[0] = Unplanned(t, mode, trace, target)
      /\ \A k \in 1..Len(trace) : f[k] = PlanAttempt(t, mode, trace, target, f[k - 1], k)
  BY <1>1, PlanSoFarDef
<1> HIDE DEF f
<1>3. 0 \in S
  <2>0. f[0] = Unplanned(t, mode, trace, target)
    BY <1>2
  <2>1. "refused" \in DOMAIN f[0] /\ (~f[0].refused => ProfileAllowed(t, mode, trace))
    <3>1. "refused" \in DOMAIN f[0]
      BY <2>0 DEF Unplanned
    <3>2. f[0].refused = ~ProfileAllowed(t, mode, trace)
      BY <2>0 DEF Unplanned
    <3> QED
      BY <3>1, <3>2
  <2>2. /\ f[0].attempts = << >> /\ f[0].next = << >>
        /\ f[0].known = [a \in {Sender, target, Simulated(t, "constant", 0)} |->
                          IF a = Sender THEN Sender ELSE PredictedRoot(t)]
    BY <1>2 DEF Unplanned
  <2>3. DOMAIN << >> = {} /\ << >> \in Seq(Attempt) /\ Len(<< >>) = 0
    OBVIOUS
  <2>4. NextFine(t, f[0].next) /\ Unequal(f[0].attempts) /\ Labelled(t, f[0].attempts)
    BY <2>2, <2>3 DEF NextFine, Unequal, Labelled
  <2>5. ASSUME ProfileAllowed(t, mode, trace) PROVE KnownFine(t, target, f[0].known)
    <3>1. target \in Seq(Int)
      <4>1. Preparing(t, mode, trace, target)
        BY <2>5 DEF Preparing
      <4> QED
        BY <4>1, RootFine
    <3>2. Sender \in Seq(Int) /\ Simulated(t, "constant", 0) \in Seq(Int)
      BY ReconcilerAssumption DEF Sender, Simulated
    <3> QED
      BY <2>2, <3>1, <3>2 DEF KnownFine, FirstKnown
  <2>6. ASSUME ProfileAllowed(t, mode, trace) PROVE Planning(t, mode, trace, target, f[0], 0)
    <3>1. f[0].attempts \in Seq(Attempt) /\ Len(f[0].attempts) = 0 /\ DOMAIN f[0].attempts = {}
          /\ DOMAIN f[0].next = {}
      BY <2>2, <2>3
    <3> QED
      BY <2>4, <2>5, <2>6, <3>1 DEF Planning
  <2> QED
    BY <2>1, <2>6
<1>4. ASSUME NEW n \in Nat, n \in S PROVE n + 1 \in S
  <2> SUFFICES ASSUME n + 1 <= Len(trace) PROVE Sound(n + 1)
    BY <1>1
  <2>1. n + 1 \in DOMAIN trace /\ n + 1 \in 1..Len(trace) /\ (n + 1) - 1 = n /\ n <= Len(trace)
    BY <1>1
  <2>2. Sound(n)
    BY <1>4, <2>1
  <2>3. f[n + 1] = PlanAttempt(t, mode, trace, target, f[n], n + 1)
    BY <1>2, <2>1
  <2>4. "refused" \in DOMAIN f[n + 1] /\ (f[n].refused => f[n + 1].refused)
    BY <2>2, <2>3 DEF PlanAttempt
  <2>5. ASSUME ~f[n + 1].refused PROVE Planning(t, mode, trace, target, f[n + 1], n + 1)
    <3>1. ~f[n].refused
      BY <2>4, <2>5
    <3>2. Preparing(t, mode, trace, target)
      BY <2>2, <3>1 DEF Preparing
    <3>3. /\ "refused" \in DOMAIN f[n] /\ Planning(t, mode, trace, target, f[n], (n + 1) - 1)
          /\ ~PlanAttempt(t, mode, trace, target, f[n], n + 1).refused
      BY <2>1, <2>2, <2>3, <2>5, <3>1
    <3> QED
      BY <2>1, <2>3, <3>1, <3>2, <3>3, AttemptPlanned
  <2> QED
    BY <2>2, <2>4, <2>5
<1>5. Nat \subseteq S
  <2> HIDE DEF S
  <2> QED
    BY <1>3, <1>4, Induction
<1>6. Sound(Len(trace))
  BY <1>1, <1>5
<1> QED
  BY <1>6 DEF DerivePlan, f

-----------------------------------------------------------------------------
(***************************************************************************)
(* Every step keeps what is said of the plans.                             *)
(***************************************************************************)
LEMMA InitPlanInv == Init => PlanInv
<1> SUFFICES ASSUME Init PROVE PlanInv
  OBVIOUS
<1>1. /\ DOMAIN << >> = {} /\ << >> \in Seq(Attempt)
  OBVIOUS
<1>2. \A t \in Tx : ~Succeeded(t) /\ plan[t] = NoPlan /\ Attempts(t) = << >>
  BY DEF Init, Succeeded, Pending, Attempts, NoPlan
<1>3. DOMAIN counter = {} /\ DOMAIN mappings = {}
  BY <1>1 DEF Init
<1>4. Executed /\ CountersTyped /\ MappingsTyped /\ PublishedPlanned /\ NotCounted
  BY <1>2, <1>3 DEF Executed, CountersTyped, MappingsTyped, PublishedPlanned, NotCounted
<1>5. PlansTyped
  <2>1. NoPlan.mode = "none" /\ NoPlan.attempts = << >> /\ NoPlan.finals = << >>
    BY DEF NoPlan
  <2> QED
    BY <1>1, <1>2, <2>1 DEF PlansTyped
<1>6. Reserved /\ Kept /\ Apart
  BY <1>1, <1>2 DEF Reserved, Kept, Apart, CountersKept, NoPlan
<1>7. PlansLabelled
  BY <1>1, <1>2 DEF PlansLabelled, Labelled
<1>8. ControllerMapped
  BY <1>3 DEF ControllerMapped, Actuals
<1> QED
  BY <1>4, <1>5, <1>6, <1>7, <1>8 DEF PlanInv

\* Steps that only move a record on, and not back to its reception.
LEMMA RecordStep ==
  ASSUME PlanInv, UNCHANGED <<plan, counter, mappings, chain>>,
         \A t \in Tx : state'[t] = "received" => state[t] = "received"
  PROVE  PlanInv'
<1>1. Executed' /\ CountersTyped' /\ MappingsTyped' /\ PlansTyped'
  BY DEF PlanInv, Executed, CountersTyped, MappingsTyped, PlansTyped, Succeeded,
         OnChain, Created, Root, Child
<1>2. Reserved' /\ Kept' /\ Apart'
  BY DEF PlanInv, Reserved, ReservedBy, Kept, CountersKept, Apart, Attempts, Counter
<1>3. PublishedPlanned' /\ PlansLabelled'
  BY DEF PlanInv, PublishedPlanned, PlansLabelled, Labelled, Attempts, PredictedRoot
<1>4. NotCounted'
  BY ReconcilerAssumption DEF PlanInv, NotCounted, PredictedRoot
<1>5. ControllerMapped'
  BY DEF PlanInv, ControllerMapped, Actuals, Root, Child
<1> QED
  BY <1>1, <1>2, <1>3, <1>4, <1>5 DEF PlanInv

\* What exists on the chain stays.
LEMMA ExecutePlanStep ==
  ASSUME IInv, PlanInv, NEW t \in Tx, Execute(t)
  PROVE  PlanInv'
<1>1. /\ ~chain[t].done
      /\ UNCHANGED <<state, plan, counter, mappings>>
      /\ \/ chain' = [chain EXCEPT ![t] = [done |-> TRUE, ok |-> FALSE, trace |-> << >>]]
         \/ \E trace \in Traces[t] :
              chain' = [chain EXCEPT ![t] = [done |-> TRUE, ok |-> TRUE, trace |-> trace]]
  BY DEF Execute
<1>2. ChainShape
  BY DEF IInv
<1>3. \A u \in Tx \ {t} : chain'[u] = chain[u]
  BY <1>1, <1>2 DEF ChainShape
<1>4. Succeeded(t)' => chain'[t].trace \in Traces[t]
  BY <1>1, <1>2 DEF ChainShape, Succeeded
<1>5. Executed'
  BY <1>3, <1>4 DEF PlanInv, Executed, Succeeded
<1>6. ~Succeeded(t)
  BY <1>1 DEF Succeeded
<1>7. OnChain \subseteq OnChain'
  <2>1. ASSUME NEW u \in Deploys, Succeeded(u) PROVE Root(u) \in OnChain'
    <3>1. Succeeded(u)' /\ Root(u)' = Root(u)
      BY <1>3, <1>6, <2>1, ReconcilerAssumption DEF Succeeded, Root
    <3> QED
      BY <3>1 DEF OnChain
  <2>2. ASSUME NEW u \in Tx, NEW k \in Created(u) PROVE Child(u, k) \in OnChain'
    <3>1. k \in Created(u)' /\ Child(u, k)' = Child(u, k)
      BY <1>3, <1>6, <2>2 DEF Succeeded, Created, Child
    <3> QED
      BY <3>1 DEF OnChain
  <2> QED
    BY <2>1, <2>2 DEF OnChain
<1>8. CountersTyped' /\ MappingsTyped' /\ PlansTyped'
  BY <1>1, <1>7 DEF PlanInv, CountersTyped, MappingsTyped, PlansTyped
<1>9. Reserved' /\ Kept' /\ Apart'
  BY <1>1 DEF PlanInv, Reserved, ReservedBy, Kept, CountersKept, Apart, Attempts, Counter
<1>10. PublishedPlanned' /\ PlansLabelled'
  BY <1>1 DEF PlanInv, PublishedPlanned, PlansLabelled, Labelled, Attempts, PredictedRoot
<1>11. NotCounted'
  BY <1>1 DEF PlanInv, NotCounted, PredictedRoot
<1>12. ControllerMapped'
  BY <1>1 DEF PlanInv, ControllerMapped, Actuals, Root, Child
<1> QED
  BY <1>5, <1>8, <1>9, <1>10, <1>11, <1>12 DEF PlanInv

LEMMA PreparePlanStep ==
  ASSUME IInv, PlanInv, NEW t \in Tx, Prepare(t)
  PROVE  PlanInv'
<1>0. ChainShape /\ RecordShape /\ MappingsTyped /\ CountersTyped
  BY DEF IInv, PlanInv
<1>1. PICK mode \in Modes, trace \in Traces[t] :
        LET target == IF t \in Deploys THEN Root(t) ELSE ToActual(To[t])
            result == DerivePlan(t, mode, trace, target)
        IN  /\ CanHappen(t, target, trace)
            /\ IF result.refused
                 THEN /\ state' = [state EXCEPT ![t] = "failed"]
                      /\ UNCHANGED <<plan, counter>>
                 ELSE /\ state' = [state EXCEPT ![t] = "native-built"]
                      /\ plan' = [plan EXCEPT ![t] =
                           [mode |-> mode, target |-> target,
                            attempts |-> result.attempts, finals |-> result.next]]
                      /\ counter' = Reserve(result.next)
  BY DEF Prepare
<1>2. PICK target : target = IF t \in Deploys THEN Root(t) ELSE ToActual(To[t])
  OBVIOUS
<1>3. PICK r : r = DerivePlan(t, mode, trace, target)
  OBVIOUS
<1>4. state[t] = "received" /\ UNCHANGED <<mappings, chain>>
  BY DEF Prepare
<1>5. CASE r.refused
  <2>1. state' = [state EXCEPT ![t] = "failed"] /\ UNCHANGED <<plan, counter>>
    BY <1>1, <1>5, <1>2, <1>3
  <2>2. \A u \in Tx : state'[u] = "received" => state[u] = "received"
    BY <1>0, <2>1 DEF RecordShape
  <2> QED
    BY <1>4, <2>1, <2>2, RecordStep
<1>6. CASE ~r.refused
  <2>1. Planning(t, mode, trace, target, r, Len(trace))
    BY <1>0, <1>1, <1>6, <1>2, <1>3, PlanDerived
  <2>2. /\ state' = [state EXCEPT ![t] = "native-built"]
        /\ plan' = [plan EXCEPT ![t] = [mode |-> mode, target |-> target,
                                        attempts |-> r.attempts, finals |-> r.next]]
        /\ counter' = Over(r.next, counter)
    BY <1>1, <1>6, <1>2, <1>3 DEF Reserve
  <2>3. /\ \A u \in Tx \ {t} : plan'[u] = plan[u] /\ Attempts(u)' = Attempts(u)
                               /\ state'[u] = state[u]
        /\ state'[t] = "native-built"
        /\ plan'[t].mode = mode /\ plan'[t].finals = r.next
        /\ plan'[t].attempts = r.attempts /\ Attempts(t)' = r.attempts
    BY <1>0, <2>2 DEF RecordShape, Attempts
  <2>4. NextFine(t, r.next) /\ r.attempts \in Seq(Attempt) /\ Unequal(r.attempts)
        /\ \A i \in DOMAIN r.attempts : NumberedBy(r.next, r.attempts[i])
    BY <2>1 DEF Planning
  <2>5. /\ DOMAIN counter' = DOMAIN r.next \cup DOMAIN counter
        /\ \A c \in DOMAIN r.next : counter'[c] = r.next[c]
        /\ \A c \in DOMAIN counter \ DOMAIN r.next : counter'[c] = counter[c]
    BY <2>2 DEF Over
  <2>6. \A c : Counter(counter, c) \in Nat /\ Counter(counter, c)' \in Nat
               /\ Counter(counter, c)' >= Counter(counter, c)
    <3> SUFFICES ASSUME NEW c PROVE Counter(counter, c) \in Nat /\ Counter(counter, c)' \in Nat
                                    /\ Counter(counter, c)' >= Counter(counter, c)
      OBVIOUS
    <3>1. Counter(counter, c) \in Nat
      BY <1>0 DEF CountersTyped, Counter
    <3>2. CASE c \in DOMAIN r.next
      <4>1. Counter(counter, c)' = r.next[c]
        BY <2>5, <3>2 DEF Counter
      <4> QED
        BY <2>4, <3>1, <3>2, <4>1 DEF NextFine
    <3>3. CASE c \notin DOMAIN r.next
      <4>1. Counter(counter, c)' = Counter(counter, c)
        BY <2>5, <3>3 DEF Counter
      <4> QED
        BY <3>1, <4>1
    <3> QED
      BY <3>2, <3>3
  <2>7. CountersTyped'
    BY <1>0, <2>4, <2>5 DEF CountersTyped, NextFine
  <2>8. Executed' /\ MappingsTyped'
    BY <1>4 DEF PlanInv, Executed, MappingsTyped, Succeeded, OnChain, Created, Root, Child
  <2>9. PlansTyped'
    BY <2>3, <2>4 DEF PlanInv, PlansTyped, NextFine
  <2>10. Reserved'
    <3> SUFFICES ASSUME NEW u \in Tx, NEW k \in DOMAIN Attempts(u)' PROVE ReservedBy(Attempts(u)[k])'
      BY DEF Reserved
    <3>1. CASE u # t
      <4>1. k \in DOMAIN Attempts(u) /\ Attempts(u)'[k] = Attempts(u)[k]
        BY <2>3, <3>1
      <4>2. ReservedBy(Attempts(u)[k])
        BY <4>1 DEF PlanInv, Reserved
      <4>3. PICK n \in Nat : /\ Attempts(u)[k].predicted = Append(Attempts(u)[k].caller, n)
                             /\ n < Counter(counter, Attempts(u)[k].caller)
        BY <4>2 DEF ReservedBy
      <4>4. n < Counter(counter, Attempts(u)[k].caller)'
        BY <2>6, <4>1, <4>3
      <4> QED
        BY <4>1, <4>2, <4>3, <4>4 DEF ReservedBy
    <3>2. CASE u = t
      <4>1. k \in DOMAIN r.attempts /\ Attempts(u)'[k] = r.attempts[k]
        BY <2>3, <3>2
      <4>2. NumberedBy(r.next, r.attempts[k])
        BY <2>4, <4>1
      <4>3. PICK n \in Nat : /\ r.attempts[k].predicted = Append(r.attempts[k].caller, n)
                             /\ n < r.next[r.attempts[k].caller]
        BY <4>2 DEF NumberedBy
      <4>4. Counter(counter, r.attempts[k].caller)' = r.next[r.attempts[k].caller]
        BY <2>5, <4>2 DEF NumberedBy, Counter
      <4>5. r.attempts[k].caller # Sender
        BY <2>4, <4>2 DEF NumberedBy, NextFine, Fine
      <4> QED
        BY <4>1, <4>3, <4>4, <4>5 DEF ReservedBy
    <3> QED
      BY <3>1, <3>2
  <2>11. Kept'
    <3> SUFFICES ASSUME NEW u \in Tx, NEW c \in DOMAIN plan'[u].finals
                 PROVE  Counter(counter, c)' >= plan'[u].finals[c]
      BY DEF Kept, CountersKept
    <3>1. CASE u # t
      <4>1. c \in DOMAIN plan[u].finals /\ plan'[u].finals[c] = plan[u].finals[c]
        BY <2>3, <3>1
      <4>2. Counter(counter, c) >= plan[u].finals[c] /\ plan[u].finals[c] \in Nat
        BY <4>1 DEF PlanInv, Kept, CountersKept, PlansTyped
      <4> QED
        BY <2>6, <4>1, <4>2
    <3>2. CASE u = t
      <4>1. c \in DOMAIN r.next /\ plan'[u].finals[c] = r.next[c]
        BY <2>3, <3>2
      <4>2. Counter(counter, c)' = r.next[c] /\ r.next[c] \in Nat
        BY <2>4, <2>5, <4>1 DEF Counter, NextFine
      <4> QED
        BY <4>1, <4>2
    <3> QED
      BY <3>1, <3>2
\* What is reserved now was not reserved before.
  <2>12. ASSUME NEW u \in Tx \ {t}, NEW j \in DOMAIN r.attempts, NEW k \in DOMAIN Attempts(u)
         PROVE  r.attempts[j].predicted # Attempts(u)[k].predicted
    <3>1. r.attempts[j] \in Attempt /\ NumberedBy(r.next, r.attempts[j])
      BY <2>4, SeqElement
    <3>2. Attempts(u)[k] \in Attempt /\ ReservedBy(Attempts(u)[k])
      <4>1. Attempts(u) \in Seq(Attempt)
        BY DEF PlanInv, PlansTyped, Attempts
      <4> QED
        BY <4>1, SeqElement DEF PlanInv, Reserved
    <3> DEFINE p == r.attempts[j].caller
               q == Attempts(u)[k].caller
    <3>3. p \in Seq(Nat) /\ q \in Seq(Nat)
      BY <3>1, <3>2 DEF Attempt
    <3>4. PICK n \in Nat : r.attempts[j].predicted = Append(p, n) /\ Counter(counter, p) <= n
      BY <3>1 DEF NumberedBy
    <3>5. PICK m \in Nat : Attempts(u)[k].predicted = Append(q, m) /\ m < Counter(counter, q)
      BY <3>2 DEF ReservedBy
    <3> HIDE DEF p, q
    <3>6. ASSUME Append(p, n) = Append(q, m) PROVE FALSE
      <4>1. p = q /\ n = m
        BY <3>3, <3>6, AppendOnce
      <4> QED
        BY <2>6, <3>4, <3>5, <4>1
    <3> QED
      BY <3>4, <3>5, <3>6
  <2>13. Apart'
    <3> SUFFICES ASSUME NEW u \in Tx, NEW v \in Tx,
                        NEW j \in DOMAIN Attempts(u)', NEW k \in DOMAIN Attempts(v)',
                        Attempts(u)'[j].predicted = Attempts(v)'[k].predicted
                 PROVE  u = v /\ j = k
      BY DEF Apart
    <3>1. CASE u # t /\ v # t
      BY <2>3, <3>1 DEF PlanInv, Apart
    <3>2. CASE u = t /\ v # t
      BY <2>3, <2>12, <3>2
    <3>3. CASE u # t /\ v = t
      BY <2>3, <2>12, <3>3
    <3>4. CASE u = t /\ v = t
      BY <2>3, <2>4, <3>4 DEF Unequal
    <3> QED
      BY <3>1, <3>2, <3>3, <3>4
\* A transaction that has published something was confirmed, and not prepared now.
  <2>14. PublishedPlanned'
    <3> SUFFICES ASSUME NEW p \in DOMAIN mappings, NEW u \in Tx, u = mappings[p].source
                 PROVE  \/ u \in Deploys /\ p = PredictedRoot(u)
                        \/ \E k \in DOMAIN Attempts(u)' : p = Attempts(u)'[k].predicted
      BY <1>4 DEF PublishedPlanned, PredictedRoot
    <3>1. u # t
      BY <1>4, SourceConfirmed DEF IInv
    <3>2. Attempts(u)' = Attempts(u)
      BY <2>3, <3>1
    <3> QED
      BY <3>2 DEF PlanInv, PublishedPlanned
  <2>15. PlansLabelled'
    <3> SUFFICES ASSUME NEW u \in Tx
                 PROVE  \/ u \in Proxies /\ PredictedRoot(u) \in DOMAIN mappings
                        \/ Labelled(u, Attempts(u)')
      BY <1>4 DEF PlansLabelled, PredictedRoot, Labelled
    <3>1. CASE u # t
      BY <2>3, <3>1 DEF PlanInv, PlansLabelled
    <3>2. CASE u = t
      <4>1. \/ t \in Proxies /\ PredictedRoot(t) \in DOMAIN mappings
            \/ PredictedRoot(t) \notin DOMAIN counter \/ t \notin Proxies
        BY <1>4, ReconcilerAssumption DEF PlanInv, NotCounted
      <4>2. PredictedRoot(t) \notin DOMAIN counter \/ t \notin Proxies => Labelled(t, r.attempts)
        BY <2>1 DEF Planning
      <4> QED
        BY <2>3, <3>2, <4>1, <4>2
    <3> QED
      BY <3>1, <3>2
  <2>16. NotCounted'
    <3> SUFFICES ASSUME NEW u \in Deploys, state'[u] = "received", PredictedRoot(u) \in DOMAIN counter'
                 PROVE  PredictedRoot(u) \in DOMAIN mappings
      BY <1>4 DEF NotCounted, PredictedRoot
    <3>1. u \in Tx \ {t} /\ state[u] = "received" /\ PredictedRoot(u) = <<u>>
      BY <2>3, ReconcilerAssumption DEF PredictedRoot
    <3>2. CASE PredictedRoot(u) \in DOMAIN counter
      BY <3>1, <3>2 DEF PlanInv, NotCounted
    <3>3. CASE PredictedRoot(u) \in DOMAIN r.next
      BY <2>4, <3>1, <3>3 DEF NextFine, Fine
    <3> QED
      BY <2>5, <3>2, <3>3
  <2>17. ControllerMapped'
    BY <1>4 DEF PlanInv, ControllerMapped, Actuals, Root, Child
  <2> QED
    BY <2>7, <2>8, <2>9, <2>10, <2>11, <2>13, <2>14, <2>15, <2>16, <2>17 DEF PlanInv
<1> QED
  BY <1>5, <1>6

\* A mapping that is published is of the deployed contract or of a planned child.
LEMMA NewMappingIs ==
  ASSUME NEW t \in Tx, RecordShape, state[t] = "broadcast", NEW p \in DOMAIN NewMappings(t)
  PROVE  LET m == NewMappings(t)[p]
         IN  /\ m.source = t
             /\ \/ /\ t \in Deploys /\ p = PredictedRoot(t) /\ m.actual = Root(t)
                   /\ m.kind \in {"transparent-proxy", "other"}
                \/ \E k \in Planned(t) :
                     /\ p = Attempts(t)[k].predicted /\ m.actual = Child(t, k)
                     /\ m.kind = Attempts(t)[k].kind
<1>1. CASE t \in Deploys /\ p = PredictedRoot(t)
  <2>1. p \in DOMAIN RootMapping(t)
    BY <1>1 DEF RootMapping
  <2>2. RootMapping(t)[p] = [actual |-> plan[t].target, creator |-> Sender, source |-> t,
                             kind |-> IF t \in Proxies THEN "transparent-proxy" ELSE "other"]
    BY <1>1 DEF RootMapping
  <2>3. NewMappings(t)[p] = RootMapping(t)[p] /\ plan[t].target = Root(t)
    BY <1>1, <2>1 DEF NewMappings, Over, RecordShape, PreparedStates
  <2> QED
    BY <1>1, <2>2, <2>3
<1>2. CASE ~(t \in Deploys /\ p = PredictedRoot(t))
  <2>1. p \notin DOMAIN RootMapping(t)
    BY <1>2 DEF RootMapping
  <2>2. p \in DOMAIN ChildMappings(t) /\ NewMappings(t)[p] = ChildMappings(t)[p]
    BY <2>1 DEF NewMappings, Over
  <2>3. p \in {Attempts(t)[k].predicted : k \in Planned(t)}
    BY <2>2 DEF ChildMappings
  <2>4. PICK k \in Planned(t) : k = CHOOSE j \in Planned(t) : Attempts(t)[j].predicted = p
    BY <2>3
  <2>5. Attempts(t)[k].predicted = p
    BY <2>3, <2>4
  <2>6. ChildMappings(t)[p] = [actual |-> Child(t, k), creator |-> Attempts(t)[k].caller,
                               source |-> t, kind |-> Attempts(t)[k].kind]
    BY <2>3, <2>4 DEF ChildMappings
  <2> QED
    BY <2>2, <2>5, <2>6
<1> QED
  BY <1>1, <1>2

\* Every planned child is published, and only once.
LEMMA ChildPublished ==
  ASSUME NEW t \in Tx, Distinct(t), NEW k \in Planned(t)
  PROVE  /\ Attempts(t)[k].predicted \in DOMAIN NewMappings(t)
         /\ NewMappings(t)[Attempts(t)[k].predicted].actual = Child(t, k)
<1> DEFINE p == Attempts(t)[k].predicted
<1>1. p \in DOMAIN ChildMappings(t) /\ p \in {Attempts(t)[j].predicted : j \in Planned(t)}
  BY DEF ChildMappings
<1>2. p \notin DOMAIN RootMapping(t)
  BY DEF Distinct, RootMapping
<1>3. p \in DOMAIN NewMappings(t) /\ NewMappings(t)[p] = ChildMappings(t)[p]
  BY <1>1, <1>2 DEF NewMappings, Over
<1>4. (CHOOSE j \in Planned(t) : Attempts(t)[j].predicted = p) = k
  BY DEF Distinct
<1>5. ChildMappings(t)[p].actual = Child(t, k)
  BY <1>1, <1>4 DEF ChildMappings
<1> QED
  BY <1>3, <1>5

\* A receipt that matches has the creations that were planned.
LEMMA MatchedCreations ==
  ASSUME ChainShape, PlansTyped, NEW t \in Tx, Matches(t)
  PROVE  Planned(t) = Created(t)
<1>1. Succeeded(t) /\ TopologyMatches(t)
  BY DEF Matches
<1>2. chain[t].trace \in Seq([by : Int, ok : BOOLEAN])
  BY DEF ChainShape
<1>3. DOMAIN chain[t].trace = 1..Len(Attempts(t))
  BY <1>1, <1>2 DEF TopologyMatches
<1>4. \A k \in DOMAIN chain[t].trace : chain[t].trace[k].ok = Attempts(t)[k].ok
  BY <1>1 DEF TopologyMatches
<1> QED
  BY <1>1, <1>3, <1>4 DEF Planned, Created

LEMMA AddressOnce ==
  ASSUME NEW t, NEW j, NEW u, NEW k, <<0, t, j>> = <<0, u, k>>
  PROVE  t = u /\ j = k
<1>1. <<0, t, j>>[2] = t /\ <<0, u, k>>[2] = u /\ <<0, t, j>>[3] = j /\ <<0, u, k>>[3] = k
  OBVIOUS
<1> QED
  BY <1>1

LEMMA ReconcilePlanStep ==
  ASSUME IInv, PlanInv, NEW t \in Tx, Reconcile(t)
  PROVE  PlanInv'
<1> DEFINE new == NewMappings(t)
<1>1. /\ state[t] = "broadcast" /\ Succeeded(t) /\ Matches(t)
      /\ Distinct(t) /\ MappingsFree(new)
      /\ mappings' = Over(new, mappings) /\ UNCHANGED <<plan, counter, chain>>
      /\ state' = [state EXCEPT ![t] = "confirmed"]
  BY DEF Reconcile, Matches, Publishable
<1>2. RecordShape /\ ChainShape /\ PlansTyped /\ MappingsTyped
  BY DEF IInv, PlanInv
<1>3. /\ DOMAIN mappings' = DOMAIN new \cup DOMAIN mappings
      /\ DOMAIN new \cap DOMAIN mappings = {}
      /\ \A p \in DOMAIN mappings : mappings'[p] = mappings[p]
      /\ \A p \in DOMAIN new : mappings'[p] = new[p]
  BY <1>1 DEF Over, MappingsFree
<1>4. Planned(t) = Created(t)
  BY <1>1, <1>2, MatchedCreations
<1>5. ASSUME NEW p \in DOMAIN new
      PROVE  /\ new[p].source = t
             /\ \/ /\ t \in Deploys /\ p = PredictedRoot(t) /\ new[p].actual = Root(t)
                   /\ new[p].kind \in {"transparent-proxy", "other"}
                \/ \E k \in Planned(t) :
                     /\ p = Attempts(t)[k].predicted /\ new[p].actual = Child(t, k)
                     /\ new[p].kind = Attempts(t)[k].kind
  BY <1>1, <1>2, NewMappingIs
<1>6. \A k \in Planned(t) : Attempts(t)[k].predicted \in DOMAIN new
                            /\ new[Attempts(t)[k].predicted].actual = Child(t, k)
  BY <1>1, ChildPublished
<1>7. \A k \in Planned(t) : /\ k \in DOMAIN Attempts(t) /\ k \in Nat \ {0}
                            /\ Attempts(t)[k] \in Attempt /\ ReservedBy(Attempts(t)[k])
  <2> SUFFICES ASSUME NEW k \in Planned(t)
               PROVE  /\ k \in DOMAIN Attempts(t) /\ k \in Nat \ {0}
                      /\ Attempts(t)[k] \in Attempt /\ ReservedBy(Attempts(t)[k])
    OBVIOUS
  <2>1. Attempts(t) \in Seq(Attempt)
    BY <1>2 DEF PlansTyped, Attempts
  <2>2. k \in DOMAIN Attempts(t) /\ k \in Nat \ {0}
    BY <2>1 DEF Planned
  <2> QED
    BY <2>1, <2>2, SeqElement DEF PlanInv, Reserved
<1> HIDE DEF new
<1>8. MappingsTyped'
  <2>1. OnChain' = OnChain
    BY <1>1 DEF OnChain, Succeeded, Created, Root, Child
  <2>2. ASSUME NEW p \in DOMAIN new
        PROVE  /\ p \in Seq(Nat) \ {Sender} /\ new[p].actual \in OnChain
               /\ new[p].kind \in {"transparent-proxy", "proxy-admin", "other"}
    <3>1. CASE /\ t \in Deploys /\ p = PredictedRoot(t) /\ new[p].actual = Root(t)
               /\ new[p].kind \in {"transparent-proxy", "other"}
      <4>1. p = <<t>> /\ t \in Nat
        BY <3>1, ReconcilerAssumption DEF PredictedRoot
      <4>2. p \in Seq(Nat) \ {Sender}
        BY <4>1 DEF Sender
      <4>3. Root(t) \in OnChain
        BY <1>1, <3>1 DEF OnChain
      <4> QED
        BY <3>1, <4>2, <4>3
    <3>2. ASSUME NEW k \in Planned(t), p = Attempts(t)[k].predicted, new[p].actual = Child(t, k),
                 new[p].kind = Attempts(t)[k].kind
          PROVE  /\ p \in Seq(Nat) \ {Sender} /\ new[p].actual \in OnChain
                 /\ new[p].kind \in {"transparent-proxy", "proxy-admin", "other"}
      <4>1. Attempts(t)[k] \in Attempt /\ ReservedBy(Attempts(t)[k])
        BY <1>7
      <4>2. PICK n \in Nat : p = Append(Attempts(t)[k].caller, n)
        BY <3>2, <4>1 DEF ReservedBy
      <4>3. Attempts(t)[k].caller \in Seq(Nat) \ {Sender} /\ p \in Seq(Nat)
        BY <3>2, <4>1 DEF ReservedBy, Attempt
      <4>4. p # Sender
        BY <4>2, <4>3, ChildFine DEF Fine
      <4>5. Child(t, k) \in OnChain
        BY <1>4 DEF OnChain
      <4> QED
        BY <3>2, <4>1, <4>3, <4>4, <4>5 DEF Attempt
    <3> QED
      BY <1>5, <3>1, <3>2
  <2> QED
    BY <1>2, <1>3, <2>1, <2>2 DEF MappingsTyped
<1>9. Executed' /\ CountersTyped' /\ PlansTyped'
  BY <1>1 DEF PlanInv, Executed, CountersTyped, PlansTyped, Succeeded
<1>10. Reserved' /\ Kept' /\ Apart'
  BY <1>1 DEF PlanInv, Reserved, ReservedBy, Kept, CountersKept, Apart, Attempts, Counter
<1>11. PublishedPlanned'
  <2> SUFFICES ASSUME NEW p \in DOMAIN mappings', NEW u \in Tx, u = mappings'[p].source
               PROVE  \/ u \in Deploys /\ p = PredictedRoot(u)
                      \/ \E k \in DOMAIN Attempts(u) : p = Attempts(u)[k].predicted
    BY <1>1 DEF PublishedPlanned, PredictedRoot, Attempts
  <2>1. CASE p \in DOMAIN mappings
    BY <1>3, <2>1 DEF PlanInv, PublishedPlanned
  <2>2. CASE p \in DOMAIN new
    BY <1>3, <1>5, <1>7, <2>2
  <2> QED
    BY <1>3, <2>1, <2>2
<1>12. PlansLabelled'
  BY <1>1, <1>3 DEF PlanInv, PlansLabelled, Labelled, Attempts, PredictedRoot
<1>13. NotCounted'
  <2>1. \A u \in Tx : state'[u] = "received" => state[u] = "received"
    BY <1>1, <1>2 DEF RecordShape
  <2> QED
    BY <1>1, <1>3, <2>1, ReconcilerAssumption DEF PlanInv, NotCounted, PredictedRoot
\* The first creation of a proxy succeeded, so its ProxyAdmin is published too.
<1>14. t \in Proxies => 1 \in Planned(t)
  <2> SUFFICES ASSUME t \in Proxies PROVE 1 \in Created(t)
    BY <1>4
  <2>1. chain[t].trace \in Traces[t] /\ chain[t].trace \in Seq([by : Int, ok : BOOLEAN])
    BY <1>1, <1>2 DEF PlanInv, Executed, ChainShape
  <2>2. Len(chain[t].trace) > 0 /\ chain[t].trace[1].ok
    BY <2>1, ProxyAssumption
  <2>3. 1 \in DOMAIN chain[t].trace
    BY <2>1, <2>2
  <2> QED
    BY <1>1, <2>2, <2>3 DEF Created
<1>15. ASSUME NEW v \in Proxies, Root(v) \in Actuals'
       PROVE  Child(v, 1) \in Actuals'
  <2>1. PICK p \in DOMAIN mappings' : mappings'[p].actual = Root(v)
    BY <1>15 DEF Actuals
  <2>2. CASE p \in DOMAIN mappings
    <3>1. Root(v) \in Actuals
      BY <1>3, <2>1, <2>2 DEF Actuals
    <3>2. PICK q \in DOMAIN mappings : mappings[q].actual = Child(v, 1)
      BY <3>1 DEF PlanInv, ControllerMapped, Actuals
    <3> QED
      BY <1>3, <3>2 DEF Actuals
  <2>3. CASE p \in DOMAIN new
    <3>1. new[p].actual = Root(v)
      BY <1>3, <2>1, <2>3
    <3>2. v = t
      BY <1>5, <1>7, <2>3, <3>1, AddressOnce DEF Root, Child
    <3>3. PICK q \in DOMAIN new : new[q].actual = Child(t, 1)
      BY <1>6, <1>14, <3>2
    <3> QED
      BY <1>3, <3>2, <3>3 DEF Actuals
  <2> QED
    BY <1>3, <2>1, <2>2, <2>3
\* The planned labels, of a proxy whose predicted address is not taken.
<1>16. Labelled(t, Attempts(t))
  <2>1. ASSUME t \in Proxies PROVE PredictedRoot(t) \notin DOMAIN mappings
    <3>1. t \in Deploys
      BY <2>1, ReconcilerAssumption
    <3>2. PredictedRoot(t) \in DOMAIN new
      BY <3>1 DEF new, NewMappings, Over, RootMapping
    <3> QED
      BY <1>3, <3>2
  <2> QED
    BY <2>1 DEF PlanInv, PlansLabelled
<1>17. ASSUME NEW p \in DOMAIN new
       PROVE  new[p].kind = "proxy-admin" <=> \E v \in Proxies : new[p].actual = Child(v, 1)
  <2>1. CASE /\ t \in Deploys /\ p = PredictedRoot(t) /\ new[p].actual = Root(t)
             /\ new[p].kind \in {"transparent-proxy", "other"}
    <3>1. \A v : new[p].actual # Child(v, 1)
      BY <2>1, AddressOnce DEF Root, Child
    <3> QED
      BY <2>1, <3>1
  <2>2. ASSUME NEW k \in Planned(t), new[p].actual = Child(t, k),
               new[p].kind = Attempts(t)[k].kind
        PROVE  new[p].kind = "proxy-admin" <=> \E v \in Proxies : new[p].actual = Child(v, 1)
    <3>1. \A v : new[p].actual = Child(v, 1) <=> v = t /\ k = 1
      BY <2>2, AddressOnce DEF Child
    <3>2. k \in DOMAIN Attempts(t)
      BY <1>7
    <3>3. new[p].kind = "proxy-admin" <=> t \in Proxies /\ k = 1
      BY <1>16, <2>2, <3>2 DEF Labelled
    <3> QED
      BY <3>1, <3>3
  <2> QED
    BY <1>5, <2>1, <2>2
<1>18. ASSUME NEW p \in DOMAIN mappings'
       PROVE  mappings'[p].kind = "proxy-admin" <=> \E v \in Proxies : mappings'[p].actual = Child(v, 1)
  <2>1. CASE p \in DOMAIN mappings
    BY <1>3, <2>1 DEF PlanInv, ControllerMapped
  <2>2. CASE p \in DOMAIN new
    BY <1>3, <1>17, <2>2
  <2> QED
    BY <1>3, <2>1, <2>2
<1>19. ControllerMapped'
  BY <1>15, <1>18 DEF ControllerMapped, Root, Child
<1> QED
  BY <1>8, <1>9, <1>10, <1>11, <1>12, <1>13, <1>19 DEF PlanInv

\* A contract is adopted for what it is.
LEMMA KindTold ==
  ASSUME Executed, ChainShape, NEW a \in OnChain
  PROVE  KindOf(a) = "proxy-admin" <=> \E t \in Proxies : a = Child(t, 1)
<1>1. ASSUME NEW t \in Proxies, a = Child(t, 1)
      PROVE  KindOf(a) = "proxy-admin"
  <2>1. \A u : a # Root(u)
    BY <1>1, AddressOnce DEF Root, Child
  <2>2. a # Foreign
    <3>1. Len(<<0, t, 1>>) = 3 /\ Len(<<0>>) = 1
      OBVIOUS
    <3> QED
      BY <1>1, <3>1 DEF Child, Foreign
  <2>3. PICK u \in Tx : \E k \in Created(u) : a = Child(u, k)
    BY <2>1, <2>2 DEF OnChain
  <2>4. 1 \in Created(t)
    BY <1>1, <2>3, AddressOnce DEF Child
  <2>5. Succeeded(t) /\ t \in Tx
    BY <2>4, ReconcilerAssumption DEF Created
  <2>6. chain[t].trace[1].by = 0
    BY <2>5, ProxyAssumption DEF Executed
  <2> QED
    BY <1>1, <2>1, <2>4, <2>6 DEF KindOf
<1> QED
  BY <1>1 DEF KindOf

LEMMA AdoptPlanStep ==
  ASSUME IInv, PlanInv, NEW p \in Adoptable, NEW a, Adopt(p, a)
  PROVE  PlanInv'
<1> DEFINE new == One(p, [actual |-> a, creator |-> Sender, source |-> 0, kind |-> KindOf(a)])
<1>1. /\ a \in OnChain /\ ControllerFirst(a) /\ MappingsFree(new)
      /\ mappings' = Over(new, mappings) /\ UNCHANGED <<state, plan, counter, chain>>
  BY DEF Adopt
<1>2. DOMAIN new = {p} /\ new[p].actual = a /\ new[p].source = 0 /\ new[p].kind = KindOf(a)
  BY DEF One
<1> HIDE DEF new
<1>3. /\ DOMAIN mappings' = {p} \cup DOMAIN mappings /\ p \notin DOMAIN mappings
      /\ \A q \in DOMAIN mappings : mappings'[q] = mappings[q]
      /\ mappings'[p].actual = a /\ mappings'[p].source = 0 /\ mappings'[p].kind = KindOf(a)
  BY <1>1, <1>2 DEF Over, MappingsFree
<1>4. MappingsTyped'
  <2>1. OnChain' = OnChain
    BY <1>1 DEF OnChain, Succeeded, Created, Root, Child
  <2>2. p \in Seq(Nat) \ {Sender}
    BY ReconcilerAssumption, AdoptAssumption DEF Sender
  <2>3. KindOf(a) \in {"transparent-proxy", "proxy-admin", "other"}
    BY DEF KindOf
  <2> QED
    BY <1>1, <1>3, <2>1, <2>2, <2>3 DEF PlanInv, MappingsTyped
<1>5. Executed' /\ CountersTyped' /\ PlansTyped'
  BY <1>1 DEF PlanInv, Executed, CountersTyped, PlansTyped, Succeeded
<1>6. Reserved' /\ Kept' /\ Apart'
  BY <1>1 DEF PlanInv, Reserved, ReservedBy, Kept, CountersKept, Apart, Attempts, Counter
<1>7. PublishedPlanned'
  <2> SUFFICES ASSUME NEW q \in DOMAIN mappings', NEW u \in Tx, u = mappings'[q].source
               PROVE  \/ u \in Deploys /\ q = PredictedRoot(u)
                      \/ \E k \in DOMAIN Attempts(u) : q = Attempts(u)[k].predicted
    BY <1>1 DEF PublishedPlanned, PredictedRoot, Attempts
  <2>1. q # p
    BY <1>3, ReconcilerAssumption
  <2> QED
    BY <1>3, <2>1 DEF PlanInv, PublishedPlanned
<1>8. PlansLabelled'
  BY <1>1, <1>3 DEF PlanInv, PlansLabelled, Labelled, Attempts, PredictedRoot
<1>9. NotCounted'
  BY <1>1, <1>3 DEF PlanInv, NotCounted, PredictedRoot
<1>10. Actuals' = Actuals \cup {a}
  BY <1>3 DEF Actuals
<1>11. \A t \in Proxies : Root(t) \in Actuals' => Child(t, 1) \in Actuals'
  BY <1>1, <1>10 DEF PlanInv, ControllerMapped, ControllerFirst
<1>12. ASSUME NEW q \in DOMAIN mappings'
       PROVE  mappings'[q].kind = "proxy-admin" <=> \E t \in Proxies : mappings'[q].actual = Child(t, 1)
  <2>1. CASE q \in DOMAIN mappings
    BY <1>3, <2>1 DEF PlanInv, ControllerMapped
  <2>2. CASE q = p
    <3>1. KindOf(a) = "proxy-admin" <=> \E t \in Proxies : a = Child(t, 1)
      BY <1>1, KindTold DEF PlanInv, IInv
    <3> QED
      BY <1>3, <2>2, <3>1
  <2> QED
    BY <1>3, <2>1, <2>2
<1>13. ControllerMapped'
  BY <1>11, <1>12 DEF ControllerMapped, Root, Child
<1> QED
  BY <1>4, <1>5, <1>6, <1>7, <1>8, <1>9, <1>13 DEF PlanInv

LEMMA NextPlanInv == IInv /\ PlanInv /\ [Next]_vars => PlanInv'
<1> SUFFICES ASSUME IInv, PlanInv, [Next]_vars PROVE PlanInv'
  OBVIOUS
<1>0. RecordShape
  BY DEF IInv
<1>1. ASSUME NEW t \in Tx, Prepare(t) PROVE PlanInv'
  BY <1>1, PreparePlanStep
<1>2. ASSUME NEW t \in Tx, Broadcast(t) \/ RetainFailure(t) PROVE PlanInv'
  <2>1. UNCHANGED <<plan, counter, mappings, chain>>
    BY <1>2 DEF Broadcast, RetainFailure
  <2>2. \A u \in Tx : state'[u] = "received" => state[u] = "received"
    BY <1>0, <1>2 DEF Broadcast, RetainFailure, RecordShape
  <2> QED
    BY <2>1, <2>2, RecordStep
<1>3. ASSUME NEW t \in Tx, Execute(t) PROVE PlanInv'
  BY <1>3, ExecutePlanStep
<1>4. ASSUME NEW t \in Tx, Reconcile(t) PROVE PlanInv'
  BY <1>4, ReconcilePlanStep
<1>5. ASSUME NEW p \in Adoptable, NEW a, Adopt(p, a) PROVE PlanInv'
  BY <1>5, AdoptPlanStep
<1>6. CASE UNCHANGED vars
  BY <1>6, RecordStep DEF vars
<1> QED
  BY <1>1, <1>2, <1>3, <1>4, <1>5, <1>6 DEF Next

\* What the theorems on plans and labels are parts of.
THEOREM PlansInvariance == Spec => []PlanInv
<1> QED
  BY InitPlanInv, NextPlanInv, Invariance, PTL DEF Spec

\* A mapped transparent proxy has its ProxyAdmin mapped, and what is labelled a
\* ProxyAdmin is one, whether published from a receipt or adopted
\* (proxyAdminMetadata, the order of adoption).
THEOREM ControllersMapped == Spec => []ControllerMapped
<1>1. PlanInv => ControllerMapped
  BY DEF PlanInv
<1> QED
  BY <1>1, PlansInvariance, PTL

\* Nothing but an adoption makes a receipt that matches its plan unpublishable
\* (the reservation of nonces in recordPreparedNative).
THEOREM ConflictsOnlyByAdoption == Spec => []OnlyAdoptionConflicts
<1>1. ASSUME IInv, PlanInv PROVE OnlyAdoptionConflicts
  <2> SUFFICES ASSUME NEW t \in Tx, state[t] = "broadcast", Matches(t)
               PROVE  /\ CountersKept(t) /\ Distinct(t)
                      /\ \A p \in DOMAIN NewMappings(t) : p \in DOMAIN mappings => mappings[p].source = 0
                      /\ \A p \in DOMAIN NewMappings(t), q \in DOMAIN mappings :
                           mappings[q].actual = NewMappings(t)[p].actual => mappings[q].source = 0
    BY DEF OnlyAdoptionConflicts
  <2>1. CountersKept(t)
    BY <1>1 DEF PlanInv, Kept
  <2>2. \A k \in Planned(t) : k \in DOMAIN Attempts(t)
    <3>1. Attempts(t) \in Seq(Attempt)
      BY <1>1 DEF PlanInv, PlansTyped, Attempts
    <3> QED
      BY <3>1 DEF Planned
\* A child is nobody's root: its path is the longer one.
  <2>3. ASSUME NEW u \in Tx, NEW k \in DOMAIN Attempts(u), NEW v
        PROVE  Attempts(u)[k].predicted # <<v>>
    <3>1. Attempts(u)[k] \in Attempt
      <4>1. Attempts(u) \in Seq(Attempt)
        BY <1>1 DEF PlanInv, PlansTyped, Attempts
      <4> QED
        BY <4>1, SeqElement
    <3>2. ReservedBy(Attempts(u)[k])
      BY <1>1 DEF PlanInv, Reserved
    <3>3. PICK n \in Nat, c \in Seq(Nat) \ {Sender} : Attempts(u)[k].predicted = Append(c, n)
      BY <3>1, <3>2 DEF ReservedBy, Attempt
    <3>4. Len(Append(c, n)) > 1
      BY DEF Sender
    <3>5. Len(<<v>>) = 1
      OBVIOUS
    <3> QED
      BY <3>3, <3>4, <3>5
  <2>4. Distinct(t)
    BY <1>1, <2>2, <2>3, ReconcilerAssumption DEF PlanInv, Apart, Distinct, PredictedRoot
  <2>5. \A p \in DOMAIN NewMappings(t) :
          \/ t \in Deploys /\ p = <<t>> /\ NewMappings(t)[p].actual = <<0, t, 0>>
          \/ \E k \in Planned(t) : /\ p = Attempts(t)[k].predicted
                                   /\ NewMappings(t)[p].actual = <<0, t, k>>
    BY <1>1, NewMappingIs DEF IInv, PredictedRoot, Root, Child
\* Somebody else has published what is published.
  <2>6. ASSUME NEW q \in DOMAIN mappings, mappings[q].source # 0
        PROVE  mappings[q].source \in Tx \ {t}
    <3>1. mappings[q].source \in Tx
      BY <1>1, <2>6 DEF IInv, Sources
    <3>2. state[mappings[q].source] = "confirmed"
      BY <1>1, <3>1, SourceConfirmed DEF IInv
    <3> QED
      BY <3>1, <3>2
  <2>7. ASSUME NEW p \in DOMAIN NewMappings(t), p \in DOMAIN mappings, mappings[p].source # 0
        PROVE  FALSE
    <3>1. PICK u \in Tx \ {t} : u = mappings[p].source
      BY <2>6, <2>7
    <3>2. \/ p = <<u>>
          \/ \E k \in DOMAIN Attempts(u) : p = Attempts(u)[k].predicted
      BY <1>1, <2>7, <3>1 DEF PlanInv, PublishedPlanned, PredictedRoot
    <3>3. <<t>> # <<u>>
      <4>1. <<t>>[1] = t /\ <<u>>[1] = u
        OBVIOUS
      <4> QED
        BY <3>1, <4>1
    <3>4. ASSUME NEW j \in DOMAIN Attempts(t), NEW k \in DOMAIN Attempts(u)
          PROVE  Attempts(t)[j].predicted # Attempts(u)[k].predicted
      BY <1>1 DEF PlanInv, Apart
    <3> QED
      BY <2>2, <2>3, <2>5, <3>2, <3>3, <3>4
  <2>8. ASSUME NEW p \in DOMAIN NewMappings(t), NEW q \in DOMAIN mappings,
               mappings[q].actual = NewMappings(t)[p].actual, mappings[q].source # 0
        PROVE  FALSE
    <3>1. PICK u \in Tx \ {t} : u = mappings[q].source
      BY <2>6, <2>8
    <3>2. \E k : mappings[q].actual = <<0, u, k>>
      BY <1>1, <2>8, <3>1 DEF IInv, MappingsTrue, Root, Child
    <3>3. \E k : mappings[q].actual = <<0, t, k>>
      BY <2>5, <2>8
    <3> QED
      BY <3>1, <3>2, <3>3, AddressOnce
  <2> QED
    BY <2>1, <2>4, <2>7, <2>8
<1> QED
  BY <1>1, Invariance, PlansInvariance, PTL

\* Every record, plan and mapping has the values the code gives it.
THEOREM TypeCorrectness == Spec => []TypeOK
<1>1. Init => adopts \in 0..MaxAdopts
  BY ReconcilerAssumption DEF Init
<1>2. adopts \in 0..MaxAdopts /\ [Next]_vars => (adopts \in 0..MaxAdopts)'
  <2> SUFFICES ASSUME adopts \in 0..MaxAdopts, [Next]_vars PROVE adopts' \in 0..MaxAdopts
    OBVIOUS
  <2>1. ASSUME NEW t \in Tx, Prepare(t) \/ Broadcast(t) \/ Execute(t) \/ Reconcile(t) \/ RetainFailure(t)
        PROVE  adopts' = adopts
    BY <2>1 DEF Prepare, Broadcast, Execute, Reconcile, RetainFailure
  <2>2. ASSUME NEW p, NEW a, Adopt(p, a) PROVE adopts < MaxAdopts /\ adopts' = adopts + 1
    BY <2>2 DEF Adopt
  <2>3. adopts' = adopts \/ (adopts < MaxAdopts /\ adopts' = adopts + 1)
    BY <2>1, <2>2 DEF Next, vars
  <2> QED
    BY <2>3, ReconcilerAssumption
<1>3. IInv /\ PlanInv /\ adopts \in 0..MaxAdopts => TypeOK
  <2> SUFFICES ASSUME IInv, PlanInv, adopts \in 0..MaxAdopts PROVE TypeOK
    OBVIOUS
  <2>1. ASSUME NEW t \in Tx
        PROVE  /\ state[t] \in {"received", "native-built", "broadcast", "confirmed", "retained", "failed"}
               /\ plan[t].mode \in Modes \cup {"none"}
               /\ \A k \in DOMAIN plan[t].attempts : plan[t].attempts[k].caller \in Seq(Nat)
               /\ \A p \in DOMAIN plan[t].finals : plan[t].finals[p] \in Nat \ {0, 1}
               /\ chain[t].done \in BOOLEAN /\ chain[t].ok \in BOOLEAN
    <3>1. state[t] \in {"received", "native-built", "broadcast", "confirmed", "retained", "failed"}
      BY DEF IInv, RecordShape
    <3>2. ASSUME NEW k \in DOMAIN plan[t].attempts PROVE plan[t].attempts[k].caller \in Seq(Nat)
      <4>1. plan[t].attempts \in Seq(Attempt)
        BY DEF PlanInv, PlansTyped
      <4>2. plan[t].attempts[k] \in Attempt
        BY <4>1, SeqElement
      <4> QED
        BY <4>2 DEF Attempt
    <3>3. chain[t] \in [done : BOOLEAN, ok : BOOLEAN, trace : Seq([by : Int, ok : BOOLEAN])]
      BY DEF IInv, ChainShape
    <3>4. plan[t].mode \in Modes \cup {"none"}
          /\ \A p \in DOMAIN plan[t].finals : plan[t].finals[p] \in Nat \ {0, 1}
      BY DEF PlanInv, PlansTyped
    <3> QED
      BY <3>1, <3>2, <3>3, <3>4
  <2>2. \A p \in DOMAIN counter : counter[p] \in Nat \ {0, 1}
    BY DEF PlanInv, CountersTyped
  <2>3. \A p \in DOMAIN mappings :
          /\ mappings[p].actual \in OnChain
          /\ mappings[p].source \in Tx \cup {0}
          /\ mappings[p].kind \in {"transparent-proxy", "proxy-admin", "other"}
    BY DEF IInv, Sources, PlanInv, MappingsTyped
  <2> QED
    BY <2>1, <2>2, <2>3 DEF TypeOK
<1> QED
  BY <1>1, <1>2, <1>3, Invariance, PlansInvariance, PTL DEF Spec
=============================================================================
