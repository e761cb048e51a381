------------------------ MODULE ScriptSessionProofs ------------------------
(***************************************************************************)
(* Proofs about ScriptSession, for every set of builds, calls, contracts   *)
(* and payloads:                                                           *)
(*  - the calls of the library are those of UpgradeLibrary, and what they  *)
(*    deploy has passed its validation;                                    *)
(*  - the invariant of a session (SessionInv), on which the rest stands:   *)
(*    what is read, what is answered, what a call is decoded by;           *)
(*  - a session implements EthereumChain: what the operators of EvmWorld   *)
(*    do on TRON is, seen through Twin, what they do on that chain;        *)
(*  - numbers arrive as they were written (NumbersInv), and an upgrade     *)
(*    that succeeds has upgraded (UpgradeInv).                             *)
(***************************************************************************)
EXTENDS ScriptSession, TLAPS, SequenceTheorems

\* The build-infos held the checked build alone at the first check; they do
\* still, or that is among what they no longer are.
Remembered == infos = {checked} \/ {checked} \in left

\* What the validator has accepted it was shown while the build-infos were
\* those of the checked build, or not.
Accepted == Succeeded => Passes(shown, job) /\ (shown = checked \/ {checked} \in left)

\* Where a call that validates stands.
Course ==
  /\ pc \in {"check", "match", "validator", "classify", "read", "passed", "deployed", "failed"}
  /\ round = 1 => pc \in {"check", "match", "validator", "failed"}
  /\ pc = "validator" => round = 1
  /\ pc = "classify" => round = 2
  /\ pc \in {"read", "passed", "deployed"} => round = 3

Validated ==
  /\ pc = "validator" \/ round # 1 => Remembered
  /\ round # 1 => Accepted
  /\ (pc = "classify" \/ round = 3) /\ Succeeded => shown = checked \/ restored
  /\ round = 3 => Succeeded
  /\ pc = "deployed" => deployed = checked

\* What was and is again has been restored.
Noticed == infos \in left => restored

IInv == LibTypeOK /\ Noticed /\ (pc # "idle" /\ ~job.skipAll => Course /\ Validated)

-----------------------------------------------------------------------------
\* A call of the library is a record of its options.
LEMMA JobOptions ==
  ASSUME NEW j \in Jobs
  PROVE  j # None /\ j.skipAll \in BOOLEAN
  BY LibraryAssumption

LEMMA NoReportIsReport == NoReport \in [exit : {0, 1}, lines : SUBSET Markers]
  BY DEF NoReport

\* At the start no call is under way.
LEMMA LibInitially == LibInit => IInv
<1> SUFFICES ASSUME LibInit PROVE IInv
  OBVIOUS
<1> USE DEF LibInit
<1>1. restored \in BOOLEAN
  OBVIOUS
<1>2. report \in [exit : {0, 1}, lines : SUBSET Markers]
  BY NoReportIsReport
<1>3. artifact \in Builds \cup {None} /\ infos \subseteq Builds /\ left \subseteq SUBSET Builds
  OBVIOUS
<1>4. {seen, checked, shown, deployed} \subseteq Builds \cup {None}
  OBVIOUS
<1> QED
  BY <1>1, <1>2, <1>3, <1>4 DEF IInv, LibTypeOK, Noticed, Steps

\* An edit of the directory keeps what the call has seen: what the
\* build-infos were is remembered.
LEMMA CompileKeeps ==
  ASSUME IInv, Compile
  PROVE  IInv'
<1> USE DEF Touch, callVars
<1>1. LibTypeOK'
  <2>1. CASE WriteArtifact
    BY <2>1, LibraryAssumption DEF IInv, LibTypeOK, WriteArtifact
  <2>2. CASE WriteInfos
    BY <2>2, LibraryAssumption DEF IInv, LibTypeOK, WriteInfos
  <2> QED
    BY <2>1, <2>2 DEF Compile
<1>2. Noticed'
  <2>1. CASE WriteArtifact
    BY <2>1 DEF IInv, Noticed, WriteArtifact
  <2>2. CASE WriteInfos
    BY <2>2 DEF Noticed, WriteInfos
  <2> QED
    BY <2>1, <2>2 DEF Compile
<1>3. ASSUME pc # "idle", ~job.skipAll PROVE (Course /\ Validated)'
  <2>1. pc' = pc /\ round' = round /\ job' = job /\ checked' = checked /\ shown' = shown
        /\ report' = report /\ deployed' = deployed
    BY DEF Compile, WriteArtifact, WriteInfos
  <2>2. left \subseteq left' /\ (restored => restored') /\ (Remembered => Remembered')
    <3>1. CASE WriteArtifact
      BY <2>1, <3>1 DEF WriteArtifact, Remembered
    <3>2. CASE WriteInfos
      <4>1. left' = left \cup {infos} /\ (restored => restored')
        BY <1>3, <3>2 DEF WriteInfos
      <4> QED
        BY <2>1, <4>1 DEF Remembered
    <3> QED
      BY <3>1, <3>2 DEF Compile
  <2>3. Succeeded' = Succeeded /\ Passes(shown, job)' = Passes(shown, job)
    BY <2>1 DEF Succeeded, Passes
  <2> QED
    BY <1>3, <2>1, <2>2, <2>3 DEF IInv, Course, Validated, Accepted
<1> QED
  BY <1>1, <1>2, <1>3 DEF IInv, Compile, WriteArtifact, WriteInfos

-----------------------------------------------------------------------------
\* The call starts, and ends, with nothing remembered.
LEMMA BeginKeeps ==
  ASSUME IInv, NEW j \in Jobs, Begin(j)
  PROVE  IInv'
<1> USE DEF Begin, Goto, Afresh, disk
<1>1. LibTypeOK'
  <2>1. (report \in [exit : {0, 1}, lines : SUBSET Markers])'
    BY NoReportIsReport
  <2>2. (job \in IF pc = "idle" THEN {None} ELSE Jobs)' /\ (pc \in Steps)'
    BY JobOptions DEF Steps
  <2>3. (left \subseteq SUBSET Builds)' /\ (round \in 1..3)'
        /\ ({seen, checked, shown, deployed} \subseteq Builds \cup {None})'
    OBVIOUS
  <2>4. (restored \in BOOLEAN)'
    OBVIOUS
  <2>5. (artifact \in Builds \cup {None} /\ infos \subseteq Builds /\ edits \in 0..MaxEdits)'
    BY DEF IInv, LibTypeOK
  <2> QED
    BY <2>1, <2>2, <2>3, <2>4, <2>5 DEF LibTypeOK
<1>2. Noticed'
  BY DEF Noticed
<1>3. ~job'.skipAll => (Course /\ Validated)'
  BY JobOptions DEF Course, Validated
<1> QED
  BY <1>1, <1>2, <1>3 DEF IInv

LEMMA ReturnKeeps ==
  ASSUME IInv, Return
  PROVE  IInv'
<1> USE DEF Return, Goto, Afresh, disk
<1>1. LibTypeOK'
  <2>1. (left \subseteq SUBSET Builds)' /\ (round \in 1..3)'
        /\ ({seen, checked, shown, deployed} \subseteq Builds \cup {None})'
    OBVIOUS
  <2>2. (restored \in BOOLEAN)'
    OBVIOUS
  <2>3. (report \in [exit : {0, 1}, lines : SUBSET Markers])'
    BY NoReportIsReport
  <2> QED
    BY <2>1, <2>2, <2>3 DEF IInv, LibTypeOK, Steps
<1> QED
  BY <1>1 DEF IInv, Noticed

\* Types are kept by every step of the call.
LEMMA StepTypes ==
  ASSUME LibTypeOK, LibStep
  PROVE  LibTypeOK'
<1> USE LibraryAssumption DEF LibTypeOK, Goto, Fail, disk, Steps
<1>1. CASE ReadArtifact
  BY <1>1 DEF ReadArtifact
<1>2. CASE MatchBuildInfo
  BY <1>2 DEF MatchBuildInfo
<1>3. CASE Validate
  <2>1. report' \in [exit : {0, 1}, lines : SUBSET Markers]
    BY <1>3 DEF Validate, Reports, Markers
  <2> QED
    BY <1>3, <2>1 DEF Validate
<1>4. CASE Classify
  BY <1>4 DEF Classify
<1>5. CASE LookUp
  BY <1>5 DEF LookUp
<1>6. CASE Deploy
  BY <1>6 DEF Deploy
<1> QED
  BY <1>1, <1>2, <1>3, <1>4, <1>5, <1>6 DEF LibStep

\* A report of success with no diagnostic comes from a build that passes.
LEMMA ReportsTruly ==
  ASSUME NEW passes \in BOOLEAN, NEW r \in Reports(passes),
         r.exit = 0, r.lines = {"SUCCESS"}
  PROVE  passes
  BY DEF Reports, Markers

\* A step of a call that validates: each step keeps the course, and
\* establishes its part of what is known at the end.
LEMMA StepKeeps ==
  ASSUME IInv, LibStep
  PROVE  IInv'
<1> USE DEF Goto, Fail, disk
<1>1. LibTypeOK'
  BY StepTypes DEF IInv
<1>2. infos' = infos /\ left' = left /\ restored' = restored /\ job' = job
  BY DEF LibStep, ReadArtifact, MatchBuildInfo, Validate, Classify, LookUp, Deploy
<1>3. Noticed'
  BY <1>2 DEF IInv, Noticed
<1>4. pc # "idle"
  BY DEF LibStep, ReadArtifact, MatchBuildInfo, Validate, Classify, LookUp, Deploy
<1>5. ASSUME ~job.skipAll PROVE (Course /\ Validated)'
  <2> USE <1>2
  <2>0. Course /\ Validated /\ Noticed /\ round \in 1..3
    BY <1>4, <1>5 DEF IInv, LibTypeOK
  <2>1. CASE ReadArtifact
    BY <2>0, <2>1 DEF ReadArtifact, Course, Validated, Remembered, Accepted, Succeeded, Passes
  <2>2. CASE MatchBuildInfo
    <3>1. CASE ~(Matches /\ UnchangedBuild)
      BY <2>0, <2>2, <3>1 DEF MatchBuildInfo, Course, Validated, Remembered, Accepted, Succeeded, Passes
    <3>2. CASE Matches /\ UnchangedBuild
      <4>1. checked' = seen /\ infos = {checked'} /\ (round # 1 => checked' = checked)
        BY <2>2, <3>2 DEF MatchBuildInfo, Matches, UnchangedBuild
      <4>2. round' = round /\ shown' = shown /\ report' = report /\ deployed' = deployed
            /\ pc = "match"
            /\ pc' = CASE round = 1 -> "validator" [] round = 2 -> "classify" [] OTHER -> "read"
        BY <2>2, <3>2 DEF MatchBuildInfo
      <4>3. Course'
        BY <2>0, <4>2 DEF Course
      <4>4. Succeeded' = Succeeded /\ Passes(shown, job)' = Passes(shown, job)
        BY <4>2 DEF Succeeded, Passes
      <4>5. round # 1 /\ Succeeded => shown = checked \/ restored
        BY <2>0, <4>1 DEF Validated, Accepted, Noticed
      <4> QED
        BY <2>0, <4>1, <4>2, <4>3, <4>4, <4>5 DEF Validated, Remembered, Accepted
    <3> QED
      BY <3>1, <3>2
  <2>3. CASE Validate
    <3>1. Remembered /\ Remembered' /\ round' = 2 /\ pc' = "check" /\ checked' = checked
          /\ deployed' = deployed
      BY <2>0, <2>3 DEF Validate, Validated, Remembered
    <3>2. Accepted'
      <4>1. CASE report' = [exit |-> 1, lines |-> {}]
        BY <4>1 DEF Accepted, Succeeded
      <4>2. ASSUME NEW b \in infos, shown' = b, report' \in Reports(Passes(b, job)), Succeeded'
            PROVE  Passes(b, job) /\ (b = checked \/ {checked} \in left)
        <5>1. Passes(b, job) \in BOOLEAN
          BY DEF Passes
        <5>2. Passes(b, job)
          BY <4>2, <5>1, ReportsTruly DEF Succeeded
        <5> QED
          BY <3>1, <4>2, <5>2 DEF Remembered
      <4>3. Passes(shown, job)' = Passes(shown', job)
        BY DEF Passes
      <4> QED
        BY <2>3, <3>1, <4>1, <4>2, <4>3 DEF Validate, Accepted
    <3> QED
      BY <3>1, <3>2 DEF Course, Validated
  <2>4. CASE Classify
    BY <2>0, <2>4 DEF Classify, Course, Validated, Remembered, Accepted, Succeeded, Passes
  <2>5. CASE LookUp
    BY <2>0, <2>5 DEF LookUp, Course
  <2>6. CASE Deploy
    BY <1>5, <2>0, <2>6 DEF Deploy, SnapshotExpected, Course, Validated, Remembered, Accepted,
                       Succeeded, Passes
  <2> QED
    BY <2>1, <2>2, <2>3, <2>4, <2>5, <2>6 DEF LibStep
<1> QED
  BY <1>1, <1>2, <1>3, <1>5 DEF IInv

-----------------------------------------------------------------------------
\* What the invariant says of a deployment.
LEMMA DeployedIsValidated == IInv => DeploysWhatPassed
  BY DEF IInv, Course, Validated, Accepted, DeploysWhatPassed

\* The library's own variables are well-typed and remembered under every step.
LEMMA LibInductive == IInv /\ [LibNext]_libVars => IInv'
<1> SUFFICES ASSUME IInv, [LibNext]_libVars PROVE IInv'
  OBVIOUS
<1>1. CASE LibNext
  BY <1>1, CompileKeeps, StepKeeps, ReturnKeeps, BeginKeeps DEF LibNext
<1>2. CASE UNCHANGED libVars
  BY <1>2 DEF libVars, disk, callVars, IInv, LibTypeOK, Noticed, Course, Validated, Remembered,
              Accepted, Succeeded, Passes
<1> QED
  BY <1>1, <1>2

(* A call of the library deploys only a build that passed the validation    *)
(* its options ask for: the three comparisons of the artifact with the      *)
(* build-infos close the gaps between validating and deploying, unless the  *)
(* build-infos became again what they were (Core.sol, _validate, deploy).   *)
THEOREM LibraryDeploysWhatPassed == LibSpec => []DeploysWhatPassed
<1>1. LibSpec => []IInv
  BY LibInitially, LibInductive, PTL DEF LibSpec
<1> QED
  BY <1>1, DeployedIsValidated, PTL

(* The types of the library's state, under the same specification.          *)
THEOREM LibraryTypes == LibSpec => []LibTypeOK
<1>1. LibSpec => []IInv
  BY LibInitially, LibInductive, PTL DEF LibSpec
<1>2. IInv => LibTypeOK
  BY DEF IInv
<1> QED
  BY <1>1, <1>2, PTL

-----------------------------------------------------------------------------
(* A session of scripts makes calls of the library and nothing else of it:  *)
(* no other step of the scripts, of the adapter or of other owners touches  *)
(* a call or the directory (ScriptSession implements UpgradeLibrary).       *)
THEOREM SessionMakesLibraryCalls == Spec => LibSpec
<1>1. Init => LibInit
  BY DEF Init
<1>2. [Next]_vars => [LibNext]_libVars
  <2>1. ASSUME Next PROVE LibNext \/ UNCHANGED libVars
    <3>1. BeginOp => LibNext
      BY DEF BeginOp, LibNext
    <3>2. Library => LibNext
      BY DEF Library, LibNext
    <3>3. Yield => LibNext
      BY DEF Yield, LibNext
    <3>4. Recompile => LibNext
      BY DEF Recompile, LibNext
    <3>5. Unsafe \/ Plain \/ Foreign => UNCHANGED libVars
      <4>1. Unsafe => UNCHANGED libVars
        BY DEF Unsafe
      <4>2. Plain => UNCHANGED libVars
        BY DEF Plain
      <4>3. Foreign => UNCHANGED libVars
        BY DEF Foreign
      <4> QED
        BY <4>1, <4>2, <4>3
    <3>6. Resolve \/ Rewrite \/ Mine \/ Receive \/ Publish => UNCHANGED libVars
      BY DEF Resolve, Rewrite, Mine, Receive, Publish
    <3> QED
      BY <2>1, <3>1, <3>2, <3>3, <3>4, <3>5, <3>6 DEF Next
  <2> QED
    BY <2>1 DEF vars
<1> QED
  BY <1>1, <1>2, PTL DEF Spec, LibSpec

(* Therefore every implementation that a session deploys has passed.        *)
THEOREM DeploysValidated == Spec => []DeploysWhatPassed
  BY SessionMakesLibraryCalls, LibraryDeploysWhatPassed, PTL

-----------------------------------------------------------------------------
(***************************************************************************)
(* The rewriting of calls, for every set of mappings that never takes an   *)
(* actual address for a predicted one.                                     *)
(***************************************************************************)
InnerCalls(W) == [sel : STRING, proxy : W, arg : W, data : {<<>>}]
CallsOf(W) == [sel : STRING, proxy : W, arg : W, data : {<<>>} \cup {<<c>> : c \in InnerCalls(W)}]

Separate(known) == \A p \in DOMAIN known : known[p] \notin DOMAIN known

LEMMA MappedIsSafe ==
  ASSUME NEW known, Separate(known), NEW w
  PROVE  ToActual(known, w) \notin DOMAIN known
  BY DEF Separate, ToActual

\* What is scanned is safe.
LEMMA ScannedIsSafe ==
  ASSUME NEW known, NEW c, NEW r \in Opaque(known, c)
  PROVE  r = c /\ CallWords(r) \cap DOMAIN known = {}
  BY DEF Opaque, OpaqueSafe

LEMMA CalldataIsSafe ==
  ASSUME NEW known, NEW c, NEW r \in RewriteCalldata(known, c)
  PROVE  CallWords(r) \cap DOMAIN known = {}
  BY ScannedIsSafe DEF RewriteCalldata

\* The nested call of an upgrade is rewritten by its ABI or scanned.
LEMMA NestedIsSafe ==
  ASSUME NEW known, NEW data, NEW abi, NEW nested \in RewriteNested(known, data, abi)
  PROVE  nested = <<>> \/ \E r : nested = <<r>> /\ CallWords(r) \cap DOMAIN known = {}
<1>1. CASE data = <<>>
  BY <1>1 DEF RewriteNested
<1>2. CASE data # <<>>
  <2>1. PICK r \in RewriteCalldata(known, data[1]) \cup Opaque(known, data[1]) : nested = <<r>>
    BY <1>2 DEF RewriteNested
  <2> QED
    BY <2>1, CalldataIsSafe, ScannedIsSafe
<1> QED
  BY <1>1, <1>2

LEMMA UpgradeIsSafe ==
  ASSUME NEW known, Separate(known), NEW W, NEW c \in CallsOf(W), c.sel \in Upgrades, NEW abi,
         NEW r \in RewriteUpgrade(known, c, abi)
  PROVE  CallWords(r) \cap DOMAIN known = {}
<1>1. PICK nested \in RewriteNested(known, c.data, abi) : r = [MapArguments(known, c) EXCEPT !.data = nested]
  BY DEF RewriteUpgrade
<1>2. MapArguments(known, c) = [c EXCEPT !.proxy = ToActual(known, @), !.arg = ToActual(known, @)]
  BY DEF MapArguments, TakesAddresses
<1>3. r.proxy = ToActual(known, c.proxy) /\ r.arg = ToActual(known, c.arg) /\ r.data = nested
  BY <1>1, <1>2 DEF CallsOf
<1>4. \A i \in DOMAIN nested : nested[i].arg \notin DOMAIN known
  <2>1. CASE nested = <<>>
    BY <2>1
  <2>2. ASSUME NEW q, nested = <<q>>, CallWords(q) \cap DOMAIN known = {}
        PROVE  \A i \in DOMAIN nested : nested[i].arg \notin DOMAIN known
    <3>1. q.arg \notin DOMAIN known
      BY <2>2 DEF CallWords
    <3>2. DOMAIN nested = {1} /\ nested[1] = q
      BY <2>2
    <3> QED
      BY <3>1, <3>2
  <2> QED
    BY <2>1, <2>2, NestedIsSafe
<1> QED
  BY <1>3, <1>4, MappedIsSafe DEF CallWords

(* Whatever a call is rewritten to, whoever its target and whichever ABIs   *)
(* are at hand: no word of it is an address that is known as predicted      *)
(* (rewriter.ts, rewriteCall: fail closed).                                 *)
THEOREM RewrittenCallsAreSafe ==
  ASSUME NEW known, Separate(known), NEW W, NEW c \in CallsOf(W),
         NEW kind, NEW codes, NEW abi, NEW r \in RewriteCall(known, kind, codes, c, abi)
  PROVE  CallWords(r) \cap DOMAIN known = {}
<1>1. CASE c.sel \in UpgradesOf(kind) \cap Declared(codes)
  <2>1. c.sel \in Upgrades
    BY <1>1 DEF UpgradesOf, Upgrades
  <2>2. r \in RewriteUpgrade(known, c, abi)
    BY <1>1 DEF RewriteCall
  <2> QED
    BY <2>1, <2>2, UpgradeIsSafe
<1>2. CASE c.sel \notin UpgradesOf(kind) \cap Declared(codes) /\ c.sel \in Declared(codes)
  BY <1>2, CalldataIsSafe DEF RewriteCall
<1>3. CASE c.sel \notin Declared(codes)
  BY <1>3, ScannedIsSafe DEF RewriteCall
<1> QED
  BY <1>1, <1>2, <1>3

-----------------------------------------------------------------------------
(***************************************************************************)
(* The session.  What transactions, calls and events are made of, over a   *)
(* set of words.                                                           *)
(***************************************************************************)
Setters == {"setRef", "setNum"}

PayloadOf(W) == [sel : Setters, proxy : {NoAddress}, arg : W, data : {<<>>}]
DataOf(W) == {data \in Seq(PayloadOf(W)) : Len(data) <= 1}
CallOf(W) == [sel : Setters \cup Upgrades, proxy : W, arg : W, data : DataOf(W)]

Creatable == AppCode \cup {"uups", "transparent", "beacon", "beaconProxy"}

\* An application contract takes words, a proxy an address and a call.
NewOf(W) ==
  {new \in [code : Creatable, arg : W, data : DataOf(W), ref : W, num : W, lib : W] :
     IF new.code \in AppCode THEN new.arg = NoAddress /\ new.data = <<>>
     ELSE new.ref = NoAddress /\ new.num = NoAddress /\ new.lib = NoAddress}

TxOf(W) == [to : {NoAddress}, new : NewOf(W)] \cup [to : W \ {NoAddress}, call : CallOf(W)]

Topics == {"RefSet", "NumSet", "Upgraded", "BeaconUpgraded", "AdminChanged", "OwnershipTransferred"}
EventOf(W) == [emitter : W, topic : Topics, word : W]

\* The words that may stand on TRON, and those that a script may use.
Known == Neutral \cup DOMAIN real
Named == Neutral \cup DOMAIN map

\* What a transaction on TRON is in the view of its script.
TwinInner(c) == [sel |-> c.sel, proxy |-> Twin(c.proxy), arg |-> Twin(c.arg), data |-> <<>>]
TwinData(data) == [i \in DOMAIN data |-> TwinInner(data[i])]
TwinCall(c) == [sel |-> c.sel, proxy |-> Twin(c.proxy), arg |-> Twin(c.arg), data |-> TwinData(c.data)]
TwinNew(new) ==
  [code |-> new.code, arg |-> Twin(new.arg), data |-> TwinData(new.data),
   ref |-> Twin(new.ref), num |-> Twin(new.num), lib |-> Twin(new.lib)]
TwinTx(tx) ==
  IF tx.to = NoAddress THEN [to |-> NoAddress, new |-> TwinNew(tx.new)]
  ELSE [to |-> Twin(tx.to), call |-> TwinCall(tx.call)]

-----------------------------------------------------------------------------
(***************************************************************************)
(* The invariant of a session.                                             *)
(***************************************************************************)
\* What the transaction under way has created and not published.
Executed == flight.stage \in {"mined", "received"}

Making ==
  IF ~Executed THEN {}
  ELSE IF ~flight.ok \/ flight.tx.to # NoAddress THEN {}
  ELSE {Actual(nonce - 1)} \cup
         (IF flight.tx.new.code = "transparent" THEN {ActualChild(nonce - 1)} ELSE {})

Unpublished ==
  /\ Making \subseteq DOMAIN real
  /\ Executed => {Predicted(nonce - 1), PredictedChild(nonce - 1)} \cap DOMAIN map = {}
  /\ Actual(nonce - 1) \in Making => real[Actual(nonce - 1)].code = flight.tx.new.code
  /\ ActualChild(nonce - 1) \in Making => real[ActualChild(nonce - 1)].code = "admin"

MapInv ==
  /\ \A p \in DOMAIN map : map[p] \in Ours /\ map[p] \in DOMAIN real /\ Twin(map[p]) = p
  /\ \A a \in DOMAIN real : a \in Ours => Twin(a) \in DOMAIN map \/ a \in Making
  /\ DOMAIN meta = DOMAIN map
  /\ \A p \in DOMAIN map : meta[p] = real[map[p]].code

NonceInv == nonce \in Nat /\ Vacant(real, nonce)

EventsInv == events \in Seq(EventOf(Known))

\* The number of the transaction that deploys an implementation whose use is
\* still to be sent.
Awaited == IF Executed THEN nonce - 1 ELSE nonce

ScriptInv ==
  /\ \/ script = <<>>
     \/ script = <<script[1]>> /\ script[1] \in TxOf(Named)
     \/ /\ script = <<script[1], script[2]>> /\ script[1] \in TxOf(Named) /\ script[1].to = NoAddress
        /\ script[2] \in TxOf(Named \cup {Predicted(Awaited)})
  /\ pc # "idle" => script = <<>>
  /\ flight.stage # "none" => script # <<>> /\ flight.tx = script[1]

KnownBy(tx) ==
  IF tx.to # NoAddress THEN map ELSE ReceiptMap(map, Predicted(nonce - 1), Actual(nonce - 1))

FlightInv ==
  \/ flight = NoFlight
  \/ /\ flight = [stage |-> flight.stage, tx |-> flight.tx, native |-> flight.native, ok |-> flight.ok,
                  events |-> flight.events, receipt |-> flight.receipt, abi |-> flight.abi]
     /\ flight.stage \in {"rewrite", "sent", "mined", "received"}
     /\ flight.tx \in TxOf(Named) /\ flight.ok \in BOOLEAN
     /\ ~Executed => nonce < MaxNonce
     /\ flight.stage = "sent" => flight.native \in TxOf(Known) /\ TwinTx(flight.native) = flight.tx
     /\ Executed => nonce > 0 /\ flight.events \in Seq(EventOf(Known))
     /\ flight.stage = "received" => flight.receipt = TranslateEvents(KnownBy(flight.tx), flight.events)

OpOf(W) ==
  [kind : {"uups", "transparent", "beacon", "upgradeProxy", "upgradeBeacon", "implementation", "validate"},
   at : W, data : DataOf(W), ref : W, num : W, lib : W, impl : {NoAddress}, saw : {"none"}]

\* A call of the library that is under way.
CallInv ==
  pc # "idle" =>
    /\ op \in OpOf(Named)
    /\ op.kind \in {"upgradeProxy", "upgradeBeacon"} => op.at \in DOMAIN View
    /\ pc = "deployed" => deployed \in Builds

SessionInv ==
  /\ Populated(real) /\ MapInv /\ Unpublished /\ NonceInv /\ EventsInv
  /\ ScriptInv /\ FlightInv /\ CallInv
-----------------------------------------------------------------------------
(***************************************************************************)
(* Words, and what a script sees of them.                                  *)
(***************************************************************************)
Native == Neutral \cup Ours

LEMMA WordSorts ==
  /\ NoAddress \in Neutral
  /\ \A w \in Neutral : Twin(w) = w /\ w \notin Ours /\ w \notin Twins
  /\ \A w \in Ours : Twin(w) \in Twins /\ w \notin Twins
<1>1. NoAddress \in Neutral
  BY DEF NoAddress, Neutral
<1>2. ASSUME NEW w \in Neutral PROVE Twin(w) = w /\ w \notin Ours /\ w \notin Twins
  <2>1. w[1] \in {"zero", "num", "ext"}
    BY DEF Neutral
  <2> QED
    BY <2>1 DEF Twin, Ours, Twins
<1>3. ASSUME NEW w \in Ours PROVE Twin(w) \in Twins /\ w \notin Twins
  <2>1. w[1] \in {"tron", "tronChild"} /\ w[2] \in Nat
    BY DEF Ours
  <2> QED
    BY <2>1 DEF Twin, Twins
<1> QED
  BY <1>1, <1>2, <1>3

LEMMA TwinOnce ==
  ASSUME NEW u \in Native, NEW v \in Native, Twin(u) = Twin(v)
  PROVE  u = v
<1>1. CASE u \in Ours /\ v \in Ours
  <2>1. u = <<u[1], u[2]>> /\ v = <<v[1], v[2]>> /\ u[1] \in {"tron", "tronChild"} /\ v[1] \in {"tron", "tronChild"}
    BY <1>1 DEF Ours
  <2>2. ASSUME NEW w, w[1] \in {"tron", "tronChild"}
        PROVE  Twin(w)[1] = (IF w[1] = "tron" THEN "eth" ELSE "ethChild") /\ Twin(w)[2] = w[2]
    <3>1. Twin(w) = <<IF w[1] = "tron" THEN "eth" ELSE "ethChild", w[2]>>
      BY <2>2 DEF Twin
    <3> QED
      BY <3>1
  <2>3. u[1] = v[1] /\ u[2] = v[2]
    BY <2>1, <2>2
  <2> QED
    BY <2>1, <2>3
<1> QED
  BY <1>1, WordSorts DEF Native

LEMMA NewAddresses ==
  ASSUME NEW n \in Nat
  PROVE  /\ Actual(n) \in Ours /\ ActualChild(n) \in Ours /\ Actual(n) # ActualChild(n)
         /\ Twin(Actual(n)) = Predicted(n) /\ Twin(ActualChild(n)) = PredictedChild(n)
         /\ Predicted(n) \in Twins /\ PredictedChild(n) \in Twins
         /\ Predicted(n) # PredictedChild(n)
<1>1. Actual(n)[1] = "tron" /\ Actual(n)[2] = n /\ ActualChild(n)[1] = "tronChild" /\ ActualChild(n)[2] = n
  BY DEF Actual, ActualChild
<1>2. Predicted(n)[1] = "eth" /\ PredictedChild(n)[1] = "ethChild"
  BY DEF Predicted, PredictedChild
<1> QED
  BY <1>1, <1>2 DEF Actual, ActualChild, Predicted, PredictedChild, Twin, Ours, Twins

-----------------------------------------------------------------------------
(***************************************************************************)
(* Worlds: what one transaction leaves of them.                            *)
(***************************************************************************)
World(w, W) == w \in [DOMAIN w -> ContractOf(W)] /\ DOMAIN w \subseteq W

LEMMA CodeIsThere ==
  ASSUME NEW w, NEW W, World(w, W), NEW a
  PROVE  /\ CodeAt(w, a) \in Codes \cup {"none"}
         /\ CodeAt(w, a) # "none" <=> a \in DOMAIN w
<1>1. \A c \in ContractOf(W) : c.code \in Codes
  BY DEF ContractOf
<1>2. "none" \notin Codes
  BY DEF Codes, AppCode
<1> QED
  BY <1>1, <1>2 DEF CodeAt, World

\* Where no contract is, none is run.
LEMMA LogicIsThere ==
  ASSUME NEW w, NEW W, World(w, W), NEW a
  PROVE  /\ Logic(w, a) \in Codes \cup {"none"}
         /\ Logic(w, a) # "none" => a \in DOMAIN w
         /\ CodeAt(w, a) \in AppCode \cup {"admin", "oldAdmin", "beacon"} => Logic(w, a) = CodeAt(w, a)
         /\ CodeAt(w, a) \in {"uups", "transparent"} => Logic(w, a) = CodeAt(w, w[a].impl)
<1>1. CodeAt(w, a) = "none" => ImplementationOf(w, a) = a
  BY DEF ImplementationOf
<1>2. CodeAt(w, a) \in AppCode \cup {"admin", "oldAdmin", "beacon"} => ImplementationOf(w, a) = a
  BY DEF ImplementationOf, AppCode
<1>3. CodeAt(w, a) \in {"uups", "transparent"} => ImplementationOf(w, a) = w[a].impl
  BY DEF ImplementationOf
<1> QED
  BY <1>1, <1>2, <1>3, CodeIsThere DEF Logic

LEMMA WithWorld ==
  ASSUME NEW w, NEW W, World(w, W), NEW a \in W, NEW c \in ContractOf(W)
  PROVE  /\ World(With(w, a, c), W)
         /\ DOMAIN With(w, a, c) = DOMAIN w \cup {a}
         /\ With(w, a, c)[a] = c
         /\ \A b \in DOMAIN w \ {a} : With(w, a, c)[b] = w[b]
  BY DEF World, With

LEMMA BlankContract ==
  ASSUME NEW W, NoAddress \in W, NEW code \in Codes
  PROVE  /\ Blank(code) \in ContractOf(W)
         /\ \A x \in W : /\ [Blank(code) EXCEPT !.impl = x] \in ContractOf(W)
                         /\ [Blank(code) EXCEPT !.admin = x] \in ContractOf(W)
                         /\ [Blank(code) EXCEPT !.beacon = x] \in ContractOf(W)
         /\ \A x, y, z \in W : [Blank(code) EXCEPT !.ref = x, !.num = y, !.lib = z] \in ContractOf(W)
  BY DEF Blank, ContractOf

RunOf(run, W) == run.ok \in BOOLEAN /\ World(run.world, W) /\ run.events \in Seq(EventOf(W))
                 /\ run = [ok |-> run.ok, world |-> run.world, events |-> run.events]

LEMMA RunForms ==
  ASSUME NEW W, NEW w, World(w, W)
  PROVE  /\ RunOf(Reverted(w), W)
         /\ \A es \in Seq(EventOf(W)) : RunOf(Done(w, es), W)
         /\ RunOf(Done(w, <<>>), W)
<1>1. <<>> \in Seq(EventOf(W))
  OBVIOUS
<1> QED
  BY <1>1 DEF RunOf, Reverted, Done

LEMMA EventForms ==
  ASSUME NEW W, NEW a \in W, NEW word \in W
  PROVE  /\ <<Event(a, "RefSet", word)>> \in Seq(EventOf(W))
         /\ <<Event(a, "NumSet", word)>> \in Seq(EventOf(W))
         /\ <<Event(a, "Upgraded", word)>> \in Seq(EventOf(W))
         /\ <<Event(a, "BeaconUpgraded", word)>> \in Seq(EventOf(W))
         /\ <<Event(a, "AdminChanged", word)>> \in Seq(EventOf(W))
         /\ <<Event(a, "OwnershipTransferred", word)>> \in Seq(EventOf(W))
<1>1. ASSUME NEW e \in EventOf(W) PROVE <<e>> \in Seq(EventOf(W))
  <2> DEFINE S == EventOf(W)
  <2> HIDE DEF S
  <2>1. ASSUME NEW x \in S PROVE <<x>> \in Seq(S)
    BY <2>1
  <2> QED
    BY <2>1 DEF S
<1>2. Event(a, "RefSet", word) \in EventOf(W)
  BY DEF Event, EventOf, Topics
<1>3. Event(a, "NumSet", word) \in EventOf(W)
  BY DEF Event, EventOf, Topics
<1>4. Event(a, "Upgraded", word) \in EventOf(W)
  BY DEF Event, EventOf, Topics
<1>5. Event(a, "BeaconUpgraded", word) \in EventOf(W)
  BY DEF Event, EventOf, Topics
<1>6. Event(a, "AdminChanged", word) \in EventOf(W)
  BY DEF Event, EventOf, Topics
<1>7. Event(a, "OwnershipTransferred", word) \in EventOf(W)
  BY DEF Event, EventOf, Topics
<1> QED
  BY <1>1, <1>2, <1>3, <1>4, <1>5, <1>6, <1>7

\* Codes and admins never change, nor do the beacons of proxies.
Kept(w, x) ==
  /\ DOMAIN w \subseteq DOMAIN x
  /\ \A b \in DOMAIN w : x[b].code = w[b].code /\ x[b].admin = w[b].admin /\ x[b].beacon = w[b].beacon

\* A run that succeeds adds these contracts; one that fails leaves nothing.
Follows(run, w, W, new) ==
  /\ RunOf(run, W)
  /\ run.ok => DOMAIN run.world = DOMAIN w \cup new /\ Kept(w, run.world)
  /\ ~run.ok => run.world = w /\ run.events = <<>>

LEMMA Failing ==
  ASSUME NEW W, NEW w, World(w, W), NEW new
  PROVE  Follows(Reverted(w), w, W, new) /\ ~Reverted(w).ok /\ Reverted(w).world = w
<1>1. RunOf(Reverted(w), W)
  BY RunForms
<1> QED
  BY <1>1 DEF Reverted, Follows

LEMMA Doing ==
  ASSUME NEW W, NEW w, World(w, W), NEW x, World(x, W), NEW es \in Seq(EventOf(W)), NEW new,
         DOMAIN x = DOMAIN w \cup new, Kept(w, x)
  PROVE  Follows(Done(x, es), w, W, new) /\ Done(x, es).ok /\ Done(x, es).world = x
                                         /\ Done(x, es).events = es
<1>1. RunOf(Done(x, es), W)
  BY RunForms
<1> QED
  BY <1>1 DEF Done, Follows

LEMMA NoEvents == ASSUME NEW W PROVE <<>> \in Seq(EventOf(W))
  OBVIOUS

LEMMA DoingNothing ==
  ASSUME NEW W, NEW w, World(w, W)
  PROVE  Follows(Done(w, <<>>), w, W, {}) /\ Done(w, <<>>).world = w
<1>1. RunOf(Done(w, <<>>), W)
  BY RunForms
<1>2. Kept(w, w)
  BY DEF Kept
<1> QED
  BY <1>1, <1>2 DEF Done, Follows

\* One contract is changed.
LEMMA OneContract ==
  ASSUME NEW W, NEW w, World(w, W), NEW a \in DOMAIN w, NEW c \in ContractOf(W),
         c.code = w[a].code, c.admin = w[a].admin, c.beacon = w[a].beacon
  PROVE  LET x == With(w, a, c)
         IN  /\ World(x, W) /\ Kept(w, x)
             /\ DOMAIN x = DOMAIN w /\ x[a] = c /\ \A b \in DOMAIN w \ {a} : x[b] = w[b]
             /\ \A es \in Seq(EventOf(W)) : /\ Follows(Done(x, es), w, W, {})
                                            /\ Done(x, es).ok /\ Done(x, es).world = x
<1> DEFINE x == With(w, a, c)
<1>1. a \in W
  BY DEF World
<1>2. World(x, W) /\ DOMAIN x = DOMAIN w \cup {a} /\ x[a] = c /\ \A b \in DOMAIN w \ {a} : x[b] = w[b]
  BY <1>1, WithWorld
<1> HIDE DEF x
<1>3. DOMAIN x = DOMAIN w /\ DOMAIN x = DOMAIN w \cup {}
  BY <1>2
<1>4. Kept(w, x)
  BY <1>2, <1>3 DEF Kept
<1>5. \A es \in Seq(EventOf(W)) : Follows(Done(x, es), w, W, {}) /\ Done(x, es).ok /\ Done(x, es).world = x
  BY <1>2, <1>3, <1>4, Doing
<1> QED
  BY <1>2, <1>3, <1>4, <1>5 DEF x

\* What a setter leaves: one word of one contract is another.
LEMMA SetterRuns ==
  ASSUME NEW W, NEW w, World(w, W), NEW a, NEW call, call.arg \in W
  PROVE  LET run == RunSetter(w, a, call)
         IN  /\ Follows(run, w, W, {})
             /\ \A b \in DOMAIN w : run.world[b].impl = w[b].impl
<1> DEFINE run == RunSetter(w, a, call)
           code == Logic(w, a)
<1>1. CASE code = "none"
  <2>1. run = Done(w, <<>>)
    BY <1>1 DEF RunSetter
  <2> QED
    BY <2>1, DoingNothing
<1>2. CASE code # "none" /\ (code \notin AppCode \/ ~(call.sel \in Declared(code) \/ HasFallback(code)))
  <2>1. run = Reverted(w)
    BY <1>2 DEF RunSetter
  <2> QED
    BY <2>1, Failing
<1>3. CASE code # "none" /\ ~(code \notin AppCode \/ ~(call.sel \in Declared(code) \/ HasFallback(code)))
  <2>1. a \in DOMAIN w /\ a \in W /\ w[a] \in ContractOf(W)
    BY <1>3, LogicIsThere DEF World
  <2>2. CASE call.sel = "setRef"
    <3> DEFINE c == [w[a] EXCEPT !.ref = call.arg]
               x == With(w, a, c)
               es == <<Event(a, "RefSet", call.arg)>>
    <3>1. run = Done(x, es)
      BY <1>3, <2>2 DEF RunSetter
    <3>2. c \in ContractOf(W)
      BY <2>1 DEF ContractOf
    <3>3. c.code = w[a].code /\ c.impl = w[a].impl /\ c.admin = w[a].admin /\ c.beacon = w[a].beacon
      BY <2>1 DEF ContractOf
    <3>4. es \in Seq(EventOf(W))
      BY <2>1, EventForms
    <3> HIDE DEF c, run, es
    <3>5. Follows(Done(x, es), w, W, {}) /\ Done(x, es).world = x
          /\ x[a] = c /\ \A b \in DOMAIN w \ {a} : x[b] = w[b]
      BY <2>1, <3>2, <3>3, <3>4, OneContract
    <3> HIDE DEF x
    <3>6. \A b \in DOMAIN w : x[b].impl = w[b].impl
      BY <3>3, <3>5
    <3> QED
      BY <3>1, <3>5, <3>6 DEF run
  <2>3. CASE call.sel # "setRef"
    <3> DEFINE c == [w[a] EXCEPT !.num = call.arg]
               x == With(w, a, c)
               es == <<Event(a, "NumSet", call.arg)>>
    <3>1. run = Done(x, es)
      BY <1>3, <2>3 DEF RunSetter
    <3>2. c \in ContractOf(W)
      BY <2>1 DEF ContractOf
    <3>3. c.code = w[a].code /\ c.impl = w[a].impl /\ c.admin = w[a].admin /\ c.beacon = w[a].beacon
      BY <2>1 DEF ContractOf
    <3>4. es \in Seq(EventOf(W))
      BY <2>1, EventForms
    <3> HIDE DEF c, run, es
    <3>5. Follows(Done(x, es), w, W, {}) /\ Done(x, es).world = x
          /\ x[a] = c /\ \A b \in DOMAIN w \ {a} : x[b] = w[b]
      BY <2>1, <3>2, <3>3, <3>4, OneContract
    <3> HIDE DEF x
    <3>6. \A b \in DOMAIN w : x[b].impl = w[b].impl
      BY <3>3, <3>5
    <3> QED
      BY <3>1, <3>5, <3>6 DEF run
  <2> QED
    BY <2>2, <2>3
<1> QED
  BY <1>1, <1>2, <1>3

LEMMA NestedRuns ==
  ASSUME NEW W, NEW w, World(w, W), NEW a, NEW data \in DataOf(W)
  PROVE  LET run == RunNested(w, a, data)
         IN  /\ Follows(run, w, W, {})
             /\ \A b \in DOMAIN w : run.world[b].impl = w[b].impl
<1>1. CASE data = <<>>
  <2>1. RunNested(w, a, data) = Done(w, <<>>)
    BY <1>1 DEF RunNested
  <2> QED
    BY <2>1, DoingNothing
<1>2. CASE data # <<>>
  <2>1. data[1] \in PayloadOf(W)
    BY <1>2 DEF DataOf
  <2>2. data[1].arg \in W
    BY <2>1 DEF PayloadOf
  <2>3. RunNested(w, a, data) = RunSetter(w, a, data[1])
    BY <1>2 DEF RunNested
  <2> QED
    BY <2>2, <2>3, SetterRuns
<1> QED
  BY <1>1, <1>2

\* One slot changes, to an implementation.
LEMMA SlotRuns ==
  ASSUME NEW W, NEW w, World(w, W), NEW a \in DOMAIN w, NEW impl \in W, NEW data \in DataOf(W)
  PROVE  LET run == SetImplementation(w, a, impl, data)
         IN  /\ Follows(run, w, W, {})
             /\ run.ok => CodeAt(w, impl) \in AppCode /\ run.world[a].impl = impl
             /\ \A b \in DOMAIN w \ {a} : run.world[b].impl = w[b].impl
<1> DEFINE run == SetImplementation(w, a, impl, data)
           c == [w[a] EXCEPT !.impl = impl]
           x == With(w, a, c)
           nested == RunNested(x, a, data)
<1>1. a \in W /\ w[a] \in ContractOf(W)
  BY DEF World
<1>2. c \in ContractOf(W)
  BY <1>1 DEF ContractOf
<1>3. c.code = w[a].code /\ c.impl = impl /\ c.admin = w[a].admin /\ c.beacon = w[a].beacon
  BY <1>1 DEF ContractOf
<1>4. \/ run = Reverted(w)
      \/ /\ CodeAt(w, impl) \in AppCode /\ nested.ok
         /\ run = Done(nested.world, <<Event(a, "Upgraded", impl)>> \o nested.events)
  BY DEF SetImplementation
<1> HIDE DEF run, c
<1>5. World(x, W) /\ Kept(w, x) /\ DOMAIN x = DOMAIN w /\ x[a] = c /\ \A b \in DOMAIN w \ {a} : x[b] = w[b]
  BY <1>2, <1>3, OneContract
<1> HIDE DEF x
<1>6. Follows(nested, x, W, {}) /\ \A b \in DOMAIN x : nested.world[b].impl = x[b].impl
  BY <1>5, NestedRuns
<1> HIDE DEF nested
<1>7. CASE run = Reverted(w)
  BY <1>7, Failing DEF run
<1>8. CASE CodeAt(w, impl) \in AppCode /\ nested.ok
           /\ run = Done(nested.world, <<Event(a, "Upgraded", impl)>> \o nested.events)
  <2> DEFINE first == <<Event(a, "Upgraded", impl)>>
             es == first \o nested.events
  <2>1. first \in Seq(EventOf(W)) /\ nested.events \in Seq(EventOf(W))
    <3>2. first \in Seq(EventOf(W))
      BY <1>1, EventForms
    <3> QED
      BY <1>6, <3>2 DEF Follows, RunOf
  <2> HIDE DEF first
  <2>2. es \in Seq(EventOf(W))
    BY <2>1
  <2>3. World(nested.world, W) /\ DOMAIN nested.world = DOMAIN w \cup {} /\ Kept(w, nested.world)
    <3>1. World(nested.world, W) /\ DOMAIN nested.world = DOMAIN x \cup {} /\ Kept(x, nested.world)
      BY <1>6, <1>8 DEF Follows, RunOf
    <3> QED
      BY <1>5, <3>1 DEF Kept
  <2>4. run = Done(nested.world, es)
    BY <1>8 DEF first
  <2> HIDE DEF es
  <2>5. Follows(run, w, W, {}) /\ run.world = nested.world
    BY <2>2, <2>3, <2>4, Doing
  <2> QED
    BY <1>3, <1>5, <1>6, <1>8, <2>5 DEF run
<1> QED
  BY <1>4, <1>7, <1>8
\* Slots that change point to an implementation.
Pointing(w, x) == \A b \in DOMAIN w : x[b].impl = w[b].impl \/ CodeAt(w, x[b].impl) \in AppCode

LEMMA SlotPoints ==
  ASSUME NEW W, NEW w, World(w, W), NEW a \in DOMAIN w, NEW impl \in W, NEW data \in DataOf(W)
  PROVE  LET run == SetImplementation(w, a, impl, data)
         IN  Follows(run, w, W, {}) /\ (run.ok => Pointing(w, run.world))
  BY SlotRuns DEF Pointing

LEMMA UpgradeRuns ==
  ASSUME NEW W, NEW w, World(w, W), NEW a, NEW call, call.arg \in W, call.data \in DataOf(W)
  PROVE  LET run == RunUpgrade(w, a, call)
         IN  Follows(run, w, W, {}) /\ (run.ok => Pointing(w, run.world))
<1> DEFINE run == RunUpgrade(w, a, call)
<1> SUFFICES Follows(run, w, W, {}) /\ (run.ok => Pointing(w, run.world))
  OBVIOUS
<1>1. ASSUME NEW b, CodeAt(w, b) \in {"uups", "transparent"}, run = SetImplementation(w, b, call.arg, call.data)
      PROVE  Follows(run, w, W, {}) /\ (run.ok => Pointing(w, run.world))
  <2>1. b \in DOMAIN w
    BY <1>1, CodeIsThere
  <2> HIDE DEF run
  <2> QED
    BY <1>1, <2>1, SlotPoints
<1>2. CASE CodeAt(w, a) \in {"uups", "transparent"}
  BY <1>1, <1>2 DEF RunUpgrade
<1>3. CASE /\ CodeAt(w, a) \in {"admin", "oldAdmin"}
           /\ CodeAt(w, call.proxy) = "transparent" /\ w[call.proxy].admin = a
  <2>1. run = SetImplementation(w, call.proxy, call.arg, call.data)
    BY <1>3 DEF RunUpgrade
  <2> HIDE DEF run
  <2> QED
    BY <1>1, <1>3, <2>1
<1>4. CASE CodeAt(w, a) = "beacon" /\ CodeAt(w, call.arg) \in AppCode
  <2> DEFINE c == [w[a] EXCEPT !.impl = call.arg]
             x == With(w, a, c)
             es == <<Event(a, "Upgraded", call.arg)>>
  <2>1. run = Done(x, es)
    BY <1>4 DEF RunUpgrade
  <2>2. a \in DOMAIN w /\ a \in W /\ w[a] \in ContractOf(W)
    BY <1>4, CodeIsThere DEF World
  <2>3. c \in ContractOf(W)
    BY <2>2 DEF ContractOf
  <2>4. c.code = w[a].code /\ c.impl = call.arg /\ c.admin = w[a].admin /\ c.beacon = w[a].beacon
    BY <2>2 DEF ContractOf
  <2>5. es \in Seq(EventOf(W))
    BY <2>2, EventForms
  <2> HIDE DEF c, run, es
  <2>6. Follows(Done(x, es), w, W, {}) /\ Done(x, es).world = x
        /\ x[a] = c /\ \A b \in DOMAIN w \ {a} : x[b] = w[b]
    BY <2>2, <2>3, <2>4, <2>5, OneContract
  <2> HIDE DEF x
  <2>7. Pointing(w, x)
    BY <1>4, <2>4, <2>6 DEF Pointing
  <2> QED
    BY <2>1, <2>6, <2>7
<1>5. CASE run = Reverted(w)
  <2> HIDE DEF run
  <2> QED
    BY <1>5, Failing
<1> QED
  BY <1>2, <1>3, <1>4, <1>5 DEF RunUpgrade

LEMMA CallRuns ==
  ASSUME NEW W, NEW w, World(w, W), NEW a, NEW call \in CallOf(W)
  PROVE  LET run == RunCall(w, a, call)
         IN  Follows(run, w, W, {}) /\ (run.ok => Pointing(w, run.world))
<1>1. call.arg \in W /\ call.data \in DataOf(W)
  BY DEF CallOf
<1>2. CASE call.sel \in Upgrades \cap Declared(Logic(w, a))
  BY <1>1, <1>2, UpgradeRuns DEF RunCall
<1>3. CASE call.sel \notin Upgrades \cap Declared(Logic(w, a))
  <2>1. RunCall(w, a, call) = RunSetter(w, a, call)
    BY <1>3 DEF RunCall
  <2> QED
    BY <1>1, <2>1, SetterRuns DEF Pointing
<1> QED
  BY <1>2, <1>3
\* A contract that is new is all that there is more.
Added(w, a, c, x, W) ==
  /\ World(x, W) /\ DOMAIN x = DOMAIN w \cup {a} /\ x[a] = c
  /\ Kept(w, x) /\ Pointing(w, x)
  /\ \A b \in DOMAIN w : x[b] = w[b]
  /\ CodeAt(x, a) = c.code
  /\ \A b : b # a => CodeAt(x, b) = CodeAt(w, b)

LEMMA NewContract ==
  ASSUME NEW W, NEW w, World(w, W), NEW a \in W, a \notin DOMAIN w, NEW c \in ContractOf(W)
  PROVE  Added(w, a, c, With(w, a, c), W)
<1> DEFINE x == With(w, a, c)
<1>1. World(x, W) /\ DOMAIN x = DOMAIN w \cup {a} /\ x[a] = c /\ \A b \in DOMAIN w \ {a} : x[b] = w[b]
  BY DEF World, With
<1> HIDE DEF x
<1>2. \A b \in DOMAIN w : x[b] = w[b]
  BY <1>1
<1>3. Kept(w, x) /\ Pointing(w, x)
  BY <1>1, <1>2 DEF Kept, Pointing
<1>4. CodeAt(x, a) = c.code /\ \A b : b # a => CodeAt(x, b) = CodeAt(w, b)
  BY <1>1, <1>2 DEF CodeAt
<1>5. Added(w, a, c, x, W)
  BY <1>1, <1>2, <1>3, <1>4 DEF Added
<1> QED
  BY <1>5 DEF x

\* What a creation adds, as its constructor leaves it.
Adds(new, a, child) == IF new.code = "transparent" THEN {a, child} ELSE {a}

Built(w, x, new, a, child) ==
  /\ DOMAIN x = DOMAIN w \cup Adds(new, a, child)
  /\ Kept(w, x) /\ Pointing(w, x)
  /\ x[a].code = new.code
  /\ new.code \in {"uups", "transparent", "beacon"} => CodeAt(w, x[a].impl) \in AppCode
  /\ IF new.code = "transparent"
       THEN x[a].admin = child /\ x[child].code = "admin" /\ x[child].admin = NoAddress
       ELSE x[a].admin = NoAddress

\* After the setup of the new contracts, a run changes words of theirs only.
LEMMA BuildThen ==
  ASSUME NEW W, NEW w, NEW x, NEW y, NEW new, NEW a, NEW child,
         World(x, W), a \in DOMAIN x, new.code = "transparent" => child \in DOMAIN x,
         DOMAIN x = DOMAIN w \cup Adds(new, a, child), DOMAIN y = DOMAIN x,
         \A b \in DOMAIN w : x[b] = w[b], a \notin DOMAIN w,
         Kept(x, y), \A b \in DOMAIN x \ {a} : y[b].impl = x[b].impl,
         x[a].code = new.code,
         new.code \in {"uups", "transparent", "beacon"} => CodeAt(w, y[a].impl) \in AppCode,
         IF new.code = "transparent"
           THEN x[a].admin = child /\ x[child].code = "admin" /\ x[child].admin = NoAddress
           ELSE x[a].admin = NoAddress
  PROVE  Built(w, y, new, a, child)
<1>1. Kept(w, y)
  BY DEF Kept
<1>2. Pointing(w, y)
  BY DEF Pointing
<1>3. DOMAIN y = DOMAIN w \cup Adds(new, a, child)
  OBVIOUS
<1>4. y[a].code = new.code /\ y[a].admin = x[a].admin
  BY DEF Kept
<1>5. new.code = "transparent" => y[child].code = x[child].code /\ y[child].admin = x[child].admin
  BY DEF Kept
<1> QED
  BY <1>1, <1>2, <1>3, <1>4, <1>5 DEF Built

LEMMA CreatableCodes == Creatable \subseteq Codes /\ "admin" \in Codes
  BY DEF Creatable, Codes, AppCode

LEMMA AppRuns ==
  ASSUME NEW W, NoAddress \in W, NEW w, World(w, W), NEW a \in W, a \notin DOMAIN w, NEW child,
         NEW new \in NewOf(W), new.code \in AppCode
  PROVE  LET run == RunCreation(w, a, child, new)
         IN  RunOf(run, W) /\ Built(w, run.world, new, a, child)
<1> DEFINE run == RunCreation(w, a, child, new)
           c == [Blank(new.code) EXCEPT !.ref = new.ref, !.num = new.num, !.lib = new.lib]
           x == With(w, a, c)
<1>1. run = Done(x, <<>>)
  <2>1. new.code # "uups" /\ new.code # "transparent" /\ new.code # "beacon" /\ new.code # "beaconProxy"
    BY DEF AppCode
  <2> QED
    BY <2>1, Zenon DEF RunCreation
<1>2. c \in ContractOf(W)
  BY DEF NewOf, Blank, ContractOf, Codes
<1>3. c.code = new.code /\ c.impl = NoAddress /\ c.admin = NoAddress
  BY DEF Blank
<1>4. new.code \notin {"uups", "transparent", "beacon"}
  BY DEF AppCode
<1> HIDE DEF run, c
<1>5. /\ World(x, W) /\ DOMAIN x = DOMAIN w \cup {a} /\ x[a] = c
      /\ Kept(w, x) /\ Pointing(w, x)
  <2>1. Added(w, a, c, x, W)
    BY <1>2, NewContract
  <2> QED
    BY <2>1 DEF Added
<1> HIDE DEF x
<1>6. RunOf(Done(x, <<>>), W) /\ Done(x, <<>>).world = x
  BY <1>5, RunForms DEF Done
<1>7. Built(w, x, new, a, child)
  BY <1>3, <1>4, <1>5 DEF Built, Adds
<1> QED
  BY <1>1, <1>6, <1>7 DEF run

LEMMA UupsRuns ==
  ASSUME NEW W, NoAddress \in W, NEW w, World(w, W), NEW a \in W, a \notin DOMAIN w, NEW child,
         NEW new \in NewOf(W), new.code = "uups"
  PROVE  LET run == RunCreation(w, a, child, new)
         IN  run.ok => RunOf(run, W) /\ Built(w, run.world, new, a, child)
<1> DEFINE run == RunCreation(w, a, child, new)
           c == Blank("uups")
           x == With(w, a, c)
<1>1. run = SetImplementation(x, a, new.arg, new.data)
  BY DEF RunCreation, AppCode
<1>2. c \in ContractOf(W)
  BY DEF Blank, ContractOf, Codes
<1>3. c.code = "uups" /\ c.admin = NoAddress
  BY DEF Blank
<1>4. new.arg \in W /\ new.data \in DataOf(W)
  BY DEF NewOf
<1> HIDE DEF run, c
<1>5. /\ World(x, W) /\ DOMAIN x = DOMAIN w \cup {a} /\ x[a] = c
      /\ CodeAt(x, a) = "uups" /\ \A b : b # a => CodeAt(x, b) = CodeAt(w, b)
      /\ \A b \in DOMAIN w : x[b] = w[b]
  <2>1. Added(w, a, c, x, W)
    BY <1>2, NewContract
  <2> HIDE DEF x
  <2> QED
    BY <1>3, <2>1 DEF Added
<1> HIDE DEF x
<1>6. /\ Follows(run, x, W, {})
      /\ run.ok => CodeAt(x, new.arg) \in AppCode /\ run.world[a].impl = new.arg
      /\ \A b \in DOMAIN x \ {a} : run.world[b].impl = x[b].impl
  <2>1. World(x, W) /\ a \in DOMAIN x
    BY <1>5
  <2> QED
    BY <1>1, <1>4, <2>1, SlotRuns
<1>7. ASSUME run.ok PROVE RunOf(run, W) /\ Built(w, run.world, new, a, child)
  <2> DEFINE y == run.world
  <2>1. RunOf(run, W) /\ DOMAIN y = DOMAIN x /\ Kept(x, y)
    BY <1>6, <1>7 DEF Follows
  <2>2. CodeAt(w, y[a].impl) \in AppCode
    BY <1>5, <1>6, <1>7 DEF AppCode
  <2>3. DOMAIN x = DOMAIN w \cup Adds(new, a, child)
    BY <1>5 DEF Adds
  <2> HIDE DEF y
  <2>4. Built(w, y, new, a, child)
    BY <1>3, <1>5, <1>6, <2>1, <2>2, <2>3, BuildThen DEF y
  <2> QED
    BY <2>1, <2>4 DEF y
<1> QED
  BY <1>7 DEF run

LEMMA TransparentRuns ==
  ASSUME NEW W, NoAddress \in W, NEW w, World(w, W), NEW a \in W, a \notin DOMAIN w,
         NEW child \in W, child \notin DOMAIN w, child # a,
         NEW new \in NewOf(W), new.code = "transparent"
  PROVE  LET run == RunCreation(w, a, child, new)
         IN  run.ok => RunOf(run, W) /\ Built(w, run.world, new, a, child)
<1> DEFINE run == RunCreation(w, a, child, new)
           c == [Blank("transparent") EXCEPT !.admin = child]
           x == With(w, a, c)
           d == Blank("admin")
           y == With(x, child, d)
           set == SetImplementation(y, a, new.arg, new.data)
           more == <<Event(child, "OwnershipTransferred", NoAddress), Event(a, "AdminChanged", child)>>
<1>1. run = [set EXCEPT !.events = @ \o more]
  BY DEF RunCreation, AppCode
<1>2. c \in ContractOf(W) /\ d \in ContractOf(W)
  BY DEF Blank, ContractOf, Codes
<1>3. c.code = "transparent" /\ c.admin = child /\ d.code = "admin" /\ d.admin = NoAddress
  BY DEF Blank
<1>4. new.arg \in W /\ new.data \in DataOf(W)
  BY DEF NewOf
<1>5. more \in Seq(EventOf(W))
  <2>1. <<Event(child, "OwnershipTransferred", NoAddress)>> \in Seq(EventOf(W))
        /\ <<Event(a, "AdminChanged", child)>> \in Seq(EventOf(W))
    BY EventForms
  <2>2. more = <<Event(child, "OwnershipTransferred", NoAddress)>> \o <<Event(a, "AdminChanged", child)>>
    OBVIOUS
  <2> HIDE DEF more
  <2> QED
    BY <2>1, <2>2
<1> HIDE DEF run, c, d, more
<1>6. /\ World(x, W) /\ DOMAIN x = DOMAIN w \cup {a} /\ x[a] = c
      /\ CodeAt(x, a) = "transparent" /\ \A b : b # a => CodeAt(x, b) = CodeAt(w, b)
      /\ \A b \in DOMAIN w : x[b] = w[b]
  <2>1. Added(w, a, c, x, W)
    BY <1>2, NewContract
  <2> HIDE DEF x
  <2> QED
    BY <1>3, <2>1 DEF Added
<1> HIDE DEF x
<1>7. /\ World(y, W) /\ DOMAIN y = DOMAIN x \cup {child} /\ y[child] = d
      /\ CodeAt(y, child) = "admin" /\ \A b : b # child => CodeAt(y, b) = CodeAt(x, b)
      /\ \A b \in DOMAIN x : y[b] = x[b]
  <2>1. child \in W /\ child \notin DOMAIN x
    BY <1>6
  <2>2. Added(x, child, d, y, W)
    BY <1>2, <1>6, <2>1, NewContract DEF y
  <2> QED
    BY <1>3, <2>2 DEF Added
<1> HIDE DEF y
<1>8. /\ Follows(set, y, W, {})
      /\ set.ok => CodeAt(y, new.arg) \in AppCode /\ set.world[a].impl = new.arg
      /\ \A b \in DOMAIN y \ {a} : set.world[b].impl = y[b].impl
  BY <1>4, <1>6, <1>7, SlotRuns
<1> HIDE DEF set
<1>9. RunOf(run, W) /\ run.world = set.world /\ run.ok = set.ok
  <2>1. RunOf(set, W)
    BY <1>8 DEF Follows
  <2>2. set = [ok |-> set.ok, world |-> set.world, events |-> set.events]
        /\ set.events \in Seq(EventOf(W)) /\ set.ok \in BOOLEAN /\ World(set.world, W)
    BY <2>1 DEF RunOf
  <2>3. run = [ok |-> set.ok, world |-> set.world, events |-> set.events \o more]
    BY <1>1, <2>2
  <2>4. set.events \o more \in Seq(EventOf(W))
    BY <1>5, <2>2
  <2> QED
    BY <2>2, <2>3, <2>4 DEF RunOf
<1>10. ASSUME run.ok PROVE Built(w, run.world, new, a, child)
  <2> DEFINE z == run.world
  <2>1. DOMAIN z = DOMAIN y /\ Kept(y, z)
    BY <1>8, <1>9, <1>10 DEF Follows
  <2>2. CodeAt(w, z[a].impl) \in AppCode
    BY <1>6, <1>7, <1>8, <1>9, <1>10 DEF AppCode
  <2>3. DOMAIN y = DOMAIN w \cup Adds(new, a, child)
    BY <1>6, <1>7 DEF Adds
  <2>4. y[a].code = new.code /\ y[a].admin = child /\ y[child].code = "admin" /\ y[child].admin = NoAddress
    BY <1>3, <1>6, <1>7
  <2>5. \A b \in DOMAIN y \ {a} : z[b].impl = y[b].impl
    BY <1>8, <1>9
  <2>6. \A b \in DOMAIN w : y[b] = w[b]
    BY <1>6, <1>7
  <2>7. a \in DOMAIN y /\ child \in DOMAIN y
    BY <1>6, <1>7
  <2> HIDE DEF z
  <2>8. Built(w, z, new, a, child)
    BY <1>7, <2>1, <2>2, <2>3, <2>4, <2>5, <2>6, <2>7, BuildThen
  <2> QED
    BY <2>8 DEF z
<1> QED
  BY <1>9, <1>10 DEF run

LEMMA BeaconRuns ==
  ASSUME NEW W, NoAddress \in W, NEW w, World(w, W), NEW a \in W, a \notin DOMAIN w, NEW child,
         NEW new \in NewOf(W), new.code = "beacon"
  PROVE  LET run == RunCreation(w, a, child, new)
         IN  run.ok => RunOf(run, W) /\ Built(w, run.world, new, a, child)
<1> DEFINE run == RunCreation(w, a, child, new)
           c == [Blank("beacon") EXCEPT !.impl = new.arg]
           x == With(w, a, c)
           es == <<Event(a, "Upgraded", new.arg)>>
<1>1. run = IF CodeAt(w, new.arg) \in AppCode THEN Done(x, es) ELSE Reverted(w)
  <2>1. new.code \notin AppCode /\ new.code # "uups" /\ new.code # "transparent" /\ new.code # "beaconProxy"
    BY DEF AppCode
  <2> QED
    BY <2>1, Zenon DEF RunCreation
<1>2. new.arg \in W
  BY DEF NewOf
<1>3. c \in ContractOf(W)
  BY <1>2 DEF Blank, ContractOf, Codes
<1>4. c.code = "beacon" /\ c.impl = new.arg /\ c.admin = NoAddress
  BY DEF Blank
<1>5. es \in Seq(EventOf(W))
  BY <1>2, EventForms
<1> HIDE DEF run, c, es
<1>6. Added(w, a, c, x, W)
  BY <1>3, NewContract
<1> HIDE DEF x
<1>7. ASSUME run.ok PROVE RunOf(run, W) /\ Built(w, run.world, new, a, child)
  <2>1. CodeAt(w, new.arg) \in AppCode /\ run = Done(x, es)
    BY <1>1, <1>7 DEF Reverted
  <2>2. RunOf(Done(x, es), W) /\ Done(x, es).world = x
    BY <1>5, <1>6, RunForms DEF Added, Done
  <2>3. Built(w, x, new, a, child)
    BY <1>4, <1>6, <2>1 DEF Built, Adds, Added
  <2> QED
    BY <2>1, <2>2, <2>3
<1> QED
  BY <1>7 DEF run

LEMMA BeaconProxyRuns ==
  ASSUME NEW W, NoAddress \in W, NEW w, World(w, W), NEW a \in W, a \notin DOMAIN w, NEW child,
         NEW new \in NewOf(W), new.code = "beaconProxy"
  PROVE  LET run == RunCreation(w, a, child, new)
         IN  run.ok => RunOf(run, W) /\ Built(w, run.world, new, a, child)
<1> DEFINE run == RunCreation(w, a, child, new)
           c == [Blank("beaconProxy") EXCEPT !.beacon = new.arg]
           x == With(w, a, c)
           es == <<Event(a, "BeaconUpgraded", new.arg)>>
           nested == RunNested(x, a, new.data)
<1>1. run = IF CodeAt(w, new.arg) # "beacon" THEN Reverted(w) ELSE [nested EXCEPT !.events = es \o @]
  <2>1. new.code \notin AppCode /\ new.code # "uups" /\ new.code # "transparent" /\ new.code # "beacon"
    BY DEF AppCode
  <2> QED
    BY <2>1, Zenon DEF RunCreation
<1>2. new.arg \in W /\ new.data \in DataOf(W)
  BY DEF NewOf
<1>3. c \in ContractOf(W)
  BY <1>2 DEF Blank, ContractOf, Codes
<1>4. c.code = "beaconProxy" /\ c.admin = NoAddress
  BY DEF Blank
<1>5. es \in Seq(EventOf(W))
  BY <1>2, EventForms
<1> HIDE DEF run, c, es
<1>6. Added(w, a, c, x, W)
  BY <1>3, NewContract
<1> HIDE DEF x
<1>7. World(x, W) /\ DOMAIN x = DOMAIN w \cup {a} /\ x[a] = c /\ \A b \in DOMAIN w : x[b] = w[b]
  BY <1>6 DEF Added
<1>8. Follows(nested, x, W, {}) /\ \A b \in DOMAIN x : nested.world[b].impl = x[b].impl
  BY <1>2, <1>7, NestedRuns
<1> HIDE DEF nested
<1>9. ASSUME run.ok PROVE RunOf(run, W) /\ Built(w, run.world, new, a, child)
  <2>1. run = [nested EXCEPT !.events = es \o @]
    BY <1>1, <1>9 DEF Reverted
  <2>2. RunOf(nested, W)
    BY <1>8 DEF Follows
  <2>3. nested = [ok |-> nested.ok, world |-> nested.world, events |-> nested.events]
        /\ nested.events \in Seq(EventOf(W)) /\ nested.ok \in BOOLEAN /\ World(nested.world, W)
    BY <2>2 DEF RunOf
  <2>4. run = [ok |-> nested.ok, world |-> nested.world, events |-> es \o nested.events]
    BY <2>1, <2>3
  <2>5. es \o nested.events \in Seq(EventOf(W))
    BY <1>5, <2>3
  <2>6. RunOf(run, W)
    BY <2>3, <2>4, <2>5 DEF RunOf
  <2>7. nested.ok /\ run.world = nested.world
    BY <1>9, <2>4
  <2> DEFINE y == nested.world
  <2>8. DOMAIN y = DOMAIN x /\ Kept(x, y)
    BY <1>8, <2>7 DEF Follows
  <2>9. DOMAIN x = DOMAIN w \cup Adds(new, a, child)
    BY <1>7 DEF Adds
  <2>10. \A b \in DOMAIN x : y[b].impl = x[b].impl
    BY <1>8
  <2> HIDE DEF y
  <2>11. Built(w, y, new, a, child)
    BY <1>4, <1>7, <2>8, <2>9, <2>10, BuildThen
  <2> QED
    BY <2>6, <2>7, <2>11 DEF y
<1> QED
  BY <1>9 DEF run

LEMMA CreationRuns ==
  ASSUME NEW W, NoAddress \in W, NEW w, World(w, W), NEW a \in W, a \notin DOMAIN w, NEW child,
         NEW new \in NewOf(W), new.code = "transparent" => child \in W /\ child \notin DOMAIN w /\ child # a
  PROVE  LET run == RunCreation(w, a, child, new)
         IN  run.ok => RunOf(run, W) /\ Built(w, run.world, new, a, child)
<1>1. new.code \in AppCode \cup {"uups", "transparent", "beacon", "beaconProxy"}
  BY DEF NewOf, Creatable
<1> QED
  BY <1>1, AppRuns, UupsRuns, TransparentRuns, BeaconRuns, BeaconProxyRuns

-----------------------------------------------------------------------------
\* What a transaction adds, if it succeeds.
AddedBy(tx, a, child) == IF tx.to # NoAddress THEN {} ELSE Adds(tx.new, a, child)

LEMMA Executes ==
  ASSUME NEW W, NoAddress \in W, NEW w, World(w, W), NEW tx \in TxOf(W), NEW a, NEW child,
         tx.to = NoAddress => a \notin DOMAIN w /\ child \notin DOMAIN w /\ child # a,
         AddedBy(tx, a, child) \subseteq W
  PROVE  LET run == Execute(w, tx, a, child)
         IN  /\ RunOf(run, W)
             /\ ~run.ok => run = Reverted(w)
             /\ run.ok => IF tx.to = NoAddress THEN Built(w, run.world, tx.new, a, child)
                          ELSE /\ DOMAIN run.world = DOMAIN w
                               /\ Kept(w, run.world) /\ Pointing(w, run.world)
<1> DEFINE run == Execute(w, tx, a, child)
<1>1. CASE tx.to = NoAddress
  <2> DEFINE in == RunCreation(w, a, child, tx.new)
  <2>1. run = IF in.ok THEN in ELSE Reverted(w)
    BY <1>1 DEF Execute
  <2>2. tx.new \in NewOf(W)
    BY <1>1 DEF TxOf
  <2>3. a \in W /\ (tx.new.code = "transparent" => child \in W)
    BY <1>1 DEF AddedBy, Adds
  <2> HIDE DEF in, run
  <2>4. in.ok => RunOf(in, W) /\ Built(w, in.world, tx.new, a, child)
    BY <1>1, <2>2, <2>3, CreationRuns DEF in
  <2>5. RunOf(Reverted(w), W) /\ ~Reverted(w).ok
    BY RunForms DEF Reverted
  <2> QED
    BY <1>1, <2>1, <2>4, <2>5 DEF run
<1>2. CASE tx.to # NoAddress
  <2> DEFINE in == RunCall(w, tx.to, tx.call)
  <2>1. run = IF in.ok THEN in ELSE Reverted(w)
    BY <1>2 DEF Execute
  <2>2. tx.call \in CallOf(W)
    BY <1>2 DEF TxOf
  <2> HIDE DEF in, run
  <2>3. Follows(in, w, W, {}) /\ (in.ok => Pointing(w, in.world))
    BY <2>2, CallRuns DEF in
  <2>4. RunOf(Reverted(w), W) /\ ~Reverted(w).ok
    BY RunForms DEF Reverted
  <2>5. in.ok => RunOf(in, W) /\ DOMAIN in.world = DOMAIN w /\ Kept(w, in.world) /\ Pointing(w, in.world)
    BY <2>3 DEF Follows
  <2> QED
    BY <1>2, <2>1, <2>4, <2>5 DEF run
<1> QED
  BY <1>1, <1>2

LEMMA KeptCodes ==
  ASSUME NEW w, NEW x, Kept(w, x)
  PROVE  \A b \in DOMAIN w : CodeAt(x, b) = CodeAt(w, b) /\ CodeAt(x, b) = w[b].code
  BY DEF Kept, CodeAt

\* Proxies keep an implementation and an admin.
LEMMA WiredStays ==
  ASSUME NEW w, Wired(w), NEW x, Kept(w, x), Pointing(w, x), NEW a \in DOMAIN w
  PROVE  /\ x[a].code \in {"uups", "transparent", "beacon"} => CodeAt(x, x[a].impl) \in AppCode
         /\ IF x[a].code = "transparent" THEN CodeAt(x, x[a].admin) \in {"admin", "oldAdmin"}
            ELSE x[a].admin = NoAddress
<1>1. x[a].code = w[a].code /\ x[a].admin = w[a].admin
  BY DEF Kept
<1>2. ASSUME NEW b, NEW codes, CodeAt(w, b) \in codes, "none" \notin codes PROVE CodeAt(x, b) \in codes
  <2>1. b \in DOMAIN w
    BY <1>2 DEF CodeAt
  <2> QED
    BY <1>2, <2>1, KeptCodes
<1>3. "none" \notin AppCode /\ "none" \notin {"admin", "oldAdmin"}
  BY DEF AppCode
<1>4. ASSUME x[a].code \in {"uups", "transparent", "beacon"} PROVE CodeAt(x, x[a].impl) \in AppCode
  <2>1. CodeAt(w, x[a].impl) \in AppCode
    <3>1. x[a].impl = w[a].impl \/ CodeAt(w, x[a].impl) \in AppCode
      BY DEF Pointing
    <3> QED
      BY <1>1, <1>4, <3>1 DEF Wired
  <2> QED
    BY <1>2, <1>3, <2>1
<1>5. ASSUME x[a].code = "transparent" PROVE CodeAt(x, x[a].admin) \in {"admin", "oldAdmin"}
  <2>1. CodeAt(w, x[a].admin) \in {"admin", "oldAdmin"}
    BY <1>1, <1>5 DEF Wired
  <2> QED
    BY <1>2, <1>3, <2>1
<1>6. ASSUME x[a].code # "transparent" PROVE x[a].admin = NoAddress
  BY <1>1, <1>6 DEF Wired
<1> QED
  BY <1>4, <1>5, <1>6

LEMMA WiredKept ==
  ASSUME NEW w, Wired(w), NEW x, Kept(w, x), Pointing(w, x), DOMAIN x = DOMAIN w
  PROVE  Wired(x)
  BY WiredStays DEF Wired

LEMMA WiredBuilt ==
  ASSUME NEW w, Wired(w), NEW x, NEW new, NEW a, NEW child, Built(w, x, new, a, child),
         a \notin DOMAIN w, child \notin DOMAIN w
  PROVE  Wired(x)
<1>1. Kept(w, x) /\ Pointing(w, x)
  BY DEF Built
<1>2. x[a].code = new.code /\ a \in DOMAIN x /\ DOMAIN x = DOMAIN w \cup Adds(new, a, child)
  BY DEF Built, Adds
<1>3. "none" \notin AppCode
  BY DEF AppCode
<1>4. new.code \in {"uups", "transparent", "beacon"} => CodeAt(x, x[a].impl) \in AppCode
  <2>1. ASSUME CodeAt(w, x[a].impl) \in AppCode PROVE CodeAt(x, x[a].impl) \in AppCode
    <3>1. x[a].impl \in DOMAIN w
      BY <1>3, <2>1 DEF CodeAt
    <3> QED
      BY <1>1, <2>1, <3>1, KeptCodes
  <2> QED
    BY <2>1 DEF Built
<1>5. CASE new.code = "transparent"
  <2>1. x[a].admin = child /\ x[child].code = "admin" /\ x[child].admin = NoAddress
    BY <1>5 DEF Built
  <2>2. child \in DOMAIN x /\ DOMAIN x = DOMAIN w \cup {a, child}
    BY <1>2, <1>5 DEF Adds
  <2>3. CodeAt(x, x[a].admin) \in {"admin", "oldAdmin"}
    BY <2>1, <2>2 DEF CodeAt
  <2> QED
    BY <1>1, <1>2, <1>4, <1>5, <2>1, <2>2, <2>3, WiredStays DEF Wired
<1>6. CASE new.code # "transparent"
  <2>1. x[a].admin = NoAddress /\ DOMAIN x = DOMAIN w \cup {a}
    BY <1>2, <1>6 DEF Built, Adds
  <2> QED
    BY <1>1, <1>2, <1>4, <1>6, <2>1, WiredStays DEF Wired
<1> QED
  BY <1>5, <1>6

-----------------------------------------------------------------------------
(***************************************************************************)
(* Rewriting: what is sent is the transaction of the script, by the words  *)
(* of TRON.                                                                *)
(***************************************************************************)
\* The mappings lead to contracts of ours, whose twins they are.
MapsToOurs == \A p \in DOMAIN map : map[p] \in Ours /\ map[p] \in DOMAIN real /\ Twin(map[p]) = p

LEMMA MapSorts ==
  ASSUME MapsToOurs, Populated(real)
  PROVE  /\ DOMAIN map \subseteq Twins
         /\ Known \subseteq Native /\ Known \cap DOMAIN map = {}
         /\ NoAddress \in Known /\ NoAddress \in Named
<1>1. DOMAIN map \subseteq Twins
  BY WordSorts DEF MapsToOurs
<1>2. {"ext"} \X Nat \subseteq Neutral
  BY DEF Neutral
<1>3. Known \subseteq Native
  BY <1>2 DEF Known, Native, Populated
<1>4. Known \cap DOMAIN map = {}
  BY <1>1, <1>3, WordSorts DEF Native
<1> QED
  BY <1>1, <1>3, <1>4, WordSorts DEF Known, Named

\* r stands for w on TRON.
Renders(r, w) == r \in Known /\ Twin(r) = w

LEMMA MappedRenders ==
  ASSUME MapsToOurs, Populated(real), NEW w \in Named
  PROVE  /\ Renders(ToActual(map, w), w)
         /\ ToActual(map, w) \notin DOMAIN map
         /\ w # NoAddress => ToActual(map, w) # NoAddress
<1>1. CASE w \in DOMAIN map
  <2>1. map[w] \in Ours /\ map[w] \in DOMAIN real /\ Twin(map[w]) = w
    BY <1>1 DEF MapsToOurs
  <2> QED
    BY <1>1, <2>1, MapSorts, WordSorts DEF ToActual, Renders, Known
<1>2. CASE w \notin DOMAIN map
  <2>1. w \in Neutral
    BY <1>2 DEF Named
  <2> QED
    BY <1>2, <2>1, MapSorts, WordSorts DEF ToActual, Renders, Known
<1> QED
  BY <1>1, <1>2

LEMMA UnmappedRenders ==
  ASSUME MapsToOurs, Populated(real), NEW w \in Named, w \notin DOMAIN map
  PROVE  Renders(w, w)
<1>1. w \in Neutral
  BY DEF Named
<1> QED
  BY <1>1, WordSorts DEF Renders, Known

\* The same of a nested call, of a call, of a creation.
RendersInner(r, c) == r \in PayloadOf(Known) /\ TwinInner(r) = c
RendersData(r, d) == r \in DataOf(Known) /\ TwinData(r) = d
RendersCall(r, c) == r \in CallOf(Known) /\ TwinCall(r) = c

LEMMA InnerRendered ==
  ASSUME MapsToOurs, Populated(real), NEW c \in PayloadOf(Named), NEW x, Renders(x, c.arg)
  PROVE  RendersInner([sel |-> c.sel, proxy |-> NoAddress, arg |-> x, data |-> <<>>], c)
<1>1. c = [sel |-> c.sel, proxy |-> NoAddress, arg |-> c.arg, data |-> <<>>] /\ c.sel \in Setters
  BY DEF PayloadOf
<1>2. Twin(NoAddress) = NoAddress /\ Twin(x) = c.arg /\ x \in Known
  BY WordSorts DEF Renders
<1> DEFINE r == [sel |-> c.sel, proxy |-> NoAddress, arg |-> x, data |-> <<>>]
<1> HIDE DEF NoAddress
<1>3. r \in PayloadOf(Known)
  BY <1>1, <1>2 DEF PayloadOf
<1>4. TwinInner(r) = [sel |-> c.sel, proxy |-> NoAddress, arg |-> c.arg, data |-> <<>>]
  BY <1>2 DEF TwinInner
<1> QED
  BY <1>1, <1>3, <1>4 DEF RendersInner

LEMMA NoDataRendered == RendersData(<<>>, <<>>)
<1>1. <<>> \in DataOf(Known)
  BY DEF DataOf
<1> QED
  BY <1>1 DEF RendersData, TwinData

LEMMA OneDataRendered ==
  ASSUME NEW r, NEW c, RendersInner(r, c)
  PROVE  RendersData(<<r>>, <<c>>)
<1>1. r \in PayloadOf(Known) /\ TwinInner(r) = c
  BY DEF RendersInner
<1>2. <<r>> \in DataOf(Known)
  <2> DEFINE P == PayloadOf(Known)
  <2>1. r \in P
    BY <1>1
  <2> HIDE DEF P
  <2>2. <<r>> \in Seq(P) /\ Len(<<r>>) <= 1
    BY <2>1
  <2> QED
    BY <2>2 DEF DataOf, P
<1>3. TwinData(<<r>>) = <<c>>
  BY <1>1 DEF TwinData
<1> QED
  BY <1>2, <1>3 DEF RendersData

LEMMA DataForms ==
  ASSUME NEW W, NEW d \in DataOf(W)
  PROVE  d = <<>> \/ (d = <<d[1]>> /\ d[1] \in PayloadOf(W) /\ DOMAIN d = {1} /\ d # <<>>)
<1> DEFINE P == PayloadOf(W)
<1>1. d \in Seq(P) /\ Len(d) <= 1
  BY DEF DataOf
<1> HIDE DEF P
<1>2. d = <<>> \/ (d = <<d[1]>> /\ d[1] \in P /\ DOMAIN d = {1} /\ d # <<>>)
  BY <1>1
<1> QED
  BY <1>2 DEF P

LEMMA CallForms ==
  ASSUME NEW W, NEW c \in CallOf(W)
  PROVE  /\ c = [sel |-> c.sel, proxy |-> c.proxy, arg |-> c.arg, data |-> c.data]
         /\ c.sel \in Setters \cup Upgrades /\ c.proxy \in W /\ c.arg \in W /\ c.data \in DataOf(W)
  BY DEF CallOf

LEMMA PayloadForms ==
  ASSUME NEW W, NEW c \in PayloadOf(W)
  PROVE  /\ c = [sel |-> c.sel, proxy |-> NoAddress, arg |-> c.arg, data |-> <<>>]
         /\ c.proxy = NoAddress /\ c.sel \in Setters /\ c.arg \in W /\ c.data = <<>>
  BY DEF PayloadOf

LEMMA CallRendered ==
  ASSUME NEW c \in CallOf(Named), NEW p, NEW x, NEW d,
         Renders(p, c.proxy), Renders(x, c.arg), RendersData(d, c.data)
  PROVE  RendersCall([sel |-> c.sel, proxy |-> p, arg |-> x, data |-> d], c)
<1> DEFINE r == [sel |-> c.sel, proxy |-> p, arg |-> x, data |-> d]
<1>1. r \in CallOf(Known)
  BY CallForms DEF Renders, RendersData, CallOf
<1>2. TwinCall(r) = [sel |-> c.sel, proxy |-> Twin(p), arg |-> Twin(x), data |-> TwinData(d)]
  BY DEF TwinCall
<1>3. Twin(p) = c.proxy /\ Twin(x) = c.arg /\ TwinData(d) = c.data
  BY DEF Renders, RendersData
<1>4. TwinCall(r) = c
  BY <1>2, <1>3, CallForms
<1> QED
  BY <1>1, <1>4 DEF RendersCall

\* The mapped arguments of a call.
LEMMA MappedArguments ==
  ASSUME NEW known, NEW s, NEW p, NEW a, NEW d, NEW c,
         c = [sel |-> s, proxy |-> p, arg |-> a, data |-> d]
  PROVE  MapArguments(known, c) =
           IF TakesAddresses(s)
             THEN [sel |-> s, proxy |-> ToActual(known, p), arg |-> ToActual(known, a), data |-> d]
             ELSE c
<1>1. c.sel = s /\ c.proxy = p /\ c.arg = a
  OBVIOUS
<1> DEFINE q == ToActual(known, p)
           b == ToActual(known, a)
           e == [c EXCEPT !.proxy = q]
<1>2. MapArguments(known, c) = IF TakesAddresses(s) THEN [e EXCEPT !.arg = b] ELSE c
  BY <1>1 DEF MapArguments
<1> HIDE DEF q, b
<1>3. e = [sel |-> s, proxy |-> q, arg |-> a, data |-> d]
  OBVIOUS
<1> HIDE DEF e
<1>4. [e EXCEPT !.arg = b] = [sel |-> s, proxy |-> q, arg |-> b, data |-> d]
  BY <1>3
<1> QED
  BY <1>2, <1>4 DEF q, b

\* A nested call that is scanned, or mapped and scanned.
LEMMA NestedRendered ==
  ASSUME MapsToOurs, Populated(real), NEW d \in DataOf(Named), NEW abi, NEW n \in RewriteNested(map, d, abi)
  PROVE  RendersData(n, d)
<1>1. CASE d = <<>>
  BY <1>1, NoDataRendered DEF RewriteNested
<1>2. CASE d # <<>>
  <2> DEFINE c == d[1]
  <2>1. d = <<c>> /\ c \in PayloadOf(Named)
    BY <1>2, DataForms
  <2>2. PICK r \in RewriteCalldata(map, c) \cup Opaque(map, c) : n = <<r>>
    BY <1>2 DEF RewriteNested
  <2> HIDE DEF c
  <2>3. c = [sel |-> c.sel, proxy |-> NoAddress, arg |-> c.arg, data |-> <<>>] /\ c.arg \in Named
    BY <2>1, PayloadForms
  <2>4. ToActual(map, NoAddress) = NoAddress
    BY MapSorts DEF ToActual
  <2>5. \E x : Renders(x, c.arg) /\ r = [sel |-> c.sel, proxy |-> NoAddress, arg |-> x, data |-> <<>>]
    <3>1. ASSUME r = c, c.arg \notin DOMAIN map
          PROVE  Renders(c.arg, c.arg) /\ r = [sel |-> c.sel, proxy |-> NoAddress, arg |-> c.arg, data |-> <<>>]
      BY <2>3, <3>1, UnmappedRenders
    <3>2. CASE r \in Opaque(map, c)
      <4>1. r = c /\ c.arg \notin DOMAIN map
        BY <3>2 DEF Opaque, OpaqueSafe, CallWords
      <4> QED
        BY <3>1, <4>1
    <3>3. CASE r \in RewriteCalldata(map, c)
      <4>1. r = MapArguments(map, c) /\ CallWords(r) \cap DOMAIN map = {}
        BY <3>3 DEF RewriteCalldata, Opaque, OpaqueSafe
      <4>2. MapArguments(map, c) = IF TakesAddresses(c.sel)
              THEN [sel |-> c.sel, proxy |-> NoAddress, arg |-> ToActual(map, c.arg), data |-> <<>>] ELSE c
        BY <2>3, <2>4, MappedArguments
      <4>3. CASE TakesAddresses(c.sel)
        BY <2>3, <4>1, <4>2, <4>3, MappedRenders
      <4>4. CASE ~TakesAddresses(c.sel)
        <5>1. r = c /\ c.arg \notin DOMAIN map
          BY <4>1, <4>2, <4>4 DEF CallWords
        <5> QED
          BY <3>1, <5>1
      <4> QED
        BY <4>3, <4>4
    <3> QED
      BY <2>2, <3>2, <3>3
  <2>6. RendersInner(r, c)
    BY <2>1, <2>5, InnerRendered
  <2> QED
    BY <2>1, <2>2, <2>6, OneDataRendered
<1> QED
  BY <1>1, <1>2

\* A nested call in which nothing is known stays as it is.
LEMMA ScannedData ==
  ASSUME MapsToOurs, Populated(real), NEW d \in DataOf(Named), \A i \in DOMAIN d : d[i].arg \notin DOMAIN map
  PROVE  RendersData(d, d)
<1>1. CASE d = <<>>
  BY <1>1, NoDataRendered
<1>2. CASE d # <<>>
  <2> DEFINE c == d[1]
  <2>1. d = <<c>> /\ c \in PayloadOf(Named) /\ c.arg \notin DOMAIN map
    BY <1>2, DataForms
  <2> HIDE DEF c
  <2>2. c = [sel |-> c.sel, proxy |-> NoAddress, arg |-> c.arg, data |-> <<>>] /\ c.arg \in Named
    BY <2>1, PayloadForms
  <2>3. RendersInner([sel |-> c.sel, proxy |-> NoAddress, arg |-> c.arg, data |-> <<>>], c)
    BY <2>1, <2>2, UnmappedRenders, InnerRendered
  <2> QED
    BY <2>1, <2>2, <2>3, OneDataRendered
<1> QED
  BY <1>1, <1>2

LEMMA OpaqueRendered ==
  ASSUME MapsToOurs, Populated(real), NEW c \in CallOf(Named), NEW r \in Opaque(map, c)
  PROVE  RendersCall(r, c)
<1>1. r = c /\ CallWords(c) \cap DOMAIN map = {}
  BY DEF Opaque, OpaqueSafe
<1>2. c.proxy \notin DOMAIN map /\ c.arg \notin DOMAIN map /\ \A i \in DOMAIN c.data : c.data[i].arg \notin DOMAIN map
  BY <1>1 DEF CallWords
<1>3. Renders(c.proxy, c.proxy) /\ Renders(c.arg, c.arg) /\ RendersData(c.data, c.data)
  BY <1>2, CallForms, UnmappedRenders, ScannedData
<1>4. c = [sel |-> c.sel, proxy |-> c.proxy, arg |-> c.arg, data |-> c.data]
  BY CallForms
<1> QED
  BY <1>1, <1>3, <1>4, CallRendered

LEMMA SetterSelectors == "setRef" \notin Upgrades /\ "setNum" \notin Upgrades
  BY DEF Upgrades

LEMMA CalldataRendered ==
  ASSUME MapsToOurs, Populated(real), NEW c \in CallOf(Named), NEW r \in RewriteCalldata(map, c)
  PROVE  RendersCall(r, c)
<1>1. r = MapArguments(map, c) /\ CallWords(r) \cap DOMAIN map = {}
  BY DEF RewriteCalldata, Opaque, OpaqueSafe
<1>2. c = [sel |-> c.sel, proxy |-> c.proxy, arg |-> c.arg, data |-> c.data]
      /\ c.proxy \in Named /\ c.arg \in Named /\ c.data \in DataOf(Named)
  BY CallForms
<1>3. r = IF TakesAddresses(c.sel)
            THEN [sel |-> c.sel, proxy |-> ToActual(map, c.proxy), arg |-> ToActual(map, c.arg), data |-> c.data]
            ELSE c
  BY <1>1, <1>2, MappedArguments
<1>4. r.data = c.data
  BY <1>3
<1>5. \A i \in DOMAIN c.data : c.data[i].arg \notin DOMAIN map
  BY <1>1, <1>4 DEF CallWords
<1>6. RendersData(c.data, c.data)
  BY <1>2, <1>5, ScannedData
<1>7. CASE TakesAddresses(c.sel)
  <2>1. Renders(ToActual(map, c.proxy), c.proxy) /\ Renders(ToActual(map, c.arg), c.arg)
    BY <1>2, MappedRenders
  <2> QED
    BY <1>3, <1>6, <1>7, <2>1, CallRendered
<1>8. CASE ~TakesAddresses(c.sel)
  <2>1. r = c /\ c.proxy \notin DOMAIN map /\ c.arg \notin DOMAIN map
    BY <1>1, <1>3, <1>8 DEF CallWords
  <2>2. Renders(c.proxy, c.proxy) /\ Renders(c.arg, c.arg)
    BY <1>2, <2>1, UnmappedRenders
  <2>3. RendersCall([sel |-> c.sel, proxy |-> c.proxy, arg |-> c.arg, data |-> c.data], c)
    BY <1>6, <2>2, CallRendered
  <2> QED
    BY <1>2, <2>1, <2>3
<1> QED
  BY <1>7, <1>8

LEMMA UpgradeRendered ==
  ASSUME MapsToOurs, Populated(real), NEW c \in CallOf(Named), c.sel \in Upgrades, NEW abi,
         NEW r \in RewriteUpgrade(map, c, abi)
  PROVE  RendersCall(r, c)
<1>1. PICK n \in RewriteNested(map, c.data, abi) : r = [MapArguments(map, c) EXCEPT !.data = n]
  BY DEF RewriteUpgrade
<1>2. c = [sel |-> c.sel, proxy |-> c.proxy, arg |-> c.arg, data |-> c.data]
      /\ c.proxy \in Named /\ c.arg \in Named /\ c.data \in DataOf(Named)
  BY CallForms
<1> DEFINE m == MapArguments(map, c)
           p == ToActual(map, c.proxy)
           x == ToActual(map, c.arg)
<1>3. m = [sel |-> c.sel, proxy |-> p, arg |-> x, data |-> c.data]
  BY <1>2, MappedArguments DEF TakesAddresses
<1>4. Renders(p, c.proxy) /\ Renders(x, c.arg)
  BY <1>2, MappedRenders
<1>5. RendersData(n, c.data)
  BY <1>2, NestedRendered
<1>6. r = [m EXCEPT !.data = n]
  BY <1>1
<1> HIDE DEF m, p, x
<1>7. r = [sel |-> c.sel, proxy |-> p, arg |-> x, data |-> n]
  BY <1>3, <1>6
<1> QED
  BY <1>4, <1>5, <1>7, CallRendered

LEMMA CallsRendered ==
  ASSUME MapsToOurs, Populated(real), NEW c \in CallOf(Named), NEW kind, NEW code, NEW abi,
         NEW r \in RewriteCall(map, kind, code, c, abi)
  PROVE  RendersCall(r, c)
<1>1. CASE c.sel \in UpgradesOf(kind) \cap Declared(code)
  <2>1. c.sel \in Upgrades
    BY <1>1 DEF UpgradesOf, Upgrades
  <2>2. r \in RewriteUpgrade(map, c, abi)
    BY <1>1 DEF RewriteCall
  <2> QED
    BY <2>1, <2>2, UpgradeRendered
<1>2. CASE c.sel \notin UpgradesOf(kind) \cap Declared(code) /\ c.sel \in Declared(code)
  BY <1>2, CalldataRendered DEF RewriteCall
<1>3. CASE c.sel \notin Declared(code)
  BY <1>3, OpaqueRendered DEF RewriteCall
<1> QED
  BY <1>1, <1>2, <1>3

\* A call of a contract that is not known.
LEMMA ForeignRendered ==
  ASSUME MapsToOurs, Populated(real), NEW t, NEW c \in CallOf(Named), NEW r \in RewriteForeign(t, c)
  PROVE  RendersCall(r, c)
<1>1. CASE c.arg \in DOMAIN map /\ AbiOf(c.arg) # {} /\ TopologyFits(t, c)
  <2> DEFINE x == ToActual(map, c.arg)
  <2>1. r = [c EXCEPT !.arg = x] /\ CallWords(r) \cap DOMAIN map = {}
    BY <1>1 DEF RewriteForeign, Opaque, OpaqueSafe, ToActual
  <2>2. c = [sel |-> c.sel, proxy |-> c.proxy, arg |-> c.arg, data |-> c.data]
        /\ c.proxy \in Named /\ c.arg \in Named /\ c.data \in DataOf(Named)
    BY CallForms
  <2>3. Renders(x, c.arg)
    BY <2>2, MappedRenders
  <2> HIDE DEF x
  <2>4. r = [sel |-> c.sel, proxy |-> c.proxy, arg |-> x, data |-> c.data]
    BY <2>1, <2>2
  <2>5. r.proxy = c.proxy /\ r.data = c.data
    BY <2>4
  <2>6. c.proxy \notin DOMAIN map /\ \A i \in DOMAIN c.data : c.data[i].arg \notin DOMAIN map
    BY <2>1, <2>5 DEF CallWords
  <2>7. Renders(c.proxy, c.proxy) /\ RendersData(c.data, c.data)
    BY <2>2, <2>6, UnmappedRenders, ScannedData
  <2> QED
    BY <2>3, <2>4, <2>7, CallRendered
<1>2. CASE ~(c.arg \in DOMAIN map /\ AbiOf(c.arg) # {} /\ TopologyFits(t, c))
  BY <1>2, OpaqueRendered DEF RewriteForeign
<1> QED
  BY <1>1, <1>2

-----------------------------------------------------------------------------
RendersNew(r, new) == r \in NewOf(Known) /\ TwinNew(r) = new

LEMMA NewForms ==
  ASSUME NEW W, NEW new \in NewOf(W)
  PROVE  /\ new = [code |-> new.code, arg |-> new.arg, data |-> new.data,
                   ref |-> new.ref, num |-> new.num, lib |-> new.lib]
         /\ new.code \in Creatable /\ new.arg \in W /\ new.data \in DataOf(W)
         /\ new.ref \in W /\ new.num \in W /\ new.lib \in W
         /\ IF new.code \in AppCode THEN new.arg = NoAddress /\ new.data = <<>>
            ELSE new.ref = NoAddress /\ new.num = NoAddress /\ new.lib = NoAddress
  BY DEF NewOf

LEMMA NoAddressRendered ==
  ASSUME MapsToOurs, Populated(real)
  PROVE  Renders(NoAddress, NoAddress) /\ ToActual(map, NoAddress) = NoAddress
  BY MapSorts, WordSorts DEF Renders, ToActual

LEMMA NewRendered ==
  ASSUME MapsToOurs, Populated(real), NEW new \in NewOf(Named), NEW a, NEW d, NEW x, NEW y, NEW z,
         Renders(a, new.arg), RendersData(d, new.data), Renders(x, new.ref), Renders(y, new.num),
         Renders(z, new.lib),
         IF new.code \in AppCode THEN a = NoAddress /\ d = <<>>
         ELSE x = NoAddress /\ y = NoAddress /\ z = NoAddress
  PROVE  RendersNew([code |-> new.code, arg |-> a, data |-> d, ref |-> x, num |-> y, lib |-> z], new)
<1> DEFINE r == [code |-> new.code, arg |-> a, data |-> d, ref |-> x, num |-> y, lib |-> z]
<1>1. new.code \in Creatable
  BY NewForms
<1>2. r \in [code : Creatable, arg : Known, data : DataOf(Known), ref : Known, num : Known, lib : Known]
  BY <1>1 DEF Renders, RendersData
<1>3. r \in NewOf(Known)
  BY <1>2 DEF NewOf
<1>4. TwinNew(r) = [code |-> new.code, arg |-> Twin(a), data |-> TwinData(d),
                    ref |-> Twin(x), num |-> Twin(y), lib |-> Twin(z)]
  BY DEF TwinNew
<1>5. Twin(a) = new.arg /\ TwinData(d) = new.data /\ Twin(x) = new.ref /\ Twin(y) = new.num /\ Twin(z) = new.lib
  BY DEF Renders, RendersData
<1>6. TwinNew(r) = new
  BY <1>4, <1>5, NewForms
<1> QED
  BY <1>3, <1>6 DEF RendersNew

LEMMA CreationRendered ==
  ASSUME MapsToOurs, Populated(real), NEW new \in NewOf(Named), new.code \in AppCode,
         NEW r \in RewriteCreation(map, new)
  PROVE  RendersNew(r, new)
<1> DEFINE x == ToActual(map, new.ref)
           z == ToActual(map, new.lib)
           e == [new EXCEPT !.ref = x]
<1>1. r = [e EXCEPT !.lib = z] /\ {r.ref, r.num, r.lib} \cap DOMAIN map = {}
  BY DEF RewriteCreation, OpaqueSafe
<1>2. Renders(x, new.ref) /\ Renders(z, new.lib)
  BY NewForms, MappedRenders
<1> HIDE DEF x, z
<1>3. e = [code |-> new.code, arg |-> new.arg, data |-> new.data, ref |-> x, num |-> new.num, lib |-> new.lib]
  BY NewForms
<1> HIDE DEF e
<1>4. r = [code |-> new.code, arg |-> new.arg, data |-> new.data, ref |-> x, num |-> new.num, lib |-> z]
  BY <1>1, <1>3
<1>5. r.num = new.num
  BY <1>4
<1>6. Renders(new.num, new.num)
  BY <1>1, <1>5, NewForms, UnmappedRenders
<1>7. new.arg = NoAddress /\ new.data = <<>>
  BY NewForms
<1>8. Renders(new.arg, new.arg) /\ RendersData(new.data, new.data)
  BY <1>7, NoAddressRendered, NoDataRendered
<1> QED
  BY <1>2, <1>4, <1>6, <1>7, <1>8, NewRendered

LEMMA ProxyCreationRendered ==
  ASSUME MapsToOurs, Populated(real), NEW new \in NewOf(Named), new.code \notin AppCode, NEW abi,
         NEW r \in RewriteProxyCreation(map, new, abi)
  PROVE  RendersNew(r, new)
<1> DEFINE a == ToActual(map, new.arg)
           e == [new EXCEPT !.arg = a]
<1>1. PICK n \in RewriteNested(map, new.data, abi) : r = [e EXCEPT !.data = n]
  BY DEF RewriteProxyCreation
<1>2. Renders(a, new.arg)
  BY NewForms, MappedRenders
<1> HIDE DEF a
<1>3. e = [code |-> new.code, arg |-> a, data |-> new.data, ref |-> new.ref, num |-> new.num, lib |-> new.lib]
  BY NewForms
<1> HIDE DEF e
<1>4. r = [code |-> new.code, arg |-> a, data |-> n, ref |-> new.ref, num |-> new.num, lib |-> new.lib]
  BY <1>1, <1>3
<1>5. RendersData(n, new.data)
  BY NewForms, NestedRendered
<1>6. new.ref = NoAddress /\ new.num = NoAddress /\ new.lib = NoAddress
  BY NewForms
<1>7. Renders(new.ref, new.ref) /\ Renders(new.num, new.num) /\ Renders(new.lib, new.lib)
  BY <1>6, NoAddressRendered
<1> QED
  BY <1>2, <1>4, <1>5, <1>6, <1>7, NewRendered

\* Whatever is sent is the transaction that was to be sent, in the words of TRON.
LEMMA TransactionsRendered ==
  ASSUME MapsToOurs, Populated(real), NEW tx \in TxOf(Named), NEW abi, NEW r \in Rewritten(tx, abi)
  PROVE  r \in TxOf(Known) /\ TwinTx(r) = tx /\ (r.to = NoAddress <=> tx.to = NoAddress)
         /\ (tx.to = NoAddress => r.new.code = tx.new.code)
<1>1. CASE tx.to = NoAddress
  <2>1. tx = [to |-> NoAddress, new |-> tx.new] /\ tx.new \in NewOf(Named)
    BY <1>1 DEF TxOf
  <2>2. PICK new : /\ r = [tx EXCEPT !.new = new]
                   /\ \/ tx.new.code \in AppCode /\ new \in RewriteCreation(map, tx.new)
                      \/ tx.new.code \notin AppCode /\ \E any : new \in RewriteProxyCreation(map, tx.new, any)
    BY <1>1 DEF Rewritten
  <2>3. RendersNew(new, tx.new)
    BY <2>1, <2>2, CreationRendered, ProxyCreationRendered
  <2>4. r = [to |-> NoAddress, new |-> new]
    BY <2>1, <2>2
  <2>5. new \in NewOf(Known) /\ TwinNew(new) = tx.new
    BY <2>3 DEF RendersNew
  <2>6. new.code = tx.new.code
    <3>1. TwinNew(new).code = new.code
      BY DEF TwinNew
    <3> QED
      BY <2>5, <3>1
  <2>7. r \in TxOf(Known) /\ r.to = NoAddress /\ r.new = new
    BY <2>4, <2>5 DEF TxOf
  <2>8. TwinTx(r) = [to |-> NoAddress, new |-> TwinNew(new)]
    BY <2>7 DEF TwinTx
  <2> QED
    BY <1>1, <2>1, <2>5, <2>6, <2>7, <2>8
<1>2. CASE tx.to # NoAddress
  <2>1. tx = [to |-> tx.to, call |-> tx.call] /\ tx.to \in Named /\ tx.call \in CallOf(Named)
    BY <1>2 DEF TxOf
  <2> DEFINE t == ToActual(map, tx.to)
             e == [tx EXCEPT !.to = t]
  <2>2. PICK c : /\ r = [e EXCEPT !.call = c]
                 /\ \/ c \in RewriteForeign(tx.to, tx.call)
                    \/ \E kind, code, any : c \in RewriteCall(map, kind, code, tx.call, any)
    <3> DEFINE S == IF tx.to \notin DOMAIN meta THEN RewriteForeign(tx.to, tx.call)
                    ELSE UNION {RewriteCall(map, meta[tx.to], code, tx.call, AbiOf(tx.call.arg)) : code \in abi}
    <3>1. r \in {[tx EXCEPT !.to = Target(tx), !.call = call] : call \in S}
      BY <1>2 DEF Rewritten
    <3>2. \A c \in S : \/ c \in RewriteForeign(tx.to, tx.call)
                      \/ \E kind, code, any : c \in RewriteCall(map, kind, code, tx.call, any)
      OBVIOUS
    <3> HIDE DEF S
    <3>3. PICK c \in S : r = [tx EXCEPT !.to = Target(tx), !.call = c]
      BY <3>1
    <3>4. r = [e EXCEPT !.call = c]
      BY <3>3 DEF Target
    <3> QED
      BY <3>2, <3>4
  <2>3. RendersCall(c, tx.call)
    BY <2>1, <2>2, ForeignRendered, CallsRendered
  <2>4. Renders(t, tx.to) /\ t # NoAddress
    BY <1>2, <2>1, MappedRenders
  <2> HIDE DEF t
  <2>5. e = [to |-> t, call |-> tx.call]
    BY <2>1
  <2> HIDE DEF e
  <2>6. r = [to |-> t, call |-> c]
    BY <2>2, <2>5
  <2>7. r \in TxOf(Known) /\ r.to = t /\ r.call = c
    BY <2>3, <2>4, <2>6 DEF RendersCall, Renders, TxOf
  <2>8. TwinTx(r) = [to |-> Twin(t), call |-> TwinCall(c)]
    BY <2>4, <2>7 DEF TwinTx
  <2> QED
    BY <1>2, <2>1, <2>3, <2>4, <2>7, <2>8 DEF RendersCall, Renders
<1> QED
  BY <1>1, <1>2

-----------------------------------------------------------------------------
(***************************************************************************)
(* What the invariant says of the reads of the adapter.                    *)
(***************************************************************************)
\* An address with a mapping is answered by its twin, and the other way round.
Faithful(known) == \A p \in DOMAIN known : known[p] \in Ours /\ Twin(known[p]) = p

LEMMA Translated ==
  ASSUME NEW known, Faithful(known), NEW w \in Native, w \in Ours => Twin(w) \in DOMAIN known
  PROVE  ToPredicted(known, w) = Twin(w)
<1>1. CASE w \in Ours
  <2>1. known[Twin(w)] \in Ours /\ Twin(known[Twin(w)]) = Twin(w)
    BY <1>1 DEF Faithful
  <2>2. known[Twin(w)] = w
    BY <1>1, <2>1, TwinOnce DEF Native
  <2>3. \A q \in DOMAIN known : known[q] = w => q = Twin(w)
    BY DEF Faithful
  <2> QED
    BY <1>1, <2>2, <2>3 DEF ToPredicted
<1>2. CASE w \notin Ours
  <2>1. w \in Neutral
    BY <1>2 DEF Native
  <2>2. ~\E p \in DOMAIN known : known[p] = w
    BY <1>2 DEF Faithful
  <2> QED
    BY <2>1, <2>2, WordSorts DEF ToPredicted
<1> QED
  BY <1>1, <1>2

LEMMA FoundAgain ==
  ASSUME MapsToOurs, Populated(real), NEW b \in DOMAIN real, b \in Ours => Twin(b) \in DOMAIN map
  PROVE  ToActual(map, Twin(b)) = b
<1>1. b \in Native
  BY MapSorts DEF Known
<1>2. CASE b \in Ours
  <2>1. Twin(b) \in DOMAIN map /\ map[Twin(b)] \in Ours /\ Twin(map[Twin(b)]) = Twin(b)
    BY <1>2 DEF MapsToOurs
  <2>2. map[Twin(b)] = b
    BY <1>2, <2>1, TwinOnce DEF Native
  <2> QED
    BY <2>1, <2>2 DEF ToActual
<1>3. CASE b \notin Ours
  <2>1. b \in Neutral /\ Twin(b) = b
    BY <1>1, <1>3, WordSorts DEF Native
  <2>2. b \notin DOMAIN map
    BY <2>1, MapSorts, WordSorts
  <2> QED
    BY <2>1, <2>2 DEF ToActual
<1> QED
  BY <1>2, <1>3

LEMMA ViewIs ==
  ASSUME MapsToOurs, Populated(real)
  PROVE  /\ DOMAIN View = {Twin(b) : b \in DOMAIN real}
         /\ \A b \in DOMAIN real : View[Twin(b)] = ViewContract(real[b])
<1>1. DOMAIN View = {Twin(b) : b \in DOMAIN real}
  BY DEF View
<1>2. ASSUME NEW b \in DOMAIN real PROVE View[Twin(b)] = ViewContract(real[b])
  <2> DEFINE a == Twin(b)
             d == CHOOSE e \in DOMAIN real : Twin(e) = a
  <2>1. d \in DOMAIN real /\ Twin(d) = a
    OBVIOUS
  <2>2. b \in Native /\ d \in Native
    BY <2>1, MapSorts DEF Known
  <2> HIDE DEF d
  <2>3. d = b
    BY <2>1, <2>2, TwinOnce
  <2>4. View[a] = ViewContract(real[d])
    BY <1>1 DEF View, d
  <2> QED
    BY <2>3, <2>4
<1> QED
  BY <1>1, <1>2

LEMMA ContractWords ==
  ASSUME Populated(real), NEW a \in DOMAIN real
  PROVE  /\ real[a] \in ContractOf(Known) /\ Words(real[a]) \subseteq Known
         /\ real[a] = [code |-> real[a].code, impl |-> real[a].impl, admin |-> real[a].admin,
                       beacon |-> real[a].beacon, ref |-> real[a].ref, num |-> real[a].num,
                       lib |-> real[a].lib]
<1>1. real[a] \in ContractOf(Known)
  BY DEF Populated, Known
<1> QED
  BY <1>1 DEF ContractOf, Words

LEMMA EventWords ==
  ASSUME NEW W, NEW es \in Seq(EventOf(W)), NEW i \in DOMAIN es
  PROVE  /\ es[i].emitter \in W /\ es[i].word \in W
         /\ es[i] = [emitter |-> es[i].emitter, topic |-> es[i].topic, word |-> es[i].word]
<1> DEFINE S == EventOf(W)
<1>1. es[i] \in S
  <2> HIDE DEF S
  <2>1. es \in Seq(S)
    BY DEF S
  <2> QED
    BY <2>1
<1> QED
  BY <1>1 DEF EventOf

LEMMA SessionMaps ==
  ASSUME SessionInv
  PROVE  /\ MapsToOurs /\ Populated(real) /\ Faithful(map)
         /\ \A a \in DOMAIN real : a \in Ours => Twin(a) \in DOMAIN map \/ a \in Making
         /\ Fresh => Making = {}
<1>1. MapsToOurs
  BY DEF SessionInv, MapInv, MapsToOurs
<1>2. Fresh => Making = {}
  BY DEF Fresh, Making, Executed
<1> QED
  BY <1>1, <1>2 DEF SessionInv, MapInv, MapsToOurs, Faithful

LEMMA InvNothingStranded == SessionInv => NothingStranded
<1> SUFFICES ASSUME SessionInv PROVE NothingStranded
  OBVIOUS
<1>1. Known \cap DOMAIN map = {} /\ Populated(real)
  BY SessionMaps, MapSorts
<1>2. \A a \in DOMAIN real : Words(real[a]) \cap DOMAIN map = {}
  BY <1>1, ContractWords
<1>3. events \in Seq(EventOf(Known))
  BY DEF SessionInv, EventsInv
<1>4. \A i \in DOMAIN events : {events[i].emitter, events[i].word} \cap DOMAIN map = {}
  BY <1>1, <1>3, EventWords
<1> QED
  BY <1>2, <1>4 DEF NothingStranded

LEMMA EventsTranslated ==
  ASSUME NEW known, Faithful(known), NEW e,
         e = [emitter |-> e.emitter, topic |-> e.topic, word |-> e.word],
         e.emitter \in Native, e.word \in Native,
         e.emitter \in Ours => Twin(e.emitter) \in DOMAIN known,
         e.word \in Ours => Twin(e.word) \in DOMAIN known
  PROVE  TranslateEvent(known, e) = [e EXCEPT !.emitter = Twin(@), !.word = Twin(@)]
<1>1. ToPredicted(known, e.emitter) = Twin(e.emitter) /\ ToPredicted(known, e.word) = Twin(e.word)
  BY Translated
<1> QED
  BY <1>1, Zenon DEF TranslateEvent

LEMMA InvReadsAgree == SessionInv => ReadsAgree
<1> SUFFICES ASSUME SessionInv, Fresh PROVE ReadsAgree
  BY DEF ReadsAgree
<1>1. /\ MapsToOurs /\ Populated(real) /\ Faithful(map)
      /\ \A a \in DOMAIN real : a \in Ours => Twin(a) \in DOMAIN map
  BY SessionMaps
<1>2. \A w \in Known : w \in Native /\ (w \in Ours => Twin(w) \in DOMAIN map)
  BY <1>1, MapSorts, WordSorts DEF Known
<1>3. \A w \in Known : ToPredicted(map, w) = Twin(w)
  BY <1>1, <1>2, Translated
<1>4. ASSUME NEW p \in DOMAIN View
      PROVE  /\ ReadSlot(p, "impl") = View[p]["impl"] /\ ReadSlot(p, "admin") = View[p]["admin"]
             /\ ReadSlot(p, "beacon") = View[p]["beacon"]
  <2>1. PICK b \in DOMAIN real : p = Twin(b)
    BY <1>1, ViewIs
  <2>2. ToActual(map, p) = b
    BY <1>1, <2>1, FoundAgain
  <2>3. View[p] = ViewContract(real[b])
    BY <1>1, <2>1, ViewIs
  <2> DEFINE c == real[b]
  <2>4. c.impl \in Known /\ c.admin \in Known /\ c.beacon \in Known
    BY <1>1, ContractWords DEF Words
  <2>5. c = [code |-> c.code, impl |-> c.impl, admin |-> c.admin, beacon |-> c.beacon, ref |-> c.ref,
             num |-> c.num, lib |-> c.lib]
    BY <1>1, ContractWords
  <2> HIDE DEF c
  <2>6. ViewContract(c).impl = Twin(c.impl) /\ ViewContract(c).admin = Twin(c.admin)
        /\ ViewContract(c).beacon = Twin(c.beacon)
    BY <2>5 DEF ViewContract
  <2>7. ReadSlot(p, "impl") = Twin(c.impl) /\ ReadSlot(p, "admin") = Twin(c.admin)
        /\ ReadSlot(p, "beacon") = Twin(c.beacon)
    BY <1>3, <2>2, <2>4 DEF ReadSlot, c
  <2> QED
    BY <2>3, <2>6, <2>7 DEF c
<1>5. TranslateEvents(map, events) = ViewEvents(events)
  <2>1. events \in Seq(EventOf(Known))
    BY DEF SessionInv, EventsInv
  <2>2. ASSUME NEW i \in DOMAIN events
        PROVE  TranslateEvent(map, events[i]) = [events[i] EXCEPT !.emitter = Twin(@), !.word = Twin(@)]
    <3> DEFINE e == events[i]
    <3>1. e.emitter \in Known /\ e.word \in Known
          /\ e = [emitter |-> e.emitter, topic |-> e.topic, word |-> e.word]
      BY <2>1, EventWords
    <3> HIDE DEF e
    <3>2. TranslateEvent(map, e) = [e EXCEPT !.emitter = Twin(@), !.word = Twin(@)]
      BY <1>1, <1>2, <3>1, EventsTranslated
    <3> QED
      BY <3>2 DEF e
  <2> QED
    BY <2>2 DEF TranslateEvents, ViewEvents
<1> QED
  BY <1>4, <1>5 DEF ReadsAgree

LEMMA InvReceiptsAgree == SessionInv => ReceiptsAgree
<1> SUFFICES ASSUME SessionInv, flight.stage = "received", NEW i \in DOMAIN flight.events
             PROVE  \/ flight.receipt[i] = ViewEvents(flight.events)[i]
                    \/ ActualChild(nonce - 1) \in {flight.events[i].emitter, flight.events[i].word}
  BY DEF ReceiptsAgree
<1> DEFINE n == nonce - 1
           tx == flight.tx
           e == flight.events[i]
           known == KnownBy(tx)
<1>1. /\ MapsToOurs /\ Populated(real) /\ Faithful(map)
      /\ \A a \in DOMAIN real : a \in Ours => Twin(a) \in DOMAIN map \/ a \in Making
  BY SessionMaps
<1>2. flight # NoFlight /\ Executed
  BY DEF NoFlight, Executed
<1>3. /\ nonce > 0 /\ flight.events \in Seq(EventOf(Known))
      /\ flight.receipt = TranslateEvents(known, flight.events)
  BY <1>2 DEF SessionInv, FlightInv
<1>4. n \in Nat
  BY <1>3 DEF SessionInv, NonceInv
<1>5. e.emitter \in Known /\ e.word \in Known /\ e = [emitter |-> e.emitter, topic |-> e.topic, word |-> e.word]
  BY <1>3, EventWords
<1>6. Faithful(known) /\ DOMAIN map \subseteq DOMAIN known /\ (tx.to = NoAddress => Predicted(n) \in DOMAIN known)
  <2>1. CASE tx.to # NoAddress
    BY <1>1, <2>1 DEF KnownBy
  <2>2. CASE tx.to = NoAddress
    <3>1. known = ReceiptMap(map, Predicted(n), Actual(n))
      BY <2>2 DEF KnownBy
    <3> HIDE DEF known, n
    <3>2. Actual(n) \in Ours /\ Twin(Actual(n)) = Predicted(n)
      BY <1>4, NewAddresses
    <3> QED
      BY <1>1, <3>1, <3>2 DEF ReceiptMap, Faithful
  <2> QED
    BY <2>1, <2>2
<1>7. ASSUME NEW w \in Known, w # ActualChild(n), w \in Ours PROVE Twin(w) \in DOMAIN known
  <2>1. w \in DOMAIN real
    BY <1>7, WordSorts DEF Known
  <2>2. CASE Twin(w) \in DOMAIN map
    BY <1>6, <2>2
  <2>3. CASE w \in Making
    <3>1. tx.to = NoAddress /\ w = Actual(n)
      BY <1>7, <2>3 DEF Making
    <3> HIDE DEF known, n, tx
    <3>2. Twin(w) = Predicted(n)
      BY <1>4, <3>1, NewAddresses
    <3> QED
      BY <1>6, <3>1, <3>2
  <2> QED
    BY <1>1, <1>7, <2>1, <2>2, <2>3
<1>8. Known \subseteq Native
  BY <1>1, MapSorts
<1>9. flight.receipt[i] = TranslateEvent(known, e) /\ ViewEvents(flight.events)[i] = [e EXCEPT !.emitter = Twin(@), !.word = Twin(@)]
  BY <1>3 DEF TranslateEvents, ViewEvents
<1>10. ASSUME ActualChild(n) \notin {e.emitter, e.word}
       PROVE  flight.receipt[i] = ViewEvents(flight.events)[i]
  <2> HIDE DEF known, e, n
  <2>1. TranslateEvent(known, e) = [e EXCEPT !.emitter = Twin(@), !.word = Twin(@)]
    BY <1>5, <1>6, <1>7, <1>8, <1>10, EventsTranslated
  <2> QED
    BY <1>9, <2>1
<1> QED
  BY <1>10

-----------------------------------------------------------------------------
(***************************************************************************)
(* What scripts are made of.                                               *)
(***************************************************************************)
LEMMA MoreWords ==
  ASSUME NEW W, NEW V, W \subseteq V
  PROVE  TxOf(W) \subseteq TxOf(V) /\ Seq(EventOf(W)) \subseteq Seq(EventOf(V))
         /\ DataOf(W) \subseteq DataOf(V)
<1>1. PayloadOf(W) \subseteq PayloadOf(V)
  BY DEF PayloadOf
<1>2. ASSUME NEW S, NEW T, S \subseteq T PROVE Seq(S) \subseteq Seq(T)
  BY <1>2
<1>3. DataOf(W) \subseteq DataOf(V)
  BY <1>1, <1>2 DEF DataOf
<1>4. CallOf(W) \subseteq CallOf(V)
  BY <1>3 DEF CallOf
<1>5. NewOf(W) \subseteq NewOf(V)
  BY <1>3 DEF NewOf
<1>6. TxOf(W) \subseteq TxOf(V)
  BY <1>4, <1>5 DEF TxOf
<1>7. EventOf(W) \subseteq EventOf(V)
  BY DEF EventOf
<1> QED
  BY <1>2, <1>3, <1>6, <1>7

LEMMA FreshIsNoFlight ==
  ASSUME SessionInv
  PROVE  /\ Fresh <=> flight = NoFlight
         /\ script = <<>> => flight = NoFlight
         /\ pc # "idle" => script = <<>> /\ Fresh
<1>1. Fresh <=> flight = NoFlight
  BY DEF SessionInv, FlightInv, Fresh, NoFlight
<1>2. script = <<>> => flight = NoFlight
  BY <1>1 DEF SessionInv, ScriptInv, Fresh
<1> QED
  BY <1>1, <1>2 DEF SessionInv, ScriptInv

\* Between transactions a script can name what it sees.
LEMMA FreshNames ==
  ASSUME SessionInv, Fresh
  PROVE  /\ DOMAIN View \subseteq Named /\ NoAddress \notin DOMAIN View
         /\ \A w \in Neutral \cup Twins : There(w) => w \in Named
         /\ \A p \in DOMAIN View : ReadSlot(p, "admin") \in Named
<1>1. /\ MapsToOurs /\ Populated(real) /\ Faithful(map)
      /\ \A a \in DOMAIN real : a \in Ours => Twin(a) \in DOMAIN map
  BY SessionMaps
<1>2. \A w \in Known : w \in Native /\ (w \in Ours => Twin(w) \in DOMAIN map)
  BY <1>1, MapSorts, WordSorts DEF Known
<1>3. \A w \in Known : Twin(w) \in Named
  BY <1>2, WordSorts DEF Named, Native
<1>4. ASSUME NEW p \in DOMAIN View PROVE p \in Named /\ p # NoAddress
  <2>1. PICK b \in DOMAIN real : p = Twin(b)
    BY <1>1, ViewIs
  <2>2. b \in Ours \/ (b \in Neutral /\ b # NoAddress)
    <3>1. b \in Ours \/ b \in {"ext"} \X Nat
      BY <1>1 DEF Populated
    <3>2. ASSUME b \in {"ext"} \X Nat PROVE b \in Neutral /\ b # NoAddress
      <4>1. b[1] = "ext" /\ b \in Neutral
        BY <3>2 DEF Neutral
      <4> QED
        BY <4>1 DEF NoAddress
    <3> QED
      BY <3>1, <3>2
  <2> QED
    BY <1>3, <2>1, <2>2, WordSorts DEF Known
<1>5. ASSUME NEW w \in Twins, There(w) PROVE w \in DOMAIN View
  BY <1>5 DEF There, Twins
<1>6. ASSUME NEW p \in DOMAIN View PROVE ReadSlot(p, "admin") \in Named
  <2>1. PICK b \in DOMAIN real : p = Twin(b)
    BY <1>1, ViewIs
  <2>2. ToActual(map, p) = b
    BY <1>1, <2>1, FoundAgain
  <2>3. real[b].admin \in Known
    BY <1>1, ContractWords DEF Words
  <2>4. ToPredicted(map, real[b].admin) = Twin(real[b].admin)
    BY <1>1, <1>2, <2>3, Translated
  <2> QED
    BY <1>3, <2>2, <2>3, <2>4 DEF ReadSlot
<1> QED
  BY <1>4, <1>5, <1>6 DEF Named

LEMMA FreshCalls ==
  ASSUME SessionInv, Fresh
  PROVE  /\ Calls \subseteq PayloadOf(Named) /\ Calls \subseteq CallOf(Named)
         /\ Nested \subseteq DataOf(Named)
<1>1. NoAddress \in Named
  BY SessionMaps, MapSorts
<1>2. ASSUME NEW c \in Calls
      PROVE  c \in PayloadOf(Named) /\ c \in CallOf(Named) /\ <<c>> \in DataOf(Named)
  <2>1. /\ c = [sel |-> c.sel, proxy |-> NoAddress, arg |-> c.arg, data |-> <<>>]
        /\ c.sel \in Setters /\ c.arg \in Neutral \cup Twins
    BY ScriptAssumption DEF Calls, Call, Setters
  <2>2. There(c.arg)
    BY DEF Calls, CallWords
  <2>3. c.arg \in Named
    BY <2>1, <2>2, FreshNames
  <2>4. <<>> \in DataOf(Named)
    BY DEF DataOf
  <2>5. c \in PayloadOf(Named) /\ c \in CallOf(Named)
    BY <1>1, <2>1, <2>3, <2>4 DEF PayloadOf, CallOf
  <2>6. <<c>> \in DataOf(Named)
    <3> DEFINE P == PayloadOf(Named)
    <3>1. c \in P
      BY <2>5
    <3> HIDE DEF P
    <3>2. <<c>> \in Seq(P) /\ Len(<<c>>) <= 1
      BY <3>1
    <3> QED
      BY <3>2 DEF DataOf, P
  <2> QED
    BY <2>5, <2>6
<1>3. <<>> \in DataOf(Named)
  BY DEF DataOf
<1> QED
  BY <1>2, <1>3 DEF Nested

\* The operations of the library.
AtView(o) == o.kind \in {"upgradeProxy", "upgradeBeacon"} => o.at \in DOMAIN View

LEMMA FreshOps ==
  ASSUME SessionInv, Fresh,
         NEW o \in {Op("validate", NoAddress, <<>>)} \cup UpgradesOfProxies \cup UpgradesOfBeacons
                     \cup Deployments \cup Implementations,
         NEW lib \in Named
  PROVE  o \in OpOf(Named) /\ AtView(o) /\ [o EXCEPT !.lib = lib] \in OpOf(Named) /\ AtView([o EXCEPT !.lib = lib])
<1>1. NoAddress \in Named /\ <<>> \in DataOf(Named)
  BY SessionMaps, MapSorts DEF DataOf
<1>2. o \in OpOf(Named) /\ AtView(o)
  <2>1. CASE o = Op("validate", NoAddress, <<>>)
    BY <1>1, <2>1 DEF Op, OpOf, AtView
  <2>2. CASE o \in UpgradesOfProxies
    <3>1. PICK p \in Contracts({"uups", "transparent"}), data \in Nested : o = Op("upgradeProxy", p, data)
      BY <2>2 DEF UpgradesOfProxies
    <3>2. p \in DOMAIN View /\ p \in Named /\ data \in DataOf(Named)
      BY FreshNames, FreshCalls DEF Contracts
    <3> QED
      BY <1>1, <3>1, <3>2 DEF Op, OpOf, AtView
  <2>3. CASE o \in UpgradesOfBeacons
    <3>1. PICK p \in Contracts({"beacon"}) : o = Op("upgradeBeacon", p, <<>>)
      BY <2>3 DEF UpgradesOfBeacons
    <3>2. p \in DOMAIN View /\ p \in Named
      BY FreshNames DEF Contracts
    <3> QED
      BY <1>1, <3>1, <3>2 DEF Op, OpOf, AtView
  <2>4. CASE o \in Deployments
    <3>1. CASE o = Op("beacon", NoAddress, <<>>)
      BY <1>1, <3>1 DEF Op, OpOf, AtView
    <3>2. CASE o # Op("beacon", NoAddress, <<>>)
      <4>1. PICK kind \in {"uups", "transparent"}, data \in Nested : o = Op(kind, NoAddress, data)
        BY <2>4, <3>2 DEF Deployments
      <4>2. data \in DataOf(Named)
        BY FreshCalls
      <4> QED
        BY <1>1, <4>1, <4>2 DEF Op, OpOf, AtView
    <3> QED
      BY <3>1, <3>2
  <2>5. CASE o \in Implementations
    <3> DEFINE words == {w \in Arguments : There(w)}
    <3>1. PICK w \in words \X words : o = [Op("implementation", NoAddress, <<>>) EXCEPT !.ref = w[1], !.num = w[2]]
      BY <2>5 DEF Implementations
    <3> DEFINE ref == w[1]
               num == w[2]
    <3>2. ref \in Named /\ num \in Named
      BY ScriptAssumption, FreshNames
    <3>3. o = [kind |-> "implementation", at |-> NoAddress, data |-> <<>>, ref |-> ref, num |-> num,
               lib |-> NoAddress, impl |-> NoAddress, saw |-> "none"]
      BY <3>1 DEF Op
    <3>4. o.kind = "implementation"
      BY <3>3
    <3> QED
      BY <1>1, <3>2, <3>3, <3>4 DEF OpOf, AtView
  <2> QED
    BY <2>1, <2>2, <2>3, <2>4, <2>5
<1>3. [o EXCEPT !.lib = lib] \in OpOf(Named)
  BY <1>2 DEF OpOf
<1>4. [o EXCEPT !.lib = lib].kind = o.kind /\ [o EXCEPT !.lib = lib].at = o.at
  BY <1>2 DEF OpOf
<1> QED
  BY <1>2, <1>3, <1>4 DEF AtView

\* What scripts yield are transactions by the words they know.
OneTx(s, W) == s = <<s[1]>> /\ s[1] \in TxOf(W)

LEMMA OneIs ==
  ASSUME NEW W, NEW t \in TxOf(W)
  PROVE  OneTx(<<t>>, W)
  BY DEF OneTx

LEMMA SendForms ==
  ASSUME NEW W, NEW to \in W, to # NoAddress, NEW c \in CallOf(W)
  PROVE  Send(to, c) \in TxOf(W)
  BY DEF Send, TxOf

LEMMA DispatchForms ==
  ASSUME SessionInv, Fresh, NEW p \in DOMAIN View, NEW W, Named \subseteq W, NEW impl \in W, NEW data \in DataOf(W)
  PROVE  Dispatch(p, impl, data) \in TxOf(W)
<1> DEFINE admin == ReadSlot(p, "admin")
           whole(to) == SpeaksV5(to) \/ data # <<>>
<1>1. p \in W /\ p # NoAddress /\ admin \in W /\ NoAddress \in W /\ <<>> \in DataOf(W)
  <2>1. <<>> \in DataOf(W)
    BY DEF DataOf
  <2> QED
    BY <2>1, FreshNames, SessionMaps, MapSorts
<1> DEFINE c1 == [sel |-> "upgradeToAndCall", proxy |-> NoAddress, arg |-> impl, data |-> data]
           c2 == [sel |-> "upgradeTo", proxy |-> NoAddress, arg |-> impl, data |-> <<>>]
           c3 == [sel |-> "upgradeAndCall", proxy |-> p, arg |-> impl, data |-> data]
           c4 == [sel |-> "upgrade", proxy |-> p, arg |-> impl, data |-> <<>>]
<1>2. c1 \in CallOf(W) /\ c2 \in CallOf(W) /\ c3 \in CallOf(W) /\ c4 \in CallOf(W)
  <2>1. {"upgradeToAndCall", "upgradeTo", "upgradeAndCall", "upgrade"} \subseteq Setters \cup Upgrades
    BY DEF Upgrades
  <2>2. c1 \in CallOf(W)
    BY <1>1, <2>1 DEF CallOf
  <2>3. c2 \in CallOf(W)
    BY <1>1, <2>1 DEF CallOf
  <2>4. c3 \in CallOf(W)
    BY <1>1, <2>1 DEF CallOf
  <2>5. c4 \in CallOf(W)
    BY <1>1, <2>1 DEF CallOf
  <2> QED
    BY <2>2, <2>3, <2>4, <2>5
<1>3. \/ Dispatch(p, impl, data) = Send(p, c1) \/ Dispatch(p, impl, data) = Send(p, c2)
      \/ admin # NoAddress /\ (Dispatch(p, impl, data) = Send(admin, c3) \/ Dispatch(p, impl, data) = Send(admin, c4))
  BY Zenon DEF Dispatch
<1> HIDE DEF c1, c2, c3, c4, admin
<1> QED
  BY <1>1, <1>2, <1>3, SendForms

LEMMA ProxyForms ==
  ASSUME NEW W, NoAddress \in W, NEW kind \in Creatable \ AppCode, NEW arg \in W, NEW data \in DataOf(W)
  PROVE  Create(Proxy(kind, arg, data)) \in TxOf(W)
<1>1. Proxy(kind, arg, data) \in NewOf(W)
  BY DEF Proxy, NewOf
<1> QED
  BY <1>1 DEF Create, TxOf

LEMMA AppForms ==
  ASSUME NEW W, NoAddress \in W, NEW b \in AppCode, NEW ref \in W, NEW num \in W, NEW lib \in W
  PROVE  Create(App(b, ref, num, lib)) \in TxOf(W) /\ Create(App(b, ref, num, lib)).to = NoAddress
<1>1. <<>> \in DataOf(W)
  BY DEF DataOf
<1>2. App(b, ref, num, lib) \in NewOf(W)
  BY <1>1 DEF App, NewOf, Creatable
<1> QED
  BY <1>2 DEF Create, TxOf

LEMMA OpFields ==
  ASSUME NEW W, NEW o \in OpOf(W)
  PROVE  /\ o.data \in DataOf(W) /\ o.at \in W /\ o.ref \in W /\ o.num \in W /\ o.lib \in W
         /\ o.kind \in {"uups", "transparent", "beacon", "upgradeProxy", "upgradeBeacon", "implementation", "validate"}
  BY DEF OpOf

LEMMA UseForms ==
  ASSUME SessionInv, Fresh, NEW o \in OpOf(Named), AtView(o), NEW W, Named \subseteq W, NEW impl \in W
  PROVE  Use(o, impl) = <<>> \/ OneTx(Use(o, impl), W)
<1>1. o.data \in DataOf(Named) /\ o.data \in DataOf(W) /\ o.at \in W /\ NoAddress \in W
  BY OpFields, MoreWords, SessionMaps, MapSorts
<1>2. CASE o.kind \in {"uups", "transparent", "beacon"}
  <2>1. o.kind \in Creatable \ AppCode
    BY <1>2 DEF Creatable, AppCode
  <2>2. Use(o, impl) = <<Create(Proxy(o.kind, impl, o.data))>>
    BY <1>2 DEF Use
  <2> QED
    BY <1>1, <2>1, <2>2, ProxyForms, OneIs
<1>3. CASE o.kind = "upgradeProxy"
  <2>1. Use(o, impl) = <<Dispatch(o.at, impl, o.data)>>
    BY <1>3 DEF Use
  <2> QED
    BY <1>1, <1>3, <2>1, DispatchForms, OneIs DEF AtView
<1>4. CASE o.kind = "upgradeBeacon"
  <2> DEFINE c == Call("upgradeTo", impl)
  <2>1. Use(o, impl) = <<Send(o.at, c)>>
    BY <1>4 DEF Use
  <2>2. c \in CallOf(W)
    <3>1. <<>> \in DataOf(W)
      BY DEF DataOf
    <3> QED
      BY <1>1, <3>1 DEF Call, CallOf, Upgrades
  <2>3. o.at \in DOMAIN View
    BY <1>4 DEF AtView
  <2>4. o.at # NoAddress
    BY <2>3, FreshNames
  <2> HIDE DEF c
  <2> QED
    BY <1>1, <2>1, <2>2, <2>4, SendForms, OneIs
<1>5. CASE o.kind \in {"implementation", "validate"}
  BY <1>5 DEF Use
<1> QED
  BY <1>2, <1>3, <1>4, <1>5, OpFields

-----------------------------------------------------------------------------
(***************************************************************************)
(* The steps keep the invariant.                                           *)
(***************************************************************************)
\* The first conjunct of ScriptInv.
Scripted ==
  \/ script = <<>>
  \/ OneTx(script, Named)
  \/ /\ script = <<script[1], script[2]>> /\ script[1] \in TxOf(Named) /\ script[1].to = NoAddress
     /\ script[2] \in TxOf(Named \cup {Predicted(Awaited)})

ChainInv == Populated(real) /\ MapInv /\ Unpublished /\ NonceInv /\ EventsInv

\* A step that leaves the chain and the mappings alone.
LEMMA ChainKept ==
  ASSUME SessionInv, real' = real, map' = map, meta' = meta, nonce' = nonce, events' = events,
         Executed' => Executed, Making' = Making, Making # {} => flight'.tx = flight.tx
  PROVE  ChainInv' /\ Named' = Named /\ Known' = Known /\ View' = View
<1>1. Named' = Named /\ Known' = Known /\ View' = View
  BY DEF Named, Known, View
<1>2. (Populated(real) /\ NonceInv /\ EventsInv)'
  BY <1>1 DEF SessionInv, NonceInv, EventsInv
<1>3. MapInv'
  BY DEF SessionInv, MapInv
<1>4. Unpublished'
  BY DEF SessionInv, Unpublished
<1> QED
  BY <1>1, <1>2, <1>3, <1>4 DEF ChainInv

\* One that leaves the transaction under way alone, too.
LEMMA FlightKept ==
  ASSUME SessionInv, real' = real, map' = map, meta' = meta, nonce' = nonce, events' = events, flight' = flight
  PROVE  ChainInv' /\ FlightInv' /\ Named' = Named /\ Known' = Known /\ View' = View /\ Awaited' = Awaited
<1>1. Executed' = Executed /\ Awaited' = Awaited
  BY DEF Executed, Awaited
<1>2. Making' = Making
  BY <1>1 DEF Making
<1>3. ChainInv' /\ Named' = Named /\ Known' = Known /\ View' = View
  BY <1>1, <1>2, ChainKept
<1>4. FlightInv'
  BY <1>1, <1>3 DEF SessionInv, FlightInv, KnownBy
<1> QED
  BY <1>1, <1>3, <1>4

LEMMA IdleIsFresh == ASSUME SessionInv, Idle PROVE Fresh
  BY FreshIsNoFlight DEF Idle

LEMMA BeginOpKeeps ==
  ASSUME SessionInv, BeginOp
  PROVE  SessionInv'
<1>1. Idle /\ Fresh
  BY IdleIsFresh DEF BeginOp
<1>2. PICK j \in Jobs :
        /\ Begin(j)
        /\ \E lib \in IF j.libs = "given" THEN Contracts(AppCode) ELSE {NoAddress},
              o \in IF j.op = "validate" THEN {Op("validate", NoAddress, <<>>)}
                    ELSE IF j.upgrade THEN UpgradesOfProxies \cup UpgradesOfBeacons
                    ELSE Deployments \cup Implementations :
             op' = [o EXCEPT !.lib = lib]
  BY DEF BeginOp
<1>3. script' = script /\ flight' = flight /\ nonce' = nonce /\ map' = map /\ meta' = meta
      /\ real' = real /\ events' = events
  BY DEF BeginOp, chain
<1>4. ChainInv' /\ FlightInv' /\ Named' = Named /\ View' = View
  BY <1>3, FlightKept
<1>5. script' = <<>> /\ ScriptInv'
  BY <1>1, <1>3, FreshIsNoFlight DEF Idle, ScriptInv, Fresh
<1>6. PICK lib \in Contracts(AppCode) \cup {NoAddress},
           o \in {Op("validate", NoAddress, <<>>)} \cup UpgradesOfProxies \cup UpgradesOfBeacons
                   \cup Deployments \cup Implementations :
        op' = [o EXCEPT !.lib = lib]
  BY <1>2
<1>7. lib \in Named
  BY <1>1, FreshNames, SessionMaps, MapSorts DEF Contracts
<1>8. op' \in OpOf(Named) /\ AtView(op')
  BY <1>1, <1>6, <1>7, FreshOps
<1>9. pc' # "deployed"
  BY <1>2 DEF Begin, Goto
<1>10. CallInv'
  BY <1>4, <1>8, <1>9 DEF CallInv, AtView
<1> QED
  BY <1>4, <1>5, <1>10 DEF SessionInv, ChainInv

LEMMA LibraryKeeps ==
  ASSUME SessionInv, LibTypeOK, Library
  PROVE  SessionInv'
<1>1. op' = op /\ script' = script /\ flight' = flight /\ nonce' = nonce /\ map' = map /\ meta' = meta
      /\ real' = real /\ events' = events
  BY DEF Library, adapter, chain
<1>2. ChainInv' /\ FlightInv' /\ Named' = Named /\ View' = View /\ Awaited' = Awaited
  BY <1>1, FlightKept
<1>3. pc # "idle" /\ (pc' = "deployed" => deployed' \in Builds)
  BY DEF Library, LibStep, ReadArtifact, MatchBuildInfo, Validate, Classify, LookUp, Deploy, Goto, Fail, LibTypeOK
<1>4. ScriptInv'
  BY <1>1, <1>2, <1>3 DEF SessionInv, ScriptInv
<1>5. CallInv'
  BY <1>1, <1>2, <1>3 DEF SessionInv, CallInv
<1> QED
  BY <1>2, <1>4, <1>5 DEF SessionInv, ChainInv

LEMMA RecompileKeeps ==
  ASSUME SessionInv, Recompile
  PROVE  SessionInv'
<1>1. op' = op /\ script' = script /\ flight' = flight /\ nonce' = nonce /\ map' = map /\ meta' = meta
      /\ real' = real /\ events' = events
  BY DEF Recompile, adapter, chain
<1>2. ChainInv' /\ FlightInv' /\ Named' = Named /\ View' = View /\ Awaited' = Awaited
  BY <1>1, FlightKept
<1>3. pc' = pc /\ deployed' = deployed
  BY DEF Recompile, Compile, WriteArtifact, WriteInfos, Touch, callVars
<1>4. ScriptInv'
  BY <1>1, <1>2, <1>3 DEF SessionInv, ScriptInv
<1>5. CallInv'
  BY <1>1, <1>2, <1>3 DEF SessionInv, CallInv
<1> QED
  BY <1>2, <1>4, <1>5 DEF SessionInv, ChainInv

\* A script in which at most the second transaction names what the first creates.
LEMMA TwoItems == ASSUME NEW t, NEW v PROVE <<t>> \o <<v>> = <<t, v>>
<1> DEFINE S == {t, v}
           m == <<t>> \o <<v>>
           n == <<t, v>>
<1>1. t \in S /\ v \in S
  OBVIOUS
<1> HIDE DEF S
<1>2. <<t>> \in Seq(S) /\ <<v>> \in Seq(S) /\ Len(<<t>>) = 1 /\ Len(<<v>>) = 1
  BY <1>1
<1>3. m \in Seq(S) /\ Len(m) = 2 /\ m[1] = t /\ m[2] = v
  BY <1>2
<1>4. n \in Seq(S) /\ Len(n) = 2 /\ n[1] = t /\ n[2] = v
  BY <1>1
<1>5. \A i \in 1..Len(m) : m[i] = n[i]
  <2>1. ASSUME NEW i \in 1..Len(m) PROVE i = 1 \/ i = 2
    BY <1>3
  <2> QED
    BY <1>3, <1>4, <2>1
<1> HIDE DEF m, n
<1>6. m = n
  BY <1>3, <1>4, <1>5, SeqEqual
<1> QED
  BY <1>6 DEF m, n

LEMMA TwoParts ==
  ASSUME NEW t, NEW u, u = <<>> \/ u = <<u[1]>>
  PROVE  /\ u = <<>> => <<t>> \o u = <<t>>
         /\ u = <<u[1]>> => <<t>> \o u = <<t, u[1]>>
<1>1. <<t>> \o <<>> = <<t>>
  OBVIOUS
<1>2. <<t>> \o <<u[1]>> = <<t, u[1]>>
  BY TwoItems
<1> QED
  BY <1>1, <1>2, Zenon

LEMMA YieldKeeps ==
  ASSUME SessionInv, Yield
  PROVE  SessionInv'
<1>1. flight' = flight /\ nonce' = nonce /\ map' = map /\ meta' = meta /\ real' = real /\ events' = events
      /\ pc' = "idle" /\ pc # "idle"
  BY DEF Yield, Return, Goto, chain
<1>2. ChainInv' /\ FlightInv' /\ Named' = Named /\ View' = View /\ Awaited' = Awaited
  BY <1>1, FlightKept
<1>3. Fresh /\ script = <<>>
  BY <1>1, FreshIsNoFlight
<1>4. Scripted'
  <2>1. CASE pc # "deployed"
    <3>1. script' = <<>>
      BY <1>3, <2>1 DEF Yield
    <3> QED
      BY <3>1 DEF Scripted
  <2>2. CASE pc = "deployed"
    <3> DEFINE t == Create(App(deployed, op.ref, op.num, op.lib))
               W == Named \cup {Predicted(nonce)}
               u == Use(op, Predicted(nonce))
    <3>1. script' = <<t>> \o u
      BY <2>2 DEF Yield
    <3>2. op \in OpOf(Named) /\ AtView(op) /\ deployed \in AppCode
      BY <1>1, <2>2, ScriptAssumption DEF SessionInv, CallInv, AtView
    <3>3. t \in TxOf(Named) /\ t.to = NoAddress
      BY <3>2, OpFields, AppForms, SessionMaps, MapSorts
    <3>4. u = <<>> \/ OneTx(u, W)
      BY <1>3, <3>2, UseForms
    <3>5. Awaited' = nonce
      BY <1>2, <1>3 DEF Awaited, Executed, Fresh
    <3> HIDE DEF t, u
    <3>6. CASE u = <<>>
      BY <1>2, <3>1, <3>3, <3>6, TwoParts, OneIs DEF Scripted
    <3>7. CASE OneTx(u, W)
      <4>1. u = <<u[1]>> /\ u[1] \in TxOf(W)
        BY <3>7 DEF OneTx
      <4>2. script' = <<t, u[1]>>
        BY <3>1, <4>1, TwoParts
      <4>3. script'[1] = t /\ script'[2] = u[1]
        BY <4>2
      <4> QED
        BY <1>2, <3>3, <3>5, <4>1, <4>2, <4>3 DEF Scripted
    <3> QED
      BY <3>4, <3>6, <3>7
  <2> QED
    BY <2>1, <2>2
<1>5. ScriptInv'
  BY <1>1, <1>3, <1>4 DEF ScriptInv, Scripted, OneTx, Fresh
<1>6. CallInv'
  BY <1>1 DEF CallInv
<1> QED
  BY <1>2, <1>5, <1>6 DEF SessionInv, ChainInv

LEMMA UnsafeKeeps ==
  ASSUME SessionInv, Unsafe
  PROVE  SessionInv'
<1>1. flight' = flight /\ nonce' = nonce /\ map' = map /\ meta' = meta /\ real' = real /\ events' = events
      /\ pc' = pc /\ pc = "idle"
  BY DEF Unsafe, chain, Idle, libVars, callVars
<1>2. ChainInv' /\ FlightInv' /\ Named' = Named /\ View' = View /\ Awaited' = Awaited
  BY <1>1, FlightKept
<1>3. Fresh
  BY IdleIsFresh DEF Unsafe
<1>4. PICK o \in Deployments \cup UpgradesOfProxies \cup UpgradesOfBeacons, impl \in Contracts(AppCode) :
        script' = Use(o, impl)
  BY DEF Unsafe
<1>5. impl \in Named /\ NoAddress \in Named
  BY <1>3, FreshNames, SessionMaps, MapSorts DEF Contracts
<1>6. o \in OpOf(Named) /\ AtView(o)
  BY <1>3, <1>4, <1>5, FreshOps
<1>7. Scripted'
  BY <1>2, <1>3, <1>4, <1>5, <1>6, UseForms DEF Scripted
<1>8. ScriptInv'
  BY <1>1, <1>3, <1>7 DEF ScriptInv, Scripted, OneTx, Fresh
<1>9. CallInv'
  BY <1>1 DEF CallInv
<1> QED
  BY <1>2, <1>8, <1>9 DEF SessionInv, ChainInv

LEMMA PlainScripts ==
  ASSUME Plain
  PROVE  \/ \E p \in Contracts({"beacon"}), data \in Nested : script' = <<Create(Proxy("beaconProxy", p, data))>>
         \/ \E p \in Contracts(Proxies \cup AppCode), c \in Calls : script' = <<Send(p, c)>>
<1>1. script' \in {<<Create(Proxy("beaconProxy", p, data))>> : p \in Contracts({"beacon"}), data \in Nested}
                    \cup {<<Send(p, c)>> : p \in Contracts(Proxies \cup AppCode), c \in Calls}
  BY DEF Plain
<1> QED
  BY <1>1

LEMMA PlainKeeps ==
  ASSUME SessionInv, Plain
  PROVE  SessionInv'
<1>1. flight' = flight /\ nonce' = nonce /\ map' = map /\ meta' = meta /\ real' = real /\ events' = events
      /\ pc' = pc /\ pc = "idle"
  BY DEF Plain, chain, Idle, libVars, callVars
<1>2. ChainInv' /\ FlightInv' /\ Named' = Named /\ View' = View /\ Awaited' = Awaited
  BY <1>1, FlightKept
<1>3. Fresh
  BY IdleIsFresh DEF Plain
<1>4. Scripted'
  <2>1. CASE \E p \in Contracts({"beacon"}), data \in Nested : script' = <<Create(Proxy("beaconProxy", p, data))>>
    <3>1. PICK p \in Contracts({"beacon"}), data \in Nested : script' = <<Create(Proxy("beaconProxy", p, data))>>
      BY <2>1
    <3>2. p \in Named /\ data \in DataOf(Named) /\ NoAddress \in Named
      BY <1>3, FreshNames, FreshCalls, SessionMaps, MapSorts DEF Contracts
    <3>3. "beaconProxy" \in Creatable \ AppCode
      BY DEF Creatable, AppCode
    <3>4. Create(Proxy("beaconProxy", p, data)) \in TxOf(Named)
      BY <3>2, <3>3, ProxyForms
    <3> QED
      BY <1>2, <3>1, <3>4, OneIs DEF Scripted
  <2>2. CASE \E p \in Contracts(Proxies \cup AppCode), c \in Calls : script' = <<Send(p, c)>>
    <3>1. PICK p \in Contracts(Proxies \cup AppCode), c \in Calls : script' = <<Send(p, c)>>
      BY <2>2
    <3>2. p \in Named /\ p # NoAddress /\ c \in CallOf(Named)
      BY <1>3, FreshNames, FreshCalls DEF Contracts
    <3>3. Send(p, c) \in TxOf(Named)
      BY <3>2, SendForms
    <3> QED
      BY <1>2, <3>1, <3>3, OneIs DEF Scripted
  <2> QED
    BY <2>1, <2>2, PlainScripts
<1>5. ScriptInv'
  BY <1>1, <1>3, <1>4 DEF ScriptInv, Scripted, OneTx, Fresh
<1>6. CallInv'
  BY <1>1 DEF CallInv
<1> QED
  BY <1>2, <1>5, <1>6 DEF SessionInv, ChainInv

-----------------------------------------------------------------------------
LEMMA FlightForms ==
  ASSUME SessionInv, ~Fresh
  PROVE  /\ flight = [stage |-> flight.stage, tx |-> flight.tx, native |-> flight.native, ok |-> flight.ok,
                      events |-> flight.events, receipt |-> flight.receipt, abi |-> flight.abi]
         /\ flight.stage \in {"rewrite", "sent", "mined", "received"}
         /\ flight.tx \in TxOf(Named) /\ flight.ok \in BOOLEAN
         /\ ~Executed => nonce < MaxNonce
         /\ flight.stage = "sent" => flight.native \in TxOf(Known) /\ TwinTx(flight.native) = flight.tx
         /\ Executed => nonce > 0 /\ flight.events \in Seq(EventOf(Known))
         /\ script # <<>> /\ flight.tx = script[1] /\ pc = "idle"
<1>1. flight # NoFlight
  BY DEF Fresh, NoFlight
<1> QED
  BY <1>1 DEF SessionInv, FlightInv, ScriptInv, Fresh

LEMMA AbandonKeeps ==
  ASSUME SessionInv, ~Fresh, Making = {}, Abandon, real' = real, map' = map, meta' = meta, nonce' = nonce,
         events' = events, pc' = pc
  PROVE  SessionInv'
<1>1. flight' = NoFlight /\ script' = <<>> /\ pc' = "idle"
  BY FlightForms DEF Abandon
<1>2. ~Executed' /\ Making' = {}
  BY <1>1 DEF Executed, Making, NoFlight
<1>3. ChainInv'
  BY <1>2, ChainKept
<1>4. ScriptInv' /\ FlightInv' /\ CallInv'
  BY <1>1 DEF ScriptInv, FlightInv, CallInv, NoFlight
<1> QED
  BY <1>3, <1>4 DEF SessionInv, ChainInv

LEMMA ScriptStays ==
  ASSUME SessionInv, script' = script, pc' = "idle", Named' = Named, Awaited' = Awaited,
         script # <<>> /\ flight'.tx = script[1]
  PROVE  ScriptInv' /\ CallInv'
  BY DEF SessionInv, ScriptInv, CallInv

LEMMA ResolveKeeps ==
  ASSUME SessionInv, Resolve
  PROVE  SessionInv'
<1>1. script' = script /\ nonce' = nonce /\ map' = map /\ meta' = meta /\ real' = real /\ events' = events
      /\ pc' = pc /\ Fresh /\ script # <<>> /\ nonce < MaxNonce
  BY DEF Resolve, chain, Fresh, libVars, callVars
<1>2. pc = "idle" /\ script[1] \in TxOf(Named)
  BY <1>1 DEF SessionInv, ScriptInv
<1>3. Head(script) = script[1]
  <2>1. script = <<script[1]>> \/ script = <<script[1], script[2]>>
    BY <1>1 DEF SessionInv, ScriptInv
  <2> QED
    BY <2>1
<1> DEFINE tx == script[1]
           abi == IF tx.to \in DOMAIN meta THEN ContextAbi(tx.to) ELSE {}
<1>4. flight' = [stage |-> "rewrite", tx |-> tx, native |-> tx, ok |-> FALSE, events |-> <<>>, receipt |-> <<>>,
                 abi |-> abi]
  BY <1>3 DEF Resolve
<1> HIDE DEF abi
<1>5. ~Executed' /\ ~Executed /\ Making' = {} /\ Making = {} /\ Awaited' = Awaited
  BY <1>1, <1>4 DEF Executed, Making, Awaited, Fresh
<1>6. ChainInv' /\ Named' = Named
  BY <1>1, <1>5, ChainKept
<1>7. ScriptInv' /\ CallInv'
  BY <1>1, <1>2, <1>4, <1>5, <1>6, ScriptStays
<1>8. FlightInv'
  BY <1>1, <1>2, <1>4, <1>5, <1>6 DEF FlightInv
<1> QED
  BY <1>6, <1>7, <1>8 DEF SessionInv, ChainInv

LEMMA RewriteKeeps ==
  ASSUME SessionInv, Rewrite
  PROVE  SessionInv'
<1>1. nonce' = nonce /\ map' = map /\ meta' = meta /\ real' = real /\ events' = events
      /\ pc' = pc /\ flight.stage = "rewrite" /\ ~Fresh
  BY DEF Rewrite, chain, Fresh, libVars, callVars
<1>2. ~Executed /\ Making = {} /\ pc = "idle"
  BY <1>1, FlightForms DEF Executed, Making
<1>3. CASE Abandon
  BY <1>1, <1>2, <1>3, AbandonKeeps
<1>4. CASE ~Abandon
  <2>1. PICK tx \in Rewritten(flight.tx, flight.abi) : flight' = [flight EXCEPT !.stage = "sent", !.native = tx]
    BY <1>4 DEF Rewrite
  <2>2. script' = script
    BY <1>4 DEF Rewrite
  <2>3. flight' = [stage |-> "sent", tx |-> flight.tx, native |-> tx, ok |-> flight.ok,
                   events |-> flight.events, receipt |-> flight.receipt, abi |-> flight.abi]
    BY <1>1, <2>1, FlightForms
  <2>4. ~Executed' /\ Making' = {} /\ Awaited' = Awaited
    BY <1>1, <1>2, <2>3 DEF Executed, Making, Awaited
  <2>5. ChainInv' /\ Named' = Named /\ Known' = Known
    BY <1>1, <1>2, <2>4, ChainKept
  <2>6. tx \in TxOf(Known) /\ TwinTx(tx) = flight.tx
    BY <1>1, <2>1, FlightForms, SessionMaps, TransactionsRendered
  <2>7. ScriptInv' /\ CallInv'
    BY <1>1, <1>2, <2>2, <2>3, <2>4, <2>5, FlightForms, ScriptStays
  <2>8. FlightInv'
    BY <1>1, <1>2, <2>3, <2>4, <2>5, <2>6, FlightForms DEF FlightInv
  <2> QED
    BY <2>5, <2>7, <2>8 DEF SessionInv, ChainInv
<1> QED
  BY <1>3, <1>4

LEMMA ReceiveKeeps ==
  ASSUME SessionInv, Receive
  PROVE  SessionInv'
<1>1. nonce' = nonce /\ map' = map /\ meta' = meta /\ real' = real /\ events' = events /\ script' = script
      /\ pc' = pc /\ flight.stage = "mined" /\ ~Fresh
  BY DEF Receive, chain, Fresh, libVars, callVars
<1> DEFINE receipt == TranslateEvents(KnownBy(flight.tx), flight.events)
<1>2. flight' = [flight EXCEPT !.stage = "received", !.receipt = receipt]
  BY DEF Receive, KnownBy
<1> HIDE DEF receipt
<1>3. flight' = [stage |-> "received", tx |-> flight.tx, native |-> flight.native, ok |-> flight.ok,
                 events |-> flight.events, receipt |-> receipt, abi |-> flight.abi]
  BY <1>1, <1>2, FlightForms
<1>4. Executed' /\ Executed /\ Awaited' = Awaited
  BY <1>1, <1>3 DEF Executed, Awaited
<1>5. Making' = Making
  BY <1>1, <1>3, <1>4 DEF Making
<1>6. ChainInv' /\ Named' = Named /\ Known' = Known
  BY <1>1, <1>3, <1>4, <1>5, ChainKept
<1>7. ScriptInv' /\ CallInv'
  BY <1>1, <1>3, <1>4, <1>6, FlightForms, ScriptStays
<1>8. KnownBy(flight.tx)' = KnownBy(flight.tx)
  BY <1>1, <1>3 DEF KnownBy
<1>9. FlightInv'
  BY <1>1, <1>3, <1>4, <1>6, <1>8, FlightForms DEF FlightInv, receipt
<1> QED
  BY <1>6, <1>7, <1>9 DEF SessionInv, ChainInv

LEMMA TwinForms ==
  ASSUME MapsToOurs, Populated(real), NEW tx \in TxOf(Known)
  PROVE  /\ TwinTx(tx).to = NoAddress <=> tx.to = NoAddress
         /\ tx.to = NoAddress => tx.new \in NewOf(Known) /\ TwinTx(tx).new = TwinNew(tx.new)
                                 /\ TwinTx(tx).new.code = tx.new.code
         /\ tx.to # NoAddress => tx.to \in Known /\ tx.call \in CallOf(Known)
                                 /\ TwinTx(tx).to = Twin(tx.to) /\ TwinTx(tx).call = TwinCall(tx.call)
<1>1. CASE tx.to = NoAddress
  <2>1. tx.new \in NewOf(Known)
    BY <1>1 DEF TxOf
  <2>2. TwinTx(tx) = [to |-> NoAddress, new |-> TwinNew(tx.new)]
    BY <1>1 DEF TwinTx
  <2>3. TwinTx(tx).new = TwinNew(tx.new) /\ TwinNew(tx.new).code = tx.new.code
    BY <2>2 DEF TwinNew
  <2> QED
    BY <1>1, <2>1, <2>2, <2>3
<1>2. CASE tx.to # NoAddress
  <2>1. tx.to \in Known /\ tx.call \in CallOf(Known)
    BY <1>2 DEF TxOf
  <2>2. TwinTx(tx) = [to |-> Twin(tx.to), call |-> TwinCall(tx.call)]
    BY <1>2 DEF TwinTx
  <2>3. Twin(tx.to) # NoAddress
    <3>1. tx.to \in Native /\ NoAddress \in Native
      BY <2>1, MapSorts
    <3>2. Twin(NoAddress) = NoAddress
      BY WordSorts
    <3> QED
      BY <1>2, <3>1, <3>2, TwinOnce
  <2> QED
    BY <1>2, <2>1, <2>2, <2>3
<1> QED
  BY <1>1, <1>2

LEMMA Placed ==
  ASSUME SessionInv, nonce < MaxNonce
  PROVE  /\ Actual(nonce) \notin DOMAIN real /\ ActualChild(nonce) \notin DOMAIN real
         /\ ActualChild(nonce) # Actual(nonce) /\ Actual(nonce) \in Ours /\ ActualChild(nonce) \in Ours
<1>1. nonce \in Nat /\ Vacant(real, nonce) /\ MaxNonce \in Nat
  BY ExistingAssumption DEF SessionInv, NonceInv
<1>2. nonce \in nonce..MaxNonce
  BY <1>1
<1> QED
  BY <1>1, <1>2, NewAddresses DEF Vacant

\* What TRON makes of the transaction that it executes.
LEMMA MineDoes ==
  ASSUME SessionInv, Mine
  PROVE  /\ Making' \subseteq {Actual(nonce), ActualChild(nonce)}
         /\ DOMAIN real' = DOMAIN real \cup Making' /\ Known' = Known \cup Making'
         /\ World(real', Known') /\ Wired(real') /\ Kept(real, real')
         /\ events' \in Seq(EventOf(Known'))
         /\ Actual(nonce) \in Making' => real'[Actual(nonce)].code = flight.tx.new.code
         /\ ActualChild(nonce) \in Making' => real'[ActualChild(nonce)].code = "admin"
<1> DEFINE tx == flight.native
           a == Actual(nonce)
           child == ActualChild(nonce)
           run == OnTron(tx)
           new == AddedBy(tx, a, child)
           W == Known \cup new
<1>1. flight.stage = "sent" /\ ~Fresh /\ ~Executed
  BY DEF Mine, Fresh, Executed
<1>2. tx \in TxOf(Known) /\ TwinTx(tx) = flight.tx /\ nonce < MaxNonce
  BY <1>1, FlightForms
<1>3. a \notin DOMAIN real /\ child \notin DOMAIN real /\ child # a
  BY <1>2, Placed
<1>4. MapsToOurs /\ Populated(real) /\ NoAddress \in Known
  BY SessionMaps, MapSorts
<1>5. Known \subseteq W /\ new \subseteq W
  OBVIOUS
<1>6. World(real, W)
  BY <1>4, <1>5 DEF Populated, World, Known, ContractOf
<1>7. tx \in TxOf(W) /\ NoAddress \in W
  BY <1>2, <1>4, <1>5, MoreWords
<1>8. run = Execute(real, tx, a, child)
  BY DEF OnTron
<1>9. real' = run.world /\ events' = run.events
      /\ flight' = [flight EXCEPT !.stage = "mined", !.ok = run.ok, !.events = run.events] /\ nonce' = nonce + 1
  BY DEF Mine
<1> HIDE DEF run, W, new
<1>10. /\ RunOf(run, W)
       /\ ~run.ok => run = Reverted(real)
       /\ run.ok => IF tx.to = NoAddress THEN Built(real, run.world, tx.new, a, child)
                    ELSE /\ DOMAIN run.world = DOMAIN real
                         /\ Kept(real, run.world) /\ Pointing(real, run.world)
  <2>1. AddedBy(tx, a, child) \subseteq W
    BY <1>5 DEF new
  <2> HIDE DEF tx, a, child
  <2> QED
    BY <1>3, <1>6, <1>7, <1>8, <2>1, Executes
<1>11. flight' = [stage |-> "mined", tx |-> flight.tx, native |-> tx, ok |-> run.ok,
                  events |-> run.events, receipt |-> flight.receipt, abi |-> flight.abi]
  BY <1>1, <1>9, FlightForms
<1>12. Executed' /\ nonce' - 1 = nonce
  <2>1. nonce \in Nat
    BY DEF SessionInv, NonceInv
  <2> QED
    BY <1>9, <1>11, <2>1 DEF Executed
<1>13. Making' = IF ~run.ok THEN {}
                 ELSE IF flight.tx.to # NoAddress THEN {}
                 ELSE {a} \cup (IF flight.tx.new.code = "transparent" THEN {child} ELSE {})
  BY <1>11, <1>12 DEF Making
<1>14. /\ flight.tx.to = NoAddress <=> tx.to = NoAddress
       /\ tx.to = NoAddress => flight.tx.new.code = tx.new.code
  BY <1>2, <1>4, TwinForms
<1>15. Wired(real)
  BY <1>4 DEF Populated
<1>16. CASE ~run.ok
  <2>1. real' = real /\ events' = <<>> /\ Making' = {}
    BY <1>9, <1>10, <1>13, <1>16 DEF Reverted
  <2>2. Known' = Known
    BY <2>1 DEF Known
  <2>3. Kept(real, real') /\ World(real', Known')
    BY <1>4, <2>1, <2>2 DEF Kept, Populated, World, Known
  <2> QED
    BY <1>15, <2>1, <2>2, <2>3, NoEvents
<1>17. CASE run.ok /\ tx.to # NoAddress
  <2>1. Making' = {} /\ new = {}
    BY <1>13, <1>14, <1>17 DEF new, AddedBy
  <2>2. DOMAIN real' = DOMAIN real /\ Kept(real, real') /\ Pointing(real, real')
    BY <1>9, <1>10, <1>17
  <2>3. Known' = Known /\ W = Known
    BY <2>1, <2>2 DEF Known, W
  <2>4. Wired(real')
    BY <1>15, <2>2, WiredKept
  <2> QED
    BY <1>9, <1>10, <2>1, <2>2, <2>3, <2>4 DEF RunOf
<1>18. CASE run.ok /\ tx.to = NoAddress
  <2>1. Making' = Adds(tx.new, a, child) /\ new = Adds(tx.new, a, child)
    BY <1>13, <1>14, <1>18 DEF new, AddedBy, Adds
  <2>2. Built(real, real', tx.new, a, child)
    BY <1>9, <1>10, <1>18
  <2>3. DOMAIN real' = DOMAIN real \cup Making' /\ Kept(real, real') /\ real'[a].code = tx.new.code
        /\ (tx.new.code = "transparent" => real'[child].code = "admin")
    BY <2>1, <2>2 DEF Built
  <2>4. Known' = Known \cup Making' /\ W = Known \cup Making'
    BY <2>1, <2>3 DEF Known, W
  <2>5. Wired(real')
    BY <1>3, <1>15, <2>2, WiredBuilt
  <2>6. child \in Making' => tx.new.code = "transparent"
    BY <1>3, <1>13, <1>14, <1>18
  <2>7. Making' \subseteq {a, child}
    BY <1>13
  <2> QED
    BY <1>9, <1>10, <1>14, <1>18, <2>3, <2>4, <2>5, <2>6, <2>7 DEF RunOf
<1> QED
  BY <1>10, <1>16, <1>17, <1>18

LEMMA MineKeeps ==
  ASSUME SessionInv, Mine
  PROVE  SessionInv'
<1> DEFINE a == Actual(nonce)
           child == ActualChild(nonce)
<1>1. map' = map /\ meta' = meta /\ script' = script /\ pc' = pc /\ flight.stage = "sent" /\ ~Fresh /\ ~Executed
      /\ nonce' = nonce + 1
  BY DEF Mine, Fresh, Executed, libVars, callVars
<1>2. nonce \in Nat /\ Vacant(real, nonce) /\ MaxNonce \in Nat /\ nonce < MaxNonce /\ nonce' - 1 = nonce
  BY <1>1, ExistingAssumption, FlightForms DEF SessionInv, NonceInv
<1>3. /\ Making' \subseteq {a, child}
      /\ DOMAIN real' = DOMAIN real \cup Making' /\ Known' = Known \cup Making'
      /\ World(real', Known') /\ Wired(real') /\ Kept(real, real')
      /\ events' \in Seq(EventOf(Known'))
      /\ a \in Making' => real'[a].code = flight.tx.new.code
      /\ child \in Making' => real'[child].code = "admin"
  BY MineDoes
<1>4. a \notin DOMAIN real /\ child \notin DOMAIN real /\ child # a /\ a \in Ours /\ child \in Ours
  BY <1>2, Placed
<1>5. flight'.tx = flight.tx /\ flight'.stage = "mined" /\ flight'.ok \in BOOLEAN /\ flight'.events = events'
      /\ flight' = [stage |-> flight'.stage, tx |-> flight'.tx, native |-> flight'.native, ok |-> flight'.ok,
                    events |-> flight'.events, receipt |-> flight'.receipt, abi |-> flight'.abi]
  <2> DEFINE run == OnTron(flight.native)
  <2>1. flight' = [flight EXCEPT !.stage = "mined", !.ok = run.ok, !.events = run.events] /\ events' = run.events
    BY DEF Mine
  <2>2. run.ok \in BOOLEAN
    BY DEF OnTron, Execute, Reverted
  <2> HIDE DEF run
  <2>3. flight' = [stage |-> "mined", tx |-> flight.tx, native |-> flight.native, ok |-> run.ok,
                   events |-> run.events, receipt |-> flight.receipt, abi |-> flight.abi]
    BY <1>1, <2>1, FlightForms
  <2> QED
    BY <2>1, <2>2, <2>3
<1>6. Populated(real)'
  <2>1. Known' = Neutral \cup DOMAIN real' /\ DOMAIN real \subseteq Ours \cup ({"ext"} \X Nat)
    BY SessionMaps DEF Known, Populated
  <2>2. DOMAIN real' \subseteq Ours \cup ({"ext"} \X Nat)
    BY <1>3, <1>4, <2>1
  <2> QED
    BY <1>3, <2>1, <2>2 DEF Populated, World
<1>7. MapInv'
  <2>1. /\ \A p \in DOMAIN map : map[p] \in Ours /\ map[p] \in DOMAIN real /\ Twin(map[p]) = p
        /\ \A b \in DOMAIN real : b \in Ours => Twin(b) \in DOMAIN map
        /\ DOMAIN meta = DOMAIN map
        /\ \A p \in DOMAIN map : meta[p] = real[map[p]].code
    BY <1>1 DEF SessionInv, MapInv, Making
  <2>2. \A b \in DOMAIN real : real'[b].code = real[b].code
    BY <1>3 DEF Kept
  <2> QED
    BY <1>1, <1>3, <2>1, <2>2 DEF MapInv
<1>8. Unpublished'
  <2>1. ASSUME NEW b \in {a, child}
        PROVE  Twin(b) \notin DOMAIN map
    <3> SUFFICES ASSUME Twin(b) \in DOMAIN map
                 PROVE  FALSE
      OBVIOUS
    <3>1. b \in Ours /\ b \notin DOMAIN real
      BY <1>4
    <3>2. map[Twin(b)] \in Ours /\ map[Twin(b)] \in DOMAIN real /\ Twin(map[Twin(b)]) = Twin(b)
      BY SessionMaps DEF MapsToOurs
    <3> QED
      BY <3>1, <3>2, TwinOnce DEF Native
  <2>2. Predicted(nonce) \notin DOMAIN map /\ PredictedChild(nonce) \notin DOMAIN map
    BY <1>2, <2>1, NewAddresses
  <2> QED
    BY <1>1, <1>2, <1>3, <1>5, <2>2 DEF Unpublished
<1>9. NonceInv'
  <2> SUFFICES ASSUME NEW n \in (nonce + 1)..MaxNonce, n < MaxNonce
               PROVE  Actual(n) \notin DOMAIN real' /\ ActualChild(n) \notin DOMAIN real'
    BY <1>1, <1>2 DEF NonceInv, Vacant
  <2>1. n \in nonce..MaxNonce /\ n # nonce
    BY <1>2
  <2>2. Actual(n) \notin DOMAIN real /\ ActualChild(n) \notin DOMAIN real
    BY <1>2, <2>1 DEF Vacant
  <2>3. Actual(n) \notin {a, child} /\ ActualChild(n) \notin {a, child}
    BY <2>1 DEF Actual, ActualChild
  <2> QED
    BY <1>3, <2>2, <2>3
<1>10. EventsInv'
  BY <1>3 DEF EventsInv
<1>11. Executed' /\ Awaited' = Awaited /\ Named' = Named
  BY <1>1, <1>2, <1>5 DEF Executed, Awaited, Named
<1>12. ScriptInv' /\ CallInv'
  BY <1>1, <1>5, <1>11, FlightForms, ScriptStays
<1>13. FlightInv'
  BY <1>1, <1>2, <1>3, <1>5, <1>11, FlightForms DEF FlightInv
<1> QED
  BY <1>6, <1>7, <1>8, <1>9, <1>10, <1>12, <1>13 DEF SessionInv

LEMMA TailOfTwo == ASSUME NEW t, NEW u PROVE Tail(<<t, u>>) = <<u>>
<1> DEFINE S == {t, u}
           m == Tail(<<t, u>>)
           n == <<u>>
<1>1. t \in S /\ u \in S
  OBVIOUS
<1> HIDE DEF S
<1>2. <<t, u>> \in Seq(S) /\ Len(<<t, u>>) = 2 /\ <<t, u>>[2] = u
  BY <1>1
<1>3. m \in Seq(S) /\ Len(m) = 1 /\ m[1] = u
  BY <1>2
<1>4. n \in Seq(S) /\ Len(n) = 1 /\ n[1] = u
  BY <1>1
<1>5. \A i \in 1..Len(m) : m[i] = n[i]
  <2>1. ASSUME NEW i \in 1..Len(m) PROVE i = 1
    BY <1>3
  <2> QED
    BY <1>3, <1>4, <2>1
<1> HIDE DEF m, n
<1>6. m = n
  BY <1>3, <1>4, <1>5, SeqEqual
<1> QED
  BY <1>6 DEF m, n

\* The mappings of the contracts that a transaction has created.
LEMMA PublishedMaps ==
  ASSUME SessionInv, flight.stage = "received", flight.ok
  PROVE  LET n == nonce - 1
             known == Published(n, flight.tx)
             codes == PublishedMeta(n, flight.tx)
         IN  /\ n \in Nat /\ Created(n, flight.tx) = {Twin(b) : b \in Making}
             /\ DOMAIN known = DOMAIN map \cup Created(n, flight.tx) /\ DOMAIN codes = DOMAIN known
             /\ \A p \in DOMAIN map : known[p] = map[p] /\ codes[p] = meta[p]
             /\ \A b \in Making : b \in Ours /\ known[Twin(b)] = b /\ codes[Twin(b)] = real[b].code
<1> DEFINE n == nonce - 1
           tx == flight.tx
           known == Published(n, tx)
           codes == PublishedMeta(n, tx)
<1>1. Executed /\ ~Fresh
  BY DEF Executed, Fresh
<1>2. n \in Nat
  BY <1>1, FlightForms DEF SessionInv, NonceInv
<1>3. /\ Actual(n) \in Ours /\ ActualChild(n) \in Ours
      /\ Twin(Actual(n)) = Predicted(n) /\ Twin(ActualChild(n)) = PredictedChild(n)
      /\ Predicted(n) # PredictedChild(n) /\ Actual(n) # ActualChild(n)
  BY <1>2, NewAddresses
<1>4. Making = IF tx.to # NoAddress THEN {}
               ELSE {Actual(n)} \cup (IF tx.new.code = "transparent" THEN {ActualChild(n)} ELSE {})
  BY <1>1 DEF Making
<1>5. Created(n, tx) = IF tx.to # NoAddress THEN {}
                       ELSE {Predicted(n)} \cup (IF tx.new.code = "transparent" THEN {PredictedChild(n)} ELSE {})
  BY DEF Created
<1>6. Created(n, tx) = {Twin(b) : b \in Making}
  BY <1>3, <1>4, <1>5
<1>7. DOMAIN meta = DOMAIN map /\ Predicted(n) \notin DOMAIN map /\ PredictedChild(n) \notin DOMAIN map
  BY <1>1 DEF SessionInv, MapInv, Unpublished
<1>8. DOMAIN known = DOMAIN map \cup Created(n, tx) /\ DOMAIN codes = DOMAIN known
  BY <1>7 DEF Published, PublishedMeta
<1>9. ASSUME NEW p \in DOMAIN map
      PROVE  known[p] = map[p] /\ codes[p] = meta[p]
  BY <1>7 DEF Published, PublishedMeta
<1>10. ASSUME NEW b \in Making
       PROVE  b \in Ours /\ known[Twin(b)] = b /\ codes[Twin(b)] = real[b].code
  <2>1. tx.to = NoAddress /\ Predicted(n) \in Created(n, tx)
    BY <1>4, <1>5, <1>10
  <2>2. CASE b = Actual(n)
    <3>1. known[Predicted(n)] = Actual(n)
      BY <1>3, <2>1 DEF Published
    <3>4. codes[Predicted(n)] = tx.new.code
      BY <1>3, <2>1 DEF PublishedMeta
    <3>2. real[b].code = tx.new.code
      BY <1>10, <2>2 DEF SessionInv, Unpublished
    <3> QED
      BY <1>3, <2>2, <3>1, <3>2, <3>4
  <2>3. CASE b = ActualChild(n)
    <3>1. PredictedChild(n) \in Created(n, tx)
      BY <1>6, <1>3, <1>10, <2>3
    <3>2. known[PredictedChild(n)] = ActualChild(n) /\ codes[PredictedChild(n)] = "admin"
      BY <1>3, <3>1 DEF Published, PublishedMeta
    <3>3. real[b].code = "admin"
      BY <1>10, <2>3 DEF SessionInv, Unpublished
    <3> QED
      BY <1>3, <2>3, <3>2, <3>3
  <2> QED
    BY <1>4, <1>10, <2>1, <2>2, <2>3
<1> QED
  BY <1>2, <1>6, <1>8, <1>9, <1>10

LEMMA PublishKeeps ==
  ASSUME SessionInv, Publish
  PROVE  SessionInv'
<1>1. real' = real /\ nonce' = nonce /\ events' = events /\ pc' = pc /\ flight.stage = "received" /\ ~Fresh
      /\ Executed
  BY DEF Publish, chain, Fresh, Executed, libVars, callVars
<1>2. CASE ~flight.ok
  <2>1. Making = {}
    BY <1>2 DEF Making
  <2> QED
    BY <1>1, <1>2, <2>1, AbandonKeeps DEF Publish
<1>3. CASE flight.ok
  <2> DEFINE n == nonce - 1
             known == Published(n, flight.tx)
             codes == PublishedMeta(n, flight.tx)
  <2>1. map' = known /\ meta' = codes /\ script' = Tail(script) /\ flight' = NoFlight
    BY <1>3 DEF Publish
  <2>2. /\ n \in Nat /\ Created(n, flight.tx) = {Twin(b) : b \in Making}
        /\ DOMAIN known = DOMAIN map \cup Created(n, flight.tx) /\ DOMAIN codes = DOMAIN known
        /\ \A p \in DOMAIN map : known[p] = map[p] /\ codes[p] = meta[p]
        /\ \A b \in Making : b \in Ours /\ known[Twin(b)] = b /\ codes[Twin(b)] = real[b].code
    BY <1>1, <1>3, PublishedMaps
  <2> HIDE DEF known, codes
  <2>3. ~Executed' /\ Making' = {} /\ Awaited' = nonce /\ Awaited = n
    BY <1>1, <2>1 DEF Executed, Making, NoFlight, Awaited
  <2>4. Making \subseteq DOMAIN real
    BY DEF SessionInv, Unpublished
  <2>5. (Populated(real) /\ NonceInv /\ EventsInv)'
    BY <1>1 DEF SessionInv, NonceInv, EventsInv, Known
  <2>6. MapInv'
    <3>1. /\ \A p \in DOMAIN map : map[p] \in Ours /\ map[p] \in DOMAIN real /\ Twin(map[p]) = p
          /\ \A b \in DOMAIN real : b \in Ours => Twin(b) \in DOMAIN map \/ b \in Making
          /\ \A p \in DOMAIN map : meta[p] = real[map[p]].code
      BY DEF SessionInv, MapInv
    <3>2. ASSUME NEW p \in DOMAIN known
          PROVE  known[p] \in Ours /\ known[p] \in DOMAIN real /\ Twin(known[p]) = p /\ codes[p] = real[known[p]].code
      BY <2>2, <2>4, <3>1
    <3> QED
      BY <1>1, <2>1, <2>2, <2>3, <3>1, <3>2 DEF MapInv
  <2>7. Unpublished'
    BY <2>3 DEF Unpublished
  <2>8. ScriptInv'
    <3>1. pc = "idle" /\ script # <<>> /\ flight.tx = script[1]
      BY <1>1, FlightForms
    <3>2. CASE script = <<script[1]>>
      <4>1. script' = <<>>
        BY <2>1, <3>2
      <4> QED
        BY <2>1, <4>1 DEF ScriptInv, NoFlight
    <3>3. CASE script = <<script[1], script[2]>> /\ script[1].to = NoAddress /\ script[2] \in TxOf(Named \cup {Predicted(n)})
      <4>1. script' = <<script[2]>>
        BY <2>1, <3>3, TailOfTwo
      <4>2. flight.tx.to = NoAddress
        BY <3>1, <3>3
      <4>3. Predicted(n) \in Created(n, flight.tx)
        BY <4>2 DEF Created
      <4>4. Named \cup {Predicted(n)} \subseteq Named'
        BY <2>1, <2>2, <4>3 DEF Named
      <4>5. script[2] \in TxOf(Named')
        BY <3>3, <4>4, MoreWords
      <4>6. OneTx(script', Named')
        BY <4>1, <4>5, OneIs
      <4> QED
        BY <1>1, <2>1, <3>1, <4>6 DEF ScriptInv, OneTx, NoFlight
    <3> QED
      BY <2>3, <3>1, <3>2, <3>3 DEF SessionInv, ScriptInv
  <2>9. FlightInv' /\ CallInv'
    <3>1. pc' = "idle"
      BY <1>1, FlightForms
    <3> QED
      BY <2>1, <3>1 DEF FlightInv, CallInv
  <2> QED
    BY <2>5, <2>6, <2>7, <2>8, <2>9 DEF SessionInv
<1> QED
  BY <1>2, <1>3

LEMMA ForeignDoes ==
  ASSUME SessionInv, Foreign
  PROVE  /\ DOMAIN real' = DOMAIN real /\ World(real', Known) /\ events' \in Seq(EventOf(Known))
         /\ Kept(real, real') /\ Pointing(real, real')
<1>1. PICK a \in DOMAIN real, impl \in DOMAIN real :
        LET c == [Call("upgradeTo", impl) EXCEPT !.sel =
                    IF "upgradeTo" \in Declared(Logic(real, a)) THEN "upgradeTo" ELSE "upgradeToAndCall"]
            run == Execute(real, Send(a, c), NoAddress, NoAddress)
        IN  run.ok /\ real' = run.world /\ events' = run.events
  BY DEF Foreign
<1> DEFINE sel == IF "upgradeTo" \in Declared(Logic(real, a)) THEN "upgradeTo" ELSE "upgradeToAndCall"
           c == [sel |-> sel, proxy |-> NoAddress, arg |-> impl, data |-> <<>>]
           tx == Send(a, c)
           run == Execute(real, tx, NoAddress, NoAddress)
<1>2. [Call("upgradeTo", impl) EXCEPT !.sel = sel] = c
  BY DEF Call
<1>3. run.ok /\ real' = run.world /\ events' = run.events
  BY <1>1, <1>2
<1>4. MapsToOurs /\ Populated(real) /\ NoAddress \in Known
  BY SessionMaps, MapSorts
<1>5. a \in Known /\ impl \in Known /\ a # NoAddress /\ sel \in Upgrades
  BY <1>4, WordSorts DEF Known, Populated, NoAddress, Ours, Upgrades
<1>6. tx \in TxOf(Known) /\ tx.to # NoAddress
  <2>1. <<>> \in DataOf(Known)
    BY DEF DataOf
  <2>2. c \in CallOf(Known)
    BY <1>4, <1>5, <2>1 DEF CallOf
  <2>3. Send(a, c) \in TxOf(Known)
    BY <1>5, <2>2, SendForms
  <2> QED
    BY <1>5, <2>3 DEF Send
<1>7. World(real, Known)
  BY <1>4 DEF Populated, World, Known
<1> HIDE DEF tx
<1>8. AddedBy(tx, NoAddress, NoAddress) \subseteq Known
  BY <1>6 DEF AddedBy
<1> HIDE DEF run
<1>9. /\ RunOf(run, Known)
      /\ DOMAIN run.world = DOMAIN real /\ Kept(real, run.world) /\ Pointing(real, run.world)
  BY <1>3, <1>4, <1>6, <1>7, <1>8, Executes DEF run
<1> QED
  BY <1>3, <1>9 DEF RunOf

LEMMA ForeignKeeps ==
  ASSUME SessionInv, Foreign
  PROVE  SessionInv'
<1>1. op' = op /\ script' = script /\ flight' = flight /\ nonce' = nonce /\ map' = map /\ meta' = meta
      /\ pc' = pc /\ deployed' = deployed
  BY DEF Foreign, adapter, libVars, callVars
<1>2. /\ DOMAIN real' = DOMAIN real /\ World(real', Known) /\ events' \in Seq(EventOf(Known))
      /\ Kept(real, real') /\ Pointing(real, real')
  BY ForeignDoes
<1>3. Executed' = Executed /\ Awaited' = Awaited /\ Known' = Known /\ Named' = Named
  BY <1>1, <1>2 DEF Executed, Awaited, Known, Named
<1>4. Making' = Making /\ \A b \in DOMAIN real : real'[b].code = real[b].code
  BY <1>1, <1>2, <1>3 DEF Making, Kept
<1>5. Populated(real)'
  <2>1. Wired(real')
    BY <1>2, SessionMaps, WiredKept DEF Populated
  <2> QED
    BY <1>2, <1>3, <2>1, SessionMaps DEF Populated, World, Known
<1>6. MapInv'
  <2>1. /\ \A p \in DOMAIN map : map[p] \in DOMAIN real /\ meta[p] = real[map[p]].code
        /\ MapInv
    BY DEF SessionInv, MapInv
  <2> QED
    BY <1>1, <1>2, <1>4, <2>1 DEF MapInv
<1>7. Unpublished'
  BY <1>1, <1>2, <1>3, <1>4 DEF SessionInv, Unpublished
<1>8. NonceInv' /\ EventsInv'
  BY <1>1, <1>2, <1>3 DEF SessionInv, NonceInv, Vacant, EventsInv
<1>9. ScriptInv'
  BY <1>1, <1>3 DEF SessionInv, ScriptInv
<1>10. FlightInv'
  BY <1>1, <1>3 DEF SessionInv, FlightInv, KnownBy
<1>11. DOMAIN View' = DOMAIN View
  BY <1>2 DEF View
<1>12. CallInv'
  BY <1>1, <1>3, <1>11 DEF SessionInv, CallInv
<1> QED
  BY <1>5, <1>6, <1>7, <1>8, <1>9, <1>10, <1>12 DEF SessionInv

LEMMA StutterKeeps ==
  ASSUME SessionInv, UNCHANGED vars
  PROVE  SessionInv'
<1>1. op' = op /\ script' = script /\ flight' = flight /\ nonce' = nonce /\ map' = map /\ meta' = meta
      /\ real' = real /\ events' = events /\ pc' = pc /\ deployed' = deployed
  BY DEF vars, adapter, chain, libVars, callVars
<1>2. ChainInv' /\ FlightInv' /\ Named' = Named /\ View' = View /\ Awaited' = Awaited
  BY <1>1, FlightKept
<1>3. ScriptInv' /\ CallInv'
  BY <1>1, <1>2 DEF SessionInv, ScriptInv, CallInv
<1> QED
  BY <1>2, <1>3 DEF SessionInv, ChainInv

LEMMA SessionInitially == Init => SessionInv
<1> SUFFICES ASSUME Init
             PROVE  SessionInv
  OBVIOUS
<1>1. PICK there \in Existing :
        /\ real = there.real /\ map = there.map /\ nonce = there.nonce
        /\ meta = [p \in DOMAIN there.map |-> there.real[there.map[p]].code]
  BY DEF Init
<1>2. there.nonce \in Nat /\ Populated(there.real) /\ Mapped(there.real, there.map)
      /\ Vacant(there.real, there.nonce)
  BY ExistingAssumption
<1>3. flight = NoFlight /\ script = <<>> /\ pc = "idle" /\ events = <<>>
  BY DEF Init, LibInit
<1>4. ~Executed /\ Making = {}
  BY <1>3 DEF Executed, Making, NoFlight
<1>5. Populated(real) /\ NonceInv
  BY <1>1, <1>2 DEF NonceInv
<1>6. MapInv
  BY <1>1, <1>2 DEF MapInv, Mapped
<1>7. Unpublished
  BY <1>4 DEF Unpublished
<1>8. EventsInv
  BY <1>3, NoEvents DEF EventsInv
<1>9. ScriptInv /\ FlightInv /\ CallInv
  BY <1>3 DEF ScriptInv, FlightInv, CallInv, NoFlight
<1> QED
  BY <1>5, <1>6, <1>7, <1>8, <1>9 DEF SessionInv

\* LibTypeOK: what the library deploys is a build.
LEMMA SessionKept ==
  ASSUME SessionInv, LibTypeOK, [Next]_vars
  PROVE  SessionInv'
<1>1. CASE UNCHANGED vars
  BY <1>1, StutterKeeps
<1>2. CASE Next
  BY <1>2, BeginOpKeeps, LibraryKeeps, YieldKeeps, UnsafeKeeps, PlainKeeps, ResolveKeeps, RewriteKeeps,
     MineKeeps, ReceiveKeeps, PublishKeeps, RecompileKeeps, ForeignKeeps, Zenon DEF Next
<1> QED
  BY <1>1, <1>2

-----------------------------------------------------------------------------
(***************************************************************************)
(* Calls are decoded by the ABI of the code that they run.                 *)
(***************************************************************************)
LEMMA KnownImplementation ==
  ASSUME Populated(real), NEW a \in Known
  PROVE  ImplementationOf(real, a) \in Known
<1>1. \A b \in DOMAIN real : real[b].impl \in Known
  BY ContractWords DEF Words
<1>2. CodeAt(real, a) # "none" <=> a \in DOMAIN real
  BY CodeIsThere DEF Populated, World, Known
<1>3. CASE CodeAt(real, a) \in {"uups", "transparent"}
  BY <1>1, <1>2, <1>3 DEF ImplementationOf
<1>4. CASE CodeAt(real, a) = "beaconProxy" /\ CodeAt(real, real[a].beacon) = "beacon"
  <2>1. real[a].beacon \in DOMAIN real
    BY <1>4, CodeIsThere DEF Populated, World, Known
  <2>2. ImplementationOf(real, a) = real[real[a].beacon].impl
    BY <1>4, Zenon DEF ImplementationOf
  <2> QED
    BY <1>1, <2>1, <2>2
<1>5. CASE CodeAt(real, a) \notin {"uups", "transparent"}
           /\ ~(CodeAt(real, a) = "beaconProxy" /\ CodeAt(real, real[a].beacon) = "beacon")
  <2>1. ImplementationOf(real, a) = a
    BY <1>5 DEF ImplementationOf
  <2> QED
    BY <2>1
<1> QED
  BY <1>3, <1>4, <1>5

LEMMA AbiIsTrue ==
  ASSUME SessionInv, NEW i \in Known
  PROVE  AbiOf(i) \subseteq {CodeAt(real, i)}
<1> DEFINE p == ToPredicted(map, i)
<1>1. AbiOf(i) \subseteq IF p \in DOMAIN meta THEN {meta[p]} ELSE {}
  BY DEF AbiOf
<1>2. ASSUME p \in DOMAIN meta
      PROVE  meta[p] = CodeAt(real, i)
  <2>1. p \in DOMAIN map /\ i \notin DOMAIN map
    BY <1>2, SessionMaps, MapSorts DEF SessionInv, MapInv
  <2>2. map[p] = i
    BY <2>1 DEF ToPredicted
  <2>3. map[p] \in DOMAIN real /\ meta[p] = real[map[p]].code
    BY <2>1 DEF SessionInv, MapInv
  <2> QED
    BY <2>2, <2>3 DEF CodeAt
<1> QED
  BY <1>1, <1>2

LEMMA ResolvesTruly ==
  ASSUME SessionInv, Resolve
  PROVE  flight'.abi \subseteq {Logic(real, ToActual(map, flight'.tx.to))}
<1> DEFINE tx == Head(script)
           a == ToActual(map, tx.to)
<1>1. flight'.tx = tx /\ flight'.abi = IF tx.to \in DOMAIN meta THEN ContextAbi(tx.to) ELSE {}
  BY DEF Resolve
<1> HIDE DEF tx
<1>2. ASSUME tx.to \in DOMAIN meta
      PROVE  ContextAbi(tx.to) \subseteq {Logic(real, a)}
  <2>1. tx.to \in Named
    BY <1>2 DEF SessionInv, MapInv, Named
  <2>2. a \in Known
    BY <2>1, SessionMaps, MappedRenders DEF Renders
  <2> HIDE DEF a
  <2>3. ImplementationOf(real, a) \in Known
    BY <2>2, SessionMaps, KnownImplementation
  <2>4. AbiOf(ImplementationOf(real, a)) \subseteq {CodeAt(real, ImplementationOf(real, a))}
    BY <2>3, AbiIsTrue
  <2> QED
    BY <2>4 DEF ContextAbi, Logic, a
<1> QED
  BY <1>1, <1>2

LEMMA ElsewhereNoFlight ==
  ASSUME [Next]_vars, ~(Resolve \/ Rewrite \/ Mine \/ Receive \/ Publish)
  PROVE  flight' = flight
<1>1. BeginOp \/ Yield => flight' = flight
  BY DEF BeginOp, Yield
<1>3. Unsafe => flight' = flight
  BY DEF Unsafe
<1>4. Plain => flight' = flight
  BY DEF Plain
<1>2. Library \/ Recompile \/ Foreign \/ UNCHANGED vars => flight' = flight
  BY DEF vars, adapter, Library, Recompile, Foreign
<1> QED
  BY <1>1, <1>2, <1>3, <1>4, Zenon DEF Next

LEMMA DecodesTruly ==
  ASSUME SessionInv, [Next]_vars
  PROVE  [flight'.stage = "rewrite" =>
            flight'.abi \subseteq {Logic(real, ToActual(map, flight'.tx.to))}]_flight
<1> SUFFICES ASSUME flight' # flight, flight'.stage = "rewrite"
             PROVE  flight'.abi \subseteq {Logic(real, ToActual(map, flight'.tx.to))}
  OBVIOUS
<1>1. CASE Resolve
  BY <1>1, ResolvesTruly
<1>2. CASE Rewrite
  <2>1. flight.stage = "rewrite" /\ ~Fresh
    BY <1>2 DEF Rewrite, Fresh
  <2>2. flight' = NoFlight \/ \E tx : flight' = [flight EXCEPT !.stage = "sent", !.native = tx]
    BY <1>2 DEF Rewrite, Abandon
  <2> QED
    <3>1. CASE flight' = NoFlight
      BY <3>1 DEF NoFlight
    <3>2. CASE \E tx : flight' = [flight EXCEPT !.stage = "sent", !.native = tx]
      BY <2>1, <3>2, FlightForms
    <3> QED
      BY <2>2, <3>1, <3>2
<1>3. CASE Mine \/ Receive
  <2>1. ~Fresh
    BY <1>3 DEF Mine, Receive, Fresh
  <2>2. \/ \E ok, es : flight' = [flight EXCEPT !.stage = "mined", !.ok = ok, !.events = es]
        \/ \E es : flight' = [flight EXCEPT !.stage = "received", !.receipt = es]
    BY <1>3 DEF Mine, Receive
  <2> QED
    BY <2>1, <2>2, FlightForms
<1>4. CASE Publish
  BY <1>4 DEF Publish, Abandon, NoFlight
<1>5. CASE ~(Resolve \/ Rewrite \/ Mine \/ Receive \/ Publish)
  BY <1>5, ElsewhereNoFlight
<1> QED
  BY <1>1, <1>2, <1>3, <1>4, <1>5

-----------------------------------------------------------------------------
(***************************************************************************)
(* What a chain like that of Ethereum does is what TRON does, by other     *)
(* addresses.                                                              *)
(***************************************************************************)
LEMMA ChainReads ==
  ASSUME NEW w, NEW a
  PROVE  /\ Chain!CodeAt(w, a) = CodeAt(w, a)
         /\ Chain!ImplementationOf(w, a) = ImplementationOf(w, a)
         /\ Chain!Logic(w, a) = Logic(w, a)
         /\ \A code : Chain!Declared(code) = Declared(code) /\ Chain!HasFallback(code) = HasFallback(code)
  BY DEF Chain!CodeAt, CodeAt, Chain!ImplementationOf, ImplementationOf, Chain!Logic, Logic,
     Chain!Declared, Declared, Chain!HasFallback, HasFallback

LEMMA ChainSetter ==
  ASSUME NEW w, NEW a, NEW call
  PROVE  Chain!RunSetter(w, a, call) = RunSetter(w, a, call)
  BY DEF Chain!RunSetter, RunSetter, Chain!CodeAt, CodeAt, Chain!ImplementationOf, ImplementationOf, Chain!Logic, Logic,
     Chain!Declared, Declared, Chain!HasFallback, HasFallback, Chain!Done, Done, Chain!Reverted, Reverted,
     Chain!With, With, Chain!Event, Event, Chain!AppCode, AppCode

LEMMA ChainForms ==
  /\ \A w : Chain!Reverted(w) = Reverted(w)
  /\ \A w, es : Chain!Done(w, es) = Done(w, es)
  /\ \A w, b, c : Chain!With(w, b, c) = With(w, b, c)
  /\ \A b, topic, word : Chain!Event(b, topic, word) = Event(b, topic, word)
  /\ \A code : Chain!Blank(code) = Blank(code)
  /\ Chain!NoAddress = NoAddress /\ Chain!AppCode = AppCode /\ Chain!Upgrades = Upgrades
  BY DEF Chain!Reverted, Reverted, Chain!Done, Done, Chain!With, With, Chain!Event, Event, Chain!Blank, Blank,
     Chain!NoAddress, NoAddress, Chain!AppCode, AppCode, Chain!Upgrades, Upgrades

LEMMA ChainNested ==
  ASSUME NEW w, NEW a, NEW data
  PROVE  Chain!RunNested(w, a, data) = RunNested(w, a, data)
  BY ChainSetter, ChainForms DEF Chain!RunNested, RunNested

LEMMA ChainSlot ==
  ASSUME NEW w, NEW a, NEW impl, NEW data
  PROVE  Chain!SetImplementation(w, a, impl, data) = SetImplementation(w, a, impl, data)
  BY ChainNested, ChainForms, ChainReads DEF Chain!SetImplementation, SetImplementation

LEMMA ChainCalls ==
  ASSUME NEW w, NEW a, NEW call
  PROVE  Chain!RunCall(w, a, call) = RunCall(w, a, call)
<1>1. Chain!RunUpgrade(w, a, call) = RunUpgrade(w, a, call)
  BY ChainSlot, ChainForms, ChainReads DEF Chain!RunUpgrade, RunUpgrade
<1> QED
  BY <1>1, ChainSetter, ChainReads, ChainForms DEF Chain!RunCall, RunCall

LEMMA ChainCreation ==
  ASSUME NEW w, NEW a, NEW child, NEW new
  PROVE  Chain!RunCreation(w, a, child, new) = RunCreation(w, a, child, new)
  BY ChainNested, ChainSlot, ChainForms, ChainReads DEF Chain!RunCreation, RunCreation

LEMMA ChainExecute ==
  ASSUME NEW w, NEW tx, NEW a, NEW child
  PROVE  Chain!Execute(w, tx, a, child) = Execute(w, tx, a, child)
  BY ChainCalls, ChainCreation, ChainForms DEF Chain!Execute, Execute

\* The view of a script on any world, as View is that on TRON's.
ViewOf(w) ==
  [a \in {Twin(b) : b \in DOMAIN w} |->
     ViewContract(w[CHOOSE b \in DOMAIN w : Twin(b) = a])]

TwinRun(run) == [ok |-> run.ok, world |-> ViewOf(run.world), events |-> ViewEvents(run.events)]

LEMMA ViewOfIs ==
  ASSUME NEW w, DOMAIN w \subseteq Native
  PROVE  /\ DOMAIN ViewOf(w) = {Twin(b) : b \in DOMAIN w}
         /\ \A b \in DOMAIN w : ViewOf(w)[Twin(b)] = ViewContract(w[b])
<1>1. DOMAIN ViewOf(w) = {Twin(b) : b \in DOMAIN w}
  BY DEF ViewOf
<1>2. ASSUME NEW b \in DOMAIN w PROVE ViewOf(w)[Twin(b)] = ViewContract(w[b])
  <2> DEFINE a == Twin(b)
             d == CHOOSE e \in DOMAIN w : Twin(e) = a
  <2>1. d \in DOMAIN w /\ Twin(d) = a
    OBVIOUS
  <2>2. b \in Native /\ d \in Native
    BY <2>1
  <2> HIDE DEF d
  <2>3. d = b
    BY <2>1, <2>2, TwinOnce
  <2>4. ViewOf(w)[a] = ViewContract(w[d])
    BY <1>1 DEF ViewOf, d
  <2> QED
    BY <2>3, <2>4
<1> QED
  BY <1>1, <1>2

LEMMA SameView ==
  ASSUME NEW w, DOMAIN w \subseteq Native, NEW v, v = [p \in DOMAIN v |-> v[p]],
         DOMAIN v = {Twin(b) : b \in DOMAIN w}, \A b \in DOMAIN w : v[Twin(b)] = ViewContract(w[b])
  PROVE  v = ViewOf(w)
<1>1. /\ DOMAIN ViewOf(w) = {Twin(b) : b \in DOMAIN w}
      /\ \A b \in DOMAIN w : ViewOf(w)[Twin(b)] = ViewContract(w[b])
  BY ViewOfIs
<1>2. ViewOf(w) = [p \in DOMAIN ViewOf(w) |-> ViewOf(w)[p]]
  BY DEF ViewOf
<1>3. \A p \in DOMAIN v : v[p] = ViewOf(w)[p]
  BY <1>1
<1> HIDE DEF ViewOf
<1> QED
  BY <1>1, <1>2, <1>3

\* Contracts and events.
LEMMA ViewContractIs ==
  ASSUME NEW k, NEW i, NEW a, NEW b, NEW r, NEW n, NEW l
  PROVE  ViewContract([code |-> k, impl |-> i, admin |-> a, beacon |-> b, ref |-> r, num |-> n, lib |-> l])
         = [code |-> k, impl |-> Twin(i), admin |-> Twin(a), beacon |-> Twin(b), ref |-> Twin(r), num |-> Twin(n),
            lib |-> Twin(l)]
  BY DEF ViewContract

LEMMA ContractForms ==
  ASSUME NEW W, NEW c \in ContractOf(W)
  PROVE  /\ c = [code |-> c.code, impl |-> c.impl, admin |-> c.admin, beacon |-> c.beacon, ref |-> c.ref,
                 num |-> c.num, lib |-> c.lib]
         /\ c.code \in Codes /\ c.impl \in W /\ c.admin \in W /\ c.beacon \in W /\ c.ref \in W /\ c.num \in W
         /\ c.lib \in W
         /\ ViewContract(c) = [code |-> c.code, impl |-> Twin(c.impl), admin |-> Twin(c.admin),
                               beacon |-> Twin(c.beacon), ref |-> Twin(c.ref), num |-> Twin(c.num),
                               lib |-> Twin(c.lib)]
<1>1. /\ c = [code |-> c.code, impl |-> c.impl, admin |-> c.admin, beacon |-> c.beacon, ref |-> c.ref,
                 num |-> c.num, lib |-> c.lib]
      /\ c.code \in Codes /\ c.impl \in W /\ c.admin \in W /\ c.beacon \in W /\ c.ref \in W /\ c.num \in W
      /\ c.lib \in W
  BY DEF ContractOf
<1> QED
  BY <1>1 DEF ViewContract

WithRef(c, x) == [c EXCEPT !.ref = x]
WithNum(c, x) == [c EXCEPT !.num = x]
WithImpl(c, x) == [c EXCEPT !.impl = x]
WithAdmin(c, x) == [c EXCEPT !.admin = x]
WithBeacon(c, x) == [c EXCEPT !.beacon = x]
WithWords(c, x, y, z) == [c EXCEPT !.ref = x, !.num = y, !.lib = z]

LEMMA ContractChanges ==
  ASSUME NEW W, NEW c \in ContractOf(W), NEW x
  PROVE  /\ ViewContract(WithRef(c, x)) = WithRef(ViewContract(c), Twin(x))
         /\ ViewContract(WithNum(c, x)) = WithNum(ViewContract(c), Twin(x))
         /\ ViewContract(WithImpl(c, x)) = WithImpl(ViewContract(c), Twin(x))
<1> DEFINE v == ViewContract(c)
<1>1. /\ c = [code |-> c.code, impl |-> c.impl, admin |-> c.admin, beacon |-> c.beacon, ref |-> c.ref,
              num |-> c.num, lib |-> c.lib]
      /\ v = [code |-> c.code, impl |-> Twin(c.impl), admin |-> Twin(c.admin), beacon |-> Twin(c.beacon),
              ref |-> Twin(c.ref), num |-> Twin(c.num), lib |-> Twin(c.lib)]
  BY ContractForms
<1> HIDE DEF v
<1>2. ViewContract([c EXCEPT !.ref = x]) = [v EXCEPT !.ref = Twin(x)]
  <2>1. [c EXCEPT !.ref = x] = [code |-> c.code, impl |-> c.impl, admin |-> c.admin, beacon |-> c.beacon, ref |-> x,
                                num |-> c.num, lib |-> c.lib]
    BY <1>1
  <2>2. [v EXCEPT !.ref = Twin(x)] = [code |-> c.code, impl |-> Twin(c.impl), admin |-> Twin(c.admin),
                                      beacon |-> Twin(c.beacon), ref |-> Twin(x), num |-> Twin(c.num),
                                      lib |-> Twin(c.lib)]
    BY <1>1
  <2> QED
    BY <2>1, <2>2, ViewContractIs
<1>3. ViewContract([c EXCEPT !.num = x]) = [v EXCEPT !.num = Twin(x)]
  <2>1. [c EXCEPT !.num = x] = [code |-> c.code, impl |-> c.impl, admin |-> c.admin, beacon |-> c.beacon,
                                ref |-> c.ref, num |-> x, lib |-> c.lib]
    BY <1>1
  <2>2. [v EXCEPT !.num = Twin(x)] = [code |-> c.code, impl |-> Twin(c.impl), admin |-> Twin(c.admin),
                                      beacon |-> Twin(c.beacon), ref |-> Twin(c.ref), num |-> Twin(x),
                                      lib |-> Twin(c.lib)]
    BY <1>1
  <2> QED
    BY <2>1, <2>2, ViewContractIs
<1>4. ViewContract([c EXCEPT !.impl = x]) = [v EXCEPT !.impl = Twin(x)]
  <2>1. [c EXCEPT !.impl = x] = [code |-> c.code, impl |-> x, admin |-> c.admin, beacon |-> c.beacon,
                                 ref |-> c.ref, num |-> c.num, lib |-> c.lib]
    BY <1>1
  <2>2. [v EXCEPT !.impl = Twin(x)] = [code |-> c.code, impl |-> Twin(x), admin |-> Twin(c.admin),
                                       beacon |-> Twin(c.beacon), ref |-> Twin(c.ref), num |-> Twin(c.num),
                                       lib |-> Twin(c.lib)]
    BY <1>1
  <2> QED
    BY <2>1, <2>2, ViewContractIs
<1> QED
  BY <1>2, <1>3, <1>4 DEF v, WithRef, WithNum, WithImpl

LEMMA BlankKinds ==
  ASSUME NEW code, NEW x, NEW y, NEW z
  PROVE  /\ ViewContract(WithImpl(Blank(code), x)) = WithImpl(Blank(code), Twin(x))
         /\ ViewContract(WithAdmin(Blank(code), x)) = WithAdmin(Blank(code), Twin(x))
         /\ ViewContract(WithBeacon(Blank(code), x)) = WithBeacon(Blank(code), Twin(x))
         /\ ViewContract(WithWords(Blank(code), x, y, z)) = WithWords(Blank(code), Twin(x), Twin(y), Twin(z))
         /\ ViewContract(Blank(code)) = Blank(code)
<1> DEFINE z0 == NoAddress
           c0 == [code |-> code, impl |-> z0, admin |-> z0, beacon |-> z0, ref |-> z0, num |-> z0, lib |-> z0]
<1>1. Twin(z0) = z0
  BY WordSorts
<1>2. Blank(code) = c0
  BY DEF Blank
<1> HIDE DEF z0
<1>3. ASSUME NEW p
      PROVE  WithImpl(c0, p) = [code |-> code, impl |-> p, admin |-> z0, beacon |-> z0, ref |-> z0,
                                num |-> z0, lib |-> z0]
  BY DEF WithImpl
<1>4. ASSUME NEW p
      PROVE  WithAdmin(c0, p) = [code |-> code, impl |-> z0, admin |-> p, beacon |-> z0, ref |-> z0,
                                 num |-> z0, lib |-> z0]
  BY DEF WithAdmin
<1>5. ASSUME NEW p
      PROVE  WithBeacon(c0, p) = [code |-> code, impl |-> z0, admin |-> z0, beacon |-> p, ref |-> z0,
                                  num |-> z0, lib |-> z0]
  BY DEF WithBeacon
<1>6. ASSUME NEW p, NEW q, NEW r
      PROVE  WithWords(c0, p, q, r) = [code |-> code, impl |-> z0, admin |-> z0, beacon |-> z0, ref |-> p,
                                       num |-> q, lib |-> r]
  <2> DEFINE c1 == [c0 EXCEPT !.ref = p]
             c2 == [c1 EXCEPT !.num = q]
             c3 == [c2 EXCEPT !.lib = r]
  <2>1. c1 = [code |-> code, impl |-> z0, admin |-> z0, beacon |-> z0, ref |-> p, num |-> z0, lib |-> z0]
    OBVIOUS
  <2> HIDE DEF c1
  <2>2. c2 = [code |-> code, impl |-> z0, admin |-> z0, beacon |-> z0, ref |-> p, num |-> q, lib |-> z0]
    BY <2>1
  <2> HIDE DEF c2
  <2>3. c3 = [code |-> code, impl |-> z0, admin |-> z0, beacon |-> z0, ref |-> p, num |-> q, lib |-> r]
    BY <2>2
  <2> QED
    BY <2>3 DEF WithWords, c1, c2
<1>7. ASSUME NEW i, NEW a, NEW b, NEW r, NEW n, NEW l
      PROVE  ViewContract([code |-> code, impl |-> i, admin |-> a, beacon |-> b, ref |-> r, num |-> n, lib |-> l])
             = [code |-> code, impl |-> Twin(i), admin |-> Twin(a), beacon |-> Twin(b), ref |-> Twin(r),
                num |-> Twin(n), lib |-> Twin(l)]
  BY ViewContractIs
<1>8. ViewContract(c0) = c0
  BY <1>1, <1>7
<1> HIDE DEF c0
<1>9. ViewContract(WithImpl(c0, x)) = WithImpl(c0, Twin(x))
  <2>1. WithImpl(c0, x)
        = [code |-> code, impl |-> x, admin |-> z0, beacon |-> z0,
             ref |-> z0, num |-> z0, lib |-> z0]
    BY <1>3
  <2>2. WithImpl(c0, Twin(x))
        = [code |-> code, impl |-> Twin(x), admin |-> z0, beacon |-> z0,
             ref |-> z0, num |-> z0, lib |-> z0]
    BY <1>3
  <2> QED
    BY <1>1, <1>7, <2>1, <2>2
<1>10. ViewContract(WithAdmin(c0, x)) = WithAdmin(c0, Twin(x))
  <2>1. WithAdmin(c0, x)
        = [code |-> code, impl |-> z0, admin |-> x, beacon |-> z0,
             ref |-> z0, num |-> z0, lib |-> z0]
    BY <1>4
  <2>2. WithAdmin(c0, Twin(x))
        = [code |-> code, impl |-> z0, admin |-> Twin(x), beacon |-> z0,
             ref |-> z0, num |-> z0, lib |-> z0]
    BY <1>4
  <2> QED
    BY <1>1, <1>7, <2>1, <2>2
<1>11. ViewContract(WithBeacon(c0, x)) = WithBeacon(c0, Twin(x))
  <2>1. WithBeacon(c0, x)
        = [code |-> code, impl |-> z0, admin |-> z0, beacon |-> x,
             ref |-> z0, num |-> z0, lib |-> z0]
    BY <1>5
  <2>2. WithBeacon(c0, Twin(x))
        = [code |-> code, impl |-> z0, admin |-> z0, beacon |-> Twin(x),
             ref |-> z0, num |-> z0, lib |-> z0]
    BY <1>5
  <2> QED
    BY <1>1, <1>7, <2>1, <2>2
<1>12. ViewContract(WithWords(c0, x, y, z)) = WithWords(c0, Twin(x), Twin(y), Twin(z))
  <2>1. WithWords(c0, x, y, z)
        = [code |-> code, impl |-> z0, admin |-> z0, beacon |-> z0,
             ref |-> x, num |-> y, lib |-> z]
    BY <1>6
  <2>2. WithWords(c0, Twin(x), Twin(y), Twin(z))
        = [code |-> code, impl |-> z0, admin |-> z0, beacon |-> z0,
             ref |-> Twin(x), num |-> Twin(y), lib |-> Twin(z)]
    BY <1>6
  <2> QED
    BY <1>1, <1>7, <2>1, <2>2
<1> QED
  BY <1>2, <1>8, <1>9, <1>10, <1>11, <1>12

LEMMA ViewWith ==
  ASSUME NEW w, DOMAIN w \subseteq Native, NEW a \in Native, NEW c
  PROVE  ViewOf(With(w, a, c)) = With(ViewOf(w), Twin(a), ViewContract(c))
<1> DEFINE x == With(w, a, c)
           v == With(ViewOf(w), Twin(a), ViewContract(c))
<1>1. DOMAIN x = DOMAIN w \cup {a} /\ x[a] = c /\ \A b \in DOMAIN w \ {a} : x[b] = w[b]
  BY DEF With
<1>2. /\ DOMAIN ViewOf(w) = {Twin(b) : b \in DOMAIN w}
      /\ \A b \in DOMAIN w : ViewOf(w)[Twin(b)] = ViewContract(w[b])
  BY ViewOfIs
<1> HIDE DEF ViewOf
<1>3. /\ DOMAIN v = DOMAIN ViewOf(w) \cup {Twin(a)} /\ v[Twin(a)] = ViewContract(c)
      /\ \A p \in DOMAIN ViewOf(w) \ {Twin(a)} : v[p] = ViewOf(w)[p]
      /\ v = [p \in DOMAIN v |-> v[p]]
  BY DEF With
<1> HIDE DEF x, v
<1>4. DOMAIN v = {Twin(b) : b \in DOMAIN x}
  BY <1>1, <1>2, <1>3
<1>5. ASSUME NEW b \in DOMAIN x PROVE v[Twin(b)] = ViewContract(x[b])
  <2>1. CASE b = a
    BY <1>1, <1>3, <2>1
  <2>2. CASE b # a
    <3>1. b \in DOMAIN w /\ x[b] = w[b]
      BY <1>1, <2>2
    <3>2. Twin(b) # Twin(a)
      BY <2>2, <3>1, TwinOnce
    <3>3. Twin(b) \in DOMAIN ViewOf(w) /\ ViewOf(w)[Twin(b)] = ViewContract(w[b])
      BY <1>2, <3>1
    <3> QED
      BY <1>3, <3>1, <3>2, <3>3
  <2> QED
    BY <2>1, <2>2
<1>6. DOMAIN x \subseteq Native
  BY <1>1
<1>7. v = ViewOf(x)
  BY <1>3, <1>4, <1>5, <1>6, SameView
<1> QED
  BY <1>7 DEF v, x

\* One event, and events one after the other.
LEMMA ViewOfNone == ViewEvents(<<>>) = <<>>
  BY DEF ViewEvents

LEMMA EventView ==
  ASSUME NEW e, NEW t, NEW x
  PROVE  [[emitter |-> e, topic |-> t, word |-> x] EXCEPT !.emitter = Twin(@), !.word = Twin(@)]
         = [emitter |-> Twin(e), topic |-> t, word |-> Twin(x)]
<1> DEFINE f == [emitter |-> e, topic |-> t, word |-> x]
           g == [f EXCEPT !.emitter = Twin(@)]
           h == [g EXCEPT !.word = Twin(@)]
<1>1. g = [emitter |-> Twin(e), topic |-> t, word |-> x]
  OBVIOUS
<1> HIDE DEF g
<1>2. h = [emitter |-> Twin(e), topic |-> t, word |-> Twin(x)]
  BY <1>1
<1> QED
  BY <1>2 DEF g

LEMMA ViewOfOne ==
  ASSUME NEW e, NEW t, NEW x
  PROVE  ViewEvents(<<Event(e, t, x)>>) = <<Event(Twin(e), t, Twin(x))>>
<1> DEFINE f == Event(e, t, x)
           g == Event(Twin(e), t, Twin(x))
<1>1. [f EXCEPT !.emitter = Twin(@), !.word = Twin(@)] = g
  BY EventView DEF Event
<1> HIDE DEF f, g
<1>2. DOMAIN <<f>> = {1} /\ <<f>>[1] = f
  OBVIOUS
<1>3. ViewEvents(<<f>>) = [i \in {1} |-> g]
  BY <1>1, <1>2 DEF ViewEvents
<1>4. <<g>> = [i \in {1} |-> g]
  OBVIOUS
<1> QED
  BY <1>3, <1>4 DEF f, g

LEMMA ViewOfBoth ==
  ASSUME NEW S, NEW es \in Seq(S), NEW fs \in Seq(S)
  PROVE  ViewEvents(es \o fs) = ViewEvents(es) \o ViewEvents(fs)
<1> DEFINE V(f) == [f EXCEPT !.emitter = Twin(@), !.word = Twin(@)]
<1>1. \A gs : ViewEvents(gs) = [i \in DOMAIN gs |-> V(gs[i])]
  BY DEF ViewEvents
<1> HIDE DEF V
<1> DEFINE T == {V(f) : f \in S}
<1>2. ASSUME NEW gs \in Seq(S)
      PROVE  /\ ViewEvents(gs) \in Seq(T) /\ Len(ViewEvents(gs)) = Len(gs)
             /\ \A i \in 1..Len(gs) : ViewEvents(gs)[i] = V(gs[i])
  <2>1. DOMAIN gs = 1..Len(gs) /\ Len(gs) \in Nat /\ \A i \in 1..Len(gs) : gs[i] \in S
    OBVIOUS
  <2>2. ViewEvents(gs) = [i \in 1..Len(gs) |-> V(gs[i])] /\ \A i \in 1..Len(gs) : V(gs[i]) \in T
    BY <1>1, <2>1
  <2> HIDE DEF T
  <2> QED
    BY <2>1, <2>2
<1> HIDE DEF T
<1>3. es \o fs \in Seq(S) /\ Len(es \o fs) = Len(es) + Len(fs) /\ Len(es) \in Nat /\ Len(fs) \in Nat
      /\ \A i \in 1..Len(es \o fs) : (es \o fs)[i] = IF i <= Len(es) THEN es[i] ELSE fs[i - Len(es)]
  OBVIOUS
<1> DEFINE l == ViewEvents(es \o fs)
           p == ViewEvents(es)
           q == ViewEvents(fs)
<1>4. l \in Seq(T) /\ Len(l) = Len(es) + Len(fs) /\ \A i \in 1..Len(l) : l[i] = V((es \o fs)[i])
  BY <1>2, <1>3
<1>5. /\ p \in Seq(T) /\ q \in Seq(T) /\ Len(p) = Len(es) /\ Len(q) = Len(fs)
      /\ \A i \in 1..Len(es) : p[i] = V(es[i])
      /\ \A i \in 1..Len(fs) : q[i] = V(fs[i])
  BY <1>2
<1> HIDE DEF l, p, q
<1>6. p \o q \in Seq(T) /\ Len(p \o q) = Len(es) + Len(fs)
      /\ \A i \in 1..Len(p \o q) : (p \o q)[i] = IF i <= Len(es) THEN p[i] ELSE q[i - Len(es)]
  BY <1>5
<1>7. \A i \in 1..Len(l) : l[i] = (p \o q)[i]
  <2> SUFFICES ASSUME NEW i \in 1..Len(l) PROVE l[i] = (p \o q)[i]
    OBVIOUS
  <2>1. CASE i <= Len(es)
    <3>1. i \in 1..Len(es) /\ i \in 1..Len(p \o q) /\ i \in 1..Len(es \o fs)
      BY <1>3, <1>4, <1>6, <2>1
    <3> QED
      BY <1>3, <1>4, <1>5, <1>6, <2>1, <3>1
  <2>2. CASE ~(i <= Len(es))
    <3>1. i - Len(es) \in 1..Len(fs) /\ i \in 1..Len(p \o q) /\ i \in 1..Len(es \o fs)
      BY <1>3, <1>4, <1>6, <2>2
    <3>2. l[i] = V(fs[i - Len(es)]) /\ (p \o q)[i] = q[i - Len(es)]
      BY <1>3, <1>4, <1>6, <2>2, <3>1
    <3> QED
      BY <1>5, <3>1, <3>2
  <2> QED
    BY <2>1, <2>2
<1>8. l = p \o q
  BY <1>4, <1>6, <1>7, SeqEqual
<1> QED
  BY <1>8 DEF l, p, q

\* Runs.
LEMMA RunViews ==
  ASSUME NEW w
  PROVE  /\ Reverted(ViewOf(w)) = TwinRun(Reverted(w))
         /\ \A es : Done(ViewOf(w), ViewEvents(es)) = TwinRun(Done(w, es))
         /\ Done(ViewOf(w), <<>>) = TwinRun(Done(w, <<>>))
  BY ViewOfNone DEF Reverted, Done, TwinRun

LEMMA ViewReads ==
  ASSUME NEW W, W \subseteq Native, NEW w, World(w, W), NEW a \in W
  PROVE  /\ CodeAt(ViewOf(w), Twin(a)) = CodeAt(w, a)
         /\ a \in DOMAIN w => ViewOf(w)[Twin(a)] = ViewContract(w[a]) /\ w[a] \in ContractOf(W)
         /\ ImplementationOf(ViewOf(w), Twin(a)) = Twin(ImplementationOf(w, a)) /\ ImplementationOf(w, a) \in W
         /\ Logic(ViewOf(w), Twin(a)) = Logic(w, a)
<1> DEFINE v == ViewOf(w)
<1>1. DOMAIN w \subseteq W /\ DOMAIN w \subseteq Native
  BY DEF World
<1>2. DOMAIN v = {Twin(b) : b \in DOMAIN w} /\ \A b \in DOMAIN w : v[Twin(b)] = ViewContract(w[b])
  BY <1>1, ViewOfIs
<1> HIDE DEF v
<1>3. ASSUME NEW b \in W
      PROVE  /\ CodeAt(v, Twin(b)) = CodeAt(w, b)
             /\ b \in DOMAIN w => /\ v[Twin(b)] = ViewContract(w[b]) /\ w[b] \in ContractOf(W)
                                  /\ v[Twin(b)].impl = Twin(w[b].impl) /\ w[b].impl \in W
                                  /\ v[Twin(b)].beacon = Twin(w[b].beacon) /\ w[b].beacon \in W
  <2>1. CASE b \in DOMAIN w
    <3>1. w[b] \in ContractOf(W) /\ v[Twin(b)] = ViewContract(w[b]) /\ Twin(b) \in DOMAIN v
      BY <1>2, <2>1 DEF World
    <3>2. /\ ViewContract(w[b]) = [code |-> w[b].code, impl |-> Twin(w[b].impl), admin |-> Twin(w[b].admin),
                                   beacon |-> Twin(w[b].beacon), ref |-> Twin(w[b].ref), num |-> Twin(w[b].num),
                                   lib |-> Twin(w[b].lib)]
          /\ w[b].impl \in W /\ w[b].beacon \in W
      BY <3>1, ContractForms
    <3> QED
      BY <2>1, <3>1, <3>2 DEF CodeAt
  <2>2. CASE b \notin DOMAIN w
    <3>1. Twin(b) \notin DOMAIN v
      BY <1>1, <1>2, <2>2, TwinOnce
    <3> QED
      BY <2>2, <3>1 DEF CodeAt
  <2> QED
    BY <2>1, <2>2
<1>4. ImplementationOf(v, Twin(a)) = Twin(ImplementationOf(w, a)) /\ ImplementationOf(w, a) \in W
  <2>1. CodeAt(w, a) # "none" <=> a \in DOMAIN w
    BY CodeIsThere
  <2>2. CASE CodeAt(w, a) \in {"uups", "transparent"}
    <3>1. ImplementationOf(w, a) = w[a].impl /\ ImplementationOf(v, Twin(a)) = v[Twin(a)].impl
      BY <1>3, <2>2 DEF ImplementationOf
    <3> QED
      BY <1>3, <2>1, <2>2, <3>1
  <2>3. CASE CodeAt(w, a) = "beaconProxy"
    <3> DEFINE b == w[a].beacon
    <3>1. b \in W /\ v[Twin(a)].beacon = Twin(b) /\ CodeAt(v, Twin(b)) = CodeAt(w, b) /\ CodeAt(v, Twin(a)) = "beaconProxy"
      BY <1>3, <2>1, <2>3
    <3>2. CASE CodeAt(w, b) = "beacon"
      <4>1. ImplementationOf(w, a) = w[b].impl /\ ImplementationOf(v, Twin(a)) = v[Twin(b)].impl
        BY <2>3, <3>1, <3>2 DEF ImplementationOf
      <4>2. b \in DOMAIN w
        BY <3>2, CodeIsThere
      <4> QED
        BY <1>3, <3>1, <4>1, <4>2
    <3>3. CASE CodeAt(w, b) # "beacon"
      BY <2>3, <3>1, <3>3 DEF ImplementationOf
    <3> QED
      BY <3>2, <3>3
  <2>4. CASE CodeAt(w, a) \notin {"uups", "transparent", "beaconProxy"}
    BY <1>3, <2>4 DEF ImplementationOf
  <2> QED
    BY <2>2, <2>3, <2>4
<1>5. Logic(v, Twin(a)) = Logic(w, a)
  BY <1>3, <1>4 DEF Logic
<1> QED
  BY <1>3, <1>4, <1>5 DEF v

LEMMA ViewLogic ==
  ASSUME NEW W, W \subseteq Native, NEW w, World(w, W), NEW a \in W
  PROVE  Logic(ViewOf(w), Twin(a)) = Logic(w, a)
  BY ViewReads

LEMMA ViewCode ==
  ASSUME NEW W, W \subseteq Native, NEW w, World(w, W), NEW a \in W
  PROVE  CodeAt(ViewOf(w), Twin(a)) = CodeAt(w, a)
  BY ViewReads

LEMMA ViewSetter ==
  ASSUME NEW W, W \subseteq Native, NEW w, World(w, W), NEW a \in W, NEW call, call.arg \in W,
         NEW tc, tc.sel = call.sel, tc.arg = Twin(call.arg)
  PROVE  RunSetter(ViewOf(w), Twin(a), tc) = TwinRun(RunSetter(w, a, call))
<1>1. Logic(ViewOf(w), Twin(a)) = Logic(w, a)
  BY ViewLogic
<1> DEFINE v == ViewOf(w)
           code == Logic(w, a)
<1>2. /\ Reverted(v) = TwinRun(Reverted(w))
      /\ \A es : Done(v, ViewEvents(es)) = TwinRun(Done(w, es))
      /\ Done(v, <<>>) = TwinRun(Done(w, <<>>))
      /\ \A x, es : Done(ViewOf(x), ViewEvents(es)) = TwinRun(Done(x, es))
  BY RunViews
<1>3. CASE code = "none"
  <2>1. RunSetter(w, a, call) = Done(w, <<>>) /\ RunSetter(v, Twin(a), tc) = Done(v, <<>>)
    BY <1>1, <1>3 DEF RunSetter
  <2> QED
    BY <1>2, <2>1
<1>4. CASE code # "none" /\ (code \notin AppCode \/ ~(call.sel \in Declared(code) \/ HasFallback(code)))
  <2>1. RunSetter(w, a, call) = Reverted(w) /\ RunSetter(v, Twin(a), tc) = Reverted(v)
    BY <1>1, <1>4 DEF RunSetter
  <2> QED
    BY <1>2, <2>1
<1>5. CASE code # "none" /\ ~(code \notin AppCode \/ ~(call.sel \in Declared(code) \/ HasFallback(code)))
  <2>1. a \in DOMAIN w /\ a \in Native /\ DOMAIN w \subseteq Native
    BY <1>5, LogicIsThere DEF World
  <2>2. w[a] \in ContractOf(W) /\ v[Twin(a)] = ViewContract(w[a])
    BY <2>1, ViewReads
  <2>3. ASSUME NEW c
        PROVE  ViewOf(With(w, a, c)) = With(v, Twin(a), ViewContract(c))
    BY <2>1, ViewWith
  <2>4. CASE call.sel = "setRef"
    <3> DEFINE c == WithRef(w[a], call.arg)
               es == <<Event(a, "RefSet", call.arg)>>
    <3>1. RunSetter(w, a, call) = Done(With(w, a, c), es)
      BY <1>5, <2>4 DEF RunSetter, WithRef
    <3>2. RunSetter(v, Twin(a), tc)
          = Done(With(v, Twin(a), WithRef(v[Twin(a)], tc.arg)), <<Event(Twin(a), "RefSet", tc.arg)>>)
      BY <1>1, <1>5, <2>4 DEF RunSetter, WithRef
    <3>3. ViewEvents(es) = <<Event(Twin(a), "RefSet", tc.arg)>>
      BY ViewOfOne
    <3>4. ViewContract(c) = WithRef(v[Twin(a)], tc.arg)
      BY <2>2, ContractChanges
    <3> HIDE DEF c, es, v
    <3> QED
      BY <1>2, <2>3, <3>1, <3>2, <3>3, <3>4 DEF v
  <2>5. CASE call.sel # "setRef"
    <3> DEFINE c == WithNum(w[a], call.arg)
               es == <<Event(a, "NumSet", call.arg)>>
    <3>1. RunSetter(w, a, call) = Done(With(w, a, c), es)
      BY <1>5, <2>5 DEF RunSetter, WithNum
    <3>2. RunSetter(v, Twin(a), tc)
          = Done(With(v, Twin(a), WithNum(v[Twin(a)], tc.arg)), <<Event(Twin(a), "NumSet", tc.arg)>>)
      BY <1>1, <1>5, <2>5 DEF RunSetter, WithNum
    <3>3. ViewEvents(es) = <<Event(Twin(a), "NumSet", tc.arg)>>
      BY ViewOfOne
    <3>4. ViewContract(c) = WithNum(v[Twin(a)], tc.arg)
      BY <2>2, ContractChanges
    <3> HIDE DEF c, es, v
    <3> QED
      BY <1>2, <2>3, <3>1, <3>2, <3>3, <3>4 DEF v
  <2> QED
    BY <2>4, <2>5
<1> QED
  BY <1>3, <1>4, <1>5

LEMMA TwinDataForms ==
  ASSUME NEW W, NEW data \in DataOf(W)
  PROVE  /\ TwinData(data) = <<>> <=> data = <<>>
         /\ data # <<>> => /\ TwinData(data)[1].sel = data[1].sel /\ TwinData(data)[1].arg = Twin(data[1].arg)
                           /\ data[1].arg \in W
<1>1. DOMAIN TwinData(data) = DOMAIN data
  BY DEF TwinData
<1>2. DOMAIN data = 1..Len(data) /\ (data # <<>> => 1 \in DOMAIN data)
  BY DEF DataOf
<1>3. data # <<>> => data[1] \in PayloadOf(W)
  BY <1>2 DEF DataOf
<1>4. data # <<>> => TwinData(data)[1] = TwinInner(data[1])
  BY <1>2 DEF TwinData
<1>5. data = <<>> => TwinData(data) = <<>>
  BY DEF TwinData
<1>6. data # <<>> => TwinData(data) # <<>>
  BY <1>1, <1>2
<1> QED
  BY <1>3, <1>4, <1>5, <1>6 DEF TwinInner, PayloadOf

LEMMA ViewNested ==
  ASSUME NEW W, W \subseteq Native, NEW w, World(w, W), NEW a \in W, NEW data \in DataOf(W)
  PROVE  RunNested(ViewOf(w), Twin(a), TwinData(data)) = TwinRun(RunNested(w, a, data))
<1>1. CASE data = <<>>
  <2>1. RunNested(w, a, data) = Done(w, <<>>) /\ RunNested(ViewOf(w), Twin(a), TwinData(data)) = Done(ViewOf(w), <<>>)
    BY <1>1, TwinDataForms DEF RunNested
  <2> QED
    BY <2>1, RunViews
<1>2. CASE data # <<>>
  <2> DEFINE call == data[1]
             tc == TwinData(data)[1]
  <2>1. RunNested(w, a, data) = RunSetter(w, a, call)
        /\ RunNested(ViewOf(w), Twin(a), TwinData(data)) = RunSetter(ViewOf(w), Twin(a), tc)
    BY <1>2, TwinDataForms DEF RunNested
  <2>2. call.arg \in W /\ tc.sel = call.sel /\ tc.arg = Twin(call.arg)
    BY <1>2, TwinDataForms
  <2> HIDE DEF call, tc
  <2> QED
    BY <2>1, <2>2, ViewSetter
<1> QED
  BY <1>1, <1>2

LEMMA ViewSlot ==
  ASSUME NEW W, W \subseteq Native, NEW w, World(w, W), NEW a \in DOMAIN w, NEW impl \in W, NEW data \in DataOf(W)
  PROVE  SetImplementation(ViewOf(w), Twin(a), Twin(impl), TwinData(data))
         = TwinRun(SetImplementation(w, a, impl, data))
<1> DEFINE v == ViewOf(w)
           c == WithImpl(w[a], impl)
           x == With(w, a, c)
           nested == RunNested(x, a, data)
           tc == WithImpl(v[Twin(a)], Twin(impl))
           y == With(v, Twin(a), tc)
           tn == RunNested(y, Twin(a), TwinData(data))
           first == <<Event(a, "Upgraded", impl)>>
           tf == <<Event(Twin(a), "Upgraded", Twin(impl))>>
<1>1. a \in W /\ a \in Native /\ DOMAIN w \subseteq Native /\ w[a] \in ContractOf(W)
  BY DEF World
<1>2. CodeAt(v, Twin(impl)) = CodeAt(w, impl)
  BY ViewReads
<1>3. ViewContract(c) = tc
  <2>1. v[Twin(a)] = ViewContract(w[a])
    BY <1>1, ViewReads
  <2> QED
    BY <1>1, <2>1, ContractChanges
<1>4. ViewOf(x) = y
  <2> HIDE DEF c, tc
  <2> QED
    BY <1>1, <1>3, ViewWith
<1>5. World(x, W)
  <2>1. c \in ContractOf(W)
    BY <1>1 DEF ContractOf, WithImpl
  <2> HIDE DEF c
  <2> QED
    BY <1>1, <2>1, WithWorld
<1>6. SetImplementation(w, a, impl, data)
      = IF CodeAt(w, impl) \notin AppCode THEN Reverted(w)
        ELSE IF nested.ok THEN Done(nested.world, first \o nested.events) ELSE Reverted(w)
  BY DEF SetImplementation, WithImpl
<1>7. SetImplementation(v, Twin(a), Twin(impl), TwinData(data))
      = IF CodeAt(v, Twin(impl)) \notin AppCode THEN Reverted(v)
        ELSE IF tn.ok THEN Done(tn.world, tf \o tn.events) ELSE Reverted(v)
  BY DEF SetImplementation, WithImpl
<1>8. ViewEvents(first) = tf /\ first \in Seq(EventOf(W))
  BY <1>1, ViewOfOne, EventForms
<1> HIDE DEF x, y, c, tc, v, first, tf
<1>9. tn = TwinRun(nested) /\ nested.events \in Seq(EventOf(W))
  <2>1. tn = TwinRun(nested)
    BY <1>1, <1>4, <1>5, ViewNested
  <2>2. Follows(nested, x, W, {})
    BY <1>5, NestedRuns
  <2> QED
    BY <2>1, <2>2 DEF Follows, RunOf
<1> HIDE DEF nested, tn
<1>10. tn.ok = nested.ok /\ tn.world = ViewOf(nested.world) /\ tn.events = ViewEvents(nested.events)
  BY <1>9 DEF TwinRun
<1>11. ViewEvents(first \o nested.events) = tf \o tn.events
  <2>1. ViewEvents(first \o nested.events) = ViewEvents(first) \o ViewEvents(nested.events)
    BY <1>8, <1>9, ViewOfBoth
  <2> QED
    BY <1>8, <1>10, <2>1
<1>12. Done(tn.world, tf \o tn.events) = TwinRun(Done(nested.world, first \o nested.events))
  BY <1>10, <1>11, RunViews
<1>13. Reverted(v) = TwinRun(Reverted(w))
  BY RunViews DEF v
<1> QED
  BY <1>2, <1>6, <1>7, <1>10, <1>12, <1>13 DEF v

LEMMA ViewUpgrade ==
  ASSUME NEW W, W \subseteq Native, NEW w, World(w, W), NEW a \in W,
         NEW call, call.proxy \in W, call.arg \in W, call.data \in DataOf(W),
         NEW tc, tc.proxy = Twin(call.proxy), tc.arg = Twin(call.arg), tc.data = TwinData(call.data)
  PROVE  RunUpgrade(ViewOf(w), Twin(a), tc) = TwinRun(RunUpgrade(w, a, call))
<1>1. ASSUME NEW b \in W
      PROVE  /\ CodeAt(ViewOf(w), Twin(b)) = CodeAt(w, b)
             /\ CodeAt(w, b) # "none" <=> b \in DOMAIN w
  BY ViewCode, CodeIsThere
<1>2. ASSUME NEW b \in W, CodeAt(w, b) \in {"uups", "transparent"}
      PROVE  SetImplementation(ViewOf(w), Twin(b), tc.arg, tc.data)
             = TwinRun(SetImplementation(w, b, call.arg, call.data))
  <2>1. b \in DOMAIN w
    BY <1>1, <1>2
  <2> QED
    BY <2>1, ViewSlot
<1>3. CodeAt(w, call.proxy) = "transparent" =>
        (ViewOf(w)[Twin(call.proxy)].admin = Twin(a) <=> w[call.proxy].admin = a)
  <2> SUFFICES ASSUME CodeAt(w, call.proxy) = "transparent"
               PROVE  ViewOf(w)[Twin(call.proxy)].admin = Twin(a) <=> w[call.proxy].admin = a
    OBVIOUS
  <2> DEFINE c == w[call.proxy]
  <2>1. call.proxy \in DOMAIN w
    BY <1>1
  <2>2. ViewOf(w)[Twin(call.proxy)] = ViewContract(c) /\ c \in ContractOf(W)
    BY <2>1, ViewReads
  <2> HIDE DEF c
  <2>3. c.admin \in W /\ ViewContract(c).admin = Twin(c.admin)
    BY <2>2, ContractForms
  <2>4. Twin(c.admin) = Twin(a) <=> c.admin = a
    BY <2>3, TwinOnce
  <2> QED
    BY <2>2, <2>3, <2>4 DEF c
<1> DEFINE v == ViewOf(w)
           t == Twin(a)
<1>4. Reverted(v) = TwinRun(Reverted(w)) /\ \A x, es : Done(ViewOf(x), ViewEvents(es)) = TwinRun(Done(x, es))
  BY RunViews
<1>5. CASE CodeAt(w, a) \in {"uups", "transparent"}
  <2>1. RunUpgrade(w, a, call) = SetImplementation(w, a, call.arg, call.data)
    BY <1>5 DEF RunUpgrade
  <2>2. RunUpgrade(v, t, tc) = SetImplementation(v, t, tc.arg, tc.data)
    BY <1>1, <1>5 DEF RunUpgrade
  <2> QED
    BY <1>2, <1>5, <2>1, <2>2
<1>6. CASE CodeAt(w, a) \in {"admin", "oldAdmin"}
  <2>1. CASE CodeAt(w, call.proxy) = "transparent" /\ w[call.proxy].admin = a
    <3>1. RunUpgrade(w, a, call) = SetImplementation(w, call.proxy, call.arg, call.data)
      BY <1>6, <2>1 DEF RunUpgrade
    <3>2. CodeAt(v, t) \in {"admin", "oldAdmin"} /\ CodeAt(v, tc.proxy) = "transparent" /\ v[tc.proxy].admin = t
      BY <1>1, <1>3, <1>6, <2>1
    <3>3. RunUpgrade(v, t, tc) = SetImplementation(v, tc.proxy, tc.arg, tc.data)
      BY <3>2 DEF RunUpgrade
    <3> QED
      BY <1>2, <2>1, <3>1, <3>3
  <2>2. CASE ~(CodeAt(w, call.proxy) = "transparent" /\ w[call.proxy].admin = a)
    <3>1. RunUpgrade(w, a, call) = Reverted(w)
      BY <1>6, <2>2 DEF RunUpgrade
    <3>2. CodeAt(v, t) \in {"admin", "oldAdmin"} /\ ~(CodeAt(v, tc.proxy) = "transparent" /\ v[tc.proxy].admin = t)
      BY <1>1, <1>3, <1>6, <2>2
    <3>3. RunUpgrade(v, t, tc) = Reverted(v)
      BY <3>2 DEF RunUpgrade
    <3> QED
      BY <1>4, <3>1, <3>3
  <2> QED
    BY <2>1, <2>2
<1>7. CASE CodeAt(w, a) = "beacon" /\ CodeAt(w, call.arg) \in AppCode
  <2> DEFINE c == WithImpl(w[a], call.arg)
             es == <<Event(a, "Upgraded", call.arg)>>
  <2>1. RunUpgrade(w, a, call) = Done(With(w, a, c), es)
    BY <1>7 DEF RunUpgrade, WithImpl
  <2>2. CodeAt(v, t) = "beacon" /\ CodeAt(v, tc.arg) \in AppCode
    BY <1>1, <1>7
  <2>3. RunUpgrade(v, t, tc) = Done(With(v, t, WithImpl(v[t], tc.arg)), <<Event(t, "Upgraded", tc.arg)>>)
    BY <2>2 DEF RunUpgrade, WithImpl
  <2>4. ViewEvents(es) = <<Event(t, "Upgraded", tc.arg)>>
    BY ViewOfOne
  <2>5. ViewContract(c) = WithImpl(v[t], tc.arg)
    <3>1. a \in DOMAIN w
      BY <1>1, <1>7
    <3>2. w[a] \in ContractOf(W) /\ v[t] = ViewContract(w[a])
      BY <3>1, ViewReads
    <3> QED
      BY <3>2, ContractChanges
  <2>6. ViewOf(With(w, a, c)) = With(v, t, ViewContract(c))
    <3>1. DOMAIN w \subseteq Native /\ a \in Native
      BY DEF World
    <3> QED
      BY <3>1, ViewWith
  <2> HIDE DEF c, es
  <2> QED
    BY <1>4, <2>1, <2>3, <2>4, <2>5, <2>6
<1>8. CASE /\ CodeAt(w, a) \notin {"uups", "transparent", "admin", "oldAdmin"}
           /\ ~(CodeAt(w, a) = "beacon" /\ CodeAt(w, call.arg) \in AppCode)
  <2>1. RunUpgrade(w, a, call) = Reverted(w)
    BY <1>8 DEF RunUpgrade
  <2>2. /\ CodeAt(v, t) \notin {"uups", "transparent", "admin", "oldAdmin"}
        /\ ~(CodeAt(v, t) = "beacon" /\ CodeAt(v, tc.arg) \in AppCode)
    BY <1>1, <1>8
  <2>3. RunUpgrade(v, t, tc) = Reverted(v)
    BY <2>2 DEF RunUpgrade
  <2> QED
    BY <1>4, <2>1, <2>3
<1> QED
  BY <1>5, <1>6, <1>7, <1>8

LEMMA ViewCall ==
  ASSUME NEW W, W \subseteq Native, NEW w, World(w, W), NEW a \in W, NEW call \in CallOf(W)
  PROVE  RunCall(ViewOf(w), Twin(a), TwinCall(call)) = TwinRun(RunCall(w, a, call))
<1> DEFINE tc == TwinCall(call)
<1>1. call.proxy \in W /\ call.arg \in W /\ call.data \in DataOf(W)
  BY CallForms
<1>2. tc.sel = call.sel /\ tc.proxy = Twin(call.proxy) /\ tc.arg = Twin(call.arg) /\ tc.data = TwinData(call.data)
  BY DEF TwinCall
<1> HIDE DEF tc
<1>3. Logic(ViewOf(w), Twin(a)) = Logic(w, a)
  BY ViewLogic
<1>4. RunUpgrade(ViewOf(w), Twin(a), tc) = TwinRun(RunUpgrade(w, a, call))
  BY <1>1, <1>2, ViewUpgrade
<1>5. RunSetter(ViewOf(w), Twin(a), tc) = TwinRun(RunSetter(w, a, call))
  BY <1>1, <1>2, ViewSetter
<1>6. RunCall(ViewOf(w), Twin(a), tc) = TwinRun(RunCall(w, a, call))
  BY <1>2, <1>3, <1>4, <1>5 DEF RunCall
<1> QED
  BY <1>6 DEF tc

LEMMA ViewApp ==
  ASSUME NEW W, W \subseteq Native, NEW w, World(w, W), NEW a \in W, NEW child,
         NEW new \in NewOf(W), new.code \in AppCode
  PROVE  RunCreation(ViewOf(w), Twin(a), Twin(child), TwinNew(new)) = TwinRun(RunCreation(w, a, child, new))
<1> DEFINE v == ViewOf(w)
           t == Twin(a)
           tn == TwinNew(new)
           c == WithWords(Blank(new.code), new.ref, new.num, new.lib)
<1>1. tn.code = new.code /\ tn.ref = Twin(new.ref) /\ tn.num = Twin(new.num) /\ tn.lib = Twin(new.lib)
  BY DEF TwinNew
<1>2. new.code \in AppCode /\ new.code \notin {"uups", "transparent", "beacon", "beaconProxy"}
  BY DEF AppCode
<1> HIDE DEF tn
<1>3. RunCreation(w, a, child, new) = Done(With(w, a, c), <<>>)
  BY <1>2 DEF RunCreation, WithWords
<1>4. RunCreation(v, t, Twin(child), tn) = Done(With(v, t, WithWords(Blank(new.code), tn.ref, tn.num, tn.lib)), <<>>)
  BY <1>1, <1>2 DEF RunCreation, WithWords
<1>5. ViewContract(c) = WithWords(Blank(new.code), tn.ref, tn.num, tn.lib)
  BY <1>1, BlankKinds
<1> HIDE DEF c
<1>6. ViewOf(With(w, a, c)) = With(v, t, ViewContract(c))
  <2>1. DOMAIN w \subseteq Native /\ a \in Native
    BY DEF World
  <2> QED
    BY <2>1, ViewWith
<1>7. \A x : Done(ViewOf(x), <<>>) = TwinRun(Done(x, <<>>))
  BY RunViews
<1> QED
  BY <1>3, <1>4, <1>5, <1>6, <1>7 DEF tn

LEMMA ViewUups ==
  ASSUME NEW W, NoAddress \in W, W \subseteq Native, NEW w, World(w, W), NEW a \in W, NEW child,
         NEW new \in NewOf(W), new.code = "uups"
  PROVE  RunCreation(ViewOf(w), Twin(a), Twin(child), TwinNew(new)) = TwinRun(RunCreation(w, a, child, new))
<1> DEFINE v == ViewOf(w)
           t == Twin(a)
           tn == TwinNew(new)
           c == Blank("uups")
           x == With(w, a, c)
<1>1. tn.code = "uups" /\ tn.arg = Twin(new.arg) /\ tn.data = TwinData(new.data)
  BY DEF TwinNew
<1>2. new.arg \in W /\ new.data \in DataOf(W)
  BY NewForms
<1> HIDE DEF tn
<1>3. RunCreation(w, a, child, new) = SetImplementation(x, a, new.arg, new.data)
  BY DEF RunCreation, AppCode
<1>4. RunCreation(v, t, Twin(child), tn) = SetImplementation(With(v, t, c), t, tn.arg, tn.data)
  BY <1>1 DEF RunCreation, AppCode
<1>5. ViewContract(c) = c /\ c \in ContractOf(W)
  <2>1. "uups" \in Codes
    BY DEF Codes
  <2> QED
    BY <2>1, BlankKinds, BlankContract
<1> HIDE DEF c
<1>6. ViewOf(x) = With(v, t, c)
  <2>1. DOMAIN w \subseteq Native /\ a \in Native
    BY DEF World
  <2> QED
    BY <1>5, <2>1, ViewWith
<1>7. World(x, W) /\ a \in DOMAIN x
  <2>1. World(With(w, a, c), W) /\ DOMAIN With(w, a, c) = DOMAIN w \cup {a}
    BY <1>5, WithWorld
  <2> QED
    BY <2>1
<1> HIDE DEF x
<1>8. SetImplementation(ViewOf(x), t, Twin(new.arg), TwinData(new.data)) = TwinRun(SetImplementation(x, a, new.arg, new.data))
  BY <1>2, <1>7, ViewSlot
<1> QED
  BY <1>1, <1>3, <1>4, <1>6, <1>8 DEF tn

\* Events before or after those of a run.
Then(es, fs) == es \o fs
After(run, more) == [run EXCEPT !.events = Then(@, more)]
Before(run, more) == [run EXCEPT !.events = Then(more, @)]

LEMMA MoreEvents ==
  ASSUME NEW W, NEW run, RunOf(run, W), run = [ok |-> run.ok, world |-> run.world, events |-> run.events],
         NEW more, more \in Seq(EventOf(W))
  PROVE  /\ After(TwinRun(run), ViewEvents(more)) = TwinRun(After(run, more))
         /\ Before(TwinRun(run), ViewEvents(more)) = TwinRun(Before(run, more))
<1>1. ASSUME NEW ok, NEW w, NEW es
      PROVE  /\ After([ok |-> ok, world |-> w, events |-> es], more) = [ok |-> ok, world |-> w, events |-> Then(es, more)]
             /\ Before([ok |-> ok, world |-> w, events |-> es], more) = [ok |-> ok, world |-> w, events |-> Then(more, es)]
  BY DEF After, Before
<1>2. ASSUME NEW ok, NEW w, NEW es
      PROVE  /\ After([ok |-> ok, world |-> w, events |-> es], ViewEvents(more))
                = [ok |-> ok, world |-> w, events |-> Then(es, ViewEvents(more))]
             /\ Before([ok |-> ok, world |-> w, events |-> es], ViewEvents(more))
                = [ok |-> ok, world |-> w, events |-> Then(ViewEvents(more), es)]
  BY DEF After, Before
<1> DEFINE S == EventOf(W)
           es == run.events
<1>3. es \in Seq(S) /\ more \in Seq(S)
  BY DEF RunOf
<1> HIDE DEF S
<1>4. /\ ViewEvents(Then(es, more)) = Then(ViewEvents(es), ViewEvents(more))
      /\ ViewEvents(Then(more, es)) = Then(ViewEvents(more), ViewEvents(es))
  <2> HIDE DEF es
  <2> QED
    BY <1>3, ViewOfBoth DEF Then
<1>5. TwinRun(run) = [ok |-> run.ok, world |-> ViewOf(run.world), events |-> ViewEvents(es)]
  BY DEF TwinRun
<1>6. ASSUME NEW ok, NEW w, NEW fs
      PROVE  TwinRun([ok |-> ok, world |-> w, events |-> fs])
             = [ok |-> ok, world |-> ViewOf(w), events |-> ViewEvents(fs)]
  BY DEF TwinRun
<1>7. After(run, more) = [ok |-> run.ok, world |-> run.world, events |-> Then(es, more)]
      /\ Before(run, more) = [ok |-> run.ok, world |-> run.world, events |-> Then(more, es)]
  BY <1>1
<1>8. After(TwinRun(run), ViewEvents(more)) = TwinRun(After(run, more))
  <2>1. After(TwinRun(run), ViewEvents(more))
        = [ok |-> run.ok, world |-> ViewOf(run.world), events |-> Then(ViewEvents(es), ViewEvents(more))]
    BY <1>2, <1>5
  <2>2. TwinRun(After(run, more)) = [ok |-> run.ok, world |-> ViewOf(run.world), events |-> ViewEvents(Then(es, more))]
    BY <1>6, <1>7
  <2> QED
    BY <1>4, <2>1, <2>2
<1>9. Before(TwinRun(run), ViewEvents(more)) = TwinRun(Before(run, more))
  <2>1. Before(TwinRun(run), ViewEvents(more))
        = [ok |-> run.ok, world |-> ViewOf(run.world), events |-> Then(ViewEvents(more), ViewEvents(es))]
    BY <1>2, <1>5
  <2>2. TwinRun(Before(run, more)) = [ok |-> run.ok, world |-> ViewOf(run.world), events |-> ViewEvents(Then(more, es))]
    BY <1>6, <1>7
  <2> QED
    BY <1>4, <2>1, <2>2
<1> QED
  BY <1>8, <1>9

LEMMA ViewTransparent ==
  ASSUME NEW W, NoAddress \in W, W \subseteq Native, NEW w, World(w, W), NEW a \in W, NEW child \in W,
         NEW new \in NewOf(W), new.code = "transparent"
  PROVE  RunCreation(ViewOf(w), Twin(a), Twin(child), TwinNew(new)) = TwinRun(RunCreation(w, a, child, new))
<1> DEFINE v == ViewOf(w)
           t == Twin(a)
           tchild == Twin(child)
           tn == TwinNew(new)
           c == WithAdmin(Blank("transparent"), child)
           tc == WithAdmin(Blank("transparent"), tchild)
           d == Blank("admin")
           x == With(w, a, c)
           y == With(x, child, d)
           set == SetImplementation(y, a, new.arg, new.data)
           one == Event(child, "OwnershipTransferred", NoAddress)
           two == Event(a, "AdminChanged", child)
           tone == Event(tchild, "OwnershipTransferred", NoAddress)
           ttwo == Event(t, "AdminChanged", tchild)
<1>1. tn.code = "transparent" /\ tn.arg = Twin(new.arg) /\ tn.data = TwinData(new.data)
  BY DEF TwinNew
<1>2. new.arg \in W /\ new.data \in DataOf(W)
  BY NewForms
<1> HIDE DEF tn
<1>3. RunCreation(w, a, child, new) = After(set, <<one, two>>)
  BY DEF RunCreation, AppCode, WithAdmin, After, Then
<1>4. RunCreation(v, t, tchild, tn)
      = After(SetImplementation(With(With(v, t, tc), tchild, d), t, tn.arg, tn.data), <<tone, ttwo>>)
  BY <1>1 DEF RunCreation, AppCode, WithAdmin, After, Then
<1>5. ViewContract(c) = tc /\ c \in ContractOf(W) /\ ViewContract(d) = d /\ d \in ContractOf(W)
  <2>1. "transparent" \in Codes /\ "admin" \in Codes
    BY DEF Codes
  <2>2. c \in ContractOf(W) /\ d \in ContractOf(W)
    BY <2>1, BlankContract DEF WithAdmin
  <2> QED
    BY <2>2, BlankKinds
<1>6. ViewEvents(<<one, two>>) = <<tone, ttwo>> /\ <<one, two>> \in Seq(EventOf(W))
  <2>1. <<one, two>> = <<one>> \o <<two>> /\ <<tone, ttwo>> = <<tone>> \o <<ttwo>>
    BY TwoItems
  <2>2. <<one>> \in Seq(EventOf(W)) /\ <<two>> \in Seq(EventOf(W))
    BY EventForms
  <2>3. ViewEvents(<<one>>) = <<tone>> /\ ViewEvents(<<two>>) = <<ttwo>>
    BY ViewOfOne, WordSorts
  <2> DEFINE es == <<one>>
             fs == <<two>>
             S == EventOf(W)
  <2> HIDE DEF es, fs, S
  <2>4. es \in Seq(S) /\ fs \in Seq(S)
    BY <2>2 DEF es, fs, S
  <2>5. ViewEvents(es \o fs) = ViewEvents(es) \o ViewEvents(fs) /\ es \o fs \in Seq(S)
    BY <2>4, ViewOfBoth
  <2> HIDE DEF one, two, tone, ttwo
  <2> QED
    BY <2>1, <2>3, <2>5 DEF es, fs, S
<1> HIDE DEF c, tc, d
<1>7. ViewOf(x) = With(v, t, tc) /\ World(x, W) /\ a \in DOMAIN x
  <2>1. DOMAIN w \subseteq Native /\ a \in Native
    BY DEF World
  <2>2. ViewOf(x) = With(v, t, ViewContract(c))
    BY <2>1, ViewWith
  <2>3. World(With(w, a, c), W) /\ DOMAIN With(w, a, c) = DOMAIN w \cup {a}
    BY <1>5, WithWorld
  <2> QED
    BY <1>5, <2>2, <2>3
<1> HIDE DEF x
<1>8. ViewOf(y) = With(With(v, t, tc), tchild, d) /\ World(y, W) /\ a \in DOMAIN y
  <2>1. DOMAIN x \subseteq Native /\ child \in Native
    BY <1>7 DEF World
  <2>2. ViewOf(y) = With(ViewOf(x), tchild, ViewContract(d))
    BY <2>1, ViewWith
  <2>3. World(With(x, child, d), W) /\ DOMAIN With(x, child, d) = DOMAIN x \cup {child}
    BY <1>5, <1>7, WithWorld
  <2> QED
    BY <1>5, <1>7, <2>2, <2>3
<1> HIDE DEF y
<1>9. SetImplementation(ViewOf(y), t, Twin(new.arg), TwinData(new.data)) = TwinRun(set)
  BY <1>2, <1>8, ViewSlot
<1>10. RunOf(set, W) /\ set = [ok |-> set.ok, world |-> set.world, events |-> set.events]
  <2>1. Follows(set, y, W, {})
    BY <1>2, <1>8, SlotRuns
  <2>2. set = [ok |-> set.ok, world |-> set.world, events |-> set.events]
    BY DEF SetImplementation, Done, Reverted
  <2> HIDE DEF set
  <2> QED
    BY <2>1, <2>2 DEF Follows
<1> DEFINE more == <<one, two>>
           tmore == <<tone, ttwo>>
<1>11. ViewEvents(more) = tmore /\ more \in Seq(EventOf(W))
  BY <1>6
<1> HIDE DEF set, more, tmore
<1>12. After(TwinRun(set), tmore) = TwinRun(After(set, more))
  BY <1>10, <1>11, MoreEvents
<1>13. RunCreation(v, t, tchild, tn) = After(TwinRun(set), tmore)
  BY <1>1, <1>4, <1>8, <1>9 DEF tmore
<1>14. RunCreation(w, a, child, new) = After(set, more)
  BY <1>3 DEF more
<1> QED
  BY <1>12, <1>13, <1>14 DEF tn

LEMMA ViewBeacon ==
  ASSUME NEW W, NoAddress \in W, W \subseteq Native, NEW w, World(w, W), NEW a \in W, NEW child,
         NEW new \in NewOf(W), new.code = "beacon"
  PROVE  RunCreation(ViewOf(w), Twin(a), Twin(child), TwinNew(new)) = TwinRun(RunCreation(w, a, child, new))
<1> DEFINE v == ViewOf(w)
           t == Twin(a)
           tn == TwinNew(new)
           c == WithImpl(Blank("beacon"), new.arg)
           tc == WithImpl(Blank("beacon"), tn.arg)
           es == <<Event(a, "Upgraded", new.arg)>>
           ts == <<Event(t, "Upgraded", tn.arg)>>
<1>1. tn.code = "beacon" /\ tn.arg = Twin(new.arg)
  BY DEF TwinNew
<1>2. new.arg \in W
  BY NewForms
<1> HIDE DEF tn
<1>3. RunCreation(w, a, child, new)
      = IF CodeAt(w, new.arg) \in AppCode THEN Done(With(w, a, c), es) ELSE Reverted(w)
  BY DEF RunCreation, AppCode, WithImpl
<1>4. RunCreation(v, t, Twin(child), tn)
      = IF CodeAt(v, tn.arg) \in AppCode THEN Done(With(v, t, tc), ts) ELSE Reverted(v)
  BY <1>1 DEF RunCreation, AppCode, WithImpl
<1>5. CodeAt(v, tn.arg) = CodeAt(w, new.arg)
  BY <1>1, <1>2, ViewCode
<1>6. ViewContract(c) = tc
  BY <1>1, BlankKinds
<1>7. ViewEvents(es) = ts
  BY <1>1, ViewOfOne
<1>8. ViewOf(With(w, a, c)) = With(v, t, ViewContract(c))
  <2>1. DOMAIN w \subseteq Native /\ a \in Native
    BY DEF World
  <2> HIDE DEF c
  <2> QED
    BY <2>1, ViewWith
<1>9. Reverted(v) = TwinRun(Reverted(w)) /\ \A x, fs : Done(ViewOf(x), ViewEvents(fs)) = TwinRun(Done(x, fs))
  BY RunViews
<1> HIDE DEF c, tc, es, ts
<1>10. Done(With(v, t, tc), ts) = TwinRun(Done(With(w, a, c), es))
  BY <1>6, <1>7, <1>8, <1>9
<1> QED
  BY <1>3, <1>4, <1>5, <1>9, <1>10 DEF tn

LEMMA ViewBeaconProxy ==
  ASSUME NEW W, NoAddress \in W, W \subseteq Native, NEW w, World(w, W), NEW a \in W, NEW child,
         NEW new \in NewOf(W), new.code = "beaconProxy"
  PROVE  RunCreation(ViewOf(w), Twin(a), Twin(child), TwinNew(new)) = TwinRun(RunCreation(w, a, child, new))
<1> DEFINE v == ViewOf(w)
           t == Twin(a)
           tn == TwinNew(new)
           c == WithBeacon(Blank("beaconProxy"), new.arg)
           tc == WithBeacon(Blank("beaconProxy"), tn.arg)
           x == With(w, a, c)
           nested == RunNested(x, a, new.data)
           es == <<Event(a, "BeaconUpgraded", new.arg)>>
           ts == <<Event(t, "BeaconUpgraded", tn.arg)>>
<1>1. tn.code = "beaconProxy" /\ tn.arg = Twin(new.arg) /\ tn.data = TwinData(new.data)
  BY DEF TwinNew
<1>2. new.arg \in W /\ new.data \in DataOf(W)
  BY NewForms
<1> HIDE DEF tn
<1>3. RunCreation(w, a, child, new)
      = IF CodeAt(w, new.arg) # "beacon" THEN Reverted(w) ELSE Before(nested, es)
  BY DEF RunCreation, AppCode, WithBeacon, Before, Then
<1>4. RunCreation(v, t, Twin(child), tn)
      = IF CodeAt(v, tn.arg) # "beacon" THEN Reverted(v) ELSE Before(RunNested(With(v, t, tc), t, tn.data), ts)
  BY <1>1 DEF RunCreation, AppCode, WithBeacon, Before, Then
<1>5. CodeAt(v, tn.arg) = CodeAt(w, new.arg)
  BY <1>1, <1>2, ViewCode
<1>6. ViewContract(c) = tc /\ c \in ContractOf(W)
  <2>1. "beaconProxy" \in Codes
    BY DEF Codes
  <2>2. [Blank("beaconProxy") EXCEPT !.beacon = new.arg] \in ContractOf(W)
    BY <1>2, <2>1, BlankContract
  <2>3. c \in ContractOf(W)
    BY <2>2 DEF WithBeacon
  <2>4. ViewContract(c) = tc
    BY <1>1, BlankKinds
  <2> QED
    BY <2>3, <2>4
<1>7. ViewEvents(es) = ts /\ es \in Seq(EventOf(W))
  <2>1. ViewEvents(es) = ts
    BY <1>1, ViewOfOne
  <2>2. es \in Seq(EventOf(W))
    BY <1>2, EventForms
  <2> QED
    BY <2>1, <2>2
<1> HIDE DEF c, tc, es, ts
<1>8. ViewOf(x) = With(v, t, tc) /\ World(x, W)
  <2>1. DOMAIN w \subseteq Native /\ a \in Native
    BY DEF World
  <2>2. ViewOf(With(w, a, c)) = With(v, t, ViewContract(c))
    BY <2>1, ViewWith
  <2>3. World(With(w, a, c), W)
    BY <1>6, WithWorld
  <2> QED
    BY <1>6, <2>2, <2>3
<1> HIDE DEF x
<1>9. RunNested(ViewOf(x), t, TwinData(new.data)) = TwinRun(nested)
  BY <1>2, <1>8, ViewNested
<1>10. RunOf(nested, W) /\ nested = [ok |-> nested.ok, world |-> nested.world, events |-> nested.events]
  <2>1. Follows(nested, x, W, {})
    BY <1>2, <1>8, NestedRuns
  <2>2. nested = [ok |-> nested.ok, world |-> nested.world, events |-> nested.events]
    BY DEF RunNested, RunSetter, Done, Reverted
  <2> HIDE DEF nested
  <2> QED
    BY <2>1, <2>2 DEF Follows
<1> HIDE DEF nested
<1>11. Before(TwinRun(nested), ViewEvents(es)) = TwinRun(Before(nested, es))
  BY <1>7, <1>10, MoreEvents
<1>12. Before(RunNested(With(v, t, tc), t, tn.data), ts) = TwinRun(Before(nested, es))
  BY <1>1, <1>7, <1>8, <1>9, <1>11
<1>13. Reverted(v) = TwinRun(Reverted(w))
  BY RunViews
<1> QED
  BY <1>3, <1>4, <1>5, <1>12, <1>13 DEF tn

LEMMA ViewCreation ==
  ASSUME NEW W, NoAddress \in W, W \subseteq Native, NEW w, World(w, W), NEW a \in W,
         NEW new \in NewOf(W), NEW child, new.code = "transparent" => child \in W
  PROVE  RunCreation(ViewOf(w), Twin(a), Twin(child), TwinNew(new)) = TwinRun(RunCreation(w, a, child, new))
<1>1. new.code \in AppCode \cup {"uups", "transparent", "beacon", "beaconProxy"}
  BY NewForms DEF Creatable
<1>2. CASE new.code \in AppCode
  BY <1>2, ViewApp
<1>3. CASE new.code = "uups"
  BY <1>3, ViewUups
<1>4. CASE new.code = "transparent"
  BY <1>4, ViewTransparent
<1>5. CASE new.code = "beacon"
  BY <1>5, ViewBeacon
<1>6. CASE new.code = "beaconProxy"
  BY <1>6, ViewBeaconProxy
<1> QED
  BY <1>1, <1>2, <1>3, <1>4, <1>5, <1>6

\* A transaction on TRON is, in the view of its script, the one it wrote.
LEMMA ViewExecute ==
  ASSUME NEW W, NoAddress \in W, W \subseteq Native, NEW w, World(w, W), NEW tx \in TxOf(W),
         NEW a, NEW child, AddedBy(tx, a, child) \subseteq W
  PROVE  Execute(ViewOf(w), TwinTx(tx), Twin(a), Twin(child)) = TwinRun(Execute(w, tx, a, child))
<1> DEFINE v == ViewOf(w)
           ttx == TwinTx(tx)
<1>1. /\ \A x : Reverted(ViewOf(x)) = TwinRun(Reverted(x))
      /\ \A r : TwinRun(r).ok = r.ok
  BY RunViews DEF TwinRun
<1>2. CASE tx.to = NoAddress
  <2> DEFINE run == RunCreation(w, a, child, tx.new)
             trun == RunCreation(v, Twin(a), Twin(child), ttx.new)
  <2>1. tx.new \in NewOf(W) /\ ttx.to = NoAddress /\ ttx.new = TwinNew(tx.new)
    BY <1>2 DEF TxOf, TwinTx
  <2>2. a \in W /\ (tx.new.code = "transparent" => child \in W)
    BY <1>2 DEF AddedBy, Adds
  <2>3. trun = TwinRun(run)
    BY <2>1, <2>2, ViewCreation
  <2>4. Execute(w, tx, a, child) = IF run.ok THEN run ELSE Reverted(w)
    BY <1>2 DEF Execute
  <2>5. Execute(v, ttx, Twin(a), Twin(child)) = IF trun.ok THEN trun ELSE Reverted(v)
    BY <2>1 DEF Execute
  <2> HIDE DEF run, trun
  <2> QED
    BY <1>1, <2>3, <2>4, <2>5
<1>3. CASE tx.to # NoAddress
  <2> DEFINE run == RunCall(w, tx.to, tx.call)
             trun == RunCall(v, ttx.to, ttx.call)
  <2>1. tx.to \in W /\ tx.call \in CallOf(W) /\ ttx.to = Twin(tx.to) /\ ttx.call = TwinCall(tx.call)
    BY <1>3 DEF TxOf, TwinTx
  <2>2. ttx.to # NoAddress
    <3>1. tx.to \in Native /\ NoAddress \in Native /\ Twin(NoAddress) = NoAddress
      BY <2>1, WordSorts
    <3> QED
      BY <1>3, <2>1, <3>1, TwinOnce
  <2>3. trun = TwinRun(run)
    BY <2>1, ViewCall
  <2>4. Execute(w, tx, a, child) = IF run.ok THEN run ELSE Reverted(w)
    BY <1>3 DEF Execute
  <2>5. Execute(v, ttx, Twin(a), Twin(child)) = IF trun.ok THEN trun ELSE Reverted(v)
    BY <2>2 DEF Execute
  <2> HIDE DEF run, trun
  <2> QED
    BY <1>1, <2>3, <2>4, <2>5
<1> QED
  BY <1>2, <1>3

-----------------------------------------------------------------------------
(***************************************************************************)
(* Scripts run as they were written.                                       *)
(***************************************************************************)
LEMMA ViewIsOfTron == View = ViewOf(real) /\ View' = ViewOf(real')
  BY DEF View, ViewOf

\* A transaction on TRON, as it is seen in the view of its script.
LEMMA MineRuns ==
  ASSUME SessionInv, Mine
  PROVE  LET run == Execute(View, flight.tx, Predicted(nonce), PredictedChild(nonce))
         IN  /\ flight.stage = "sent" /\ ~Fresh
             /\ run = TwinRun(OnTron(flight.native))
             /\ View' = run.world /\ flight'.ok = run.ok
<1> DEFINE tx == flight.native
           a == Actual(nonce)
           child == ActualChild(nonce)
           run == OnTron(tx)
           W == Known \cup AddedBy(tx, a, child)
<1>1. flight.stage = "sent" /\ ~Fresh
  BY DEF Mine, Fresh
<1>2. tx \in TxOf(Known) /\ TwinTx(tx) = flight.tx
  BY <1>1, FlightForms
<1>3. MapsToOurs /\ Populated(real) /\ NoAddress \in Known /\ Known \subseteq Native
  BY SessionMaps, MapSorts
<1>4. a \in Ours /\ child \in Ours /\ Twin(a) = Predicted(nonce) /\ Twin(child) = PredictedChild(nonce)
  <2>1. nonce \in Nat
    BY DEF SessionInv, NonceInv
  <2> QED
    BY <2>1, NewAddresses
<1>5. W \subseteq Native /\ NoAddress \in W /\ AddedBy(tx, a, child) \subseteq W
  <2>1. AddedBy(tx, a, child) \subseteq {a, child}
    BY DEF AddedBy, Adds
  <2> QED
    BY <1>3, <1>4, <2>1 DEF Native
<1>6. tx \in TxOf(W)
  <2>1. Known \subseteq W
    OBVIOUS
  <2> HIDE DEF W
  <2> QED
    BY <1>2, <2>1, MoreWords
<1>7. World(real, W)
  BY <1>3 DEF Populated, World, Known, ContractOf
<1>8. run = Execute(real, tx, a, child)
  BY DEF OnTron
<1>9. real' = run.world /\ flight'.ok = run.ok
  <2>1. flight' = [flight EXCEPT !.stage = "mined", !.ok = run.ok, !.events = run.events]
    BY DEF Mine
  <2>2. flight = [stage |-> flight.stage, tx |-> flight.tx, native |-> flight.native, ok |-> flight.ok,
                  events |-> flight.events, receipt |-> flight.receipt, abi |-> flight.abi]
    BY <1>1, FlightForms
  <2> HIDE DEF run
  <2>3. flight'.ok = run.ok
    BY <2>1, <2>2
  <2> QED
    BY <2>3 DEF Mine, run
<1> HIDE DEF a, child, run, W
<1>10. Execute(ViewOf(real), TwinTx(tx), Twin(a), Twin(child)) = TwinRun(run)
  BY <1>5, <1>6, <1>7, <1>8, ViewExecute
<1>11. Execute(View, flight.tx, Predicted(nonce), PredictedChild(nonce)) = TwinRun(run)
  BY <1>2, <1>4, <1>10, ViewIsOfTron
<1>12. TwinRun(run).world = ViewOf(real') /\ TwinRun(run).ok = flight'.ok
  BY <1>9 DEF TwinRun
<1> QED
  BY <1>1, <1>11, <1>12, ViewIsOfTron DEF run

LEMMA MineTransacts ==
  ASSUME SessionInv, Mine
  PROVE  Chain!Transact
<1> DEFINE run == Execute(View, flight.tx, Predicted(nonce), PredictedChild(nonce))
<1>1. run = TwinRun(OnTron(flight.native)) /\ View' = run.world
  BY MineRuns
<1>2. events' = OnTron(flight.native).events /\ last' = [who |-> "script", tx |-> flight.tx] /\ nonce' = nonce + 1
  BY DEF Mine
<1>3. Chain!Run = run
  <2>1. Chain!Predicted(nonce) = Predicted(nonce) /\ Chain!PredictedChild(nonce) = PredictedChild(nonce)
    BY DEF Chain!Predicted, Predicted, Chain!PredictedChild, PredictedChild
  <2>2. last'.tx = flight.tx
    BY <1>2
  <2>3. Chain!Run = Chain!Execute(View, flight.tx, Predicted(nonce), PredictedChild(nonce))
    BY <2>1, <2>2 DEF Chain!Run
  <2> QED
    BY <2>3, ChainExecute
<1>4. run.events = ViewEvents(events')
  BY <1>1, <1>2 DEF TwinRun
<1>5. ViewEvents(events)' = ViewEvents(events')
  BY DEF ViewEvents
<1>6. last'.who = "script"
  BY <1>2
<1> HIDE DEF run
<1> QED
  BY <1>1, <1>2, <1>3, <1>4, <1>5, <1>6 DEF Chain!Transact

LEMMA ForeignTransacts ==
  ASSUME SessionInv, Foreign
  PROVE  Chain!Transact
<1>1. PICK a \in DOMAIN real, impl \in DOMAIN real :
        LET c == [Call("upgradeTo", impl) EXCEPT !.sel =
                    IF "upgradeTo" \in Declared(Logic(real, a)) THEN "upgradeTo" ELSE "upgradeToAndCall"]
            run == Execute(real, Send(a, c), NoAddress, NoAddress)
        IN  /\ run.ok /\ real' = run.world /\ events' = run.events
            /\ last' = [who |-> "owner", tx |-> Send(Twin(a), [c EXCEPT !.arg = Twin(@)])]
  BY DEF Foreign
<1> DEFINE sel == IF "upgradeTo" \in Declared(Logic(real, a)) THEN "upgradeTo" ELSE "upgradeToAndCall"
           c == [sel |-> sel, proxy |-> NoAddress, arg |-> impl, data |-> <<>>]
           d == [sel |-> sel, proxy |-> NoAddress, arg |-> Twin(impl), data |-> <<>>]
           tx == Send(a, c)
           run == Execute(real, tx, NoAddress, NoAddress)
<1>2. [Call("upgradeTo", impl) EXCEPT !.sel = sel] = c /\ [c EXCEPT !.arg = Twin(@)] = d
  BY DEF Call
<1>3. real' = run.world /\ events' = run.events /\ last' = [who |-> "owner", tx |-> Send(Twin(a), d)]
  BY <1>1, <1>2
<1>4. MapsToOurs /\ Populated(real) /\ NoAddress \in Known /\ Known \subseteq Native
  BY SessionMaps, MapSorts
<1>5. a \in Known /\ impl \in Known /\ a # NoAddress /\ sel \in Upgrades
  BY <1>4, WordSorts DEF Known, Populated, NoAddress, Ours, Upgrades
<1>6. tx \in TxOf(Known) /\ tx.to = a
  <2>1. <<>> \in DataOf(Known)
    BY DEF DataOf
  <2>2. c \in CallOf(Known)
    BY <1>4, <1>5, <2>1 DEF CallOf
  <2>3. Send(a, c) \in TxOf(Known)
    BY <1>5, <2>2, SendForms
  <2> QED
    BY <2>3 DEF Send
<1>7. World(real, Known)
  BY <1>4 DEF Populated, World, Known
<1>8. TwinTx(tx) = Send(Twin(a), d)
  <2>1. TwinTx(tx) = [to |-> Twin(a), call |-> TwinCall(c)]
    BY <1>5 DEF TwinTx, Send
  <2>2. Twin(NoAddress) = NoAddress /\ TwinData(<<>>) = <<>>
    BY WordSorts DEF TwinData
  <2>3. TwinCall(c) = d
    BY <2>2 DEF TwinCall
  <2> QED
    BY <2>1, <2>3 DEF Send
<1>9. Twin(a) # NoAddress
  <2>1. a \in Native /\ NoAddress \in Native /\ Twin(NoAddress) = NoAddress
    BY <1>4, <1>5, WordSorts
  <2> QED
    BY <1>5, <2>1, TwinOnce
<1>10. AddedBy(tx, NoAddress, NoAddress) \subseteq Known
  BY <1>5, <1>6 DEF AddedBy
<1>11. TwinTx(tx).to # NoAddress
  BY <1>8, <1>9 DEF Send
<1> HIDE DEF tx, run, c, d, sel
<1>12. Execute(ViewOf(real), TwinTx(tx), Twin(NoAddress), Twin(NoAddress)) = TwinRun(run)
  BY <1>4, <1>6, <1>7, <1>10, ViewExecute DEF run
<1>13. ASSUME NEW x, NEW y
       PROVE  Execute(ViewOf(real), TwinTx(tx), x, y)
              = Execute(ViewOf(real), TwinTx(tx), Twin(NoAddress), Twin(NoAddress))
  BY <1>11 DEF Execute
<1>14. Chain!Run = TwinRun(run)
  <2>1. last'.tx = TwinTx(tx)
    BY <1>3, <1>8
  <2>2. Chain!Run = Chain!Execute(ViewOf(real), TwinTx(tx), Chain!Predicted(nonce), Chain!PredictedChild(nonce))
    BY <2>1, ViewIsOfTron DEF Chain!Run
  <2> QED
    BY <1>12, <1>13, <2>2, ChainExecute
<1>15. TwinRun(run).world = ViewOf(real') /\ TwinRun(run).events = ViewEvents(events')
  BY <1>3 DEF TwinRun
<1>16. ViewEvents(events)' = ViewEvents(events')
  BY DEF ViewEvents
<1>17. last'.who = "owner" /\ nonce' = nonce
  BY <1>3 DEF Foreign, adapter
<1> QED
  BY <1>14, <1>15, <1>16, <1>17, ViewIsOfTron DEF Chain!Transact

\* Nothing else is seen on that chain.
LEMMA ElsewhereNothing ==
  ASSUME [Next]_vars, ~(Mine \/ Foreign)
  PROVE  UNCHANGED <<real, nonce, last, events>>
<1>1. BeginOp \/ Yield \/ Unsafe \/ Plain => UNCHANGED <<real, nonce, last, events>>
  <2>1. BeginOp => UNCHANGED <<real, nonce, last, events>>
    BY DEF BeginOp, chain
  <2>2. Yield => UNCHANGED <<real, nonce, last, events>>
    BY DEF Yield, chain
  <2>3. Unsafe => UNCHANGED <<real, nonce, last, events>>
    BY DEF Unsafe, chain
  <2>4. Plain => UNCHANGED <<real, nonce, last, events>>
    BY DEF Plain, chain
  <2> QED
    BY <2>1, <2>2, <2>3, <2>4
<1>2. Library \/ Recompile \/ UNCHANGED vars => UNCHANGED <<real, nonce, last, events>>
  BY DEF vars, chain, adapter, Library, Recompile
<1>3. Resolve => UNCHANGED <<real, nonce, last, events>>
  BY DEF Resolve, chain
<1>4. Rewrite => UNCHANGED <<real, nonce, last, events>>
  BY DEF Rewrite, chain
<1>5. Receive => UNCHANGED <<real, nonce, last, events>>
  BY DEF Receive, chain
<1>6. Publish => UNCHANGED <<real, nonce, last, events>>
  BY DEF Publish, chain
<1> QED
  BY <1>1, <1>2, <1>3, <1>4, <1>5, <1>6, Zenon DEF Next

LEMMA SessionSteps ==
  ASSUME SessionInv, [Next]_vars
  PROVE  [Chain!Transact]_(Chain!vars)
<1>1. CASE Mine \/ Foreign
  BY <1>1, MineTransacts, ForeignTransacts
<1>2. CASE ~(Mine \/ Foreign)
  <2>1. real' = real /\ nonce' = nonce /\ last' = last /\ events' = events
    BY <1>2, ElsewhereNothing
  <2>2. View' = View /\ ViewEvents(events)' = ViewEvents(events)
    BY <2>1 DEF View, ViewEvents
  <2> QED
    BY <2>1, <2>2 DEF Chain!vars
<1> QED
  BY <1>1, <1>2

LEMMA SessionStarts == Init => Chain!Init
<1> SUFFICES ASSUME Init PROVE Chain!Init
  OBVIOUS
<1>1. nonce \in Nat
  BY SessionInitially DEF SessionInv, NonceInv
<1>2. last = [who |-> "nobody"] /\ events = <<>>
  BY DEF Init
<1> QED
  BY <1>1, <1>2, ViewOfNone DEF Chain!Init

-----------------------------------------------------------------------------
(***************************************************************************)
(* Scripts and their transactions, whatever other owners, compilers and    *)
(* crashes do in between.                                                  *)
(***************************************************************************)
\* The invariant of a session holds.
THEOREM SessionCorrect == Spec => []SessionInv
<1>1. Spec => []LibTypeOK
  BY SessionMakesLibraryCalls, LibraryTypes, PTL
<1>2. Init => SessionInv
  BY SessionInitially
<1>3. SessionInv /\ LibTypeOK /\ [Next]_vars => SessionInv'
  BY SessionKept
<1> QED
  BY <1>1, <1>2, <1>3, PTL DEF Spec

\* No word on TRON, in a slot or in an event, is a predicted address
\* (rewriter.ts, assertOpaqueBytesSafe).
THEOREM NothingIsStranded == Spec => []NothingStranded
  BY SessionCorrect, InvNothingStranded, PTL

\* Between transactions a script reads the slots and the events of the chain
\* that it was promised (handlers.ts, translateStorageValue; log-translation.ts).
THEOREM ReadsOfScripts == Spec => []ReadsAgree
  BY SessionCorrect, InvReadsAgree, PTL

\* A receipt shows the events of the transaction by predicted addresses, but
\* for that of a child it has created (handlers.ts, waitAndReconcile).
THEOREM ReceiptsOfScripts == Spec => []ReceiptsAgree
  BY SessionCorrect, InvReceiptsAgree, PTL

\* A call is decoded by the ABI of the very code that it runs, also when the
\* project was compiled anew since (handlers.ts, deploymentArtifactForProvenance).
THEOREM CallsAreDecodedTruly == Spec => DecodedTruly
<1>1. Spec => []SessionInv /\ [][Next]_vars
  BY SessionCorrect, PTL DEF Spec
<1>2. SessionInv /\ [Next]_vars =>
        [flight'.stage = "rewrite" =>
           flight'.abi \subseteq {Logic(real, ToActual(map, flight'.tx.to))}]_flight
  BY DecodesTruly
<1> QED
  BY <1>1, <1>2, PTL DEF DecodedTruly

\* Every behaviour of a session is, in the view of its scripts, one of the
\* chain that they were written for: it starts as that chain does, each
\* transaction that TRON executes is the one that was written, run there, and
\* nothing else changes what is seen (handlers.ts, processClaimed; rewriter.ts).
THEOREM ScriptsRunAsWritten == Spec => RunsAsWritten
<1>1. Spec => []SessionInv /\ [][Next]_vars
  BY SessionCorrect, PTL DEF Spec
<1>2. Init => Chain!Init
  BY SessionStarts
<1>3. SessionInv /\ [Next]_vars => [Chain!Transact]_(Chain!vars)
  BY SessionSteps
<1> QED
  BY <1>1, <1>2, <1>3, PTL DEF Spec, RunsAsWritten, Chain!Spec

-----------------------------------------------------------------------------
(***************************************************************************)
(* The invariant of the numbers, and that of the upgrades.                 *)
(***************************************************************************)
\* A number in a nested call stands there as it was written.
SameNumbers(sent, written) ==
  \A i \in DOMAIN sent : sent[i].sel = "setNum" => sent[i].arg = written[i].arg

\* Where the argument of an upgrade was rewritten, no fallback takes it for a
\* number: what runs there declares the upgrade, or is no application.
Verbatim ==
  flight.stage = "sent" =>
    LET tx == flight.tx
        sent == flight.native IN
    IF tx.to = NoAddress
      THEN sent.new.num = tx.new.num /\ SameNumbers(sent.new.data, tx.new.data)
      ELSE /\ SameNumbers(sent.call.data, tx.call.data)
           /\ sent.call.arg # tx.call.arg /\ tx.call.sel # "setRef" =>
                /\ tx.call.sel # "setNum"
                /\ IF tx.to \in DOMAIN meta THEN \A code \in flight.abi : tx.call.sel \in Declared(code)
                   ELSE \/ tx.call.sel = "upgradeToAndCall"
                        \/ CodeAt(real, sent.to) \in {"admin", "oldAdmin", "beacon"}

OneAbi == flight.stage = "rewrite" => \A x, y \in flight.abi : x = y

NumbersInv == OneAbi /\ Verbatim

\* The transaction that an upgrade ends with, by what it saw of the proxy in
\* the view of the script.
DispatchOf(view, o) ==
  LET admin == view[o.at].admin
      whole(code) == IsV5(code) \/ o.data # <<>>
      c(sel, proxy, nested) == [sel |-> sel, proxy |-> proxy, arg |-> o.impl, data |-> nested] IN
  IF o.kind = "upgradeBeacon" THEN Send(o.at, Call("upgradeTo", o.impl))
  ELSE IF admin = NoAddress
    THEN IF whole(o.saw) THEN Send(o.at, c("upgradeToAndCall", NoAddress, o.data))
         ELSE Send(o.at, c("upgradeTo", NoAddress, <<>>))
  ELSE IF whole(CodeAt(view, admin)) THEN Send(admin, c("upgradeAndCall", o.at, o.data))
       ELSE Send(admin, c("upgrade", o.at, <<>>))

Upgrading(o) == o.kind \in {"upgradeProxy", "upgradeBeacon"}

\* What an upgrade is made for is there.
Upgradable(view, o) ==
  /\ o.at \in DOMAIN view
  /\ view[o.at].code \in IF o.kind = "upgradeBeacon" THEN {"beacon"} ELSE {"uups", "transparent"}

UpgradeInv ==
  /\ pc = "idle" /\ script = <<>> => op = NoOp
  /\ Upgrading(op) =>
       /\ Upgradable(View, op)
       /\ \A i \in DOMAIN script : script[i].to # NoAddress => script[i] = DispatchOf(View, op)

-----------------------------------------------------------------------------
(***************************************************************************)
(* Numbers are sent as they were written.                                  *)
(***************************************************************************)
LEMMA ArgumentsVerbatim ==
  ASSUME NEW W, NEW c \in CallOf(W), NEW known
  PROVE  LET r == MapArguments(known, c)
         IN  r.sel = c.sel /\ r.data = c.data /\ (r.arg # c.arg => TakesAddresses(c.sel))
<1>1. c = [sel |-> c.sel, proxy |-> c.proxy, arg |-> c.arg, data |-> c.data]
  BY CallForms
<1>2. MapArguments(known, c) =
        IF TakesAddresses(c.sel)
          THEN [sel |-> c.sel, proxy |-> ToActual(known, c.proxy), arg |-> ToActual(known, c.arg), data |-> c.data]
          ELSE c
  BY <1>1, MappedArguments
<1> QED
  BY <1>2

LEMMA OpaqueIs == ASSUME NEW known, NEW c, NEW r \in Opaque(known, c) PROVE r = c
  BY DEF Opaque

LEMMA NestedVerbatim ==
  ASSUME NEW W, NEW data \in DataOf(W), NEW abi, NEW n \in RewriteNested(map, data, abi)
  PROVE  SameNumbers(n, data)
<1>1. CASE data = <<>>
  BY <1>1 DEF RewriteNested, SameNumbers
<1>2. CASE data # <<>>
  <2> DEFINE inner == data[1]
  <2>1. inner \in PayloadOf(W)
    BY <1>2, DataForms
  <2>2. inner = [sel |-> inner.sel, proxy |-> NoAddress, arg |-> inner.arg, data |-> <<>>]
    BY <2>1, PayloadForms
  <2> HIDE DEF inner
  <2>3. PICK call : n = <<call>> /\ (call = inner \/ call = MapArguments(map, inner))
    BY <1>2 DEF RewriteNested, RewriteCalldata, Opaque, inner
  <2>4. MapArguments(map, inner) =
          IF TakesAddresses(inner.sel)
            THEN [sel |-> inner.sel, proxy |-> ToActual(map, NoAddress), arg |-> ToActual(map, inner.arg), data |-> <<>>]
            ELSE inner
    BY <2>2, MappedArguments
  <2>5. call.sel = "setNum" => call.arg = inner.arg
    <3>1. CASE TakesAddresses(inner.sel)
      <4>1. inner.sel # "setNum"
        BY <3>1, SetterSelectors DEF TakesAddresses
      <4>2. call.sel = inner.sel
        BY <2>3, <2>4, <3>1
      <4> QED
        BY <4>1, <4>2
    <3>2. CASE ~TakesAddresses(inner.sel)
      BY <2>3, <2>4, <3>2
    <3> QED
      BY <3>1, <3>2
  <2>6. DOMAIN n = {1} /\ n[1] = call
    BY <2>3
  <2> QED
    BY <2>5, <2>6 DEF SameNumbers, inner
<1> QED
  BY <1>1, <1>2

LEMMA ItsOwnNumbers == ASSUME NEW data PROVE SameNumbers(data, data)
  BY DEF SameNumbers

\* A call whose argument was rewritten is one that its ABI declares.
LEMMA CallVerbatim ==
  ASSUME NEW W, NEW c \in CallOf(W), NEW kind, NEW code, NEW abi, NEW r \in RewriteCall(map, kind, code, c, abi)
  PROVE  /\ SameNumbers(r.data, c.data)
         /\ r.arg # c.arg => TakesAddresses(c.sel) /\ c.sel \in Declared(code)
<1> DEFINE mapped == MapArguments(map, c)
<1>1. mapped.sel = c.sel /\ mapped.data = c.data /\ (mapped.arg # c.arg => TakesAddresses(c.sel))
  BY ArgumentsVerbatim
<1>2. mapped = [sel |-> mapped.sel, proxy |-> mapped.proxy, arg |-> mapped.arg, data |-> mapped.data]
  <2>1. c = [sel |-> c.sel, proxy |-> c.proxy, arg |-> c.arg, data |-> c.data]
    BY CallForms
  <2>2. mapped =
        IF TakesAddresses(c.sel)
          THEN [sel |-> c.sel, proxy |-> ToActual(map, c.proxy), arg |-> ToActual(map, c.arg), data |-> c.data]
          ELSE c
    BY <2>1, MappedArguments
  <2> HIDE DEF mapped
  <2> QED
    BY <2>1, <2>2
<1>3. CASE c.sel \in UpgradesOf(kind) \cap Declared(code)
  <2>1. r \in RewriteUpgrade(map, c, abi)
    BY <1>3 DEF RewriteCall
  <2>2. PICK nested \in RewriteNested(map, c.data, abi) : r = [mapped EXCEPT !.data = nested]
    BY <2>1 DEF RewriteUpgrade
  <2>3. SameNumbers(nested, c.data)
    <3>1. c.data \in DataOf(W)
      BY CallForms
    <3> QED
      BY <3>1, NestedVerbatim
  <2> HIDE DEF mapped
  <2>4. r.data = nested /\ r.arg = mapped.arg
    BY <1>2, <2>2
  <2> QED
    BY <1>1, <1>3, <2>3, <2>4
<1>4. CASE c.sel \notin UpgradesOf(kind) \cap Declared(code) /\ c.sel \in Declared(code)
  <2>1. r \in Opaque(map, mapped)
    BY <1>4 DEF RewriteCall, RewriteCalldata
  <2>2. r = mapped
    BY <2>1, OpaqueIs
  <2> HIDE DEF mapped
  <2> QED
    BY <1>1, <1>4, <2>2, ItsOwnNumbers
<1>5. CASE c.sel \notin Declared(code)
  <2>1. r = c
    BY <1>5 DEF RewriteCall, Opaque
  <2> QED
    BY <2>1, ItsOwnNumbers
<1> QED
  BY <1>3, <1>4, <1>5

\* One of a contract that is not mapped is an upgrade of what is there.
LEMMA ForeignVerbatim ==
  ASSUME Populated(real), NEW W, NEW c \in CallOf(W), NEW t, t # NoAddress, NEW r \in RewriteForeign(t, c)
  PROVE  /\ SameNumbers(r.data, c.data)
         /\ r.arg # c.arg => \/ c.sel = "upgradeToAndCall"
                             \/ c.sel # "setNum" /\ CodeAt(real, t) \in {"admin", "oldAdmin", "beacon"}
<1>1. c = [sel |-> c.sel, proxy |-> c.proxy, arg |-> c.arg, data |-> c.data]
  BY CallForms
<1>2. \/ r = c
      \/ TopologyFits(t, c) /\ r = [c EXCEPT !.arg = map[c.arg]]
  BY DEF RewriteForeign, Opaque
<1>3. r.data = c.data
  BY <1>1, <1>2
<1>4. ASSUME r.arg # c.arg
      PROVE  \/ c.sel = "upgradeToAndCall"
             \/ c.sel # "setNum" /\ CodeAt(real, t) \in {"admin", "oldAdmin", "beacon"}
  <2>1. TopologyFits(t, c)
    BY <1>2, <1>4
  <2>2. c.sel \in {"upgradeToAndCall", "upgradeTo", "upgradeAndCall"}
    BY <2>1 DEF TopologyFits
  <2>3. CASE c.sel = "upgradeTo"
    BY <2>1, <2>3 DEF TopologyFits
  <2>4. CASE c.sel = "upgradeAndCall"
    <3> DEFINE proxy == ToActual(map, c.proxy)
    <3>1. CodeAt(real, proxy) # "none" /\ real[proxy].admin = t
      BY <2>1, <2>4 DEF TopologyFits
    <3>2. proxy \in DOMAIN real
      BY <3>1 DEF CodeAt
    <3> HIDE DEF proxy
    <3>3. IF real[proxy].code = "transparent" THEN CodeAt(real, real[proxy].admin) \in {"admin", "oldAdmin"}
          ELSE real[proxy].admin = NoAddress
      BY <3>2 DEF Populated, Wired
    <3> QED
      BY <2>4, <3>1, <3>3
  <2> QED
    BY <2>2, <2>3, <2>4
<1> QED
  BY <1>3, <1>4, ItsOwnNumbers

LEMMA CreationVerbatim ==
  ASSUME NEW W, NEW new \in NewOf(W), NEW abi, NEW r,
         IF new.code \in AppCode THEN r \in RewriteCreation(map, new) ELSE r \in RewriteProxyCreation(map, new, abi)
  PROVE  r.num = new.num /\ SameNumbers(r.data, new.data)
<1>1. new = [code |-> new.code, arg |-> new.arg, data |-> new.data, ref |-> new.ref, num |-> new.num, lib |-> new.lib]
      /\ new.data \in DataOf(W)
  BY NewForms
<1>2. CASE new.code \in AppCode
  <2> DEFINE one == [new EXCEPT !.ref = ToActual(map, new.ref)]
             two == [one EXCEPT !.lib = ToActual(map, new.lib)]
  <2>1. one = [code |-> new.code, arg |-> new.arg, data |-> new.data, ref |-> ToActual(map, new.ref),
               num |-> new.num, lib |-> new.lib]
    BY <1>1
  <2>2. r = [new EXCEPT !.ref = ToActual(map, @), !.lib = ToActual(map, @)]
    BY <1>2 DEF RewriteCreation
  <2>3. r = two
    BY <2>2
  <2> HIDE DEF one
  <2>4. two.num = new.num /\ two.data = new.data
    BY <2>1
  <2> QED
    BY <2>3, <2>4, ItsOwnNumbers
<1>3. CASE new.code \notin AppCode
  <2>1. PICK nested \in RewriteNested(map, new.data, abi) : r = [new EXCEPT !.arg = ToActual(map, @), !.data = nested]
    BY <1>3 DEF RewriteProxyCreation
  <2> DEFINE one == [new EXCEPT !.arg = ToActual(map, new.arg)]
             two == [one EXCEPT !.data = nested]
  <2>2. one = [code |-> new.code, arg |-> ToActual(map, new.arg), data |-> new.data, ref |-> new.ref,
               num |-> new.num, lib |-> new.lib]
    BY <1>1
  <2>3. r = two
    BY <2>1
  <2> HIDE DEF one
  <2>4. two.num = new.num /\ two.data = nested
    BY <2>2
  <2>5. SameNumbers(nested, new.data)
    BY <1>1, NestedVerbatim
  <2> QED
    BY <2>3, <2>4, <2>5
<1> QED
  BY <1>2, <1>3

\* What a run makes of the numbers of contracts: they stay, are of these, or
\* are none.
Numbered(w, x, S) ==
  \A b \in DOMAIN x : (b \in DOMAIN w /\ x[b].num = w[b].num) \/ x[b].num \in S \cup {NoAddress}

NestedNumbers(data) == {data[i].arg : i \in {j \in DOMAIN data : data[j].sel = "setNum"}}

LEMMA NumbersKept ==
  ASSUME NEW w, NEW S
  PROVE  Numbered(w, w, S)
  BY DEF Numbered

LEMMA NumbersThen ==
  ASSUME NEW w, NEW x, NEW y, NEW S, Numbered(w, x, S), Numbered(x, y, S)
  PROVE  Numbered(w, y, S)
  BY DEF Numbered

LEMMA NumbersWith ==
  ASSUME NEW w, NEW a, NEW c, NEW S,
         c.num \in S \cup {NoAddress} \/ (a \in DOMAIN w /\ c.num = w[a].num)
  PROVE  Numbered(w, With(w, a, c), S)
  BY DEF Numbered, With

LEMMA SetterNumbers ==
  ASSUME NEW W, NEW w, World(w, W), NEW a, NEW call, NEW S,
         Logic(w, a) \in AppCode /\ call.sel # "setRef"
           /\ (call.sel \in Declared(Logic(w, a)) \/ HasFallback(Logic(w, a))) => call.arg \in S
  PROVE  Numbered(w, RunSetter(w, a, call).world, S)
<1> DEFINE code == Logic(w, a)
           run == RunSetter(w, a, call)
           c == WithRef(w[a], call.arg)
           d == WithNum(w[a], call.arg)
<1>1. CASE run.world = w
  BY <1>1, NumbersKept
<1>2. CASE run.world # w
  <2>1. code \in AppCode /\ (call.sel \in Declared(code) \/ HasFallback(code))
        /\ run.world = IF call.sel = "setRef" THEN With(w, a, c) ELSE With(w, a, d)
    BY <1>2 DEF RunSetter, Done, Reverted, WithRef, WithNum
  <2>2. a \in DOMAIN w /\ w[a] \in ContractOf(W)
    <3>1. code # "none"
      BY <2>1 DEF AppCode
    <3>2. a \in DOMAIN w
      BY <3>1, LogicIsThere
    <3> QED
      BY <3>2 DEF World
  <2>3. c.num = w[a].num /\ d.num = call.arg
    BY <2>2 DEF ContractOf, WithRef, WithNum
  <2> HIDE DEF c, d, run, code
  <2>4. CASE call.sel = "setRef"
    <3>1. Numbered(w, With(w, a, c), S)
      BY <2>2, <2>3, NumbersWith
    <3> QED
      BY <2>1, <2>4, <3>1 DEF run
  <2>5. CASE call.sel # "setRef"
    <3>1. d.num \in S
      BY <2>1, <2>3, <2>5 DEF code
    <3>2. Numbered(w, With(w, a, d), S)
      BY <3>1, NumbersWith
    <3> QED
      BY <2>1, <2>5, <3>2 DEF run
  <2> QED
    BY <2>4, <2>5
<1> QED
  BY <1>1, <1>2

LEMMA NestedNumbered ==
  ASSUME NEW W, NEW w, World(w, W), NEW a, NEW data \in DataOf(W), NEW S, NestedNumbers(data) \subseteq S
  PROVE  Numbered(w, RunNested(w, a, data).world, S)
<1>1. CASE data = <<>>
  <2>1. RunNested(w, a, data).world = w
    BY <1>1 DEF RunNested, Done
  <2> QED
    BY <2>1, NumbersKept
<1>2. CASE data # <<>>
  <2>1. data[1] \in PayloadOf(W) /\ DOMAIN data = {1}
    BY <1>2, DataForms
  <2>2. data[1].sel # "setRef" => data[1].sel = "setNum"
    BY <2>1 DEF PayloadOf, Setters
  <2>3. data[1].sel = "setNum" => data[1].arg \in S
    BY <2>1 DEF NestedNumbers
  <2>4. RunNested(w, a, data) = RunSetter(w, a, data[1])
    BY <1>2 DEF RunNested
  <2> QED
    BY <2>2, <2>3, <2>4, SetterNumbers
<1> QED
  BY <1>1, <1>2

LEMMA SlotNumbers ==
  ASSUME NEW W, NEW w, World(w, W), NEW a \in DOMAIN w, NEW impl \in W, NEW data \in DataOf(W),
         NEW S, NestedNumbers(data) \subseteq S
  PROVE  Numbered(w, SetImplementation(w, a, impl, data).world, S)
<1> DEFINE c == WithImpl(w[a], impl)
           x == With(w, a, c)
           run == SetImplementation(w, a, impl, data)
           nested == RunNested(x, a, data)
<1>1. run.world = w \/ run.world = nested.world
  BY DEF SetImplementation, Done, Reverted, WithImpl
<1>2. c \in ContractOf(W) /\ c.num = w[a].num /\ a \in W
  BY DEF World, ContractOf, WithImpl
<1> HIDE DEF c
<1>3. World(With(w, a, c), W)
  BY <1>2, WithWorld
<1>4. Numbered(w, With(w, a, c), S)
  BY <1>2, NumbersWith
<1>5. World(x, W) /\ Numbered(w, x, S)
  BY <1>3, <1>4
<1> HIDE DEF x
<1>6. Numbered(x, nested.world, S)
  BY <1>5, NestedNumbered
<1> HIDE DEF nested, run
<1>7. Numbered(w, nested.world, S)
  BY <1>5, <1>6, NumbersThen
<1> QED
  BY <1>1, <1>7, NumbersKept DEF run

LEMMA UpgradeNumbers ==
  ASSUME NEW W, NEW w, World(w, W), NEW a, NEW call, call.arg \in W, call.data \in DataOf(W),
         NEW S, NestedNumbers(call.data) \subseteq S
  PROVE  Numbered(w, RunUpgrade(w, a, call).world, S)
<1> DEFINE c == WithImpl(w[a], call.arg)
           run == RunUpgrade(w, a, call)
<1>1. \A b : CodeAt(w, b) \in {"uups", "transparent"} => b \in DOMAIN w
  BY CodeIsThere
<1>2. \A b \in DOMAIN w : Numbered(w, SetImplementation(w, b, call.arg, call.data).world, S)
  BY SlotNumbers
<1>3. CASE CodeAt(w, a) \in {"uups", "transparent"}
  <2>1. run = SetImplementation(w, a, call.arg, call.data)
    BY <1>3 DEF RunUpgrade
  <2> QED
    BY <1>1, <1>2, <1>3, <2>1
<1>4. CASE CodeAt(w, a) \in {"admin", "oldAdmin"} /\ CodeAt(w, call.proxy) = "transparent" /\ w[call.proxy].admin = a
  <2>1. run = SetImplementation(w, call.proxy, call.arg, call.data)
    BY <1>4 DEF RunUpgrade
  <2> QED
    BY <1>1, <1>2, <1>4, <2>1
<1>5. CASE CodeAt(w, a) = "beacon" /\ CodeAt(w, call.arg) \in AppCode
  <2>1. run.world = With(w, a, c)
    BY <1>5 DEF RunUpgrade, WithImpl, Done
  <2>2. a \in DOMAIN w
    BY <1>5, CodeIsThere
  <2>3. c.num = w[a].num
    BY <2>2 DEF World, ContractOf, WithImpl
  <2> HIDE DEF c, run
  <2> QED
    BY <2>1, <2>2, <2>3, NumbersWith DEF run
<1>6. CASE /\ CodeAt(w, a) \notin {"uups", "transparent"}
           /\ ~(CodeAt(w, a) \in {"admin", "oldAdmin"} /\ CodeAt(w, call.proxy) = "transparent" /\ w[call.proxy].admin = a)
           /\ ~(CodeAt(w, a) = "beacon" /\ CodeAt(w, call.arg) \in AppCode)
  <2>1. run.world = w
    BY <1>6 DEF RunUpgrade, Reverted
  <2> QED
    BY <2>1, NumbersKept
<1> QED
  BY <1>3, <1>4, <1>5, <1>6

LEMMA CreationNumbers ==
  ASSUME NEW W, NoAddress \in W, NEW w, World(w, W), NEW a \in W, NEW new \in NewOf(W),
         NEW child, new.code = "transparent" => child \in W,
         NEW S, NestedNumbers(new.data) \subseteq S, new.num \in S
  PROVE  Numbered(w, RunCreation(w, a, child, new).world, S)
<1> DEFINE run == RunCreation(w, a, child, new)
<1>1. new.code \in AppCode \cup {"uups", "transparent", "beacon", "beaconProxy"} /\ new.arg \in W /\ new.data \in DataOf(W)
  BY NewForms DEF Creatable
<1>2. ASSUME NEW code \in Codes
      PROVE  Blank(code) \in ContractOf(W) /\ Blank(code).num = NoAddress
             /\ \A x \in W : /\ [Blank(code) EXCEPT !.admin = x] \in ContractOf(W)
                             /\ [Blank(code) EXCEPT !.admin = x].num = NoAddress
                             /\ [Blank(code) EXCEPT !.beacon = x] \in ContractOf(W)
                             /\ [Blank(code) EXCEPT !.beacon = x].num = NoAddress
                             /\ [Blank(code) EXCEPT !.impl = x].num = NoAddress
  <2>1. Blank(code).num = NoAddress
        /\ \A x \in W : /\ [Blank(code) EXCEPT !.admin = x].num = NoAddress
                        /\ [Blank(code) EXCEPT !.beacon = x].num = NoAddress
                        /\ [Blank(code) EXCEPT !.impl = x].num = NoAddress
    BY DEF Blank
  <2> QED
    BY <2>1, BlankContract
<1>3. ASSUME NEW x, World(x, W), NEW b \in W, NEW c \in ContractOf(W), c.num = NoAddress
      PROVE  World(With(x, b, c), W) /\ Numbered(x, With(x, b, c), S) /\ DOMAIN With(x, b, c) = DOMAIN x \cup {b}
  <2>1. World(With(x, b, c), W) /\ DOMAIN With(x, b, c) = DOMAIN x \cup {b}
    BY <1>3, WithWorld
  <2>2. Numbered(x, With(x, b, c), S)
    BY <1>3, NumbersWith
  <2> QED
    BY <2>1, <2>2
<1>4. CASE new.code \in AppCode
  <2> DEFINE c == WithWords(Blank(new.code), new.ref, new.num, new.lib)
  <2>1. run.world = With(w, a, c)
    BY <1>4 DEF RunCreation, WithWords, Done, AppCode
  <2>2. c.num = new.num
    BY DEF WithWords, Blank
  <2> HIDE DEF c, run
  <2> QED
    BY <2>1, <2>2, NumbersWith DEF run
<1>5. CASE new.code = "uups"
  <2> DEFINE c == Blank("uups")
             x == With(w, a, c)
  <2>1. run = SetImplementation(x, a, new.arg, new.data)
    BY <1>5 DEF RunCreation, AppCode
  <2>2. c \in ContractOf(W) /\ c.num = NoAddress
    BY <1>2 DEF Codes
  <2> HIDE DEF c
  <2>3. World(With(w, a, c), W) /\ Numbered(w, With(w, a, c), S) /\ DOMAIN With(w, a, c) = DOMAIN w \cup {a}
    BY <1>3, <2>2
  <2>4. World(x, W) /\ Numbered(w, x, S) /\ a \in DOMAIN x
    BY <2>3
  <2> HIDE DEF x
  <2>5. Numbered(x, run.world, S)
    BY <1>1, <2>1, <2>4, SlotNumbers
  <2> HIDE DEF run
  <2> QED
    BY <2>4, <2>5, NumbersThen DEF run
<1>6. CASE new.code = "transparent"
  <2> DEFINE c == [Blank("transparent") EXCEPT !.admin = child]
             d == Blank("admin")
             x == With(w, a, c)
             y == With(x, child, d)
             set == SetImplementation(y, a, new.arg, new.data)
  <2>1. run.world = set.world
    <3>1. run = After(set, <<Event(child, "OwnershipTransferred", NoAddress), Event(a, "AdminChanged", child)>>)
      BY <1>6 DEF RunCreation, AppCode, After, Then
    <3>2. \A r, es : r = [ok |-> r.ok, world |-> r.world, events |-> r.events] => After(r, es).world = r.world
      BY DEF After
    <3>3. set = [ok |-> set.ok, world |-> set.world, events |-> set.events]
      BY DEF SetImplementation, Done, Reverted
    <3> HIDE DEF set, run
    <3> QED
      BY <3>1, <3>2, <3>3
  <2>2. c \in ContractOf(W) /\ c.num = NoAddress /\ d \in ContractOf(W) /\ d.num = NoAddress
    BY <1>2, <1>6 DEF Codes
  <2> HIDE DEF c, d
  <2>3. World(With(w, a, c), W) /\ Numbered(w, With(w, a, c), S) /\ DOMAIN With(w, a, c) = DOMAIN w \cup {a}
    BY <1>3, <2>2
  <2>4. World(x, W) /\ Numbered(w, x, S) /\ a \in DOMAIN x
    BY <2>3
  <2> HIDE DEF x
  <2>5. World(With(x, child, d), W) /\ Numbered(x, With(x, child, d), S) /\ DOMAIN With(x, child, d) = DOMAIN x \cup {child}
    BY <1>3, <1>6, <2>2, <2>4
  <2>6. World(y, W) /\ Numbered(x, y, S) /\ a \in DOMAIN y
    BY <2>4, <2>5
  <2> HIDE DEF y
  <2>7. Numbered(y, set.world, S)
    BY <1>1, <2>6, SlotNumbers
  <2> HIDE DEF set, run
  <2>8. Numbered(w, set.world, S)
    BY <2>4, <2>6, <2>7, NumbersThen
  <2> QED
    BY <2>1, <2>8 DEF run
<1>7. CASE new.code = "beacon"
  <2> DEFINE c == [Blank("beacon") EXCEPT !.impl = new.arg]
  <2>1. run.world = w \/ run.world = With(w, a, c)
    BY <1>7 DEF RunCreation, AppCode, Done, Reverted
  <2>2. c.num = NoAddress
    BY <1>1, <1>2 DEF Codes
  <2> HIDE DEF c, run
  <2> QED
    BY <2>1, <2>2, NumbersWith, NumbersKept DEF run
<1>8. CASE new.code = "beaconProxy"
  <2> DEFINE c == [Blank("beaconProxy") EXCEPT !.beacon = new.arg]
             x == With(w, a, c)
             nested == RunNested(x, a, new.data)
  <2>1. run.world = w \/ run.world = nested.world
    <3>1. run = Reverted(w) \/ run = Before(nested, <<Event(a, "BeaconUpgraded", new.arg)>>)
      BY <1>8 DEF RunCreation, AppCode, Before, Then
    <3>2. \A r, es : r = [ok |-> r.ok, world |-> r.world, events |-> r.events] => Before(r, es).world = r.world
      BY DEF Before
    <3>3. nested = [ok |-> nested.ok, world |-> nested.world, events |-> nested.events]
      BY DEF RunNested, RunSetter, Done, Reverted
    <3>4. Reverted(w).world = w
      BY DEF Reverted
    <3> HIDE DEF nested, run
    <3> QED
      BY <3>1, <3>2, <3>3, <3>4
  <2>2. c \in ContractOf(W) /\ c.num = NoAddress
    BY <1>1, <1>2 DEF Codes
  <2> HIDE DEF c
  <2>3. World(With(w, a, c), W) /\ Numbered(w, With(w, a, c), S)
    BY <1>3, <2>2
  <2>4. World(x, W) /\ Numbered(w, x, S)
    BY <2>3
  <2> HIDE DEF x
  <2>5. Numbered(x, nested.world, S)
    BY <1>1, <2>4, NestedNumbered
  <2> HIDE DEF nested, run
  <2>6. Numbered(w, nested.world, S)
    BY <2>4, <2>5, NumbersThen
  <2> QED
    BY <2>1, <2>6, NumbersKept DEF run
<1> QED
  BY <1>1, <1>4, <1>5, <1>6, <1>7, <1>8

LEMMA CallNumbers ==
  ASSUME NEW W, NEW w, World(w, W), NEW a, NEW call \in CallOf(W), NEW S, NestedNumbers(call.data) \subseteq S,
         Logic(w, a) \in AppCode /\ call.sel # "setRef" /\ call.sel \notin Upgrades \cap Declared(Logic(w, a))
           => call.arg \in S
  PROVE  Numbered(w, RunCall(w, a, call).world, S)
<1>1. call.arg \in W /\ call.data \in DataOf(W)
  BY CallForms
<1>2. CASE call.sel \in Upgrades \cap Declared(Logic(w, a))
  <2>1. Numbered(w, RunUpgrade(w, a, call).world, S)
    BY <1>1, UpgradeNumbers
  <2> QED
    BY <1>2, <2>1 DEF RunCall
<1>3. CASE call.sel \notin Upgrades \cap Declared(Logic(w, a))
  <2>1. Numbered(w, RunSetter(w, a, call).world, S)
    BY <1>3, SetterNumbers
  <2> QED
    BY <1>3, <2>1 DEF RunCall
<1> QED
  BY <1>2, <1>3

LEMMA ExecuteNumbers ==
  ASSUME NEW w, NEW tx, NEW a, NEW child, NEW S,
         IF tx.to = NoAddress THEN Numbered(w, RunCreation(w, a, child, tx.new).world, S)
         ELSE Numbered(w, RunCall(w, tx.to, tx.call).world, S)
  PROVE  Numbered(w, Execute(w, tx, a, child).world, S)
<1> DEFINE run == IF tx.to = NoAddress THEN RunCreation(w, a, child, tx.new) ELSE RunCall(w, tx.to, tx.call)
<1>1. Execute(w, tx, a, child) = IF run.ok THEN run ELSE Reverted(w)
  BY DEF Execute
<1>2. Numbered(w, run.world, S)
  OBVIOUS
<1>3. Reverted(w).world = w
  BY DEF Reverted
<1> HIDE DEF run
<1> QED
  BY <1>1, <1>2, <1>3, NumbersKept

\* Another owner changes no number.
LEMMA ForeignNumbers ==
  ASSUME SessionInv, Foreign
  PROVE  Numbered(real, real', {})
<1>1. PICK a \in DOMAIN real, impl \in DOMAIN real :
        /\ real[a].code \in {"uups", "beacon"}
        /\ LET c == [Call("upgradeTo", impl) EXCEPT !.sel =
                       IF "upgradeTo" \in Declared(Logic(real, a)) THEN "upgradeTo" ELSE "upgradeToAndCall"]
           IN  real' = Execute(real, Send(a, c), NoAddress, NoAddress).world
  BY DEF Foreign
<1> DEFINE sel == IF "upgradeTo" \in Declared(Logic(real, a)) THEN "upgradeTo" ELSE "upgradeToAndCall"
           c == [sel |-> sel, proxy |-> NoAddress, arg |-> impl, data |-> <<>>]
<1>2. [Call("upgradeTo", impl) EXCEPT !.sel = sel] = c
  BY DEF Call
<1>3. real' = Execute(real, Send(a, c), NoAddress, NoAddress).world
  BY <1>1, <1>2
<1>4. MapsToOurs /\ Populated(real) /\ NoAddress \in Known
  BY SessionMaps, MapSorts
<1>5. a \in Known /\ impl \in Known /\ a # NoAddress /\ sel \in Upgrades
  BY <1>4, WordSorts DEF Known, Populated, NoAddress, Ours, Upgrades
<1>6. c \in CallOf(Known)
  <2>1. <<>> \in DataOf(Known)
    BY DEF DataOf
  <2> QED
    BY <1>4, <1>5, <2>1 DEF CallOf
<1>7. World(real, Known)
  BY <1>4 DEF Populated, World, Known
<1>8. sel \in Upgrades \cap Declared(Logic(real, a))
  <2>1. CodeAt(real, a) = real[a].code
    BY DEF CodeAt
  <2>2. CASE real[a].code = "beacon"
    <3>1. Logic(real, a) = "beacon"
      BY <1>7, <2>1, <2>2, LogicIsThere
    <3> QED
      BY <1>5, <3>1 DEF Declared
  <2>3. CASE real[a].code = "uups"
    <3>1. Logic(real, a) = CodeAt(real, real[a].impl)
      BY <1>7, <2>1, <2>3, LogicIsThere
    <3>2. Logic(real, a) \in AppCode
      BY <1>4, <2>3, <3>1 DEF Populated, Wired
    <3> QED
      BY <1>5, <3>2 DEF AppCode, Declared
  <2> QED
    BY <1>1, <2>2, <2>3
<1>9. NestedNumbers(c.data) = {}
  BY DEF NestedNumbers
<1>10. c.sel = sel
  OBVIOUS
<1> HIDE DEF c, sel
<1>11. Numbered(real, RunCall(real, a, c).world, {})
  BY <1>6, <1>7, <1>8, <1>9, <1>10, CallNumbers
<1>12. Send(a, c).to = a /\ Send(a, c).call = c
  BY DEF Send
<1> QED
  BY <1>3, <1>5, <1>11, <1>12, ExecuteNumbers

LEMMA RestOfSession ==
  ASSUME [Next]_vars, ~(Resolve \/ Rewrite \/ Mine \/ Receive \/ Publish)
  PROVE  flight' = flight /\ meta' = meta /\ (real' = real \/ Foreign)
<1>1. meta' = meta
  <2>1. BeginOp => meta' = meta
    BY DEF BeginOp
  <2>2. Yield => meta' = meta
    BY DEF Yield
  <2>3. Unsafe => meta' = meta
    BY DEF Unsafe
  <2>4. Plain => meta' = meta
    BY DEF Plain
  <2>5. Library \/ Recompile \/ Foreign \/ UNCHANGED vars => meta' = meta
    BY DEF vars, adapter, Library, Recompile, Foreign
  <2> QED
    BY <2>1, <2>2, <2>3, <2>4, <2>5, Zenon DEF Next
<1> QED
  BY <1>1, ElsewhereNoFlight, ElsewhereNothing

LEMMA ResolveOneAbi ==
  ASSUME Resolve
  PROVE  NumbersInv'
<1>1. \A i : \A x, y \in AbiOf(i) : x = y
  BY DEF AbiOf
<1>2. flight'.stage = "rewrite"
      /\ (flight'.abi = {} \/ \E i : flight'.abi = AbiOf(i))
  BY DEF Resolve, ContextAbi
<1> QED
  BY <1>1, <1>2 DEF NumbersInv, OneAbi, Verbatim

LEMMA RewrittenCall ==
  ASSUME NEW tx, tx.to # NoAddress, NEW abi, NEW sent \in Rewritten(tx, abi)
  PROVE  \E call : /\ sent = [tx EXCEPT !.to = Target(tx), !.call = call]
                   /\ IF tx.to \notin DOMAIN meta THEN call \in RewriteForeign(tx.to, tx.call)
                      ELSE \E code \in abi : call \in RewriteCall(map, meta[tx.to], code, tx.call, AbiOf(tx.call.arg))
<1> DEFINE mapped == {RewriteCall(map, meta[tx.to], code, tx.call, AbiOf(tx.call.arg)) : code \in abi}
           calls == IF tx.to \notin DOMAIN meta THEN RewriteForeign(tx.to, tx.call) ELSE UNION mapped
<1>1. Rewritten(tx, abi) = {[tx EXCEPT !.to = Target(tx), !.call = call] : call \in calls}
  BY DEF Rewritten
<1>2. ASSUME NEW call \in UNION mapped
      PROVE  \E code \in abi : call \in RewriteCall(map, meta[tx.to], code, tx.call, AbiOf(tx.call.arg))
  BY <1>2
<1> HIDE DEF mapped
<1>3. \A call \in calls : IF tx.to \notin DOMAIN meta THEN call \in RewriteForeign(tx.to, tx.call)
                          ELSE \E code \in abi : call \in RewriteCall(map, meta[tx.to], code, tx.call, AbiOf(tx.call.arg))
  BY <1>2
<1> HIDE DEF calls
<1>4. PICK call \in calls : sent = [tx EXCEPT !.to = Target(tx), !.call = call]
  BY <1>1
<1> QED
  BY <1>3, <1>4

LEMMA RewriteVerbatim ==
  ASSUME SessionInv, NumbersInv, Rewrite
  PROVE  NumbersInv'
<1>1. CASE flight' = NoFlight
  BY <1>1 DEF NumbersInv, OneAbi, Verbatim, NoFlight
<1>2. CASE flight' # NoFlight
  <2> DEFINE tx == flight.tx
  <2>1. PICK sent \in Rewritten(tx, flight.abi) : flight' = [flight EXCEPT !.stage = "sent", !.native = sent]
    BY <1>2 DEF Rewrite, Abandon
  <2>2. flight.stage = "rewrite" /\ ~Fresh /\ meta' = meta /\ real' = real
    BY DEF Rewrite, Fresh, chain
  <2>3. tx \in TxOf(Named) /\ flight' = [stage |-> "sent", tx |-> tx, native |-> sent, ok |-> flight.ok,
                                         events |-> flight.events, receipt |-> flight.receipt, abi |-> flight.abi]
    BY <2>1, <2>2, FlightForms
  <2>4. Populated(real) /\ DOMAIN meta = DOMAIN map
    BY SessionMaps DEF SessionInv, MapInv
  <2>5. CASE tx.to = NoAddress
    <3>1. tx = [to |-> NoAddress, new |-> tx.new] /\ tx.new \in NewOf(Named)
      BY <2>3, <2>5 DEF TxOf
    <3>2. PICK new, abi : sent = [tx EXCEPT !.new = new]
            /\ IF tx.new.code \in AppCode THEN new \in RewriteCreation(map, tx.new)
               ELSE new \in RewriteProxyCreation(map, tx.new, abi)
      BY <2>5 DEF Rewritten
    <3>3. sent.new = new
      BY <3>1, <3>2
    <3>4. new.num = tx.new.num /\ SameNumbers(new.data, tx.new.data)
      BY <3>1, <3>2, CreationVerbatim
    <3> HIDE DEF tx
    <3> QED
      BY <2>3, <2>5, <3>3, <3>4 DEF NumbersInv, OneAbi, Verbatim
  <2>6. CASE tx.to # NoAddress
    <3>1. tx = [to |-> tx.to, call |-> tx.call] /\ tx.call \in CallOf(Named)
      BY <2>3, <2>6 DEF TxOf
    <3>2. PICK call : sent = [tx EXCEPT !.to = Target(tx), !.call = call]
            /\ IF tx.to \notin DOMAIN meta THEN call \in RewriteForeign(tx.to, tx.call)
               ELSE \E code \in flight.abi : call \in RewriteCall(map, meta[tx.to], code, tx.call, AbiOf(tx.call.arg))
      BY <2>6, RewrittenCall
    <3>3. sent.call = call /\ sent.to = Target(tx)
      <4> DEFINE one == [tx EXCEPT !.to = Target(tx)]
                 two == [one EXCEPT !.call = call]
      <4>1. one = [to |-> Target(tx), call |-> tx.call]
        BY <3>1
      <4>2. sent = two
        BY <3>2
      <4> HIDE DEF one
      <4> QED
        BY <4>1, <4>2
    <3> HIDE DEF tx
    <3>4. CASE tx.to \notin DOMAIN meta
      <4>1. SameNumbers(call.data, tx.call.data)
            /\ (call.arg # tx.call.arg => \/ tx.call.sel = "upgradeToAndCall"
                                          \/ tx.call.sel # "setNum" /\ CodeAt(real, tx.to) \in {"admin", "oldAdmin", "beacon"})
        BY <2>4, <2>6, <3>1, <3>2, <3>4, ForeignVerbatim
      <4>2. sent.to = tx.to
        BY <2>4, <3>3, <3>4 DEF Target, ToActual
      <4> QED
        BY <2>2, <2>3, <2>6, <3>3, <3>4, <4>1, <4>2 DEF NumbersInv, OneAbi, Verbatim
    <3>5. CASE tx.to \in DOMAIN meta
      <4>1. PICK code \in flight.abi : call \in RewriteCall(map, meta[tx.to], code, tx.call, AbiOf(tx.call.arg))
        BY <3>2, <3>5
      <4>2. SameNumbers(call.data, tx.call.data)
            /\ (call.arg # tx.call.arg => TakesAddresses(tx.call.sel) /\ tx.call.sel \in Declared(code))
        BY <3>1, <4>1, CallVerbatim
      <4>3. \A x \in flight.abi : x = code
        BY <2>2 DEF NumbersInv, OneAbi
      <4>4. TakesAddresses(tx.call.sel) => tx.call.sel # "setNum"
        BY SetterSelectors DEF TakesAddresses
      <4> QED
        BY <2>2, <2>3, <2>6, <3>3, <3>5, <4>2, <4>3, <4>4 DEF NumbersInv, OneAbi, Verbatim
    <3> QED
      BY <3>4, <3>5
  <2> QED
    BY <2>5, <2>6
<1> QED
  BY <1>1, <1>2

LEMMA NumbersInvKept ==
  ASSUME SessionInv, NumbersInv, [Next]_vars
  PROVE  NumbersInv'
<1>1. CASE Resolve
  BY <1>1, ResolveOneAbi
<1>2. CASE Rewrite
  BY <1>2, RewriteVerbatim
<1>3. CASE Mine \/ Receive
  <2>1. ~Fresh
    BY <1>3 DEF Mine, Receive, Fresh
  <2>2. \/ \E ok, es : flight' = [flight EXCEPT !.stage = "mined", !.ok = ok, !.events = es]
        \/ \E es : flight' = [flight EXCEPT !.stage = "received", !.receipt = es]
    BY <1>3 DEF Mine, Receive
  <2>3. flight'.stage \in {"mined", "received"}
    BY <2>1, <2>2, FlightForms
  <2> QED
    BY <2>3 DEF NumbersInv, OneAbi, Verbatim
<1>4. CASE Publish
  <2>1. flight'.stage = "none"
    BY <1>4 DEF Publish, Abandon, NoFlight
  <2> QED
    BY <2>1 DEF NumbersInv, OneAbi, Verbatim
<1>5. CASE ~(Resolve \/ Rewrite \/ Mine \/ Receive \/ Publish)
  <2>1. flight' = flight /\ meta' = meta /\ (real' = real \/ Foreign)
    BY <1>5, RestOfSession
  <2>2. ASSUME NEW b, CodeAt(real, b) \in {"admin", "oldAdmin", "beacon"}
        PROVE  CodeAt(real', b) = CodeAt(real, b)
    <3>1. CASE real' = real
      BY <3>1
    <3>2. CASE Foreign
      <4>1. b \in DOMAIN real
        BY <2>2 DEF CodeAt
      <4>2. Kept(real, real')
        BY <3>2, ForeignDoes
      <4> QED
        BY <4>1, <4>2, KeptCodes DEF CodeAt
    <3> QED
      BY <2>1, <3>1, <3>2
  <2> QED
    BY <2>1, <2>2 DEF NumbersInv, OneAbi, Verbatim
<1> QED
  BY <1>1, <1>2, <1>3, <1>4, <1>5

\* What TRON makes of the numbers of a transaction.
LEMMA MineNumbers ==
  ASSUME SessionInv, NumbersInv, Mine,
         flight.tx.to \in DOMAIN meta => Logic(real, flight.native.to) \in flight.abi
  PROVE  Numbered(real, real', Written(flight.tx))
<1> DEFINE tx == flight.tx
           sent == flight.native
           a == Actual(nonce)
           child == ActualChild(nonce)
           S == Written(tx)
           W == Known \cup {a, child}
<1>1. flight.stage = "sent" /\ ~Fresh
  BY DEF Mine, Fresh
<1>2. sent \in TxOf(Known) /\ TwinTx(sent) = tx /\ tx \in TxOf(Named)
  BY <1>1, FlightForms
<1>3. MapsToOurs /\ Populated(real) /\ NoAddress \in Known
  BY SessionMaps, MapSorts
<1>4. Known \subseteq W /\ a \in W /\ child \in W
  OBVIOUS
<1>5. World(real, W)
  BY <1>3, <1>4 DEF Populated, World, Known, ContractOf
<1>6. real' = Execute(real, sent, a, child).world
  BY DEF Mine, OnTron
<1>7. /\ tx.to = NoAddress <=> sent.to = NoAddress
      /\ sent.to = NoAddress => sent.new \in NewOf(Known) /\ tx.new = TwinNew(sent.new)
      /\ sent.to # NoAddress => sent.to \in Known /\ sent.call \in CallOf(Known) /\ tx.call = TwinCall(sent.call)
  BY <1>2, <1>3, TwinForms
<1>8. Verbatim
  BY DEF NumbersInv
<1> HIDE DEF W, a, child
<1>9. sent \in TxOf(W)
  BY <1>2, <1>4, MoreWords
<1>10. ASSUME NEW data, NEW written, DOMAIN written = DOMAIN data, SameNumbers(data, written),
              \A i \in DOMAIN written : written[i].arg \in S
       PROVE  NestedNumbers(data) \subseteq S
  <2> HIDE DEF S
  <2> QED
    BY <1>10 DEF NestedNumbers, SameNumbers
<1>11. CASE sent.to = NoAddress
  <2>1. sent.new.num = tx.new.num /\ SameNumbers(sent.new.data, tx.new.data)
    BY <1>1, <1>7, <1>8, <1>11 DEF Verbatim
  <2>2. sent.new \in NewOf(W) /\ NoAddress \in W
    BY <1>3, <1>4, <1>9, <1>11 DEF TxOf
  <2>3. tx.new.num \in S /\ \A i \in DOMAIN tx.new.data : tx.new.data[i].arg \in S
    BY <1>7, <1>11 DEF Written
  <2>4. DOMAIN tx.new.data = DOMAIN sent.new.data
    BY <1>7, <1>11 DEF TwinNew, TwinData
  <2>5. NestedNumbers(sent.new.data) \subseteq S
    BY <1>10, <2>1, <2>3, <2>4
  <2> HIDE DEF S, sent, tx
  <2>6. Numbered(real, RunCreation(real, a, child, sent.new).world, S)
    BY <1>4, <1>5, <2>1, <2>2, <2>3, <2>5, CreationNumbers
  <2>7. Numbered(real, Execute(real, sent, a, child).world, S)
    BY <1>11, <2>6, ExecuteNumbers
  <2> QED
    BY <1>6, <2>7 DEF S, tx, sent
<1>12. CASE sent.to # NoAddress
  <2> DEFINE L == Logic(real, sent.to)
             sel == tx.call.sel
  <2>1. /\ SameNumbers(sent.call.data, tx.call.data)
        /\ sent.call.arg # tx.call.arg /\ sel # "setRef" =>
             /\ sel # "setNum"
             /\ IF tx.to \in DOMAIN meta THEN \A code \in flight.abi : sel \in Declared(code)
                ELSE sel = "upgradeToAndCall" \/ CodeAt(real, sent.to) \in {"admin", "oldAdmin", "beacon"}
    BY <1>1, <1>7, <1>8, <1>12 DEF Verbatim
  <2>2. sent.call \in CallOf(W) /\ tx.call \in CallOf(Named)
    BY <1>2, <1>7, <1>9, <1>12 DEF TxOf
  <2>3. tx.call.arg \in S /\ \A i \in DOMAIN tx.call.data : tx.call.data[i].arg \in S
    BY <1>7, <1>12 DEF Written, CallWords
  <2>4. DOMAIN tx.call.data = DOMAIN sent.call.data /\ sel = sent.call.sel
    BY <1>7, <1>12 DEF TwinCall, TwinData
  <2>5. NestedNumbers(sent.call.data) \subseteq S
    BY <1>10, <2>1, <2>3, <2>4
  <2>6. L \in AppCode => "upgradeToAndCall" \in Declared(L) /\ L \notin {"admin", "oldAdmin", "beacon"}
    BY DEF AppCode, Declared
  <2>7. CodeAt(real, sent.to) \in {"admin", "oldAdmin", "beacon"} => L = CodeAt(real, sent.to)
    BY <1>5, LogicIsThere
  <2>8. sel \in Setters \cup Upgrades
    BY <2>2, CallForms
  <2>9. ASSUME L \in AppCode, sel # "setRef", sel \notin Upgrades \cap Declared(L)
        PROVE  sent.call.arg \in S
    <3>1. CASE sent.call.arg = tx.call.arg
      BY <2>3, <3>1
    <3>2. CASE sent.call.arg # tx.call.arg
      <4>1. sel \in Upgrades /\ sel \notin Declared(L)
        BY <2>1, <2>8, <2>9, <3>2 DEF Setters
      <4>2. CASE tx.to \in DOMAIN meta
        BY <2>1, <2>9, <3>2, <4>1, <4>2
      <4>3. CASE tx.to \notin DOMAIN meta
        BY <2>1, <2>6, <2>7, <2>9, <3>2, <4>1, <4>3
      <4> QED
        BY <4>2, <4>3
    <3> QED
      BY <3>1, <3>2
  <2> HIDE DEF S, tx
  <2>10. Numbered(real, RunCall(real, sent.to, sent.call).world, S)
    BY <1>5, <2>2, <2>4, <2>5, <2>9, CallNumbers
  <2> HIDE DEF sent
  <2>11. Numbered(real, Execute(real, sent, a, child).world, S)
    BY <1>12, <2>10, ExecuteNumbers
  <2> QED
    BY <1>6, <2>11 DEF S, tx, sent
<1> QED
  BY <1>11, <1>12

LEMMA NumbersStep ==
  ASSUME SessionInv, NumbersInv, [Next]_vars
  PROVE  [flight.stage = "sent" /\ (flight.tx.to \in DOMAIN meta => Logic(real, flight.native.to) \in flight.abi)
            => \A a \in DOMAIN real' :
                 \/ a \in DOMAIN real /\ real'[a].num = real[a].num
                 \/ real'[a].num \in Written(flight.tx) \cup {NoAddress}]_real
<1> SUFFICES ASSUME real' # real,
                    flight.tx.to \in DOMAIN meta => Logic(real, flight.native.to) \in flight.abi,
                    NEW a \in DOMAIN real'
             PROVE  \/ a \in DOMAIN real /\ real'[a].num = real[a].num
                    \/ real'[a].num \in Written(flight.tx) \cup {NoAddress}
  OBVIOUS
<1>1. Mine \/ Foreign
  BY ElsewhereNothing
<1>2. CASE Mine
  BY <1>2, MineNumbers DEF Numbered
<1>3. CASE Foreign
  BY <1>3, ForeignNumbers DEF Numbered
<1> QED
  BY <1>1, <1>2, <1>3

LEMMA NumbersInitially == Init => NumbersInv
  BY DEF Init, NumbersInv, OneAbi, Verbatim, NoFlight

\* A number is on TRON what it was in the transaction, unless the contract has
\* got another implementation since its ABI was read (handlers.ts,
\* defaultResolveCallContext).
THEOREM NumbersStayVerbatim == Spec => NumbersVerbatim
<1>1. Spec => []SessionInv /\ [][Next]_vars
  BY SessionCorrect, PTL DEF Spec
<1>2. Init => NumbersInv
  BY NumbersInitially
<1>3. SessionInv /\ NumbersInv /\ [Next]_vars => NumbersInv'
  BY NumbersInvKept
<1>4. SessionInv /\ NumbersInv /\ [Next]_vars =>
        [flight.stage = "sent" /\ (flight.tx.to \in DOMAIN meta => Logic(real, flight.native.to) \in flight.abi)
           => \A a \in DOMAIN real' :
                \/ a \in DOMAIN real /\ real'[a].num = real[a].num
                \/ real'[a].num \in Written(flight.tx) \cup {NoAddress}]_real
  BY NumbersStep
<1> QED
  BY <1>1, <1>2, <1>3, <1>4, PTL DEF Spec, NumbersVerbatim

-----------------------------------------------------------------------------
(***************************************************************************)
(* An upgrade that succeeds has upgraded.                                  *)
(***************************************************************************)
\* The view of a script is wired as TRON is.
LEMMA ViewWired ==
  ASSUME NEW w, Populated(w), NEW b \in DOMAIN w
  PROVE  LET v == ViewOf(w)
             p == Twin(b)
             admin == v[p].admin
         IN  /\ p \in DOMAIN v /\ p # NoAddress /\ NoAddress \notin DOMAIN v
             /\ CodeAt(v, p) = w[b].code /\ v[p].code = w[b].code /\ admin = Twin(w[b].admin)
             /\ Logic(v, p) = Logic(w, b)
             /\ IF w[b].code = "transparent"
                  THEN /\ w[b].admin \in DOMAIN w /\ admin \in DOMAIN v
                       /\ CodeAt(v, admin) = CodeAt(w, w[b].admin) /\ CodeAt(v, admin) \in {"admin", "oldAdmin"}
                  ELSE admin = NoAddress
             /\ w[b].code = "uups" => Logic(v, p) \in AppCode
<1> DEFINE v == ViewOf(w)
           W == Neutral \cup DOMAIN w
<1>1. W \subseteq Native /\ DOMAIN w \subseteq W /\ DOMAIN w \subseteq Native
  <2>1. DOMAIN w \subseteq Ours \cup ({"ext"} \X Nat) /\ {"ext"} \X Nat \subseteq Neutral
    BY DEF Populated, Neutral
  <2> QED
    BY <2>1 DEF Native
<1>2. World(w, W) /\ Wired(w)
  BY <1>1 DEF Populated, World
<1> HIDE DEF W
<1>3. DOMAIN v = {Twin(d) : d \in DOMAIN w} /\ \A d \in DOMAIN w : v[Twin(d)] = ViewContract(w[d])
  BY <1>1, ViewOfIs
<1>4. ASSUME NEW d \in DOMAIN w PROVE d \in W /\ CodeAt(v, Twin(d)) = w[d].code /\ Logic(v, Twin(d)) = Logic(w, d)
  <2>1. d \in W /\ CodeAt(w, d) = w[d].code
    BY <1>1 DEF CodeAt
  <2> QED
    BY <1>1, <1>2, <2>1, ViewCode, ViewLogic
<1> HIDE DEF v
<1>5. ASSUME NEW d \in DOMAIN w PROVE Twin(d) # NoAddress
  <2>1. d # NoAddress
    BY DEF Populated, NoAddress, Ours
  <2>2. d \in Native /\ NoAddress \in Native /\ Twin(NoAddress) = NoAddress
    BY <1>1, WordSorts DEF Native
  <2> QED
    BY <2>1, <2>2, TwinOnce
<1>6. v[Twin(b)].code = w[b].code /\ v[Twin(b)].admin = Twin(w[b].admin)
  <2> DEFINE c == w[b]
  <2>1. c \in ContractOf(W) /\ v[Twin(b)] = ViewContract(c)
    BY <1>2, <1>3 DEF World
  <2> HIDE DEF c
  <2>2. ViewContract(c).code = c.code /\ ViewContract(c).admin = Twin(c.admin)
    BY <2>1, ContractForms
  <2> QED
    BY <2>1, <2>2 DEF c
<1>7. CASE w[b].code = "transparent"
  <2>1. CodeAt(w, w[b].admin) \in {"admin", "oldAdmin"}
    BY <1>2, <1>7 DEF Wired
  <2>2. w[b].admin \in DOMAIN w
    BY <2>1 DEF CodeAt
  <2>3. CodeAt(v, Twin(w[b].admin)) = CodeAt(w, w[b].admin) /\ Twin(w[b].admin) \in DOMAIN v
    BY <1>3, <1>4, <2>2 DEF CodeAt
  <2> QED
    BY <1>3, <1>4, <1>5, <1>6, <1>7, <2>1, <2>2, <2>3 DEF v
<1>8. CASE w[b].code # "transparent"
  <2>1. w[b].admin = NoAddress /\ Twin(NoAddress) = NoAddress
    BY <1>2, <1>8, WordSorts DEF Wired
  <2>2. w[b].code = "uups" => Logic(w, b) \in AppCode
    <3>1. CodeAt(w, b) = w[b].code
      BY DEF CodeAt
    <3>2. w[b].code = "uups" => CodeAt(w, w[b].impl) \in AppCode
      BY <1>2 DEF Wired
    <3> QED
      BY <1>2, <3>1, <3>2, LogicIsThere
  <2> QED
    BY <1>3, <1>4, <1>5, <1>6, <1>8, <2>1, <2>2 DEF v
<1> QED
  BY <1>7, <1>8

LEMMA InView ==
  ASSUME NEW w, Populated(w), NEW p \in DOMAIN ViewOf(w)
  PROVE  \E b \in DOMAIN w : p = Twin(b)
  BY DEF ViewOf

\* What an upgrade goes by stays as it is.
LEMMA DispatchStays ==
  ASSUME NEW w, NEW x, Populated(w), Populated(x), Kept(w, x), NEW o, Upgrading(o), Upgradable(ViewOf(w), o)
  PROVE  Upgradable(ViewOf(x), o) /\ DispatchOf(ViewOf(x), o) = DispatchOf(ViewOf(w), o)
<1> DEFINE v == ViewOf(w)
           y == ViewOf(x)
<1>1. PICK b \in DOMAIN w : o.at = Twin(b)
  BY InView DEF Upgradable
<1>2. b \in DOMAIN x /\ x[b].code = w[b].code /\ x[b].admin = w[b].admin
  BY DEF Kept
<1>3. /\ o.at \in DOMAIN v /\ v[o.at].code = w[b].code /\ v[o.at].admin = Twin(w[b].admin)
      /\ w[b].code = "transparent" => w[b].admin \in DOMAIN w /\ CodeAt(v, v[o.at].admin) = CodeAt(w, w[b].admin)
      /\ w[b].code # "transparent" => v[o.at].admin = NoAddress
  BY <1>1, ViewWired
<1>4. /\ o.at \in DOMAIN y /\ y[o.at].code = x[b].code /\ y[o.at].admin = Twin(x[b].admin)
      /\ x[b].code = "transparent" => CodeAt(y, y[o.at].admin) = CodeAt(x, x[b].admin)
      /\ x[b].code # "transparent" => y[o.at].admin = NoAddress
  BY <1>1, <1>2, ViewWired
<1>5. w[b].code = "transparent" => CodeAt(x, w[b].admin) = CodeAt(w, w[b].admin)
  BY <1>3, KeptCodes
<1>6. Upgradable(v, o)
  OBVIOUS
<1> HIDE DEF v, y
<1>7. Upgradable(y, o)
  BY <1>2, <1>3, <1>4, <1>6 DEF Upgradable
<1>8. y[o.at].admin = v[o.at].admin
  BY <1>2, <1>3, <1>4
<1>9. v[o.at].admin = NoAddress \/ CodeAt(y, y[o.at].admin) = CodeAt(v, v[o.at].admin)
  BY <1>2, <1>3, <1>4, <1>5
<1>10. DispatchOf(y, o) = DispatchOf(v, o)
  BY <1>8, <1>9 DEF DispatchOf
<1> QED
  BY <1>7, <1>10 DEF v, y

\* The transaction that was chosen upgrades the proxy, or fails.
LEMMA SlotEffect ==
  ASSUME NEW W, NEW v, World(v, W), NEW at \in DOMAIN v, NEW impl \in W, NEW data \in DataOf(W),
         SetImplementation(v, at, impl, data).ok
  PROVE  SetImplementation(v, at, impl, data).world[at].impl = impl
  BY SlotRuns

LEMMA CallEffect ==
  ASSUME NEW W, NEW v, World(v, W), NEW to, NEW c \in CallOf(W), c.sel \in Upgrades \cap Declared(Logic(v, to)),
         NEW at \in DOMAIN v,
         \/ to = at /\ v[at].code \in {"uups", "beacon"}
         \/ to # at /\ CodeAt(v, to) \in {"admin", "oldAdmin"} /\ c.proxy = at /\ v[at].code = "transparent"
            /\ v[at].admin = to,
         RunCall(v, to, c).ok
  PROVE  RunCall(v, to, c).world[at].impl = c.arg
<1> DEFINE run == RunCall(v, to, c)
<1>1. run = RunUpgrade(v, to, c)
  BY DEF RunCall
<1>2. CodeAt(v, at) = v[at].code /\ c.arg \in W /\ c.data \in DataOf(W)
  BY CallForms DEF CodeAt
<1> HIDE DEF run
<1>3. CASE to = at /\ v[at].code = "beacon"
  <2> DEFINE d == WithImpl(v[at], c.arg)
  <2>1. run = Done(With(v, at, d), <<Event(at, "Upgraded", c.arg)>>) \/ run = Reverted(v)
    BY <1>1, <1>2, <1>3 DEF RunUpgrade, WithImpl
  <2>2. ~Reverted(v).ok
    BY DEF Reverted
  <2>3. d.impl = c.arg
    BY DEF World, ContractOf, WithImpl
  <2> HIDE DEF d
  <2>4. With(v, at, d)[at] = d
    BY DEF With
  <2>5. run.world = With(v, at, d)
    BY <2>1, <2>2 DEF Done, run
  <2> QED
    BY <2>3, <2>4, <2>5 DEF run
<1>4. CASE ~(to = at /\ v[at].code = "beacon")
  <2>1. run = SetImplementation(v, at, c.arg, c.data)
    <3>1. CASE to = at /\ v[at].code = "uups"
      BY <1>1, <1>2, <3>1 DEF RunUpgrade
    <3>2. CASE CodeAt(v, to) \in {"admin", "oldAdmin"} /\ c.proxy = at /\ v[at].code = "transparent" /\ v[at].admin = to
      BY <1>1, <1>2, <3>2 DEF RunUpgrade
    <3> QED
      BY <1>4, <3>1, <3>2
  <2>2. run.ok
    BY DEF run
  <2> QED
    BY <1>2, <2>1, <2>2, SlotEffect DEF run
<1> QED
  BY <1>3, <1>4

\* The transaction of an upgrade, run where it was chosen.
LEMMA DispatchEffect ==
  ASSUME NEW W, NEW v, World(v, W), NEW o, Upgrading(o), Upgradable(v, o), NEW x, NEW y,
         DispatchOf(v, o) \in TxOf(W), o.at # NoAddress, o.saw = Logic(v, o.at),
         IF v[o.at].code = "transparent" THEN CodeAt(v, v[o.at].admin) \in {"admin", "oldAdmin"}
                                              /\ v[o.at].admin # NoAddress
         ELSE v[o.at].admin = NoAddress,
         v[o.at].code = "uups" => Logic(v, o.at) \in AppCode,
         Execute(v, DispatchOf(v, o), x, y).ok
  PROVE  Execute(v, DispatchOf(v, o), x, y).world[o.at].impl = o.impl
<1> DEFINE tx == DispatchOf(v, o)
           p == o.at
<1>1. ASSUME NEW to, NEW c, tx = Send(to, c), to # NoAddress, c.arg = o.impl,
             c.sel \in Upgrades \cap Declared(Logic(v, to)),
             \/ to = p /\ v[p].code \in {"uups", "beacon"}
             \/ to # p /\ CodeAt(v, to) \in {"admin", "oldAdmin"} /\ c.proxy = p /\ v[p].code = "transparent"
                /\ v[p].admin = to
      PROVE  Execute(v, tx, x, y).world[p].impl = o.impl
  <2>1. tx.to = to /\ tx.call = c
    BY <1>1 DEF Send
  <2>2. c \in CallOf(W)
    BY <1>1, <2>1 DEF TxOf
  <2>3. p \in DOMAIN v
    BY DEF Upgradable
  <2>4. Execute(v, tx, x, y) = RunCall(v, to, c) \/ Execute(v, tx, x, y) = Reverted(v)
    BY <1>1, <2>1 DEF Execute
  <2>5. ~Reverted(v).ok
    BY DEF Reverted
  <2>6. Execute(v, tx, x, y).ok
    OBVIOUS
  <2> HIDE DEF tx, p
  <2>7. Execute(v, tx, x, y) = RunCall(v, to, c) /\ RunCall(v, to, c).ok
    BY <2>4, <2>5, <2>6
  <2>8. RunCall(v, to, c).world[p].impl = c.arg
    BY <1>1, <2>2, <2>3, <2>7, CallEffect
  <2> QED
    BY <1>1, <2>7, <2>8
<1> HIDE DEF tx
<1>2. CodeAt(v, p) = v[p].code /\ (v[p].code = "beacon" => Logic(v, p) = "beacon")
  <2>1. CodeAt(v, p) = v[p].code
    BY DEF CodeAt, Upgradable
  <2> QED
    BY <2>1, LogicIsThere
<1>3. CASE o.kind = "upgradeBeacon"
  <2>1. tx = Send(p, Call("upgradeTo", o.impl)) /\ v[p].code = "beacon"
    BY <1>3 DEF tx, DispatchOf, Upgradable
  <2>2. Call("upgradeTo", o.impl).sel = "upgradeTo" /\ Call("upgradeTo", o.impl).arg = o.impl
    BY DEF Call
  <2>3. "upgradeTo" \in Upgrades \cap Declared("beacon")
    BY DEF Upgrades, Declared
  <2> HIDE DEF p
  <2> QED
    BY <1>1, <1>2, <2>1, <2>2, <2>3 DEF tx, p
<1>4. CASE o.kind # "upgradeBeacon" /\ v[p].admin = NoAddress
  <2> DEFINE c == IF IsV5(o.saw) \/ o.data # <<>>
                    THEN [sel |-> "upgradeToAndCall", proxy |-> NoAddress, arg |-> o.impl, data |-> o.data]
                    ELSE [sel |-> "upgradeTo", proxy |-> NoAddress, arg |-> o.impl, data |-> <<>>]
  <2>1. tx = Send(p, c)
    BY <1>4 DEF tx, DispatchOf
  <2>2. v[p].code = "uups" /\ o.saw \in AppCode
    BY <1>4 DEF Upgradable
  <2>3. c.arg = o.impl /\ c.sel \in Upgrades \cap Declared(o.saw)
    BY <2>2 DEF AppCode, Upgrades, Declared, IsV5
  <2> HIDE DEF p, c
  <2> QED
    BY <1>1, <2>1, <2>2, <2>3 DEF tx, p
<1>5. CASE o.kind # "upgradeBeacon" /\ v[p].admin # NoAddress
  <2> DEFINE admin == v[p].admin
             c == IF IsV5(CodeAt(v, admin)) \/ o.data # <<>>
                    THEN [sel |-> "upgradeAndCall", proxy |-> p, arg |-> o.impl, data |-> o.data]
                    ELSE [sel |-> "upgrade", proxy |-> p, arg |-> o.impl, data |-> <<>>]
  <2>1. tx = Send(admin, c)
    BY <1>5 DEF tx, DispatchOf
  <2>2. v[p].code = "transparent" /\ CodeAt(v, admin) \in {"admin", "oldAdmin"} /\ admin # NoAddress
    BY <1>5
  <2>3. admin # p /\ Logic(v, admin) = CodeAt(v, admin)
    <3>1. "transparent" \notin {"admin", "oldAdmin"}
      OBVIOUS
    <3>2. admin # p
      BY <1>2, <2>2, <3>1
    <3> QED
      BY <2>2, <3>2, LogicIsThere
  <2>4. c.arg = o.impl /\ c.proxy = p /\ c.sel \in Upgrades \cap Declared(CodeAt(v, admin))
    BY <2>2 DEF Upgrades, Declared, IsV5, AppCode
  <2> HIDE DEF p, c, admin
  <2> QED
    BY <1>1, <2>1, <2>2, <2>3, <2>4 DEF tx, p, admin
<1> QED
  BY <1>3, <1>4, <1>5 DEF tx

LEMMA WorldOfView ==
  ASSUME SessionInv
  PROVE  World(View, Neutral \cup Twins) /\ Named \subseteq Neutral \cup Twins
<1>1. MapsToOurs /\ Populated(real) /\ Known \subseteq Native /\ DOMAIN map \subseteq Twins
  BY SessionMaps, MapSorts
<1>2. ASSUME NEW u \in Known PROVE Twin(u) \in Neutral \cup Twins
  BY <1>1, WordSorts DEF Native
<1>3. ASSUME NEW b \in DOMAIN real PROVE Twin(b) \in Neutral \cup Twins /\ ViewContract(real[b]) \in ContractOf(Neutral \cup Twins)
  <2>1. b \in Known
    BY DEF Known
  <2> DEFINE c == real[b]
  <2>2. c \in ContractOf(Known)
    BY <1>1, ContractWords
  <2> HIDE DEF c
  <2>3. ViewContract(c) \in ContractOf(Neutral \cup Twins)
    <3>1. /\ c.code \in Codes /\ c.impl \in Known /\ c.admin \in Known /\ c.beacon \in Known
          /\ c.ref \in Known /\ c.num \in Known /\ c.lib \in Known
      BY <2>2, ContractForms
    <3>2. ViewContract(c) = [code |-> c.code, impl |-> Twin(c.impl), admin |-> Twin(c.admin),
                               beacon |-> Twin(c.beacon), ref |-> Twin(c.ref), num |-> Twin(c.num),
                               lib |-> Twin(c.lib)]
      BY DEF ViewContract
    <3> HIDE DEF Codes
    <3> QED
      BY <1>2, <3>1, <3>2 DEF ContractOf
  <2> QED
    BY <1>2, <2>1, <2>3 DEF c
<1>4. DOMAIN View = {Twin(b) : b \in DOMAIN real} /\ \A b \in DOMAIN real : View[Twin(b)] = ViewContract(real[b])
  BY <1>1, ViewIs
<1>5. View = [p \in DOMAIN View |-> View[p]]
  BY DEF View
<1> QED
  BY <1>1, <1>3, <1>4, <1>5 DEF World, Named

LEMMA UpgradeHasEffect ==
  ASSUME SessionInv, UpgradeInv, Mine, UpgradeSucceeds
  PROVE  View'[op.at].impl = op.impl
<1> DEFINE v == View
           tx == flight.tx
<1>1. flight.stage = "sent" /\ ~Fresh /\ tx = script[1] /\ script # <<>> /\ tx \in TxOf(Named)
  BY MineRuns, FlightForms
<1>2. Upgrading(op) /\ tx.to # NoAddress /\ op.saw = Logic(v, op.at) /\ flight'.ok
  BY DEF UpgradeSucceeds, Upgrading
<1>3. Upgradable(v, op) /\ tx = DispatchOf(v, op)
  <2>1. 1 \in DOMAIN script
    BY <1>1 DEF SessionInv, ScriptInv
  <2> QED
    BY <1>1, <1>2, <2>1 DEF UpgradeInv
<1>4. World(v, Neutral \cup Twins) /\ tx \in TxOf(Neutral \cup Twins)
  <2>1. World(v, Neutral \cup Twins) /\ Named \subseteq Neutral \cup Twins
    BY WorldOfView
  <2>2. TxOf(Named) \subseteq TxOf(Neutral \cup Twins)
    BY <2>1, MoreWords
  <2> QED
    BY <1>1, <2>1, <2>2
<1>5. Populated(real) /\ v = ViewOf(real)
  BY ViewIsOfTron DEF SessionInv
<1>6. PICK b \in DOMAIN real : op.at = Twin(b)
  BY <1>3, <1>5, InView DEF Upgradable
<1>7. /\ op.at # NoAddress
      /\ v[op.at].code = real[b].code
      /\ Logic(v, op.at) = Logic(real, b)
      /\ NoAddress \notin DOMAIN v
      /\ IF real[b].code = "transparent"
           THEN v[op.at].admin \in DOMAIN v /\ CodeAt(v, v[op.at].admin) \in {"admin", "oldAdmin"}
           ELSE v[op.at].admin = NoAddress
      /\ real[b].code = "uups" => Logic(v, op.at) \in AppCode
  BY <1>5, <1>6, ViewWired
<1>8. IF v[op.at].code = "transparent" THEN CodeAt(v, v[op.at].admin) \in {"admin", "oldAdmin"}
                                            /\ v[op.at].admin # NoAddress
      ELSE v[op.at].admin = NoAddress
  BY <1>7
<1> DEFINE run == Execute(v, tx, Predicted(nonce), PredictedChild(nonce))
<1>9. View' = run.world /\ run.ok
  BY <1>2, MineRuns
<1> HIDE DEF v, tx, run
<1>10. run.world[op.at].impl = op.impl
  <2>1. Execute(v, DispatchOf(v, op), Predicted(nonce), PredictedChild(nonce)) = run
    BY <1>3 DEF run
  <2>2. DispatchOf(v, op) \in TxOf(Neutral \cup Twins)
    BY <1>3, <1>4
  <2> QED
    BY <1>2, <1>3, <1>4, <1>7, <1>8, <1>9, <2>1, <2>2, DispatchEffect
<1> QED
  BY <1>9, <1>10

-----------------------------------------------------------------------------
(***************************************************************************)
(* The invariant of the upgrades.                                          *)
(***************************************************************************)
LEMMA OpForms ==
  ASSUME NEW W, NEW o \in OpOf(W), NEW i, NEW s
  PROVE  LET q == [o EXCEPT !.impl = i, !.saw = s]
         IN  q.kind = o.kind /\ q.at = o.at /\ q.data = o.data /\ q.impl = i /\ q.saw = s
<1> DEFINE d == [o EXCEPT !.impl = i]
<1>1. o = [kind |-> o.kind, at |-> o.at, data |-> o.data, ref |-> o.ref, num |-> o.num, lib |-> o.lib,
           impl |-> o.impl, saw |-> o.saw]
  BY DEF OpOf
<1>2. d = [kind |-> o.kind, at |-> o.at, data |-> o.data, ref |-> o.ref, num |-> o.num, lib |-> o.lib,
           impl |-> i, saw |-> o.saw]
  BY <1>1
<1> HIDE DEF d
<1>3. [d EXCEPT !.saw = s]
      = [kind |-> o.kind, at |-> o.at, data |-> o.data, ref |-> o.ref, num |-> o.num, lib |-> o.lib,
         impl |-> i, saw |-> s]
  BY <1>2
<1> QED
  BY <1>3 DEF d

\* What a script finds of a proxy that it is shown.
LEMMA SpeaksInView ==
  ASSUME SessionInv, Fresh, NEW p \in DOMAIN View
  PROVE  LET admin == ReadSlot(p, "admin")
         IN  /\ admin = View[p].admin
             /\ SpeaksV5(p) <=> IsV5(Logic(View, p))
             /\ admin # NoAddress => (SpeaksV5(admin) <=> IsV5(CodeAt(View, admin)))
<1>1. MapsToOurs /\ Populated(real) /\ \A a \in DOMAIN real : a \in Ours => Twin(a) \in DOMAIN map
  BY SessionMaps
<1>2. ReadSlot(p, "admin") = View[p].admin
  <2>1. View[p]["admin"] = View[p].admin
    OBVIOUS
  <2> QED
    BY <2>1, InvReadsAgree DEF ReadsAgree
<1>3. PICK b \in DOMAIN real : p = Twin(b)
  BY <1>1, InView, ViewIsOfTron
<1> DEFINE d == real[b].admin
           admin == View[p].admin
<1>4. /\ admin = Twin(d) /\ Logic(View, p) = Logic(real, b)
      /\ admin # NoAddress => d \in DOMAIN real /\ CodeAt(View, admin) = CodeAt(real, d)
                              /\ CodeAt(View, admin) \in {"admin", "oldAdmin"}
  BY <1>1, <1>3, ViewWired, ViewIsOfTron
<1> HIDE DEF d, admin
<1>5. SpeaksV5(p) <=> IsV5(Logic(View, p))
  <2>1. ToActual(map, p) = b
    BY <1>1, <1>3, FoundAgain
  <2> QED
    BY <1>4, <2>1 DEF SpeaksV5
<1>6. ASSUME admin # NoAddress
      PROVE  SpeaksV5(admin) <=> IsV5(CodeAt(View, admin))
  <2>1. ToActual(map, admin) = d
    BY <1>1, <1>4, <1>6, FoundAgain
  <2>2. World(real, Known)
    BY <1>1 DEF Populated, World, Known
  <2>3. Logic(real, d) = CodeAt(real, d)
    BY <1>4, <1>6, <2>2, LogicIsThere
  <2> QED
    BY <1>4, <1>6, <2>1, <2>3 DEF SpeaksV5
<1> QED
  BY <1>2, <1>5, <1>6 DEF admin

\* The transaction of an upgrade is chosen by what is there.
LEMMA UseIsDispatch ==
  ASSUME SessionInv, Fresh, NEW o, NEW q, Upgrading(o), o.at \in DOMAIN View,
         q.kind = o.kind, q.at = o.at, q.data = o.data, q.saw = Logic(View, o.at)
  PROVE  Use(o, q.impl) = <<DispatchOf(View, q)>>
<1>1. CASE o.kind = "upgradeBeacon"
  BY <1>1 DEF Use, DispatchOf
<1>2. CASE o.kind = "upgradeProxy"
  <2> DEFINE p == o.at
             admin == View[p].admin
             impl == q.impl
             data == o.data
             c1 == [sel |-> "upgradeToAndCall", proxy |-> NoAddress, arg |-> impl, data |-> data]
             c2 == [sel |-> "upgradeTo", proxy |-> NoAddress, arg |-> impl, data |-> <<>>]
             c3 == [sel |-> "upgradeAndCall", proxy |-> p, arg |-> impl, data |-> data]
             c4 == [sel |-> "upgrade", proxy |-> p, arg |-> impl, data |-> <<>>]
  <2>1. /\ ReadSlot(p, "admin") = admin
        /\ SpeaksV5(p) <=> IsV5(q.saw)
        /\ admin # NoAddress => (SpeaksV5(admin) <=> IsV5(CodeAt(View, admin)))
    BY SpeaksInView
  <2>2. Use(o, impl) = <<Dispatch(p, impl, data)>>
    BY <1>2 DEF Use
  <2>3. DispatchOf(View, q) =
          IF admin = NoAddress THEN IF IsV5(q.saw) \/ data # <<>> THEN Send(p, c1) ELSE Send(p, c2)
          ELSE IF IsV5(CodeAt(View, admin)) \/ data # <<>> THEN Send(admin, c3) ELSE Send(admin, c4)
    BY <1>2 DEF DispatchOf
  <2>4. DEFINE whole(to) == SpeaksV5(to) \/ data # <<>>
               read == ReadSlot(p, "admin")
  <2>5. /\ read = NoAddress /\ whole(p) => Dispatch(p, impl, data) = Send(p, c1)
        /\ read = NoAddress /\ ~whole(p) => Dispatch(p, impl, data) = Send(p, c2)
        /\ read # NoAddress /\ whole(read) => Dispatch(p, impl, data) = Send(read, c3)
        /\ read # NoAddress /\ ~whole(read) => Dispatch(p, impl, data) = Send(read, c4)
    BY Zenon DEF Dispatch
  <2>6. read = admin
    BY <2>1
  <2> HIDE DEF p, admin, impl, data, c1, c2, c3, c4, read
  <2>7. Dispatch(p, impl, data) = DispatchOf(View, q)
    BY <2>1, <2>3, <2>5, <2>6 DEF read
  <2> QED
    BY <2>2, <2>7 DEF p, impl, data
<1> QED
  BY <1>1, <1>2 DEF Upgrading

LEMMA NotUpgrading == ~Upgrading(NoOp)
  BY DEF Upgrading, NoOp

LEMMA KeptSame == ASSUME NEW w PROVE Kept(w, w)
  BY DEF Kept

\* A step that leaves the script alone.
LEMMA UpgradeStays ==
  ASSUME UpgradeInv, Populated(real), Populated(real'), Kept(real, real'), op' = op, script' = script,
         pc' = "idle" => pc = "idle"
  PROVE  UpgradeInv'
<1>1. View = ViewOf(real) /\ View' = ViewOf(real')
  BY ViewIsOfTron
<1>2. ASSUME Upgrading(op)
      PROVE  Upgradable(View', op) /\ DispatchOf(View', op) = DispatchOf(View, op)
  <2>1. Upgradable(ViewOf(real), op)
    BY <1>1, <1>2 DEF UpgradeInv
  <2>2. Upgradable(ViewOf(real'), op) /\ DispatchOf(ViewOf(real'), op) = DispatchOf(ViewOf(real), op)
    BY <1>2, <2>1, DispatchStays
  <2> QED
    BY <1>1, <2>2
<1>3. Upgradable(View, op)' <=> Upgradable(View', op')
  BY DEF Upgradable
<1>4. DispatchOf(View, op)' = DispatchOf(View', op')
  BY DEF DispatchOf
<1>5. Upgrading(op)' <=> Upgrading(op)
  BY DEF Upgrading
<1> QED
  BY <1>2, <1>3, <1>4, <1>5 DEF UpgradeInv

LEMMA UpgradeOver ==
  ASSUME op' = NoOp
  PROVE  UpgradeInv'
  BY NotUpgrading DEF UpgradeInv, Upgrading

\* One that leaves the chain alone.
LEMMA UpgradeSet ==
  ASSUME real' = real, pc' # "idle" \/ script' # <<>>,
         Upgrading(op') => /\ Upgradable(View, op')
                           /\ \A i \in DOMAIN script' : script'[i].to # NoAddress => script'[i] = DispatchOf(View, op')
  PROVE  UpgradeInv'
<1>1. View' = View
  BY DEF View
<1>2. /\ Upgradable(View, op)' <=> Upgradable(View, op')
      /\ DispatchOf(View, op)' = DispatchOf(View, op')
      /\ Upgrading(op)' <=> Upgrading(op')
  BY <1>1 DEF Upgradable, DispatchOf, Upgrading
<1> QED
  BY <1>2 DEF UpgradeInv

LEMMA OpsUpgradable ==
  ASSUME NEW o \in {Op("validate", NoAddress, <<>>)} \cup UpgradesOfProxies \cup UpgradesOfBeacons
                     \cup Deployments \cup Implementations,
         Upgrading(o)
  PROVE  Upgradable(View, o)
<1>1. CASE o \in UpgradesOfProxies
  <2>1. PICK p \in Contracts({"uups", "transparent"}), data \in Nested : o = Op("upgradeProxy", p, data)
    BY <1>1 DEF UpgradesOfProxies
  <2>2. o.kind = "upgradeProxy" /\ o.at = p
    BY <2>1 DEF Op
  <2> QED
    BY <2>1, <2>2 DEF Upgradable, Contracts
<1>2. CASE o \in UpgradesOfBeacons
  <2>1. PICK p \in Contracts({"beacon"}) : o = Op("upgradeBeacon", p, <<>>)
    BY <1>2 DEF UpgradesOfBeacons
  <2>2. o.kind = "upgradeBeacon" /\ o.at = p
    BY <2>1 DEF Op
  <2> QED
    BY <2>1, <2>2 DEF Upgradable, Contracts
<1>3. CASE o \in Deployments
  <2>1. o.kind \in {"uups", "transparent", "beacon"}
    BY <1>3 DEF Deployments, Op
  <2> QED
    BY <2>1 DEF Upgrading
<1>4. CASE o \in Implementations
  <2>1. PICK x, y : o = [Op("implementation", NoAddress, <<>>) EXCEPT !.ref = x, !.num = y]
    BY <1>4 DEF Implementations
  <2>2. o.kind = "implementation"
    BY <2>1 DEF Op
  <2> QED
    BY <2>2 DEF Upgrading
<1>5. CASE o = Op("validate", NoAddress, <<>>)
  BY <1>5 DEF Upgrading, Op
<1> QED
  BY <1>1, <1>2, <1>3, <1>4, <1>5

LEMMA BeginOpUpgrades ==
  ASSUME SessionInv, BeginOp
  PROVE  UpgradeInv'
<1>1. Idle /\ Fresh /\ NoAddress \in Named
  BY IdleIsFresh, SessionMaps, MapSorts DEF BeginOp
<1>2. PICK j \in Jobs :
        /\ Begin(j)
        /\ \E lib \in IF j.libs = "given" THEN Contracts(AppCode) ELSE {NoAddress},
              o \in IF j.op = "validate" THEN {Op("validate", NoAddress, <<>>)}
                    ELSE IF j.upgrade THEN UpgradesOfProxies \cup UpgradesOfBeacons
                    ELSE Deployments \cup Implementations :
             op' = [o EXCEPT !.lib = lib]
  BY DEF BeginOp
<1>3. PICK lib \in Contracts(AppCode) \cup {NoAddress},
           o \in {Op("validate", NoAddress, <<>>)} \cup UpgradesOfProxies \cup UpgradesOfBeacons
                   \cup Deployments \cup Implementations :
        op' = [o EXCEPT !.lib = lib]
  BY <1>2
<1>4. pc' # "idle"
  BY <1>2 DEF Begin, Goto
<1>5. real' = real /\ script' = <<>>
  BY <1>1 DEF BeginOp, chain, Idle
<1>6. op'.kind = o.kind /\ op'.at = o.at
  <2>1. o \in OpOf(Named)
    BY <1>1, FreshOps
  <2>2. o = [kind |-> o.kind, at |-> o.at, data |-> o.data, ref |-> o.ref, num |-> o.num, lib |-> o.lib,
             impl |-> o.impl, saw |-> o.saw]
    BY <2>1 DEF OpOf
  <2> QED
    BY <1>3, <2>2
<1>7. Upgrading(op') => Upgradable(View, op')
  <2>1. Upgrading(o) => Upgradable(View, o)
    BY OpsUpgradable
  <2> QED
    BY <1>6, <2>1 DEF Upgrading, Upgradable
<1> QED
  BY <1>4, <1>5, <1>7, UpgradeSet

LEMMA YieldUpgrades ==
  ASSUME SessionInv, UpgradeInv, Yield
  PROVE  UpgradeInv'
<1>1. real' = real /\ pc # "idle"
  BY DEF Yield, Return, chain
<1>2. Fresh /\ script = <<>>
  BY <1>1, FreshIsNoFlight
<1>3. CASE pc # "deployed"
  BY <1>3, UpgradeOver DEF Yield
<1>4. CASE pc = "deployed"
  <2> DEFINE t == Create(App(deployed, op.ref, op.num, op.lib))
             u == Use(op, Predicted(nonce))
  <2>1. script' = <<t>> \o u /\ op' = [op EXCEPT !.impl = Predicted(nonce), !.saw = Logic(View, op.at)]
    BY <1>4 DEF Yield
  <2>2. op \in OpOf(Named) /\ AtView(op)
    BY <1>1 DEF SessionInv, CallInv, AtView
  <2>3. /\ op'.kind = op.kind /\ op'.at = op.at /\ op'.data = op.data /\ op'.impl = Predicted(nonce)
        /\ op'.saw = Logic(View, op.at)
    BY <2>1, <2>2, OpForms
  <2>4. t.to = NoAddress
    BY DEF Create
  <2>5. u = <<>> \/ OneTx(u, Named \cup {Predicted(nonce)})
    <3>1. Named \subseteq Named \cup {Predicted(nonce)} /\ Predicted(nonce) \in Named \cup {Predicted(nonce)}
      OBVIOUS
    <3> QED
      BY <1>2, <2>2, <3>1, UseForms
  <2> HIDE DEF t
  <2>6. script' # <<>>
    <3> HIDE DEF u
    <3>1. u = <<>> \/ u = <<u[1]>>
      BY <2>5 DEF OneTx
    <3> QED
      BY <2>1, <3>1, TwoParts
  <2>7. ASSUME Upgrading(op')
        PROVE  /\ Upgradable(View, op')
               /\ \A i \in DOMAIN script' : script'[i].to # NoAddress => script'[i] = DispatchOf(View, op')
    <3>1. Upgrading(op)
      BY <2>3, <2>7 DEF Upgrading
    <3>2. Upgradable(View, op')
      <4>1. Upgradable(View, op)
        BY <3>1 DEF UpgradeInv
      <4> QED
        BY <2>3, <4>1 DEF Upgradable
    <3>3. op.at \in DOMAIN View
      BY <3>1 DEF UpgradeInv, Upgradable
    <3>4. u = <<DispatchOf(View, op')>>
      BY <1>2, <2>3, <3>1, <3>3, UseIsDispatch
    <3> HIDE DEF u
    <3>5. script' = <<t, DispatchOf(View, op')>>
      BY <2>1, <3>4, TwoItems
    <3>6. ASSUME NEW i \in DOMAIN script', script'[i].to # NoAddress
          PROVE  script'[i] = DispatchOf(View, op')
      <4>1. i = 1 \/ i = 2
        BY <3>5
      <4>2. script'[1] = t /\ script'[2] = DispatchOf(View, op')
        BY <3>5
      <4> QED
        BY <2>4, <3>6, <4>1, <4>2
    <3> QED
      BY <3>2, <3>6
  <2> QED
    BY <1>1, <2>6, <2>7, UpgradeSet
<1> QED
  BY <1>3, <1>4

LEMMA UnsafeUpgrades ==
  ASSUME SessionInv, Unsafe
  PROVE  UpgradeInv'
<1>1. Idle /\ Fresh /\ NoAddress \in Named /\ real' = real
  BY IdleIsFresh, SessionMaps, MapSorts DEF Unsafe, chain
<1>2. PICK o \in Deployments \cup UpgradesOfProxies \cup UpgradesOfBeacons, impl \in Contracts(AppCode) :
        op' = [o EXCEPT !.impl = impl, !.saw = Logic(View, o.at)] /\ script' = Use(o, impl)
  BY DEF Unsafe
<1>3. o \in OpOf(Named) /\ AtView(o)
  BY <1>1, FreshOps
<1>4. /\ op'.kind = o.kind /\ op'.at = o.at /\ op'.data = o.data /\ op'.impl = impl
      /\ op'.saw = Logic(View, o.at)
  BY <1>2, <1>3, OpForms
<1>5. o.kind \in {"uups", "transparent", "beacon", "upgradeProxy", "upgradeBeacon"}
  BY DEF Deployments, UpgradesOfProxies, UpgradesOfBeacons, Op
<1>6. script' # <<>>
  <2>1. \E x : Use(o, impl) = <<x>>
    BY <1>5 DEF Use
  <2> QED
    BY <1>2, <2>1
<1>7. ASSUME Upgrading(op')
      PROVE  /\ Upgradable(View, op')
             /\ \A i \in DOMAIN script' : script'[i].to # NoAddress => script'[i] = DispatchOf(View, op')
  <2>1. Upgrading(o)
    BY <1>4, <1>7 DEF Upgrading
  <2>2. Upgradable(View, o)
    BY <2>1, OpsUpgradable
  <2>3. Upgradable(View, op')
    BY <1>4, <2>2 DEF Upgradable
  <2>4. o.at \in DOMAIN View
    BY <2>2 DEF Upgradable
  <2>5. script' = <<DispatchOf(View, op')>>
    <3>1. Use(o, op'.impl) = <<DispatchOf(View, op')>>
      BY <1>1, <1>4, <2>1, <2>4, UseIsDispatch
    <3> QED
      BY <1>2, <1>4, <3>1
  <2>6. ASSUME NEW i \in DOMAIN script' PROVE script'[i] = DispatchOf(View, op')
    BY <2>5
  <2> QED
    BY <2>3, <2>6
<1> QED
  BY <1>1, <1>6, <1>7, UpgradeSet

LEMMA PlainUpgrades ==
  ASSUME SessionInv, UpgradeInv, Plain
  PROVE  UpgradeInv'
<1>1. op' = op /\ op = NoOp
  BY DEF Plain, Idle, UpgradeInv
<1> QED
  BY <1>1, UpgradeOver

LEMMA PublishUpgrades ==
  ASSUME SessionInv, UpgradeInv, Publish
  PROVE  UpgradeInv'
<1>1. real' = real /\ flight.stage = "received" /\ ~Fresh
  BY DEF Publish, chain, Fresh
<1>2. CASE ~flight.ok
  BY <1>2, UpgradeOver DEF Publish, Abandon
<1>3. CASE flight.ok
  <2>1. script' = Tail(script) /\ op' = IF script' = <<>> THEN NoOp ELSE op
    BY <1>3 DEF Publish
  <2>2. CASE script' = <<>>
    BY <2>1, <2>2, UpgradeOver
  <2>3. CASE script' # <<>>
    <3>1. op' = op
      BY <2>1, <2>3
    <3>2. script # <<>>
      BY <1>1, FlightForms
    <3>3. script = <<script[1], script[2]>>
      <4>1. ASSUME script = <<script[1]>> PROVE FALSE
        <5>1. Tail(<<script[1]>>) = <<>>
          OBVIOUS
        <5> QED
          BY <2>1, <2>3, <4>1, <5>1
      <4> QED
        BY <3>2, <4>1 DEF SessionInv, ScriptInv
    <3>4. script' = <<script[2]>>
      BY <2>1, <3>3, TailOfTwo
    <3>5. 2 \in DOMAIN script
      BY <3>3
    <3>6. Upgrading(op') => /\ Upgradable(View, op')
                           /\ \A i \in DOMAIN script' : script'[i].to # NoAddress => script'[i] = DispatchOf(View, op')
      <4>1. ASSUME NEW i \in DOMAIN script' PROVE script'[i] = script[2]
        BY <3>4
      <4> QED
        BY <3>1, <3>5, <4>1 DEF UpgradeInv
    <3> QED
      BY <1>1, <2>3, <3>6, UpgradeSet
  <2> QED
    BY <2>2, <2>3
<1> QED
  BY <1>2, <1>3

LEMMA RewriteUpgrades ==
  ASSUME SessionInv, UpgradeInv, Rewrite
  PROVE  UpgradeInv'
<1>1. real' = real /\ pc' = pc /\ Populated(real) /\ Populated(real')
  BY DEF Rewrite, chain, libVars, callVars, SessionInv
<1>2. CASE op' = op /\ script' = script
  BY <1>1, <1>2, KeptSame, UpgradeStays
<1>3. CASE op' = NoOp
  BY <1>3, UpgradeOver
<1> QED
  BY <1>2, <1>3 DEF Rewrite, Abandon

LEMMA QuietUpgrades ==
  ASSUME SessionInv, UpgradeInv, Library \/ Recompile \/ Resolve \/ Receive \/ UNCHANGED vars
  PROVE  UpgradeInv'
<1>1. real' = real /\ op' = op /\ script' = script
  <2>1. Library \/ Recompile => real' = real /\ op' = op /\ script' = script
    BY DEF Library, Recompile, adapter, chain
  <2>2. Resolve \/ Receive \/ UNCHANGED vars => real' = real /\ op' = op /\ script' = script
    BY DEF Resolve, Receive, vars, adapter, chain
  <2> QED
    BY <2>1, <2>2
<1>2. pc' = "idle" => pc = "idle"
  <2>1. Library => pc' # "idle"
    BY DEF Library, LibStep, ReadArtifact, MatchBuildInfo, Validate, Classify, LookUp, Deploy, Goto, Fail
  <2>2. Recompile => pc' = pc
    BY DEF Recompile, Compile, WriteArtifact, WriteInfos, Touch, callVars
  <2>3. Resolve \/ Receive \/ UNCHANGED vars => pc' = pc
    BY DEF Resolve, Receive, vars, libVars, callVars
  <2> QED
    BY <2>1, <2>2, <2>3
<1>3. Populated(real) /\ Populated(real')
  BY <1>1 DEF SessionInv
<1> QED
  BY <1>1, <1>2, <1>3, KeptSame, UpgradeStays

LEMMA TransactedUpgrades ==
  ASSUME SessionInv, UpgradeInv, Mine \/ Foreign
  PROVE  UpgradeInv'
<1>1. Kept(real, real')
  BY MineDoes, ForeignDoes
<1>2. Populated(real) /\ Populated(real')
  BY MineKeeps, ForeignKeeps DEF SessionInv
<1>3. op' = op /\ script' = script /\ pc' = pc
  <2>1. Mine => op' = op /\ script' = script /\ pc' = pc
    BY DEF Mine, libVars, callVars
  <2>2. Foreign => op' = op /\ script' = script /\ pc' = pc
    BY DEF Foreign, libVars, callVars, adapter
  <2> QED
    BY <2>1, <2>2
<1> QED
  BY <1>1, <1>2, <1>3, UpgradeStays

LEMMA UpgradesKept ==
  ASSUME SessionInv, UpgradeInv, [Next]_vars
  PROVE  UpgradeInv'
  BY BeginOpUpgrades, YieldUpgrades, UnsafeUpgrades, PlainUpgrades, PublishUpgrades, RewriteUpgrades,
     QuietUpgrades, TransactedUpgrades DEF Next

LEMMA UpgradesInitially == Init => UpgradeInv
  BY NotUpgrading DEF Init, UpgradeInv

LEMMA UpgradeSteps ==
  ASSUME SessionInv, UpgradeInv, [Next]_vars
  PROVE  [UpgradeSucceeds => View'[op.at].impl = op.impl]_flight
<1>1. CASE Mine
  BY <1>1, UpgradeHasEffect
<1>2. CASE ~Mine /\ flight' # flight
  <2>1. Resolve \/ Rewrite \/ Receive \/ Publish
    BY <1>2, ElsewhereNoFlight
  <2>2. UpgradeSucceeds => FALSE
    <3>1. UpgradeSucceeds => flight.stage = "sent"
      BY DEF UpgradeSucceeds
    <3>2. ~(flight.stage = "sent" /\ (Resolve \/ Rewrite \/ Receive \/ Publish))
      BY DEF Resolve, Rewrite, Receive, Publish
    <3> QED
      BY <2>1, <3>1, <3>2
  <2> QED
    BY <2>2
<1> QED
  BY <1>1, <1>2

\* An upgrade by the library that succeeds has upgraded: what the library asks
\* the proxy and its admin for is what is there when the transaction runs, and
\* the function it chose by that is one that they have (Core.sol,
\* upgradeProxyTo).
THEOREM UpgradesTakeEffect == Spec => UpgradeTakesEffect
<1>1. Spec => []SessionInv /\ [][Next]_vars
  BY SessionCorrect, PTL DEF Spec
<1>2. Init => UpgradeInv
  BY UpgradesInitially
<1>3. SessionInv /\ UpgradeInv /\ [Next]_vars => UpgradeInv'
  BY UpgradesKept
<1>4. SessionInv /\ UpgradeInv /\ [Next]_vars => [UpgradeSucceeds => View'[op.at].impl = op.impl]_flight
  BY UpgradeSteps
<1> QED
  BY <1>1, <1>2, <1>3, <1>4, PTL DEF Spec, UpgradeTakesEffect
=============================================================================
