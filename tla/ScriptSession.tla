--------------------------- MODULE ScriptSession ---------------------------
(***************************************************************************)
(* Scripts that run against the adapter, one after the other.  A script    *)
(* calls the library, which validates an implementation, reads proxies     *)
(* through the adapter and yields transactions.  The adapter resolves and  *)
(* rewrites each (rpc-src/handlers.ts), sends it, and publishes its        *)
(* mappings when the receipt is there; the queue, which Gateway models,    *)
(* holds the next one back until then.  Meanwhile the project may be       *)
(* compiled anew and other owners may upgrade their contracts.             *)
(***************************************************************************)
EXTENDS UpgradeLibrary, AddressRewriting

CONSTANTS
  Existing,     \* what may be there at the start: contracts, the mappings of those
                \* that are adopted, and how far the bounds are used up
  Payloads,     \* the calls that scripts make and pass on
  Arguments,    \* the words that constructors take
  MaxNonce,     \* how many transactions are sent
  MaxForeign    \* how often another owner upgrades a contract

VARIABLES
  op,       \* what the script does
  script,   \* its transactions that are not sent yet
  flight,   \* the transaction under way
  nonce,    \* the nonces that are used
  map,      \* the confirmed mappings, from predicted addresses
  meta,     \* the artifact recorded for a predicted address
  snaps,    \* the builds of which there is an artifact snapshot
  real,     \* the contracts of TRON by their actual addresses
  last,     \* history: the last transaction that was executed
  events,   \* history: its events, as TRON reports them
  foreign   \* how often another owner has acted

adapter == <<op, script, flight, nonce, map, meta, snaps>>
chain == <<real, last, events, foreign>>
vars == <<libVars, adapter, chain>>

Predicted(n) == <<"eth", n>>
PredictedChild(n) == <<"ethChild", n>>
Actual(n) == <<"tron", n>>
ActualChild(n) == <<"tronChild", n>>

NoFlight == [stage |-> "none"]

NoOp == [kind |-> "none"]

-----------------------------------------------------------------------------
(***************************************************************************)
(* The view of a script: the world with every address of TRON renamed.     *)
(***************************************************************************)
Twin(word) ==
  CASE word[1] = "tron" -> <<"eth", word[2]>>
    [] word[1] = "tronChild" -> <<"ethChild", word[2]>>
    [] OTHER -> word

\* The words that are the same in a script and on TRON, those of contracts with
\* a mapping as they are on TRON, and as a script knows them.
Neutral == {"zero", "num", "ext"} \X Nat
Ours == {"tron", "tronChild"} \X Nat
Twins == {"eth", "ethChild"} \X Nat

ViewContract(c) ==
  [code |-> c.code, impl |-> Twin(c.impl), admin |-> Twin(c.admin), beacon |-> Twin(c.beacon),
   ref |-> Twin(c.ref), num |-> Twin(c.num), lib |-> Twin(c.lib)]

ViewEvents(es) == [i \in DOMAIN es |-> [es[i] EXCEPT !.emitter = Twin(@), !.word = Twin(@)]]

View ==
  [a \in {Twin(b) : b \in DOMAIN real} |->
     ViewContract(real[CHOOSE b \in DOMAIN real : Twin(b) = a])]

-----------------------------------------------------------------------------
(***************************************************************************)
(* What may be there at the start.                                         *)
(***************************************************************************)
Codes == AppCode \cup {"uups", "transparent", "beaconProxy", "beacon", "admin", "oldAdmin"}

ContractOf(W) == [code : Codes, impl : W, admin : W, beacon : W, ref : W, num : W, lib : W]

\* Proxies and beacons are as their constructors and upgrades leave them.
Wired(world) ==
  \A a \in DOMAIN world :
    /\ world[a].code \in {"uups", "transparent", "beacon"} => CodeAt(world, world[a].impl) \in AppCode
    /\ IF world[a].code = "transparent" THEN CodeAt(world, world[a].admin) \in {"admin", "oldAdmin"}
       ELSE world[a].admin = NoAddress

\* The words on TRON are neutral or name a contract there.
Populated(world) ==
  /\ DOMAIN world \subseteq Ours \cup ({"ext"} \X Nat)
  /\ world \in [DOMAIN world -> ContractOf(Neutral \cup DOMAIN world)]
  /\ Wired(world)

\* The contracts with a mapping are those that were adopted or deployed by the
\* adapter: they are ours.
Mapped(world, known) ==
  /\ \A p \in DOMAIN known : known[p] \in Ours /\ known[p] \in DOMAIN world /\ Twin(known[p]) = p
  /\ \A a \in DOMAIN world : a \in Ours => Twin(a) \in DOMAIN known

\* No transaction that is still to come has its contract already.
Vacant(world, next) ==
  \A n \in next..MaxNonce : n < MaxNonce =>
    Actual(n) \notin DOMAIN world /\ ActualChild(n) \notin DOMAIN world

ASSUME ExistingAssumption ==
  /\ MaxNonce \in Nat
  /\ \A there \in Existing :
       /\ there.nonce \in Nat
       /\ Populated(there.real) /\ Mapped(there.real, there.map) /\ Vacant(there.real, there.nonce)

\* A script calls setters and knows contracts by their predicted addresses.
ASSUME ScriptAssumption ==
  /\ Builds \subseteq AppCode
  /\ Arguments \subseteq Neutral \cup Twins
  /\ \A c \in Payloads :
       c = Call(c.sel, c.arg) /\ c.sel \in {"setRef", "setNum"} /\ c.arg \in Neutral \cup Twins

-----------------------------------------------------------------------------
(***************************************************************************)
(* Reads of the adapter.                                                   *)
(***************************************************************************)
\* Mutant: a slot is answered as the node answers it.
ReadSlotRaw(p, slot) == real[ToActual(map, p)][slot]

\* eth_getStorageAt of a TRC-1967 slot.
ReadSlot(p, slot) == ToPredicted(map, real[ToActual(map, p)][slot])

\* The ABI of an application contract comes from the artifact directory only
\* while that holds the build that was deployed, otherwise from a snapshot.
ArtifactAtHand(b) == Intact(b) \/ b \in snaps

\* Mutant: whatever the directory holds is taken for the deployed build.
AbiOfDisk(a) ==
  LET p == ToPredicted(map, a) IN
  IF p \notin DOMAIN meta THEN {}
  ELSE IF meta[p] \notin AppCode THEN {meta[p]}
  ELSE {artifact} \ {None}

\* resolveArtifact: by a predicted or an actual address.
AbiOf(a) ==
  LET p == ToPredicted(map, a) IN
  IF p \notin DOMAIN meta THEN {}
  ELSE IF meta[p] \notin AppCode \/ ArtifactAtHand(meta[p]) THEN {meta[p]} ELSE {}

\* resolveCallContext: the ABI that a call to t is decoded with.
ContextAbi(t) == AbiOf(ImplementationOf(real, ToActual(map, t)))

-----------------------------------------------------------------------------
(***************************************************************************)
(* An upgrade of a contract that the adapter knows nothing of.             *)
(***************************************************************************)
\* The live state of the target must be that of what the selector upgrades.
TopologyFits(t, c) ==
  CASE c.sel = "upgradeToAndCall" -> CodeAt(real, t) # "none" /\ real[t].impl # NoAddress
    [] c.sel = "upgradeTo" -> CodeAt(real, t) = "beacon"
    [] c.sel = "upgradeAndCall" ->
         LET proxy == ToActual(map, c.proxy) IN CodeAt(real, proxy) # "none" /\ real[proxy].admin = t
    [] OTHER -> FALSE

\* Only a mapped implementation whose artifact is at hand is replaced, and
\* nothing else; what results is scanned like any other bytes.
RewriteForeign(t, c) ==
  Opaque(map, IF c.arg \in DOMAIN map /\ AbiOf(c.arg) # {} /\ TopologyFits(t, c)
              THEN [c EXCEPT !.arg = map[c.arg]] ELSE c)

-----------------------------------------------------------------------------
(***************************************************************************)
(* One transaction: what the adapter sends in its place.                   *)
(***************************************************************************)
\* matchDeploymentArtifact: the creation code is that of a whole artifact.
\* Proxies and beacons come from a package that is not compiled anew.
Matched(new) == new.code \in AppCode => Intact(new.code)

\* Mutant: the target of a call is not rewritten.
TargetPredicted(tx) == tx.to

Target(tx) == ToActual(map, tx.to)

Rewritten(tx, abi) ==
  IF tx.to = NoAddress
    THEN {[tx EXCEPT !.new = new] : new \in
            IF ~Matched(tx.new) THEN {}
            ELSE IF tx.new.code \in AppCode THEN RewriteCreation(map, tx.new)
            ELSE RewriteProxyCreation(map, tx.new,
                   IF tx.new.code # "beaconProxy" THEN AbiOf(tx.new.arg)
                   ELSE AbiOf(ImplementationOf(real, ToActual(map, tx.new.arg))))}
    ELSE {[tx EXCEPT !.to = Target(tx), !.call = call] : call \in
            IF tx.to \notin DOMAIN meta THEN RewriteForeign(tx.to, tx.call)
            ELSE UNION {RewriteCall(map, meta[tx.to], code, tx.call, AbiOf(tx.call.arg)) : code \in abi}}

OnTron(tx) == Execute(real, tx, Actual(nonce), ActualChild(nonce))

\* Forge gives a script up when one of its transactions fails.
Abandon ==
  /\ script' = <<>>
  /\ flight' = NoFlight
  /\ op' = NoOp

\* The call context is read from the chain before anything is rewritten.
Resolve ==
  /\ flight.stage = "none" /\ script # <<>>
  /\ nonce < MaxNonce
  /\ LET tx == Head(script) IN
       flight' = [stage |-> "rewrite", tx |-> tx, native |-> tx, ok |-> FALSE, events |-> <<>>, receipt |-> <<>>,
                  abi |-> IF tx.to \in DOMAIN meta THEN ContextAbi(tx.to) ELSE {}]
  /\ UNCHANGED <<libVars, op, script, nonce, map, meta, snaps, chain>>

\* It is rewritten, simulated as it will be signed, and journalled.
Rewrite ==
  /\ flight.stage = "rewrite"
  /\ LET sent == {tx \in Rewritten(flight.tx, flight.abi) : OnTron(tx).ok} IN
     \/ /\ \E tx \in sent : flight' = [flight EXCEPT !.stage = "sent", !.native = tx]
        /\ UNCHANGED <<op, script>>
     \/ /\ sent = {}
        /\ Abandon
  /\ UNCHANGED <<libVars, nonce, map, meta, snaps, chain>>

\* TRON executes it.
Mine ==
  /\ flight.stage = "sent"
  /\ LET run == OnTron(flight.native) IN
       /\ real' = run.world
       /\ events' = run.events
       /\ flight' = [flight EXCEPT !.stage = "mined", !.ok = run.ok, !.events = run.events]
  /\ last' = [who |-> "script", tx |-> flight.tx]
  /\ nonce' = nonce + 1
  /\ UNCHANGED <<libVars, op, script, map, meta, snaps, foreign>>

\* The receipt is translated by the mappings that are published already and
\* by the transaction's own.
Receive ==
  /\ flight.stage = "mined"
  /\ LET known == IF flight.tx.to # NoAddress THEN map
                   ELSE ReceiptMap(map, Predicted(nonce - 1), Actual(nonce - 1)) IN
       flight' = [flight EXCEPT !.stage = "received", !.receipt = TranslateEvents(known, flight.events)]
  /\ UNCHANGED <<libVars, op, script, nonce, map, meta, snaps, chain>>

Created(n, tx) ==
  IF tx.to # NoAddress THEN {}
  ELSE {Predicted(n)} \cup (IF tx.new.code = "transparent" THEN {PredictedChild(n)} ELSE {})

\* The mappings that the reconciler publishes for transaction n, with the
\* artifacts of what was created.
Published(n, tx) ==
  [p \in DOMAIN map \cup Created(n, tx) |->
     CASE p = Predicted(n) -> Actual(n)
       [] p = PredictedChild(n) -> ActualChild(n)
       [] OTHER -> map[p]]

PublishedMeta(n, tx) ==
  [p \in DOMAIN meta \cup Created(n, tx) |->
     CASE p = Predicted(n) -> tx.new.code
       [] p = PredictedChild(n) -> "admin"
       [] OTHER -> meta[p]]

Captured(tx) == IF tx.to = NoAddress THEN {tx.new.code} \cap AppCode ELSE {}

\* The mappings are published, and after that the artifact is captured: it may
\* be lost if the adapter crashes in between and the artifact is gone when it
\* starts again.
Publish ==
  /\ flight.stage = "received"
  /\ \/ /\ flight.ok
        /\ LET tx == flight.tx IN
           /\ map' = Published(nonce - 1, tx)
           /\ meta' = PublishedMeta(nonce - 1, tx)
           /\ \/ snaps' = snaps \cup Captured(tx)
              \/ (\E b \in Captured(tx) : ~Intact(b)) /\ UNCHANGED snaps
        /\ script' = Tail(script)
        /\ flight' = NoFlight
        /\ op' = IF script' = <<>> THEN NoOp ELSE op
     \/ /\ ~flight.ok
        /\ Abandon
        /\ UNCHANGED <<map, meta, snaps>>
  /\ UNCHANGED <<libVars, nonce, chain>>

-----------------------------------------------------------------------------
(***************************************************************************)
(* What scripts do.  A script is simulated on the contracts that the       *)
(* adapter shows it; it names no contract that is not there yet.           *)
(***************************************************************************)
Idle == pc = "idle" /\ script = <<>> /\ flight = NoFlight

Contracts(codes) == {p \in DOMAIN View : View[p].code \in codes}

Proxies == {"uups", "transparent", "beaconProxy"}

There(word) == word[1] \in {"eth", "ethChild"} => word \in DOMAIN View

Calls == {c \in Payloads : \A word \in CallWords(c) : There(word)}

Nested == {<<>>} \cup {<<c>> : c \in Calls}

Create(new) == [to |-> NoAddress, new |-> new]
Send(to, c) == [to |-> to, call |-> c]

App(b, ref, num, lib) ==
  [code |-> b, arg |-> NoAddress, data |-> <<>>, ref |-> ref, num |-> num, lib |-> lib]
Proxy(kind, arg, data) ==
  [code |-> kind, arg |-> arg, data |-> data, ref |-> NoAddress, num |-> NoAddress, lib |-> NoAddress]

\* Mutant: the version of the upgrade interface is not asked for.
SpeaksV5Assumed(p) == FALSE

SpeaksV5(p) == IsV5(Logic(real, ToActual(map, p)))

\* upgradeProxyTo: the call that upgrades proxy p, by its admin slot and by the
\* upgrade interface of the proxy or of its admin.
Dispatch(p, impl, data) ==
  LET admin == ReadSlot(p, "admin")
      whole(to) == SpeaksV5(to) \/ data # <<>>
      c(sel, proxy, nested) == [sel |-> sel, proxy |-> proxy, arg |-> impl, data |-> nested] IN
  CASE admin = NoAddress /\ whole(p) -> Send(p, c("upgradeToAndCall", NoAddress, data))
    [] admin = NoAddress /\ ~whole(p) -> Send(p, c("upgradeTo", NoAddress, <<>>))
    [] admin # NoAddress /\ whole(admin) -> Send(admin, c("upgradeAndCall", p, data))
    [] OTHER -> Send(admin, c("upgrade", p, <<>>))

\* The transaction that puts implementation impl to use.
Use(o, impl) ==
  CASE o.kind \in {"uups", "transparent", "beacon"} -> <<Create(Proxy(o.kind, impl, o.data))>>
    [] o.kind = "upgradeProxy" -> <<Dispatch(o.at, impl, o.data)>>
    [] o.kind = "upgradeBeacon" -> <<Send(o.at, Call("upgradeTo", impl))>>
    [] OTHER -> <<>>

Op(kind, at, data) ==
  [kind |-> kind, at |-> at, data |-> data, ref |-> NoAddress, num |-> NoAddress,
   lib |-> NoAddress, impl |-> NoAddress, saw |-> "none"]

\* A proxy is deployed with an initializer.
Deployments ==
  {Op(kind, NoAddress, data) : kind \in {"uups", "transparent"}, data \in Nested \ {<<>>}}
    \cup {Op("beacon", NoAddress, <<>>)}

UpgradesOfProxies == {Op("upgradeProxy", p, data) : p \in Contracts({"uups", "transparent"}), data \in Nested}
UpgradesOfBeacons == {Op("upgradeBeacon", p, <<>>) : p \in Contracts({"beacon"})}

Implementations ==
  LET words == {w \in Arguments : There(w)} IN
  {[Op("implementation", NoAddress, <<>>) EXCEPT !.ref = w[1], !.num = w[2]] : w \in words \X words}

\* The library validates an implementation, for an upgrade with a reference,
\* and deploys it.
BeginOp ==
  /\ Idle /\ nonce < MaxNonce
  /\ \E j \in Jobs :
       /\ Begin(j)
       /\ \E lib \in IF j.libs = "given" THEN Contracts(AppCode) ELSE {NoAddress},
             o \in IF j.op = "validate" THEN {Op("validate", NoAddress, <<>>)}
                   ELSE IF j.upgrade THEN UpgradesOfProxies \cup UpgradesOfBeacons
                   ELSE Deployments \cup Implementations :
            op' = [o EXCEPT !.lib = lib]
  /\ UNCHANGED <<script, flight, nonce, map, meta, snaps, chain>>

\* The call of the library is over: the script has its transactions, the
\* creation of the implementation and its use, or is reverted.
Yield ==
  /\ Return
  /\ \/ /\ pc = "deployed"
        /\ script' = <<Create(App(deployed, op.ref, op.num, op.lib))>> \o Use(op, Predicted(nonce))
        /\ op' = [op EXCEPT !.impl = Predicted(nonce), !.saw = Logic(View, op.at)]
     \/ /\ pc # "deployed"
        /\ op' = NoOp
        /\ UNCHANGED script
  /\ UNCHANGED <<flight, nonce, map, meta, snaps, chain>>

\* UnsafeUpgrades: an implementation that is there is put to use, unvalidated.
Unsafe ==
  /\ Idle /\ nonce < MaxNonce
  /\ \E o \in Deployments \cup UpgradesOfProxies \cup UpgradesOfBeacons, impl \in Contracts(AppCode) :
       /\ op' = [o EXCEPT !.impl = impl, !.saw = Logic(View, o.at)]
       /\ script' = Use(o, impl)
  /\ UNCHANGED <<libVars, flight, nonce, map, meta, snaps, chain>>

\* A beacon proxy, or any call of a contract.
Plain ==
  /\ Idle /\ nonce < MaxNonce
  /\ script' \in
       {<<Create(Proxy("beaconProxy", p, data))>> : p \in Contracts({"beacon"}), data \in Nested}
         \cup {<<Send(p, c)>> : p \in Contracts(Proxies \cup AppCode), c \in Calls}
  /\ UNCHANGED <<libVars, op, flight, nonce, map, meta, snaps, chain>>

\* The output directory changes, in the hands of a compiler.
Recompile ==
  /\ Compile
  /\ UNCHANGED <<adapter, chain>>

Library ==
  /\ LibStep
  /\ UNCHANGED <<adapter, chain>>

\* Another owner upgrades a proxy or a beacon on TRON, to what is there.
Foreign ==
  /\ foreign < MaxForeign
  /\ \E a \in DOMAIN real, impl \in {b \in DOMAIN real : real[b].code \in AppCode} :
       /\ real[a].code \in {"uups", "beacon"}
       /\ LET c == [Call("upgradeTo", impl) EXCEPT !.sel =
                      IF "upgradeTo" \in Declared(Logic(real, a)) THEN "upgradeTo" ELSE "upgradeToAndCall"]
              run == Execute(real, Send(a, c), NoAddress, NoAddress) IN
          /\ run.ok /\ run.world # real
          /\ real' = run.world
          /\ events' = run.events
          /\ last' = [who |-> "owner", tx |-> Send(Twin(a), [c EXCEPT !.arg = Twin(@)])]
  /\ foreign' = foreign + 1
  /\ UNCHANGED <<libVars, adapter>>

-----------------------------------------------------------------------------
Init ==
  /\ LibInit
  /\ op = NoOp /\ script = <<>> /\ flight = NoFlight
  /\ \E there \in Existing :
       /\ real = there.real /\ map = there.map
       /\ nonce = there.nonce /\ edits = there.edits /\ foreign = there.foreign
       /\ meta = [p \in DOMAIN there.map |-> there.real[there.map[p]].code]
       /\ snaps = {meta[p] : p \in DOMAIN meta} \cap AppCode
  /\ last = [who |-> "nobody"] /\ events = <<>>

Next ==
  \/ BeginOp \/ Library \/ Yield \/ Unsafe \/ Plain
  \/ Resolve \/ Rewrite \/ Mine \/ Receive \/ Publish
  \/ Recompile \/ Foreign

Spec == Init /\ [][Next]_vars

-----------------------------------------------------------------------------
Fresh == flight.stage = "none"

(* What a script and the other owners do through the adapter and on TRON is *)
(* what their transactions, as they were written, do on a chain like that   *)
(* of Ethereum, where the n-th transaction creates its contract at the      *)
(* address that was predicted (handlers.ts, processClaimed; rewriter.ts).   *)
Chain == INSTANCE EthereumChain WITH world <- View, events <- ViewEvents(events)

RunsAsWritten == Chain!Spec

(* No word on TRON, in a slot or in an event, is a predicted address: one   *)
(* that cannot be rewritten is refused (rewriter.ts, assertOpaqueBytesSafe).*)
Words(c) == {c.impl, c.admin, c.beacon, c.ref, c.num, c.lib}

NothingStranded ==
  /\ \A a \in DOMAIN real : Words(real[a]) \cap DOMAIN map = {}
  /\ \A i \in DOMAIN events : {events[i].emitter, events[i].word} \cap DOMAIN map = {}

(* Between transactions the adapter shows a script the slots and the events *)
(* of that chain: every contract it has created has its mapping, and every  *)
(* address is answered by it (handlers.ts, translateStorageValue;           *)
(* log-translation.ts).                                                     *)
ReadsAgree ==
  Fresh =>
    /\ \A p \in DOMAIN View : \A slot \in {"impl", "admin", "beacon"} :
         ReadSlot(p, slot) = View[p][slot]
    /\ TranslateEvents(map, events) = ViewEvents(events)

(* The receipt of a transaction shows the same events, except for the       *)
(* address of a contract that the transaction itself has created as a child:*)
(* that one stays an address of TRON (handlers.ts, waitAndReconcile).       *)
ReceiptsAgree ==
  flight.stage = "received" =>
    \A i \in DOMAIN flight.events :
      \/ flight.receipt[i] = ViewEvents(flight.events)[i]
      \/ ActualChild(nonce - 1) \in {flight.events[i].emitter, flight.events[i].word}

(* A number is on TRON what it was in the transaction, also one that looks  *)
(* like an address, unless the contract has got another implementation since*)
(* its ABI was read (handlers.ts, defaultResolveCallContext).               *)
Written(tx) ==
  IF tx.to = NoAddress THEN {tx.new.num} \cup {tx.new.data[i].arg : i \in DOMAIN tx.new.data}
  ELSE CallWords(tx.call)

NumbersVerbatim ==
  [][flight.stage = "sent" /\ (flight.tx.to \in DOMAIN meta => Logic(real, flight.native.to) \in flight.abi)
       => \A a \in DOMAIN real' :
            \/ a \in DOMAIN real /\ real'[a].num = real[a].num
            \/ real'[a].num \in Written(flight.tx) \cup {NoAddress}]_real

(* A call is decoded by the ABI of the very code that it will run, whatever *)
(* has been compiled since that was deployed; a target whose ABI is gone is *)
(* refused (handlers.ts, deploymentArtifactForProvenance).                  *)
DecodedTruly ==
  [][flight'.stage = "rewrite" =>
       flight'.abi \subseteq {Logic(real, ToActual(map, flight'.tx.to))}]_flight

(* An upgrade by the library that succeeds has upgraded: the function that  *)
(* was chosen is one that the proxy or its admin has, and no fallback takes *)
(* the call.  Not if another owner has upgraded the proxy since the script  *)
(* looked at it (Core.sol, upgradeProxyTo).                                 *)
UpgradeSucceeds ==
  /\ flight.stage = "sent" /\ flight'.stage = "mined" /\ flight'.ok
  /\ op.kind \in {"upgradeProxy", "upgradeBeacon"} /\ flight.tx.to # NoAddress
  /\ op.saw = Logic(View, op.at)

UpgradeTakesEffect == [][UpgradeSucceeds => View'[op.at].impl = op.impl]_flight
=============================================================================
