------------------------------ MODULE EvmWorld ------------------------------
(***************************************************************************)
(* The contracts that the upgrade library and the adapter work with, by    *)
(* what a transaction does to them: application contracts, the proxies,    *)
(* the ProxyAdmin and the beacon of OpenZeppelin Contracts.  A world is a  *)
(* function from the addresses that have code.  The same definitions give  *)
(* the chain that Forge simulates and the chain of TRON: they differ only  *)
(* in the address that a creation gets, which is a parameter.              *)
(***************************************************************************)
EXTENDS Sequences

\* Words are pairs, of a sort and a number: addresses, and plain numbers,
\* which may have the digits of an address.
NoAddress == <<"zero", 0>>

\* A call of a function: a selector and its arguments.  proxy is the first of
\* two address arguments, data a nested call (a sequence of at most one).
Call(sel, arg) == [sel |-> sel, proxy |-> NoAddress, arg |-> arg, data |-> <<>>]

\* The application has two builds: "v1" is a UUPS implementation of version 4,
\* "v2" one of version 5 with another setter and a fallback.
AppCode == {"v1", "v2"}

Declared(code) ==
  CASE code = "v1" -> {"setRef", "upgradeTo", "upgradeToAndCall"}
    [] code = "v2" -> {"setRef", "setNum", "upgradeToAndCall"}
    [] code = "admin" -> {"upgradeAndCall"}
    [] code = "oldAdmin" -> {"upgrade", "upgradeAndCall"}
    [] code = "beacon" -> {"upgradeTo"}
    [] OTHER -> {}

HasFallback(code) == code = "v2"

\* UPGRADE_INTERFACE_VERSION() answers "5.0.0".
IsV5(code) == code \in {"v2", "admin"}

Blank(code) ==
  [code |-> code, impl |-> NoAddress, admin |-> NoAddress, beacon |-> NoAddress,
   ref |-> NoAddress, num |-> NoAddress, lib |-> NoAddress]

With(world, a, contract) == [b \in DOMAIN world \cup {a} |-> IF b = a THEN contract ELSE world[b]]

CodeAt(world, a) == IF a \in DOMAIN world THEN world[a].code ELSE "none"

\* Where the code that a call to a runs is found.
ImplementationOf(world, a) ==
  CASE CodeAt(world, a) \in {"uups", "transparent"} -> world[a].impl
    [] CodeAt(world, a) = "beaconProxy" /\ CodeAt(world, world[a].beacon) = "beacon"
         -> world[world[a].beacon].impl
    [] OTHER -> a

Logic(world, a) == CodeAt(world, ImplementationOf(world, a))

Event(emitter, topic, word) == [emitter |-> emitter, topic |-> topic, word |-> word]

\* The result of a transaction: the world after it and its events.  One that
\* reverts has the world as it was and no event.
Done(world, events) == [ok |-> TRUE, world |-> world, events |-> events]
Reverted(world) == [ok |-> FALSE, world |-> world, events |-> <<>>]

-----------------------------------------------------------------------------
\* A setter, or the fallback, which keeps the word it was sent.  No code, as a
\* proxy may point to, does nothing.
RunSetter(world, a, call) ==
  LET code == Logic(world, a) IN
  IF code = "none" THEN Done(world, <<>>)
  ELSE IF code \notin AppCode \/ ~(call.sel \in Declared(code) \/ HasFallback(code)) THEN Reverted(world)
  ELSE IF call.sel = "setRef"
    THEN Done(With(world, a, [world[a] EXCEPT !.ref = call.arg]), <<Event(a, "RefSet", call.arg)>>)
  ELSE Done(With(world, a, [world[a] EXCEPT !.num = call.arg]), <<Event(a, "NumSet", call.arg)>>)

RunNested(world, a, data) == IF data = <<>> THEN Done(world, <<>>) ELSE RunSetter(world, a, data[1])

\* The implementation slot of a is set and the nested call, if any, is made.
SetImplementation(world, a, impl, data) ==
  IF CodeAt(world, impl) \notin AppCode THEN Reverted(world)
  ELSE LET nested == RunNested(With(world, a, [world[a] EXCEPT !.impl = impl]), a, data) IN
       IF nested.ok
         THEN Done(nested.world, <<Event(a, "Upgraded", impl)>> \o nested.events)
         ELSE Reverted(world)

Upgrades == {"upgradeTo", "upgradeToAndCall", "upgrade", "upgradeAndCall"}

\* A function of the implementation upgrades the proxy it runs in; an admin
\* upgrades the proxies that have it in their admin slot; a beacon itself.
RunUpgrade(world, a, call) ==
  CASE CodeAt(world, a) \in {"uups", "transparent"} -> SetImplementation(world, a, call.arg, call.data)
    [] CodeAt(world, a) \in {"admin", "oldAdmin"}
         /\ CodeAt(world, call.proxy) = "transparent" /\ world[call.proxy].admin = a ->
         SetImplementation(world, call.proxy, call.arg, call.data)
    [] CodeAt(world, a) = "beacon" /\ CodeAt(world, call.arg) \in AppCode ->
         Done(With(world, a, [world[a] EXCEPT !.impl = call.arg]),
              <<Event(a, "Upgraded", call.arg)>>)
    [] OTHER -> Reverted(world)

RunCall(world, a, call) ==
  IF call.sel \in Upgrades \cap Declared(Logic(world, a))
    THEN RunUpgrade(world, a, call) ELSE RunSetter(world, a, call)

\* A creation at address a; a transparent proxy creates its ProxyAdmin there
\* too, at address child.
RunCreation(world, a, child, new) ==
  CASE new.code \in AppCode ->
         Done(With(world, a, [Blank(new.code) EXCEPT !.ref = new.ref, !.num = new.num, !.lib = new.lib]),
              <<>>)
    [] new.code = "uups" ->
         SetImplementation(With(world, a, Blank("uups")), a, new.arg, new.data)
    [] new.code = "transparent" ->
         LET proxied == SetImplementation(
               With(With(world, a, [Blank("transparent") EXCEPT !.admin = child]), child, Blank("admin")),
               a, new.arg, new.data) IN
         [proxied EXCEPT !.events = @ \o <<Event(child, "OwnershipTransferred", NoAddress),
                                           Event(a, "AdminChanged", child)>>]
    [] new.code = "beacon" ->
         IF CodeAt(world, new.arg) \in AppCode
           THEN Done(With(world, a, [Blank("beacon") EXCEPT !.impl = new.arg]),
                     <<Event(a, "Upgraded", new.arg)>>)
           ELSE Reverted(world)
    [] new.code = "beaconProxy" ->
         IF CodeAt(world, new.arg) # "beacon" THEN Reverted(world)
         ELSE LET nested == RunNested(With(world, a, [Blank("beaconProxy") EXCEPT !.beacon = new.arg]),
                                      a, new.data) IN
              [nested EXCEPT !.events = <<Event(a, "BeaconUpgraded", new.arg)>> \o @]

\* A transaction: the creation of a contract, or a call.
Execute(world, tx, a, child) ==
  LET run == IF tx.to = NoAddress THEN RunCreation(world, a, child, tx.new)
             ELSE RunCall(world, tx.to, tx.call) IN
  IF run.ok THEN run ELSE Reverted(world)
=============================================================================
