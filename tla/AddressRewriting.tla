-------------------------- MODULE AddressRewriting --------------------------
(***************************************************************************)
(* The translation between predicted and actual addresses, as functions:   *)
(* outwards the arguments of calls and creations (rpc-src/rewriter.ts),    *)
(* inwards events and slots (rpc-src/log-translation.ts, receipts.ts).     *)
(*   map    the confirmed mappings, a function from predicted addresses    *)
(*   abi    the code whose ABI is at hand, as a set: empty if there is none*)
(* A rewriting is a set too: empty where the source throws and nothing is  *)
(* sent.                                                                   *)
(***************************************************************************)
EXTENDS EvmWorld

ToActual(map, word) == IF word \in DOMAIN map THEN map[word] ELSE word

ToPredicted(map, word) ==
  IF \E p \in DOMAIN map : map[p] = word THEN CHOOSE p \in DOMAIN map : map[p] = word ELSE word

-----------------------------------------------------------------------------
\* Mutant: bytes that cannot be decoded are sent as they are.
OpaqueUnscanned(map, words) == TRUE

\* No known predicted address stands in these bytes.
OpaqueSafe(map, words) == words \cap DOMAIN map = {}

CallWords(call) == {call.proxy, call.arg} \cup {call.data[i].arg : i \in DOMAIN call.data}

Opaque(map, call) == IF OpaqueSafe(map, CallWords(call)) THEN {call} ELSE {}

\* Mutant: every word that is a known address is rewritten.
TakesAnything(sel) == TRUE

\* The parameters of type address; numbers and bytes are not rewritten.
TakesAddresses(sel) == sel = "setRef" \/ sel \in Upgrades

MapArguments(map, call) ==
  IF TakesAddresses(call.sel)
    THEN [call EXCEPT !.proxy = ToActual(map, @), !.arg = ToActual(map, @)]
    ELSE call

\* A call that the ABI declares; its whole encoding is scanned in the end.
RewriteCalldata(map, call) == Opaque(map, MapArguments(map, call))

\* The call inside an upgrade or a constructor, by the ABI of the
\* implementation it will run in.
RewriteNested(map, data, abi) ==
  IF data = <<>> THEN {<<>>}
  ELSE LET inner == data[1] IN
       UNION {{<<call>> : call \in IF inner.sel \in Declared(code) THEN RewriteCalldata(map, inner)
                                   ELSE Opaque(map, inner)} : code \in abi}

RewriteUpgrade(map, call, abi) ==
  {[MapArguments(map, call) EXCEPT !.data = nested] : nested \in RewriteNested(map, call.data, abi)}

\* The functions that are upgrades of a target of this sort, if it declares them.
UpgradesOf(kind) ==
  CASE kind = "uups" -> {"upgradeTo", "upgradeToAndCall"}
    [] kind \in {"admin", "oldAdmin"} -> {"upgrade", "upgradeAndCall"}
    [] kind = "beacon" -> {"upgradeTo"}
    [] OTHER -> {}

\* code: the ABI that the call is decoded with; abi: that of its argument.
RewriteCall(map, kind, code, call, abi) ==
  IF call.sel \in UpgradesOf(kind) \cap Declared(code) THEN RewriteUpgrade(map, call, abi)
  ELSE IF call.sel \in Declared(code) THEN RewriteCalldata(map, call)
  ELSE IF HasFallback(code) THEN Opaque(map, call)
  ELSE {}

-----------------------------------------------------------------------------
\* A linked library is mapped, or known by its actual address already.
LibraryKnown(map, lib) == lib = NoAddress \/ lib \in DOMAIN map \/ \E p \in DOMAIN map : map[p] = lib

\* An application contract: a constructor with an address and a number, and a
\* library in its code; the scan is over all of it.
RewriteCreation(map, new) ==
  LET mapped == [new EXCEPT !.ref = ToActual(map, @), !.lib = ToActual(map, @)] IN
  IF LibraryKnown(map, new.lib) /\ OpaqueSafe(map, {mapped.ref, mapped.num, mapped.lib})
    THEN {mapped} ELSE {}

\* A proxy or a beacon, by its canonical constructor.
RewriteProxyCreation(map, new, abi) ==
  {[new EXCEPT !.arg = ToActual(map, @), !.data = nested] : nested \in RewriteNested(map, new.data, abi)}

-----------------------------------------------------------------------------
\* An event as eth_getLogs answers it: every word that is an actual address.
TranslateEvent(map, event) ==
  [event EXCEPT !.emitter = ToPredicted(map, @), !.word = ToPredicted(map, @)]

TranslateEvents(map, events) == [i \in DOMAIN events |-> TranslateEvent(map, events[i])]

\* Mutant: a receipt is translated like any other events.
ReceiptMapPublished(map, predicted, actual) == map

\* In a receipt the transaction's own target is known before it is published.
ReceiptMap(map, predicted, actual) == [p \in DOMAIN map \cup {predicted} |-> IF p = predicted THEN actual ELSE map[p]]
=============================================================================
