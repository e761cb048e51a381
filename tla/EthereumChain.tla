--------------------------- MODULE EthereumChain ---------------------------
(***************************************************************************)
(* What the adapter promises a script: a chain like that of Ethereum.  The *)
(* transactions of the script and of other owners run as they were written,*)
(* and the n-th creates its contract at the address that was predicted.    *)
(***************************************************************************)
EXTENDS EvmWorld, Naturals

VARIABLES
  world,  \* the contracts by their predicted addresses
  nonce,  \* the nonces of the script that are used
  last,   \* who ran the last transaction, and which
  events  \* its events

vars == <<world, nonce, last, events>>

Predicted(n) == <<"eth", n>>
PredictedChild(n) == <<"ethChild", n>>

Run == Execute(world, last'.tx, Predicted(nonce), PredictedChild(nonce))

Transact ==
  /\ last'.who \in {"script", "owner"}
  /\ world' = Run.world
  /\ events' = Run.events
  /\ nonce' = IF last'.who = "script" THEN nonce + 1 ELSE nonce

Init == nonce \in Nat /\ last = [who |-> "nobody"] /\ events = <<>>

Spec == Init /\ [][Transact]_vars
=============================================================================
