----------------------------- MODULE NonceLedger -----------------------------
(***************************************************************************)
(* What the adapter's write path promises of the signer's nonces, with the *)
(* queue, the process, its crashes and the network left out: a nonce is    *)
(* reserved once, for one native transaction of one source transaction     *)
(* that carries it, keeps that reservation for ever, is spent at most once *)
(* and only by the reserved transaction.  This is the account nonce that   *)
(* TRON does not have.                                                     *)
(***************************************************************************)
EXTENDS Naturals

CONSTANTS Tx, NonceOf, MaxNonce, MaxBuilds, None

VARIABLE ledger  \* ledger[n]: the reservation of nonce n, or None

Reservation == [holder : Tx, native : 1..MaxBuilds, spent : BOOLEAN]

Init == ledger = [n \in 0..MaxNonce |-> None]

\* The holder's native transaction is journalled.
Reserve(t, i) ==
  /\ ledger[NonceOf[t]] = None
  /\ ledger' = [ledger EXCEPT ![NonceOf[t]] = [holder |-> t, native |-> i, spent |-> FALSE]]

\* The reserved native transaction is solid on chain.
Spend(n) ==
  /\ ledger[n] # None
  /\ ~ledger[n].spent
  /\ ledger' = [ledger EXCEPT ![n] = [@ EXCEPT !.spent = TRUE]]

\* Every step changes the reservation of a nonce.
Next ==
  /\ ledger' # ledger
  /\ \/ \E t \in Tx, i \in 1..MaxBuilds : Reserve(t, i)
     \/ \E n \in 0..MaxNonce : Spend(n)

Spec == Init /\ [][Next]_ledger
=============================================================================
