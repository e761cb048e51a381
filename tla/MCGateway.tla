----------------------------- MODULE MCGateway -----------------------------
(***************************************************************************)
(* Instances of Gateway for TLC.                                           *)
(*   s0      a transaction below the adopted baseline                      *)
(*   a1, b1  rivals at the baseline                                        *)
(*   c2      the one that follows them                                     *)
(*   a0, c1  a transaction and the one that follows it                     *)
(***************************************************************************)
EXTENDS Gateway, TLC

CONSTANTS s0, a1, b1, c2, a0, c1

RivalTx == {s0, a1, b1, c2}
RivalNonceOf == s0 :> 0 @@ a1 :> 1 @@ b1 :> 1 @@ c2 :> 2

\* The rivals are alike; at most one of them waits or holds their nonce.
Symmetry == Permutations({a1, b1})

PairTx == {a0, c1}
PairNonceOf == a0 :> 0 @@ c1 :> 1
=============================================================================
