---------------------------- MODULE MCQueueClient ----------------------------
(* Instances of QueueClient for TLC: t0 and u0 are rivals at nonce 0, t1 and *)
(* t2 follow them.                                                           *)
EXTENDS QueueClient, TLC

CONSTANTS t0, u0, t1, t2

MCTx == {t0, u0, t1, t2}
MCNonceOf == t0 :> 0 @@ u0 :> 0 @@ t1 :> 1 @@ t2 :> 2
=============================================================================
