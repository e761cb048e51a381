------------------------------ MODULE MCAdapter ------------------------------
(* Instances of Adapter for TLC. *)
EXTENDS Adapter, TLC

CONSTANTS p1, p2, u1, u2, c1, c2
=============================================================================
