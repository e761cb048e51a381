----------------------------- MODULE MCStateLock -----------------------------
(* Instances of StateLock for TLC. *)
EXTENDS StateLock, TLC

CONSTANTS p1, p2, p3

Symmetry == Permutations(Procs)
=============================================================================
