--------------------------- MODULE MCSessionQueue ---------------------------
(* Model checking of SessionQueue.                                         *)
EXTENDS SessionQueue, TLC

Symmetry == Permutations(Msgs)
=============================================================================
