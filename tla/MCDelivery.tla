----------------------------- MODULE MCDelivery -----------------------------
(* Model checking of Delivery: two rows in one session, and a second       *)
(* session that only takes its turn in the rounds.                         *)
EXTENDS Delivery, TLC

CONSTANTS s1, s2, m1, m2
SameHome == m1 :> s1 @@ m2 :> s1
=============================================================================
