----------------------------- MODULE MCDispute -----------------------------
(* Two requests at a time, people's or the clock's, about one dispute.   *)
EXTENDS Dispute, TLC

CONSTANTS p1, p2, m1, m2, m3, r1, r2

Longest == m1 :> 1 @@ m2 :> 2 @@ m3 :> 3 @@ p1 :> 0
=============================================================================
