--------------------------- MODULE MCHeldDispute ---------------------------
(* Four requests about one order and two disputes.                         *)
EXTENDS HeldDisputeExpected, TLC

CONSTANTS d1, d2, r1, r2, r3, r4

Symmetry == Permutations(Requests) \cup Permutations(Disputes)
=============================================================================
