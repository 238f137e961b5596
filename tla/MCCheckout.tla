----------------------------- MODULE MCCheckout -----------------------------
(* Three requests about two checkouts of an item, with kept credit on an   *)
(* earlier order or two: one credit that covers the item on its own, or     *)
(* two that do together.                                                   *)
EXTENDS CheckoutExpected, TLC

CONSTANTS o1, o2, o3, r1, r2, r3, r4, k1

KeptOnTwo == 1 :> 1 @@ 2 :> 2
KeptOnOne == 1 :> 3

\* Requests are told apart by what they ask for, and checkouts by nothing.
Symmetry == Permutations(Requests) \cup Permutations(Checkouts)
=============================================================================
