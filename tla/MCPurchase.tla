----------------------------- MODULE MCPurchase -----------------------------
(***************************************************************************)
(* Purchase for TLC.  An order of two coins, of which one may be an      *)
(* advance, meets every case of the code: an advance and a rest, an        *)
(* instalment short of the rest, one over it, and credit for a part.       *)
(***************************************************************************)
EXTENDS PurchaseExpected
=============================================================================
