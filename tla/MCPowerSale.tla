----------------------------- MODULE MCPowerSale ----------------------------
(* One small sale for TLC: two items, one after the other and each with a  *)
(* window, the clock, and one request of a looker, the seller or a member. *)
EXTENDS PowerSaleExpected

=============================================================================
