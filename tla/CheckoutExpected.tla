-------------------------- MODULE CheckoutExpected --------------------------
(***************************************************************************)
(* What comments of the repository say of placing orders, and requests     *)
(* that cross, or one that dies, do not do.  Each has a counterexample in  *)
(* Checkout.                                                               *)
(***************************************************************************)
EXTENDS Checkout, FiniteSets

Quiet == \A r \in Requests : ~InFlight(r)

\* order-routes.ts, pay: a replay is answered as "a payment that already went
\* through".
ReplayMeansPaid ==
  [][\A r \in Requests : at[r] # "replayed" /\ at'[r] = "replayed" => ~unpaid(mem'[r].mine)]_vars

\* placement.ts, adjustHeldCredit: moved credit is "written on both orders ...
\* so the buyer and the seller read one account of where the money went".
OneAccount ==
  Quiet => \A o \in Checkouts : orders[o].credit = spentOn(o)

\* repository.ts, takeStock: "checked in the same write, so two buyers cannot
\* both take the last one".
LastOneTakenOnce ==
  Cardinality({o \in Checkouts : taken[o] > returned[o]}) <= Stock

\* repository.ts, deleteOrder: "Only for a cart item, which holds no stock".
DeletedHeldNoStock == \A o \in Checkouts : ~orders[o].live => taken[o] = 0

\* placement.ts, placeOrder, of a price that changed: "Check the new total,
\* then try again".
CartCanBePlaced ==
  Quiet => \A o \in Checkouts : orders[o].live /\ ~orders[o].placed => canPay(orders[o])

\* placement.ts, placeOrder: "an order is at the price it was placed at".
PlacedKeepsPrice ==
  [][\A o \in Checkouts : orders[o].placed => orders'[o].price = orders[o].price]_vars
=============================================================================
