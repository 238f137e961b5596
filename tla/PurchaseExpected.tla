-------------------------- MODULE PurchaseExpected --------------------------
(***************************************************************************)
(* What comments and tests of the repository say of one purchase, and the  *)
(* handlers together do not do.  Each has a counterexample in Purchase.    *)
(***************************************************************************)
EXTENDS Purchase

\* order-routes.ts, startRefund: what goes back is "never more than the buyer
\* actually paid on this order less what has already gone back".
RefundsWithinPaid == alreadyBack <= paid + credited

\* call-off.ts: of an order called off, "anything paid becomes a reversal the
\* seller owes, on their Refunds list".
CalledOffMoneyIsOwed ==
  status = "cancelled" /\ paid > 0 => \E i \in DOMAIN credits : isCancelCredit(credits[i])

\* orders.ts, isStopped: "above all none of them may be turned into
\* `delivered`".
StoppedNeverDelivered == [][(status \in Stopped) => status' # "delivered"]_vars

\* smoke-api.mjs, of an order sent out before payment: "paying does not rewind
\* where it is".
PayingKeepsItsPlace ==
  [][(status \in {"shipped", "delivered"} /\ paid' > paid) => status' = status]_vars

\* orders.ts, travellingStatus: an order the buyer still has to pay for keeps
\* its status "so the Pay button does not vanish".
PayButtonStays ==
  [][canPay /\ UNCHANGED <<deal, paymentStatus>> /\ status' \notin Stopped => canPay']_vars

\* order-routes.ts, bookOrder: the order becomes "a booking waiting on their
\* yes", so the seller can give it, once any claim on it is answered.
BookingsCanBeAnswered ==
  placed /\ awaitingAcceptance /\ paymentStatus # "claimed" => canAccept

\* orders.ts, actionsFor: a claimed payment is waiting on the seller, who gets
\* the button that answers it.
ClaimsCanBeAnswered == claim.decision = "open" => paymentStatus = "claimed"

\* order-routes.ts, settleClaim: "Denying puts the order back to unpaid so the
\* buyer can try again".
DeniedIsNotPaid ==
  [][claim.decision = "open" /\ claim'.decision = "denied" => paymentStatus' # "paid"]_vars

\* fulfilment-routes.ts, setCheckpoint: "A payment the buyer says they sent is
\* answered before anything ships".
NothingMovesOverAClaim ==
  [][paymentStatus = "claimed" /\ status' \in {"shipped", "delivered"} => status' = status]_vars

\* dispute-routes.ts, moveHeld: "Nothing back to the buyer means the seller
\* keeps it, which is a release like any other".
NothingBackIsARelease == hold.state = "refunded" => hold.amount > 0

\* orders.ts, actionsFor: a protected order is confirmed once it is "paid in
\* full, which is what is held".
PaidInFullIsHeld ==
  hold.state = "held" /\ paymentStatus = "paid" => hold.amount + credited >= Price

\* order-routes.ts, pay, of a hold that is now "held": its note to the buyer
\* says the order is "Paid with Buyer Protection.  Figmark is holding it".
HeldIsPaid == hold.state = "held" => hold.amount <= paid

\* models.ts, CreditRecord: a credit that is "refunded" has "nothing left".
RefundedIsAllBack == \A i \in DOMAIN credits : credits[i].status = "refunded" => creditLeft(credits[i]) = 0
=============================================================================
