------------------------------ MODULE Purchase ------------------------------
(***************************************************************************)
(* One order between a buyer and a seller, from checkout to the last       *)
(* refund: the handlers of api/src/functions/order-routes.ts and the       *)
(* delivery, dispute and checkpoint handlers that write the same document. *)
(*                                                                         *)
(* A handler is one step, from its reads to its last save: every one of    *)
(* them appends to stageHistory, so by CheckedStore two that cross         *)
(* conflict and the later one is refused.  Two handlers save the order     *)
(* twice, and may get no further than the first: those are placeOrder and  *)
(* payCut.                                                                 *)
(* What a handler does to other documents (other orders, listings, users)  *)
(* is not here; credit that comes from or goes to other orders is any      *)
(* amount within what the code allows.                                     *)
(*                                                                         *)
(* The list of payments is kept as three sums, one per way money is        *)
(* written down.  Deadlines are a flag: a running window may be over       *)
(* whenever the order is next read.  The total does not move (api/src/     *)
(* offers.ts, which reprices a basket, is left out).                       *)
(***************************************************************************)
EXTENDS Integers, Sequences, Functions

CONSTANTS Price,       \* orderTotalMinor
          Advance,     \* advanceMinor of it, or 0: the item takes no advance
          Methods,     \* ways to pay on offer now: directRefusal, pickManager
          KeptMax,     \* bound: kept credit moved here in one go
          TypedMax,    \* bound: the largest amount anybody types
                       \* (of the amounts below zero, one)
          MaxCredits   \* bound: credits besides the one of a cancellation

ASSUME PriceAssumption == Price \in Nat \ {0} /\ Advance \in 0 .. Price - 1
ASSUME MethodsAssumption == Methods \subseteq {"direct", "protected"}
ASSUME BoundsAssumption == KeptMax \in Nat /\ TypedMax \in Nat /\ MaxCredits \in Nat

VARIABLES status, placed,
          booking,        \* bookingOnly
          cut,            \* history: the hold is of a payment that got no further
          accepted, closed,
          dispatched,     \* checkpoints.dispatched
          received,       \* receivedAt
          paymentStatus, method,
          paid,           \* payments of money, summed
          credited,       \* payments of kind credit, summed
          refunded,       \* payments of kind refund, summed
          claim,          \* paymentClaim
          credits, hold,
          reversal        \* how far the reversal has come

deal == <<placed, booking, cut, accepted, closed>>
trip == <<dispatched, received>>
ledger == <<paid, credited, refunded>>
vars == <<status, deal, trip, paymentStatus, method, ledger, claim, credits, hold, reversal>>

Stopped == {"cancelled", "rejected", "refunded", "payment_reversal_pending",
            "cancelled_reversed", "dispute_raised"}
Statuses == {"pending_payment", "confirmed", "in_fulfilment", "shipped", "delivered"} \cup Stopped

NoClaim == [decision |-> "none", amount |-> 0, excess |-> 0]
Plans == {"full"} \cup (IF Advance > 0 THEN {"advance"} ELSE {})

least(a, b) == IF a < b THEN a ELSE b
minus(a, b) == IF a > b THEN a - b ELSE 0

-----------------------------------------------------------------------------
(* shared/payments.ts: the money on an order.                              *)

\* A reversal may be of any amount, none included, and its refund is a record.
noRefunds == refunded = 0 /\ reversal \in {"none", "owed"}
noPayments == paid = 0 /\ credited = 0 /\ noRefunds

\* An order with no payment records is taken at its paymentStatus's word.
paidMinor ==
  IF noPayments
  THEN IF paymentStatus = "paid" THEN Price ELSE 0
  ELSE paid + credited

outstanding == IF closed THEN 0 ELSE minus(Price, paidMinor)

\* statusFromMoney, once `sum` is what has been paid.
statusFromMoney(sum) ==
  IF closed \/ sum >= Price THEN "paid" ELSE IF sum > 0 THEN "partially_paid" ELSE "unpaid"

credit(origin, state, amount, pending) ==
  [origin |-> origin, status |-> state, amount |-> amount,
   refunded |-> 0, applied |-> 0, pending |-> pending]

creditLeft(c) == minus(c.amount, c.refunded + c.applied)
creditIsLive(c) == c.status \in {"open", "held"}
isCancelCredit(c) == c.origin = "cancelled"

\* The line the code finds first, where there is more than one.
isReversalLine(i, lines) ==
  isCancelCredit(lines[i]) /\ \A j \in 1 .. i - 1 : ~isCancelCredit(lines[j])

Live == {i \in DOMAIN credits : creditIsLive(credits[i])}
Pending == {i \in DOMAIN credits : credits[i].status = "refund_pending"}

\* Bound: room for one more credit, counting the one an open claim may bring.
room ==
  Len(credits) + (IF claim.decision = "open" /\ claim.excess > 0 THEN 1 ELSE 0) < MaxCredits

-----------------------------------------------------------------------------
(* shared/orders.ts: what may happen to an order (actionsFor).             *)

awaitingAcceptance == booking /\ ~accepted /\ status \notin Stopped

canPay ==
  /\ booking => accepted
  /\ ~closed
  /\ paymentStatus = "unpaid"
  /\ status = "pending_payment" \/ (placed /\ status \in {"shipped", "delivered"})

onlyKeptCredit == credited > 0 /\ paid = 0 /\ noRefunds

\* Waiting on the seller's first yes or no.
fresh ==
  /\ status = "pending_payment"
  /\ paymentStatus = "unpaid" \/ (onlyKeptCredit /\ paymentStatus # "claimed")
  /\ ~accepted
  /\ claim = NoClaim

canAccept == placed /\ fresh
canReject == placed /\ fresh /\ hold.state # "held"
canCancel ==
  /\ placed
  /\ \/ status = "pending_payment" /\ accepted
     \/ status \in {"confirmed", "in_fulfilment", "shipped"}

canPayMore == /\ status \notin {"cancelled", "refunded", "rejected"}
              /\ ~closed
              /\ paymentStatus = "partially_paid"

canConfirm ==
  /\ status \in {"shipped", "delivered"}
  /\ ~received
  /\ hold.state = "held" => paymentStatus = "paid"
  /\ hold.state \in {"held", "none"}

isOpenUnpaid ==
  /\ ~closed
  /\ status = "delivered" \/ received
  /\ status \notin Stopped
  /\ paymentStatus # "paid" /\ outstanding > 0

isDeliveryLocked == received \/ hold.state = "released"

-----------------------------------------------------------------------------
\* A checkout; or a booking from before bookings stopped spending kept credit.
Init ==
  /\ status = "pending_payment"
  /\ cut = FALSE /\ accepted = FALSE /\ closed = FALSE
  /\ dispatched = FALSE /\ received = FALSE
  /\ method = "none"
  /\ paid = 0 /\ refunded = 0
  /\ \/ placed = FALSE /\ booking = FALSE /\ credited = 0 /\ paymentStatus = "unpaid"
     \/ /\ placed = TRUE /\ booking = TRUE
        /\ credited \in 1 .. least(KeptMax, Price)
        /\ paymentStatus = IF credited = Price THEN "paid" ELSE "partially_paid"
  /\ claim = NoClaim
  /\ credits = <<>>
  /\ hold = [state |-> "none", amount |-> Price, clock |-> FALSE, dispute |-> FALSE]
  /\ reversal = "none"

(* The buyer pays.                                                         *)

\* placeOrder, and adjustHeldCredit where it runs: at placing, and for an
\* accepted booking at paying.  `kept` is what the buyer's other orders had.
place(kept) ==
  /\ placed' = TRUE
  /\ kept = 0 \/ ~placed \/ booking
  /\ credited' = credited + kept

kepts == 0 .. least(KeptMax, outstanding)

\* A request that places a checkout, and gets no further.  With credit on it
\* the order is part-paid, or paid, before its buyer has paid.
placeOrder(kept) ==
  /\ canPay
  /\ ~placed
  /\ place(kept)
  /\ paymentStatus' = statusFromMoney(paid + credited + kept)
  /\ UNCHANGED <<status, booking, cut, accepted, closed, trip, method, paid, refunded,
                 claim, credits, hold, reversal>>

dueAfterCreditUncapped(plan, kept) ==   \* slip: the advance asked for on top of the credit
  least(IF plan = "full" THEN Price ELSE Advance, Price - paid)

dueAfterCreditUnclamped(plan, kept) ==   \* slip: credit above the advance comes off the money
  least((IF plan = "full" THEN Price ELSE Advance) - (credited + kept),
        Price - (paid + credited + kept))

dueAfterCredit(plan, kept) ==
  least(minus(IF plan = "full" THEN Price ELSE Advance, credited + kept),
        minus(Price, paid + credited + kept))

\* The first of the two saves that paying for a booking takes, and no second:
\* the request died, its write to another order was refused, or somebody else
\* came between.  Nothing is recorded yet, and the hold has its old amount.
payCut(way) ==
  /\ canPay
  /\ booking
  /\ cut' = (way = "protected")
  /\ status' = "confirmed"
  /\ accepted' = TRUE
  /\ method' = way
  /\ hold' = [hold EXCEPT !.state = IF way = "protected" THEN "held" ELSE "none", !.clock = FALSE]
  /\ UNCHANGED <<placed, booking, closed, trip, paymentStatus, ledger, claim, credits, reversal>>

pay(way, plan, kept) ==
  LET due == dueAfterCredit(plan, kept) IN
  /\ canPay
  /\ place(kept)
  /\ status' = "confirmed"
  /\ accepted' = TRUE
  /\ method' = way
  /\ hold' = IF way = "protected"
             THEN [hold EXCEPT !.state = "held", !.amount = due, !.clock = FALSE]
             ELSE [hold EXCEPT !.state = "none", !.clock = FALSE]
  /\ cut' = FALSE
  /\ paid' = paid + due
  /\ paymentStatus' = statusFromMoney(paid + due + credited + kept)
  /\ UNCHANGED <<booking, closed, trip, refunded, claim, credits, reversal>>

\* The buyer says they sent the money themselves.
claimPayment(plan, kept) ==
  LET due == dueAfterCredit(plan, kept) IN
  /\ canPay
  /\ due > 0
  /\ place(kept)
  /\ paymentStatus' = "claimed"
  /\ claim' = [decision |-> "open", amount |-> due, excess |-> 0]
  /\ method' = "direct"
  /\ UNCHANGED <<status, booking, cut, accepted, closed, trip, paid, refunded,
                 credits, hold, reversal>>

\* The same request, when kept credit covers all that is due.
claimCovered(plan, kept) ==
  /\ canPay
  /\ dueAfterCredit(plan, kept) = 0
  /\ place(kept)
  /\ status' = "confirmed"
  /\ accepted' = TRUE
  /\ paymentStatus' = statusFromMoney(paid + credited + kept)
  /\ method' = "direct"
  /\ UNCHANGED <<booking, cut, closed, trip, paid, refunded, claim, credits, hold, reversal>>

bookOrder ==
  /\ canPay
  /\ ~booking
  /\ booking' = TRUE
  /\ placed' = TRUE
  /\ UNCHANGED <<status, cut, accepted, closed, trip, paymentStatus, method, ledger,
                 claim, credits, hold, reversal>>

\* Accepting the first claim moves the order on; the part of a payment that
\* overshot the balance becomes a credit.
settleClaimAccept ==
  /\ placed /\ paymentStatus = "claimed"
  /\ claim' = [NoClaim EXCEPT !.decision = "accepted"]
  /\ status' = IF status = "pending_payment" THEN "confirmed" ELSE status
  /\ accepted' = (accepted \/ status = "pending_payment")
  /\ method' = "direct"
  /\ paid' = paid + claim.amount
  /\ paymentStatus' = statusFromMoney(paid + claim.amount + credited)
  /\ hold' = [hold EXCEPT !.state = "none"]
  /\ cut' = FALSE
  /\ credits' = IF claim.excess > 0
                THEN Append(credits, credit("overpaid", "open", claim.excess, 0))
                ELSE credits
  /\ UNCHANGED <<placed, booking, closed, trip, credited, refunded, reversal>>

settleClaimDeny ==
  /\ placed /\ paymentStatus = "claimed"
  /\ claim' = [NoClaim EXCEPT !.decision = "denied"]
  /\ paymentStatus' = statusFromMoney(paid + credited)
  /\ UNCHANGED <<status, deal, trip, method, ledger, credits, hold, reversal>>

\* payMore: a further payment of `sum`.  What the balance cannot take is extra.
payMoreDirect(sum) ==
  LET take == least(sum, outstanding) IN
  /\ canPayMore
  /\ method # "protected"
  /\ sum > take => room
  /\ paymentStatus' = "claimed"
  /\ claim' = [decision |-> "open", amount |-> take, excess |-> sum - take]
  /\ UNCHANGED <<status, deal, trip, method, ledger, credits, hold, reversal>>

payMoreProtected(sum) ==
  LET take == least(sum, outstanding) IN
  /\ canPayMore
  /\ method = "protected"
  /\ sum > take => room
  /\ paid' = paid + take
  /\ paymentStatus' = IF take > 0 THEN statusFromMoney(paidMinor + take) ELSE paymentStatus
  /\ hold' = IF hold.state = "held" THEN [hold EXCEPT !.amount = @ + take] ELSE hold
  /\ credits' = IF sum > take
                THEN Append(credits, credit("overpaid", "open", sum - take, 0))
                ELSE credits
  /\ UNCHANGED <<status, deal, trip, method, credited, refunded, claim, reversal>>

(* The seller answers.                                                     *)

acceptOrder ==
  /\ canAccept
  /\ accepted' = TRUE
  /\ IF ~noPayments /\ outstanding = 0
     THEN /\ status' = "confirmed"
          /\ paymentStatus' = "paid"
          /\ method' = IF method = "none" THEN "direct" ELSE method
     ELSE UNCHANGED <<status, paymentStatus, method>>
  /\ UNCHANGED <<placed, booking, cut, closed, trip, ledger, claim, credits, hold, reversal>>

\* returnKeptCredit sends spent credit back where it came from.
rejectOrder ==
  /\ canReject
  /\ status' = "rejected"
  /\ credited' = 0
  /\ paymentStatus' = "unpaid"
  /\ UNCHANGED <<deal, trip, method, paid, refunded, claim, credits, hold, reversal>>

\* callOffOrder.  With nothing paid the order just ends.
cancelUnpaid ==
  /\ canCancel
  /\ paidMinor = 0
  /\ status' = "cancelled"
  /\ UNCHANGED <<deal, trip, paymentStatus, method, ledger, claim, credits, hold, reversal>>

cancelPaidNoCredit ==   \* slip: the reversal is noted on the order and on no refunds list
  /\ canCancel
  /\ paidMinor > 0
  /\ status' = "payment_reversal_pending"
  /\ reversal' = "owed"
  /\ UNCHANGED <<deal, trip, paymentStatus, method, ledger, claim, credits, hold>>

\* All that was paid becomes a credit on the seller's refunds list.
cancelPaid ==
  /\ canCancel
  /\ paidMinor > 0
  /\ status' = "payment_reversal_pending"
  /\ reversal' = "owed"
  /\ credits' = Append(credits, credit("cancelled", "open", paidMinor, 0))
  /\ UNCHANGED <<deal, trip, paymentStatus, method, ledger, claim, hold>>

closeOrder ==
  /\ placed /\ isOpenUnpaid
  /\ closed' = TRUE
  /\ UNCHANGED <<status, placed, booking, cut, accepted, trip, paymentStatus, method, ledger,
                 claim, credits, hold, reversal>>

(* The money on its way back: credits, and the reversal of a cancellation. *)

startReturn(c, a) == [c EXCEPT !.status = "refund_pending", !.pending = a]

\* refundCredit: one credit, in part or whole, or every live one in whole.
refundOne(i, a) ==
  /\ i \in Live /\ a <= creditLeft(credits[i])
  /\ credits' = [credits EXCEPT ![i] = startReturn(@, a)]
  /\ UNCHANGED <<status, deal, trip, paymentStatus, method, ledger, claim, hold, reversal>>

refundAll ==
  /\ Live # {}
  /\ \A i \in Live : creditLeft(credits[i]) > 0
  /\ credits' = [i \in DOMAIN credits |->
                   IF i \in Live THEN startReturn(credits[i], creditLeft(credits[i])) ELSE credits[i]]
  /\ UNCHANGED <<status, deal, trip, paymentStatus, method, ledger, claim, hold, reversal>>

alreadyBack ==
  SumFunctionOnSet([i \in DOMAIN credits |-> credits[i].amount],
                   {i \in DOMAIN credits : credits[i].origin \in {"cancelled", "manual"}})

\* A refund of the seller's own, for whatever they type.
startRefund(a) ==
  /\ placed
  /\ a <= minus(paidMinor, alreadyBack)
  /\ room
  /\ credits' = Append(credits, credit("manual", "refund_pending", a, a))
  /\ UNCHANGED <<status, deal, trip, paymentStatus, method, ledger, claim, hold, reversal>>

\* With the credits at `next`, the cancelled order's money is all somewhere.
allReturned(next) ==
  /\ status = "payment_reversal_pending"
  /\ \E i \in DOMAIN next : /\ isReversalLine(i, next)
                            /\ creditLeft(next[i]) = 0
                            /\ next[i].status # "refund_pending"

finishReversal ==
  /\ status' = "cancelled_reversed"
  /\ paymentStatus' = "refunded"
  /\ reversal' = "received"

arrivedBack(c) ==
  LET next == [c EXCEPT !.refunded = @ + c.pending, !.pending = 0]
  IN  [next EXCEPT !.status = IF creditLeft(next) > 0 THEN "open" ELSE "refunded"]

\* The buyer on the returns in S, or on all of them: they arrived.
ackCreditRefund(S) ==
  LET next == [i \in DOMAIN credits |-> IF i \in S THEN arrivedBack(credits[i]) ELSE credits[i]]
  IN  /\ S \subseteq Pending
      /\ credits' = next
      /\ refunded' = refunded + SumFunctionOnSet([i \in DOMAIN credits |-> credits[i].pending], S)
      /\ IF allReturned(next) THEN finishReversal ELSE UNCHANGED <<status, paymentStatus, reversal>>
      /\ UNCHANGED <<deal, trip, method, paid, credited, claim, hold>>

\* They did not: the credit is the seller's to send again.
denyCreditRefund(S) ==
  /\ S \subseteq Pending
  /\ credits' = [i \in DOMAIN credits |->
                   IF i \in S THEN [credits[i] EXCEPT !.status = "open", !.pending = 0]
                              ELSE credits[i]]
  /\ UNCHANGED <<status, deal, trip, paymentStatus, method, ledger, claim, hold, reversal>>

\* applyCredit, on the order the credit comes from.
applyAway(i, a) ==
  LET c == [credits[i] EXCEPT !.applied = @ + a]
      next == [credits EXCEPT ![i] = IF creditLeft(c) > 0 THEN c ELSE [c EXCEPT !.status = "applied"]]
  IN  /\ i \in Live /\ a <= creditLeft(credits[i])
      /\ credits' = next
      /\ IF allReturned(next)
         THEN IF \E j \in DOMAIN next : isReversalLine(j, next) /\ next[j].refunded > 0
              THEN finishReversal
              ELSE status' = "cancelled" /\ UNCHANGED <<paymentStatus, reversal>>
         ELSE UNCHANGED <<status, paymentStatus, reversal>>
      /\ UNCHANGED <<deal, trip, method, ledger, claim, hold>>

\* applyCredit, on the order it pays towards; `way` is how the source was paid.
\* It is picked from the orders the seller is shown, which are placed ones.
applyHere(a, way) ==
  /\ placed
  /\ status \notin {"cancelled", "rejected"}
  /\ paymentStatus # "claimed"
  /\ a <= outstanding
  /\ method' = IF method = "none" THEN way ELSE method
  /\ credited' = credited + a
  /\ paymentStatus' = statusFromMoney(paid + credited + a)
  /\ status' = IF status = "pending_payment" THEN "confirmed" ELSE status
  /\ accepted' = (accepted \/ status = "pending_payment")
  /\ UNCHANGED <<placed, booking, cut, closed, trip, paid, refunded, claim, credits, hold, reversal>>

\* Kept for the buyer's next order: one open credit, or all of them.
holdCredit(S) ==
  LET next == [i \in DOMAIN credits |->
                 IF i \in S THEN [credits[i] EXCEPT !.status = "held"] ELSE credits[i]]
  IN  /\ \A i \in S : credits[i].status = "open"
      /\ \E i \in S : creditLeft(credits[i]) > 0
      /\ credits' = next
      /\ status' = IF /\ status = "payment_reversal_pending"
                      /\ \E i \in DOMAIN next : isCancelCredit(next[i]) /\ next[i].status = "held"
                   THEN "cancelled" ELSE status
      /\ UNCHANGED <<deal, trip, paymentStatus, method, ledger, claim, hold, reversal>>

\* The reversal in one go, of what is left or of whatever is typed instead.
submitReversalUnlisted(i, a) ==   \* slip: sent, and written on the order only
  /\ status = "payment_reversal_pending"
  /\ isReversalLine(i, credits) /\ credits[i].status # "refund_pending"
  /\ credits' = [credits EXCEPT ![i].status = "refunded"]
  /\ refunded' = refunded + a
  /\ status' = "cancelled_reversed"
  /\ paymentStatus' = "refunded"
  /\ reversal' = "sent"
  /\ UNCHANGED <<deal, trip, method, paid, credited, claim, hold>>

submitReversal(i, a) ==
  /\ status = "payment_reversal_pending"
  /\ isReversalLine(i, credits) /\ credits[i].status # "refund_pending"
  /\ credits' = [credits EXCEPT ![i].refunded = @ + a, ![i].status = "refunded"]
  /\ refunded' = refunded + a
  /\ status' = "cancelled_reversed"
  /\ paymentStatus' = "refunded"
  /\ reversal' = "sent"
  /\ UNCHANGED <<deal, trip, method, paid, credited, claim, hold>>

ackReversal ==
  /\ status = "cancelled_reversed" /\ reversal = "sent"
  /\ reversal' \in {"received", "not_received"}
  /\ UNCHANGED <<status, deal, trip, paymentStatus, method, ledger, claim, credits, hold>>

raiseDispute ==
  /\ status = "cancelled_reversed" /\ reversal = "not_received"
  /\ hold.state # "disputed"       \* openDisputeRecord: one dispute at a time
  /\ status' = "dispute_raised"
  /\ UNCHANGED <<deal, trip, paymentStatus, method, ledger, claim, credits, hold, reversal>>

-----------------------------------------------------------------------------
(* The parcel: delivery.ts, and the handlers that tick and step.           *)

\* releaseHeld, after what the caller wrote.
releaseHeld ==
  /\ hold' = IF hold.state = "held" THEN [hold EXCEPT !.state = "released"] ELSE hold
  /\ status' = IF status \in Stopped \/ awaitingAcceptance THEN status ELSE "delivered"
  /\ UNCHANGED <<deal, dispatched, paymentStatus, method, ledger, claim, credits, reversal>>

confirm ==
  /\ canConfirm
  /\ received' = TRUE
  /\ releaseHeld

\* The window is over when this order is read.
settleDue ==
  /\ hold.state = "held" /\ hold.clock
  /\ releaseHeld
  /\ UNCHANGED received

\* deliver, and afterDelivered when it was not delivered already.
deliverNoClock ==   \* slip: delivering opens no window
  IF status = "delivered" THEN UNCHANGED <<status, hold>>
  ELSE /\ status' = "delivered"
       /\ UNCHANGED hold

deliver ==
  IF status = "delivered" THEN UNCHANGED <<status, hold>>
  ELSE /\ status' = "delivered"
       /\ hold' = IF hold.state = "held" THEN [hold EXCEPT !.clock = TRUE] ELSE hold

\* In a lot the order goes back to fulfilment, out of one to confirmed.
undeliver ==
  IF dispatched THEN status' = "shipped" ELSE status' \in {"in_fulfilment", "confirmed"}

travellingStatus == IF status = "confirmed" THEN "in_fulfilment" ELSE status

\* Crew and seller work the orders their boards list: placed ones.
dispatchTick ==
  /\ placed /\ paymentStatus # "claimed" /\ ~awaitingAcceptance
  /\ dispatched' = TRUE
  /\ IF status \in Stopped \/ status = "delivered"
     THEN UNCHANGED <<status, hold>>
     ELSE /\ status' = "shipped"
          /\ hold' = IF hold.state = "held" THEN [hold EXCEPT !.clock = TRUE] ELSE hold
  /\ UNCHANGED <<deal, received, paymentStatus, method, ledger, claim, credits, reversal>>

undispatchDelivered ==   \* slip: an undone dispatch stops the window of a delivered order too
  /\ placed
  /\ dispatched' = FALSE
  /\ status' = IF status = "shipped" THEN "confirmed" ELSE status
  /\ hold' = IF hold.state = "held" THEN [hold EXCEPT !.clock = FALSE] ELSE hold
  /\ UNCHANGED <<deal, received, paymentStatus, method, ledger, claim, credits, reversal>>

undispatch ==
  /\ placed
  /\ dispatched' = FALSE
  /\ IF status = "shipped" THEN status' \in {"in_fulfilment", "confirmed"} ELSE UNCHANGED status
  /\ hold' = IF hold.state = "held" /\ status \notin Stopped /\ status # "delivered"
             THEN [hold EXCEPT !.clock = FALSE] ELSE hold
  /\ UNCHANGED <<deal, received, paymentStatus, method, ledger, claim, credits, reversal>>

deliveredTick ==
  /\ placed /\ paymentStatus # "claimed" /\ ~awaitingAcceptance
  /\ status \notin Stopped
  /\ deliver
  /\ UNCHANGED <<deal, dispatched, received, paymentStatus, method, ledger, claim, credits, reversal>>

undeliveredTick ==
  /\ placed
  /\ status = "delivered" /\ ~isDeliveryLocked
  /\ undeliver
  /\ UNCHANGED <<deal, trip, paymentStatus, method, ledger, claim, credits, hold, reversal>>

\* stepItem onto the last step of the route, and onto any other.
stepToLast ==
  /\ placed /\ ~awaitingAcceptance
  /\ status \notin Stopped
  /\ deliver
  /\ UNCHANGED <<deal, dispatched, received, paymentStatus, method, ledger, claim, credits, reversal>>

stepShort ==
  /\ placed
  /\ status \notin Stopped
  /\ IF status = "delivered" THEN ~isDeliveryLocked /\ undeliver ELSE status' = travellingStatus
  /\ UNCHANGED <<deal, trip, paymentStatus, method, ledger, claim, credits, hold, reversal>>

-----------------------------------------------------------------------------
(* A dispute over the held payment: dispute-routes.ts.                     *)

openKeepsClock(side) ==   \* slip: a dispute leaves the window running
  /\ hold.state = "held" /\ ~hold.dispute
  /\ side = "seller" => status \in {"shipped", "delivered"}
  /\ hold' = [hold EXCEPT !.state = "disputed", !.dispute = TRUE]
  /\ UNCHANGED <<status, deal, trip, paymentStatus, method, ledger, claim, credits, reversal>>

open(side) ==
  /\ hold.state = "held" /\ ~hold.dispute
  /\ side = "seller" => status \in {"shipped", "delivered"}
  /\ hold' = [hold EXCEPT !.state = "disputed", !.clock = FALSE, !.dispute = TRUE]
  /\ UNCHANGED <<status, deal, trip, paymentStatus, method, ledger, claim, credits, reversal>>

\* Withdrawn.  An order not shipped by its status may still be by its stage.
backOnHold ==
  /\ hold.state = "disputed"
  /\ \E shipped \in BOOLEAN :
       /\ status \in {"shipped", "delivered"} => shipped
       /\ hold' = [hold EXCEPT !.state = "held", !.clock = shipped, !.dispute = FALSE]
  /\ UNCHANGED <<status, deal, trip, paymentStatus, method, ledger, claim, credits, reversal>>

\* A settlement, or the manager's release: `back` to the buyer, the rest to
\* the seller.
moveHeld(back) ==
  /\ hold.state = "disputed"
  /\ back <= hold.amount
  /\ IF back >= hold.amount
     THEN /\ hold' = [hold EXCEPT !.state = "refunded"]
          /\ status' = "refunded"
          /\ paymentStatus' = "refunded"
     ELSE /\ hold' = [hold EXCEPT !.state = "released"]
          /\ status' = "delivered"
          /\ paymentStatus' = IF back > 0 THEN "partially_paid" ELSE "paid"
  /\ UNCHANGED <<deal, dispatched, received, method, ledger, claim, credits, reversal>>

-----------------------------------------------------------------------------
BuyerPays ==
  \/ \E way \in Methods, plan \in Plans, kept \in kepts : pay(way, plan, kept)
  \/ \E plan \in Plans, kept \in kepts :
       "direct" \in Methods /\ claimPayment(plan, kept)
  \/ \E plan \in Plans, kept \in kepts : claimCovered(plan, kept)
  \/ \E kept \in kepts : placeOrder(kept)
  \/ \E way \in Methods : payCut(way)
  \/ bookOrder
  \/ \E sum \in 1 .. TypedMax : payMoreDirect(sum) \/ payMoreProtected(sum)

SellerAnswers ==
  \/ settleClaimAccept \/ settleClaimDeny
  \/ acceptOrder \/ rejectOrder \/ cancelUnpaid \/ cancelPaid \/ closeOrder

MoneyReturns ==
  \/ \E i \in DOMAIN credits, a \in 1 .. TypedMax : refundOne(i, a) \/ applyAway(i, a)
  \/ refundAll
  \/ \E a \in 1 .. TypedMax : startRefund(a)
  \/ \E S \in {Pending} \cup {{i} : i \in Pending} :
       S # {} /\ (ackCreditRefund(S) \/ denyCreditRefund(S))
  \/ \E a \in 1 .. KeptMax, way \in Methods : applyHere(a, way)
  \/ \E S \in {{i} : i \in Live} \cup {{i \in Live : credits[i].status = "open"}} : holdCredit(S)
  \/ \E i \in DOMAIN credits : submitReversal(i, creditLeft(credits[i]))
  \/ \E i \in DOMAIN credits, a \in -1 .. TypedMax : submitReversal(i, a)
  \/ ackReversal \/ raiseDispute

ParcelMoves ==
  \/ confirm \/ dispatchTick \/ undispatch
  \/ deliveredTick \/ undeliveredTick \/ stepToLast \/ stepShort

Disputing ==
  \/ \E side \in {"buyer", "seller"} : open(side)
  \/ backOnHold
  \/ \E back \in 0 .. Price : moveHeld(back)

Next == BuyerPays \/ SellerAnswers \/ MoneyReturns \/ ParcelMoves \/ settleDue \/ Disputing

Spec == Init /\ [][Next]_vars

\* Every order is read again, by its buyer, its seller or a list either opens.
FairSpec == Spec /\ WF_vars(settleDue)

-----------------------------------------------------------------------------
CreditStatuses == {"open", "held", "refund_pending", "refunded", "applied"}
Claims == [decision : {"none", "open", "accepted", "denied"}, amount : Nat, excess : Nat]
Holds == [state : {"none", "held", "disputed", "released", "refunded"}, amount : Nat, clock : BOOLEAN,
          dispute : BOOLEAN]
Credits == [origin : {"overpaid", "cancelled", "manual"}, status : CreditStatuses,
            amount : Nat, refunded : Int, applied : Nat, pending : Nat]

\* Every field has a value its declaration in shared/models.ts allows.
TypeOK ==
  /\ status \in Statuses
  /\ {placed, booking, cut, accepted, closed, dispatched, received} \subseteq BOOLEAN
  /\ paymentStatus \in {"unpaid", "claimed", "partially_paid", "paid", "refunded"}
  /\ method \in {"none", "direct", "protected"}
  /\ paid \in Nat /\ credited \in Nat /\ refunded \in Int
  /\ claim \in Claims
  /\ credits \in Seq(Credits)
  /\ hold \in Holds
  /\ reversal \in {"none", "owed", "sent", "received", "not_received"}

\* A hold that a payment left behind when it got no further (payCut): of the
\* old amount, which nobody paid.
neverTaken == cut /\ hold.state # "none" /\ hold.amount > paid

\* A half-paid order that was called off, sent, and paid once more can be
\* called off once more.
calledOffTwice ==
  \E i, j \in DOMAIN credits : i # j /\ isCancelCredit(credits[i]) /\ isCancelCredit(credits[j])

\* The refunds in the payment history are the refunds on the refunds list:
\* whichever of the two screens sent the money, both say how much went back,
\* a typed amount below zero included (ackCreditRefund, submitReversal).
RefundLedger == refunded = SumFunction([i \in DOMAIN credits |-> credits[i].refunded])

\* However instalments, claims answered late and kept credit interleave, an
\* order never takes more than it costs: the excess becomes a credit
\* (dueAfterCredit, allocatePayment, applyCredit's min).
NeverPaidOver == paid + credited <= Price

\* Called off once, an order whose reversal is still owed has money on the
\* refunds list to send, or sent and unanswered; one that is over has none left
\* there (callOffOrder, finishReversalIfRefunded, holdCredit, applyCredit,
\* submitReversal).
ReversalHasMoney ==
  LET owing == {i \in DOMAIN credits :
                  isCancelCredit(credits[i]) /\ credits[i].status \in {"open", "refund_pending"}}
  IN  ~calledOffTwice =>
        /\ status = "payment_reversal_pending" => \E i \in owing : creditLeft(credits[i]) > 0
        /\ status = "cancelled_reversed" => owing = {}

\* A payment the buyer says they sent can be answered: it is still open, and
\* nothing paid is held for the same order (settleClaim, pay, payMore).
ClaimedIsUndecided ==
  paymentStatus = "claimed" => claim.decision = "open" /\ (hold.state = "none" \/ neverTaken)

\* Held money on a delivered order has its window running: it can never sit
\* held with nobody left to press anything (deliver, setCheckpoint).
DeliveredHeldHasClock == status = "delivered" /\ hold.state = "held" => hold.clock

\* Figmark promises to release money it did not take only where a payment got
\* no further than its first save: all else that is held, or argued over, was
\* paid (pay, payMore).
HoldBacked == hold.state \in {"held", "disputed"} /\ hold.amount > paid => cut

\* The hold is the one buyer protection promises (HeldPayment): taken once,
\* frozen by a dispute, gone once, and out of "held" only on the buyer's word
\* or a window that was running.  A hold of money that was never taken is
\* promised nothing: paying again may replace it, and a claim accepted ends it.
Promise == INSTANCE HeldPayment
             WITH state <- hold.state, amount <- hold.amount, window <- hold.clock, arrived <- received
HoldIsAsPromised == Promise!Init /\ [][Promise!Next \/ neverTaken]_(Promise!vars)

\* Delivered, the held payment is released, refunded or argued over in the
\* end: no order stays delivered with its money held (settleDue).
HeldDeliveredEnds == []<>~(status = "delivered" /\ hold.state = "held")
=============================================================================
