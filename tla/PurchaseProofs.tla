--------------------------- MODULE PurchaseProofs ---------------------------
(***************************************************************************)
(* For any price, any advance, any payments and any credits: what one      *)
(* order holds is paid for and leaves as buyer protection promises, the    *)
(* order never takes more than it costs, and what it owes back is on the   *)
(* refunds list until it is back.                                          *)
(***************************************************************************)
EXTENDS Purchase, Sums

Types ==
  /\ hold \in Holds
  /\ claim \in Claims
  /\ paid \in Nat /\ credited \in Nat
  /\ received \in BOOLEAN /\ cut \in BOOLEAN

\* A claim waiting for its answer still fits what is owed, and pays for something.
ClaimFits ==
  paymentStatus = "claimed" =>
    0 < paid + credited + claim.amount /\ paid + credited + claim.amount <= Price

\* Only protection holds money, and only on an order accepted and paid towards;
\* what a payment cut short left is on an accepted order too.
HoldIsProtected ==
  hold.state # "none" => accepted /\ (neverTaken \/ (method = "protected" /\ paymentStatus # "unpaid"))

\* Only a claim accepted over such a hold leaves a window and no hold.
NoHoldNoWindow == hold.state = "none" /\ hold.clock => accepted /\ paid + credited > 0

UnpaidIsUnpaid == paymentStatus = "unpaid" => paid = 0 /\ credited = 0

\* Nothing is held only where credit covered the whole payment.
EmptyHold == hold.amount = 0 => accepted /\ paid + credited > 0

IInv ==
  /\ Types
  /\ NeverPaidOver /\ ClaimFits /\ ClaimedIsUndecided
  /\ HoldIsProtected /\ NoHoldNoWindow /\ UnpaidIsUnpaid /\ EmptyHold
  /\ DeliveredHeldHasClock /\ HoldBacked

-----------------------------------------------------------------------------
\* Money: clamped arithmetic on naturals.
LEMMA LeastFacts ==
  ASSUME NEW a \in Nat, NEW b \in Nat
  PROVE  least(a, b) \in Nat /\ least(a, b) <= a /\ least(a, b) <= b
BY DEF least

LEMMA MinusFacts ==
  ASSUME NEW a \in Nat, NEW b \in Nat
  PROVE  /\ minus(a, b) \in Nat
         /\ b <= a => minus(a, b) = a - b
         /\ minus(a, b) > 0 => minus(a, b) = a - b
BY DEF minus

\* What may still be paid is what the price leaves.
LEMMA OutstandingFits ==
  ASSUME IInv
  PROVE  /\ Price \in Nat /\ Price > 0
         /\ outstanding \in Nat
         /\ paid + credited + outstanding <= Price
<1>1. Price \in Nat /\ Price > 0
  BY PriceAssumption
<1>2. paid \in Nat /\ credited \in Nat /\ paid + credited <= Price
  BY DEF IInv, Types, NeverPaidOver
<1>3. paidMinor \in Nat /\ paidMinor >= paid + credited
  BY <1>1, <1>2 DEF paidMinor, noPayments
<1>4. outstanding \in Nat /\ paid + credited + outstanding <= Price
  BY <1>1, <1>2, <1>3 DEF outstanding, minus
<1> QED BY <1>1, <1>4

\* What a payment is asked for, after `kept` of kept credit, fits too; and
\* the order is paid towards, by that or by the credit.
LEMMA DueFits ==
  ASSUME IInv, NEW plan \in Plans, NEW kept \in kepts
  PROVE  /\ kept \in Nat
         /\ dueAfterCredit(plan, kept) \in Nat
         /\ paid + dueAfterCredit(plan, kept) + credited + kept <= Price
         /\ paid + dueAfterCredit(plan, kept) + credited + kept > 0
<1>1. Price \in Nat /\ Price > 0 /\ outstanding \in Nat /\ paid + credited + outstanding <= Price
  BY OutstandingFits
<1>2. paid \in Nat /\ credited \in Nat
  BY DEF IInv, Types
<1>3. KeptMax \in Nat
  BY BoundsAssumption
<1>4. kept \in Nat /\ kept <= outstanding
  BY <1>1, <1>3, LeastFacts DEF kepts
<1> DEFINE asked == IF plan = "full" THEN Price ELSE Advance
<1>5. asked \in Nat /\ asked > 0
  BY PriceAssumption DEF Plans
<1> HIDE DEF asked
<1>6. dueAfterCredit(plan, kept) = least(minus(asked, credited + kept), minus(Price, paid + credited + kept))
  BY DEF dueAfterCredit, asked
<1> QED BY <1>1, <1>2, <1>4, <1>5, <1>6 DEF least, minus

\* Paid towards is never "unpaid", and money never makes a claim.
LEMMA StatusFacts ==
  ASSUME NEW sum \in Nat
  PROVE  /\ statusFromMoney(sum) # "claimed"
         /\ statusFromMoney(sum) = "unpaid" => sum = 0
<1>1. sum = 0 \/ sum > 0
  OBVIOUS
<1> QED BY <1>1 DEF statusFromMoney

-----------------------------------------------------------------------------
\* What can become of an order while its money, its claim and its hold stand
\* still: it may stop, or go back on the road, and its payment may be marked
\* refunded.
LEMMA Frame ==
  ASSUME IInv,
         UNCHANGED <<hold, claim, paid, credited, received, method, cut>>,
         accepted => accepted',
         paymentStatus' \in {paymentStatus, "refunded"},
         status' = "delivered" => status = "delivered"
  PROVE  IInv'
BY DEF IInv, Types, NeverPaidOver, ClaimFits, ClaimedIsUndecided, HoldIsProtected, neverTaken,
       NoHoldNoWindow, UnpaidIsUnpaid, EmptyHold, DeliveredHeldHasClock, HoldBacked

\* An order that can be paid has no money on it, and nothing held for it that
\* was taken.
LEMMA PayableHoldsNothing ==
  ASSUME IInv, canPay
  PROVE  /\ paid = 0 /\ credited = 0 /\ hold.amount > 0
         /\ hold.state = "none" => ~hold.clock
         /\ hold.state # "none" => neverTaken /\ accepted
<1>1. paymentStatus = "unpaid" /\ hold \in Holds
  BY DEF canPay, IInv, Types
<1>2. paid = 0 /\ credited = 0
  BY <1>1 DEF IInv, UnpaidIsUnpaid
<1>3. hold.amount \in Nat /\ hold.amount # 0
  BY <1>1, <1>2 DEF IInv, EmptyHold, Holds
<1>4. hold.state = "none" => ~hold.clock
  BY <1>2 DEF IInv, NoHoldNoWindow
<1>5. hold.state # "none" => neverTaken /\ accepted
  BY <1>1 DEF IInv, HoldIsProtected
<1> QED BY <1>2, <1>3, <1>4, <1>5

LEMMA PayInv ==
  ASSUME IInv, NEW way \in {"direct", "protected"}, NEW plan \in Plans, NEW kept \in kepts,
         pay(way, plan, kept)
  PROVE  IInv'
<1> DEFINE due == dueAfterCredit(plan, kept)
           sum == paid + due + credited + kept
<1>1. kept \in Nat /\ due \in Nat /\ sum <= Price /\ sum > 0
  BY DueFits
<1> HIDE DEF due
<1>2. /\ paid \in Nat /\ credited \in Nat /\ claim \in Claims /\ received \in BOOLEAN
      /\ hold \in Holds
  BY DEF IInv, Types
<1>3. /\ paid' = paid + due /\ credited' = credited + kept
      /\ method' = way /\ accepted' /\ status' = "confirmed" /\ cut' = FALSE
      /\ UNCHANGED <<claim, received>>
      /\ paymentStatus' = statusFromMoney(sum)
      /\ hold' = IF way = "protected"
                 THEN [hold EXCEPT !.state = "held", !.amount = due, !.clock = FALSE]
                 ELSE [hold EXCEPT !.state = "none", !.clock = FALSE]
  BY DEF pay, place, due, trip
<1>4. sum \in Nat /\ paymentStatus' # "claimed" /\ paymentStatus' # "unpaid"
  BY <1>1, <1>2, <1>3, StatusFacts
<1>5. /\ hold' \in Holds /\ hold'.clock = FALSE
      /\ IF way = "protected" THEN hold'.state = "held" /\ hold'.amount = due
                              ELSE hold'.state = "none" /\ hold'.amount = hold.amount
  BY <1>1, <1>2, <1>3 DEF Holds
<1>6. Types'
  <2>1. cut' \in BOOLEAN /\ received' \in BOOLEAN
    BY <1>2, <1>3
  <2>2. paid' \in Nat /\ credited' \in Nat /\ claim' \in Claims
    BY <1>1, <1>2, <1>3
  <2> QED BY <1>5, <2>1, <2>2 DEF Types
<1>7. NeverPaidOver' /\ ClaimFits' /\ ClaimedIsUndecided' /\ DeliveredHeldHasClock' /\ UnpaidIsUnpaid'
  BY <1>1, <1>2, <1>3, <1>4
     DEF NeverPaidOver, ClaimFits, ClaimedIsUndecided, DeliveredHeldHasClock, UnpaidIsUnpaid
<1>8. HoldIsProtected' /\ NoHoldNoWindow' /\ EmptyHold' /\ HoldBacked'
  BY <1>1, <1>2, <1>3, <1>4, <1>5 DEF HoldIsProtected, NoHoldNoWindow, EmptyHold, HoldBacked
<1> QED BY <1>6, <1>7, <1>8 DEF IInv

\* The first save of paying for a booking, and no second: the hold it leaves,
\* of the old amount, is more than the nothing that is paid.
LEMMA PayCutInv ==
  ASSUME IInv, NEW way \in {"direct", "protected"}, payCut(way)
  PROVE  IInv'
<1>1. /\ paid \in Nat /\ credited \in Nat /\ claim \in Claims /\ received \in BOOLEAN
      /\ hold \in Holds
  BY DEF IInv, Types
<1>2. paid = 0 /\ credited = 0 /\ hold.amount > 0 /\ paymentStatus = "unpaid"
  BY PayableHoldsNothing DEF payCut, canPay
<1>3. /\ cut' = (way = "protected") /\ status' = "confirmed" /\ accepted' /\ method' = way
      /\ UNCHANGED <<claim, received, paid, credited, paymentStatus>>
      /\ hold' = [hold EXCEPT !.state = IF way = "protected" THEN "held" ELSE "none", !.clock = FALSE]
  BY DEF payCut, trip, ledger
<1>4. /\ hold' \in Holds /\ hold'.clock = FALSE /\ hold'.amount = hold.amount
      /\ hold'.state = IF way = "protected" THEN "held" ELSE "none"
  BY <1>1, <1>3 DEF Holds
<1>5. Types' /\ NeverPaidOver' /\ ClaimFits' /\ ClaimedIsUndecided' /\ UnpaidIsUnpaid'
  BY <1>1, <1>2, <1>3, <1>4
     DEF IInv, Types, NeverPaidOver, ClaimFits, ClaimedIsUndecided, UnpaidIsUnpaid
<1>6. hold'.state # "none" => neverTaken'
  BY <1>2, <1>3, <1>4 DEF neverTaken
<1>7. HoldIsProtected' /\ NoHoldNoWindow' /\ EmptyHold'
  BY <1>2, <1>3, <1>4, <1>6 DEF HoldIsProtected, NoHoldNoWindow, EmptyHold
<1>8. DeliveredHeldHasClock' /\ HoldBacked'
  BY <1>3, <1>4, <1>6 DEF DeliveredHeldHasClock, HoldBacked, neverTaken
<1> QED BY <1>5, <1>7, <1>8 DEF IInv

\* What is left as it was by whoever places or pays with no hold of their own.
LEMMA HoldRests ==
  ASSUME IInv, UNCHANGED <<hold, paid, cut, received>>,
         accepted => accepted',
         claim' \in Claims, credited' \in Nat, paid + credited' <= Price,
         credited' >= credited,
         paymentStatus' = "unpaid" => paid = 0 /\ credited' = 0,
         paymentStatus' = "claimed" =>
           /\ claim'.decision = "open" /\ (hold.state = "none" \/ neverTaken)
           /\ 0 < paid + credited' + claim'.amount /\ paid + credited' + claim'.amount <= Price,
         hold.state # "none" => neverTaken \/ (method' = "protected" /\ paymentStatus' # "unpaid"),
         status' = "delivered" => status = "delivered"
  PROVE  IInv'
<1>1. paid \in Nat /\ credited \in Nat /\ hold \in Holds
  BY DEF IInv, Types
<1>2. neverTaken' <=> neverTaken
  BY DEF neverTaken
<1>3. Types' /\ NeverPaidOver' /\ ClaimFits' /\ ClaimedIsUndecided' /\ UnpaidIsUnpaid'
  BY <1>2 DEF IInv, Types, NeverPaidOver, ClaimFits, ClaimedIsUndecided, UnpaidIsUnpaid
<1>4. HoldIsProtected'
  BY <1>2 DEF IInv, HoldIsProtected
<1>5. NoHoldNoWindow' /\ EmptyHold'
  <2>1. paid + credited > 0 => paid' + credited' > 0
    <3>1. paid' = paid /\ credited' \in Nat /\ credited' >= credited
      OBVIOUS
    <3>2. \A p, c, d \in Nat : p + c > 0 /\ d >= c => p + d > 0
      OBVIOUS
    <3> QED BY <1>1, <3>1, <3>2, Zenon
  <2> QED BY <2>1, Zenon DEF IInv, NoHoldNoWindow, EmptyHold
<1>6. DeliveredHeldHasClock' /\ HoldBacked'
  BY DEF IInv, DeliveredHeldHasClock, HoldBacked
<1> QED BY <1>3, <1>4, <1>5, <1>6 DEF IInv

LEMMA PlaceOrderInv ==
  ASSUME IInv, NEW kept \in kepts, placeOrder(kept)
  PROVE  IInv'
<1>1. kept \in Nat /\ paid + credited + kept <= Price
  <2> DEFINE due == dueAfterCredit("full", kept)
  <2>1. "full" \in Plans
    BY DEF Plans
  <2>2. kept \in Nat /\ due \in Nat /\ paid + due + credited + kept <= Price
    BY <2>1, DueFits
  <2>3. paid \in Nat /\ credited \in Nat /\ Price \in Nat
    BY OutstandingFits DEF IInv, Types
  <2> HIDE DEF due
  <2> QED BY <2>2, <2>3
<1>2. /\ paid \in Nat /\ credited \in Nat /\ claim \in Claims
  BY DEF IInv, Types
<1>3. hold.state # "none" => neverTaken
  BY PayableHoldsNothing DEF placeOrder
<1>4. /\ credited' = credited + kept
      /\ UNCHANGED <<hold, paid, cut, received, claim, accepted, status>>
      /\ paymentStatus' = statusFromMoney(paid + credited + kept)
  BY DEF placeOrder, place, trip
<1>5. /\ paymentStatus' # "claimed"
      /\ paymentStatus' = "unpaid" => paid = 0 /\ credited' = 0
  BY <1>1, <1>2, <1>4, StatusFacts
<1> QED BY <1>1, <1>2, <1>3, <1>4, <1>5, HoldRests

LEMMA ClaimPaymentInv ==
  ASSUME IInv, NEW plan \in Plans, NEW kept \in kepts, claimPayment(plan, kept)
  PROVE  IInv'
<1> DEFINE due == dueAfterCredit(plan, kept)
<1>1. kept \in Nat /\ due \in Nat /\ paid + due + credited + kept <= Price
  BY DueFits
<1>2. hold.state # "none" => neverTaken
  BY PayableHoldsNothing DEF claimPayment
<1> HIDE DEF due
<1>3. paid \in Nat /\ credited \in Nat /\ Price \in Nat
  BY OutstandingFits DEF IInv, Types
<1>4. /\ paid' = paid /\ credited' = credited + kept /\ paymentStatus' = "claimed" /\ due > 0
      /\ claim' = [decision |-> "open", amount |-> due, excess |-> 0]
      /\ UNCHANGED <<hold, received, status, accepted, cut>>
  BY DEF claimPayment, place, due, trip
<1>5. claim' \in Claims /\ claim'.amount = due /\ claim'.decision = "open"
  BY <1>1, <1>4 DEF Claims
<1>6. /\ 0 < paid + credited' + claim'.amount /\ paid + credited' + claim'.amount <= Price
      /\ paid + credited' <= Price /\ credited' \in Nat /\ credited' >= credited
  BY <1>1, <1>3, <1>4, <1>5
<1> QED BY <1>2, <1>4, <1>5, <1>6, HoldRests

LEMMA ClaimCoveredInv ==
  ASSUME IInv, NEW plan \in Plans, NEW kept \in kepts, claimCovered(plan, kept)
  PROVE  IInv'
<1>1. kept \in Nat /\ paid + credited + kept <= Price /\ paid + credited + kept > 0
  BY DueFits DEF claimCovered, IInv, Types
<1>2. paid \in Nat /\ credited \in Nat /\ claim \in Claims
  BY DEF IInv, Types
<1>3. hold.state # "none" => neverTaken
  BY PayableHoldsNothing DEF claimCovered
<1>4. /\ paid' = paid /\ credited' = credited + kept /\ accepted'
      /\ UNCHANGED <<hold, received, claim, cut>> /\ status' = "confirmed"
      /\ paymentStatus' = statusFromMoney(paid + credited + kept)
  BY DEF claimCovered, place, trip
<1>5. paymentStatus' # "claimed" /\ paymentStatus' # "unpaid"
  BY <1>1, <1>2, <1>4, StatusFacts
<1> QED BY <1>1, <1>2, <1>3, <1>4, <1>5, HoldRests

\* A part-paid order with no payments on record reads as nothing paid.
LEMMA PartPaid ==
  ASSUME IInv, paymentStatus # "paid"
  PROVE  paidMinor = paid + credited
BY DEF paidMinor, noPayments, IInv, Types

LEMMA PayMoreDirectInv ==
  ASSUME IInv, NEW sum \in Nat, sum > 0, payMoreDirect(sum)
  PROVE  IInv'
<1> DEFINE take == least(sum, outstanding)
<1>1. /\ outstanding \in Nat /\ paid + credited + outstanding <= Price
      /\ paid \in Nat /\ credited \in Nat /\ Price \in Nat /\ Price > 0
  BY OutstandingFits DEF IInv, Types
<1>2. take \in Nat /\ take <= sum /\ take <= outstanding
  BY <1>1, LeastFacts
<1>3. paid + credited + take > 0
  <2>1. outstanding = minus(Price, paid + credited)
    BY PartPaid DEF payMoreDirect, canPayMore, outstanding
  <2> QED BY <1>1, <2>1 DEF minus, least
<1> HIDE DEF take
<1>4. /\ claim' = [decision |-> "open", amount |-> take, excess |-> sum - take]
      /\ paymentStatus' = "claimed" /\ paymentStatus = "partially_paid"
      /\ UNCHANGED <<status, accepted, method, paid, credited, hold, received, cut>>
      /\ method # "protected"
  BY DEF payMoreDirect, canPayMore, deal, trip, ledger, take
<1>5. claim' \in Claims /\ claim'.amount = take /\ claim'.decision = "open"
  BY <1>2, <1>4 DEF Claims
<1>6. hold.state # "none" => neverTaken
  BY <1>4 DEF IInv, HoldIsProtected
<1>7. /\ paid + credited + claim'.amount <= Price /\ 0 < paid + credited + claim'.amount
      /\ paid + credited <= Price
  BY <1>1, <1>2, <1>3, <1>5
<1> QED BY <1>1, <1>4, <1>5, <1>6, <1>7, HoldRests

LEMMA PayMoreProtectedInv ==
  ASSUME IInv, NEW sum \in Nat, payMoreProtected(sum)
  PROVE  IInv'
<1> DEFINE take == least(sum, outstanding)
<1>1. /\ outstanding \in Nat /\ paid + credited + outstanding <= Price
      /\ paid \in Nat /\ credited \in Nat /\ Price \in Nat
      /\ hold \in Holds
  BY OutstandingFits DEF IInv, Types
<1>2. take \in Nat /\ take <= sum /\ take <= outstanding
  BY <1>1, LeastFacts
<1>3. paidMinor = paid + credited
  BY PartPaid DEF payMoreProtected, canPayMore
<1> HIDE DEF take
<1>4. /\ paid' = paid + take /\ credited' = credited
      /\ paymentStatus' = IF take > 0 THEN statusFromMoney(paid + credited + take) ELSE paymentStatus
      /\ paymentStatus = "partially_paid" /\ method = "protected"
      /\ hold' = IF hold.state = "held" THEN [hold EXCEPT !.amount = @ + take] ELSE hold
      /\ UNCHANGED <<status, accepted, method, claim, received, cut>>
  BY <1>3 DEF payMoreProtected, canPayMore, deal, trip, take
<1>5. paymentStatus' # "claimed" /\ paymentStatus' # "unpaid"
  BY <1>1, <1>2, <1>4, StatusFacts
<1>6. /\ hold' \in Holds /\ hold'.state = hold.state /\ hold'.clock = hold.clock
      /\ hold'.amount <= hold.amount + take /\ hold'.amount >= hold.amount
  BY <1>1, <1>2, <1>4 DEF Holds
<1>7. hold.amount \in Nat /\ hold'.amount \in Nat
  BY <1>1, <1>6 DEF Holds
<1>8. Types'
  BY <1>1, <1>2, <1>4, <1>6 DEF IInv, Types
<1>9. NeverPaidOver' /\ ClaimFits' /\ ClaimedIsUndecided' /\ UnpaidIsUnpaid'
  BY <1>1, <1>2, <1>4, <1>5 DEF NeverPaidOver, ClaimFits, ClaimedIsUndecided, UnpaidIsUnpaid
<1>10. HoldIsProtected' /\ DeliveredHeldHasClock'
  BY <1>4, <1>5, <1>6 DEF IInv, HoldIsProtected, DeliveredHeldHasClock
<1>11. NoHoldNoWindow' /\ EmptyHold'
  BY <1>1, <1>2, <1>4, <1>6, <1>7 DEF IInv, NoHoldNoWindow, EmptyHold
<1>12. HoldBacked'
  BY <1>1, <1>2, <1>4, <1>6, <1>7 DEF IInv, HoldBacked
<1> QED BY <1>8, <1>9, <1>10, <1>11, <1>12 DEF IInv

\* An accepted claim is paid straight to the seller, and ends what a payment cut
\* short had left held.
LEMMA ClaimAcceptedInv ==
  ASSUME IInv, settleClaimAccept
  PROVE  IInv'
<1>1. /\ paid \in Nat /\ credited \in Nat /\ claim \in Claims /\ hold \in Holds
      /\ claim.amount \in Nat /\ received \in BOOLEAN
  BY DEF IInv, Types, Claims
<1>2. /\ 0 < paid + credited + claim.amount /\ paid + credited + claim.amount <= Price
  BY DEF IInv, settleClaimAccept, ClaimFits
<1>3. /\ claim' = [NoClaim EXCEPT !.decision = "accepted"]
      /\ hold' = [hold EXCEPT !.state = "none"] /\ cut' = FALSE
      /\ paid' = paid + claim.amount /\ credited' = credited
      /\ received' = received /\ (accepted => accepted')
      /\ paymentStatus' = statusFromMoney(paid + claim.amount + credited)
  BY DEF settleClaimAccept, trip
<1>4. /\ claim' \in Claims /\ hold' \in Holds
      /\ hold'.state = "none" /\ hold'.clock = hold.clock /\ hold'.amount = hold.amount
  BY <1>1, <1>3 DEF Holds, Claims, NoClaim
<1>5. paymentStatus' # "claimed" /\ paymentStatus' # "unpaid"
  BY <1>1, <1>2, <1>3, StatusFacts
<1>6. hold.clock => accepted
  BY DEF IInv, NoHoldNoWindow, HoldIsProtected
<1>7. hold.amount = 0 => accepted
  BY DEF IInv, EmptyHold
<1>8. Types' /\ NeverPaidOver' /\ ClaimFits' /\ ClaimedIsUndecided' /\ UnpaidIsUnpaid'
  <2>1. cut' \in BOOLEAN /\ received' \in BOOLEAN
    BY <1>1, <1>3
  <2>2. paid' \in Nat /\ credited' \in Nat /\ paid' + credited' <= Price
    BY <1>1, <1>2, <1>3
  <2> QED BY <1>4, <1>5, <2>1, <2>2
          DEF Types, NeverPaidOver, ClaimFits, ClaimedIsUndecided, UnpaidIsUnpaid
<1>9. NoHoldNoWindow' /\ EmptyHold'
  BY <1>1, <1>2, <1>3, <1>4, <1>6, <1>7 DEF NoHoldNoWindow, EmptyHold
<1>10. HoldIsProtected' /\ DeliveredHeldHasClock' /\ HoldBacked'
  BY <1>4 DEF HoldIsProtected, DeliveredHeldHasClock, HoldBacked
<1> QED BY <1>8, <1>9, <1>10 DEF IInv

LEMMA ClaimDeniedInv ==
  ASSUME IInv, settleClaimDeny
  PROVE  IInv'
<1>1. /\ paid \in Nat /\ credited \in Nat /\ paid + credited <= Price
      /\ hold.state # "none" => neverTaken
  BY DEF IInv, Types, NeverPaidOver, ClaimedIsUndecided, settleClaimDeny
<1>2. /\ claim' = [NoClaim EXCEPT !.decision = "denied"]
      /\ UNCHANGED <<hold, paid, credited, received, accepted, cut, status>>
      /\ paymentStatus' = statusFromMoney(paid + credited)
  BY DEF settleClaimDeny, deal, trip, ledger
<1>3. claim' \in Claims
  BY <1>2 DEF Claims, NoClaim
<1>4. /\ paymentStatus' # "claimed"
      /\ paymentStatus' = "unpaid" => paid = 0 /\ credited = 0
  BY <1>1, <1>2, StatusFacts
<1> QED BY <1>1, <1>2, <1>3, <1>4, HoldRests

\* The seller's first answer comes before anything is held.
LEMMA FreshHoldsNothing ==
  ASSUME IInv, fresh
  PROVE  /\ hold.state = "none" /\ ~hold.clock /\ hold.amount # 0 /\ paymentStatus # "claimed"
         /\ paid = 0
BY DEF IInv, fresh, onlyKeptCredit, HoldIsProtected, NoHoldNoWindow, UnpaidIsUnpaid, EmptyHold

LEMMA AnswerInv ==
  ASSUME IInv, acceptOrder \/ rejectOrder
  PROVE  IInv'
<1>1. /\ hold.state = "none" /\ ~hold.clock /\ hold.amount # 0 /\ paymentStatus # "claimed"
      /\ paid = 0
  BY FreshHoldsNothing DEF acceptOrder, rejectOrder, canAccept, canReject
<1>2. /\ paid \in Nat /\ credited \in Nat /\ claim \in Claims
      /\ paid + credited <= Price /\ Price \in Nat
  BY OutstandingFits DEF IInv, Types, NeverPaidOver
<1>3. /\ UNCHANGED <<hold, received, claim, paid, cut>>
      /\ credited' \in {credited, 0} /\ paymentStatus' \in {paymentStatus, "paid", "unpaid"}
      /\ paymentStatus' = "unpaid" => paymentStatus = "unpaid" \/ credited' = 0
      /\ credited' = 0 \/ credited' = credited
  BY DEF acceptOrder, rejectOrder, deal, trip, ledger
<1>4. Types' /\ NeverPaidOver' /\ ClaimFits' /\ ClaimedIsUndecided'
  <2>1. paymentStatus' # "claimed"
    BY <1>1, <1>3
  <2>2. credited' \in Nat /\ paid' + credited' <= Price
    <3>1. paid' = paid /\ (credited' = 0 \/ credited' = credited)
      BY <1>3
    <3> QED BY <1>2, <3>1
  <2>3. Types'
    BY <1>3, <2>2 DEF IInv, Types
  <2> QED BY <2>1, <2>2, <2>3 DEF NeverPaidOver, ClaimFits, ClaimedIsUndecided
<1>5. UnpaidIsUnpaid'
  BY <1>1, <1>3 DEF IInv, UnpaidIsUnpaid
<1>6. HoldIsProtected' /\ NoHoldNoWindow' /\ EmptyHold' /\ DeliveredHeldHasClock' /\ HoldBacked'
  BY <1>1, <1>3 DEF HoldIsProtected, NoHoldNoWindow, EmptyHold, DeliveredHeldHasClock, HoldBacked
<1> QED BY <1>4, <1>5, <1>6 DEF IInv

LEMMA ApplyHereInv ==
  ASSUME IInv, NEW a \in Nat, a > 0, NEW way \in {"direct", "protected"}, applyHere(a, way)
  PROVE  IInv'
<1>1. /\ paid \in Nat /\ credited \in Nat /\ Price \in Nat /\ outstanding \in Nat
      /\ paid + credited + outstanding <= Price /\ claim \in Claims
  BY OutstandingFits DEF IInv, Types
<1>2. /\ a <= outstanding /\ paymentStatus # "claimed"
      /\ method' = IF method = "none" THEN way ELSE method
      /\ credited' = credited + a /\ paid' = paid
      /\ paymentStatus' = statusFromMoney(paid + credited + a)
      /\ status' \in {status, "confirmed"}
      /\ (accepted => accepted')
      /\ UNCHANGED <<hold, received, claim, cut>>
  BY DEF applyHere, trip
<1>3. paymentStatus' # "claimed" /\ paymentStatus' # "unpaid"
  BY <1>1, <1>2, StatusFacts
<1>4. hold.state # "none" => neverTaken \/ method' = "protected"
  BY <1>2 DEF IInv, HoldIsProtected
<1>5. credited' \in Nat /\ paid + credited' <= Price /\ credited' >= credited
  BY <1>1, <1>2
<1> QED BY <1>1, <1>2, <1>3, <1>4, <1>5, HoldRests

-----------------------------------------------------------------------------
\* What becomes of a hold, while the money and the claim stand still.
LEMMA HoldMoves ==
  ASSUME IInv,
         UNCHANGED <<claim, paid, credited, method, accepted, cut>>,
         hold' \in Holds, received' \in BOOLEAN,
         hold.state # "none", hold'.state # "none", hold'.amount = hold.amount,
         hold'.state \in {"held", "disputed"} => hold.state \in {"held", "disputed"},
         paymentStatus' \in {paymentStatus, "paid", "partially_paid", "refunded"},
         status' = "delivered" /\ hold'.state = "held" => hold'.clock
  PROVE  IInv'
<1>1. neverTaken' <=> neverTaken
  BY DEF neverTaken
<1>2. Types' /\ NeverPaidOver' /\ ClaimFits' /\ UnpaidIsUnpaid' /\ EmptyHold'
  BY DEF IInv, Types, NeverPaidOver, ClaimFits, UnpaidIsUnpaid, EmptyHold
<1>3. ClaimedIsUndecided'
  BY <1>1 DEF IInv, ClaimedIsUndecided
<1>4. HoldIsProtected'
  BY <1>1 DEF IInv, HoldIsProtected
<1>5. NoHoldNoWindow' /\ DeliveredHeldHasClock' /\ HoldBacked'
  BY DEF IInv, NoHoldNoWindow, DeliveredHeldHasClock, HoldBacked
<1> QED BY <1>2, <1>3, <1>4, <1>5 DEF IInv

\* Nor does a parcel that moves bring a hold about.
LEMMA UnheldMoves ==
  ASSUME IInv,
         UNCHANGED <<claim, paid, credited, paymentStatus, method, accepted, hold, cut>>,
         received' \in BOOLEAN,
         hold.state # "held"
  PROVE  IInv'
<1>1. neverTaken' <=> neverTaken
  BY DEF neverTaken
<1>2. Types' /\ NeverPaidOver' /\ ClaimFits' /\ UnpaidIsUnpaid' /\ EmptyHold' /\ ClaimedIsUndecided'
  BY <1>1 DEF IInv, Types, NeverPaidOver, ClaimFits, ClaimedIsUndecided, UnpaidIsUnpaid, EmptyHold
<1>3. HoldIsProtected' /\ NoHoldNoWindow' /\ DeliveredHeldHasClock' /\ HoldBacked'
  BY <1>1 DEF IInv, HoldIsProtected, NoHoldNoWindow, DeliveredHeldHasClock, HoldBacked
<1> QED BY <1>2, <1>3 DEF IInv

LEMMA ReleaseInv ==
  ASSUME IInv, confirm \/ settleDue
  PROVE  IInv'
<1>1. /\ hold' = IF hold.state = "held" THEN [hold EXCEPT !.state = "released"] ELSE hold
      /\ UNCHANGED <<claim, paid, credited, paymentStatus, method, accepted, cut>>
      /\ hold \in Holds
      /\ received' \in BOOLEAN
  BY DEF confirm, settleDue, releaseHeld, deal, ledger, IInv, Types
<1>2. CASE hold.state = "held"
  <2>1. hold' \in Holds /\ hold'.state = "released" /\ hold'.amount = hold.amount
    BY <1>1, <1>2 DEF Holds
  <2> QED BY <1>1, <1>2, <2>1, HoldMoves
<1>3. CASE hold.state # "held"
  BY <1>1, <1>3, UnheldMoves
<1> QED BY <1>2, <1>3

LEMMA TickInv ==
  ASSUME IInv, dispatchTick \/ undispatch
  PROVE  IInv'
<1>1. /\ hold \in Holds /\ received' \in BOOLEAN
      /\ UNCHANGED <<claim, paid, credited, paymentStatus, method, accepted, received, cut>>
  BY DEF dispatchTick, undispatch, deal, ledger, IInv, Types
<1>2. hold' \in {hold, [hold EXCEPT !.clock = TRUE], [hold EXCEPT !.clock = FALSE]}
  BY DEF dispatchTick, undispatch
<1>3. hold.state # "held" => hold' = hold
  BY DEF dispatchTick, undispatch
<1>4. status' = "delivered" => status = "delivered" /\ hold' = hold
  BY DEF dispatchTick, undispatch
<1>5. CASE hold.state = "held"
  <2>1. hold' \in Holds /\ hold'.state = "held" /\ hold'.amount = hold.amount
    BY <1>1, <1>2, <1>5 DEF Holds
  <2>2. status' = "delivered" => hold'.clock
    BY <1>4, <1>5 DEF IInv, DeliveredHeldHasClock
  <2> QED BY <1>1, <1>5, <2>1, <2>2, HoldMoves
<1>6. CASE hold.state # "held"
  BY <1>1, <1>3, <1>6, UnheldMoves
<1> QED BY <1>5, <1>6

LEMMA DeliverInv ==
  ASSUME IInv, deliveredTick \/ stepToLast
  PROVE  IInv'
<1>1. /\ hold \in Holds /\ received' \in BOOLEAN /\ deliver
      /\ UNCHANGED <<claim, paid, credited, paymentStatus, method, accepted, received, cut>>
  BY DEF deliveredTick, stepToLast, deal, ledger, IInv, Types
<1>2. CASE hold.state = "held"
  <2>1. hold' = [hold EXCEPT !.clock = TRUE] \/ (status = "delivered" /\ hold' = hold)
    BY <1>1, <1>2 DEF deliver
  <2>2. hold' \in Holds /\ hold'.state = "held" /\ hold'.amount = hold.amount /\ hold'.clock
    BY <1>1, <1>2, <2>1 DEF Holds, IInv, DeliveredHeldHasClock
  <2> QED BY <1>1, <1>2, <2>2, HoldMoves
<1>3. CASE hold.state # "held"
  BY <1>1, <1>3, UnheldMoves DEF deliver
<1> QED BY <1>2, <1>3

LEMMA DisputeInv ==
  ASSUME IInv,
         \/ \E side \in {"buyer", "seller"} : open(side)
         \/ backOnHold
         \/ \E back \in 0 .. Price : moveHeld(back)
  PROVE  IInv'
<1>1. hold \in Holds /\ received \in BOOLEAN
  BY DEF IInv, Types
<1>2. CASE \E side \in {"buyer", "seller"} : open(side)
  <2>1. /\ hold' = [hold EXCEPT !.state = "disputed", !.clock = FALSE, !.dispute = TRUE] /\ hold.state = "held"
        /\ UNCHANGED <<claim, paid, credited, paymentStatus, method, accepted, received, cut>>
    BY <1>2 DEF open, deal, trip, ledger
  <2>2. hold' \in Holds /\ hold'.state = "disputed" /\ hold'.amount = hold.amount
    BY <1>1, <2>1 DEF Holds
  <2> QED BY <1>1, <2>1, <2>2, HoldMoves
<1>3. CASE backOnHold
  <2>1. /\ UNCHANGED <<status, claim, paid, credited, paymentStatus, method, accepted, received, cut>>
        /\ hold.state = "disputed"
    BY <1>3 DEF backOnHold, deal, trip, ledger
  <2>2. PICK shipped \in BOOLEAN :
          /\ status \in {"shipped", "delivered"} => shipped
          /\ hold' = [hold EXCEPT !.state = "held", !.clock = shipped, !.dispute = FALSE]
    BY <1>3 DEF backOnHold
  <2>3. /\ hold' \in Holds /\ hold'.state = "held" /\ hold'.amount = hold.amount
        /\ hold'.clock = shipped
    BY <1>1, <2>2 DEF Holds
  <2> QED BY <1>1, <2>1, <2>2, <2>3, HoldMoves
<1>4. CASE \E back \in 0 .. Price : moveHeld(back)
  <2>1. PICK back \in 0 .. Price : moveHeld(back)
    BY <1>4
  <2>2. /\ hold.state = "disputed"
        /\ hold' \in {[hold EXCEPT !.state = "refunded"], [hold EXCEPT !.state = "released"]}
        /\ paymentStatus' \in {"refunded", "partially_paid", "paid"}
        /\ UNCHANGED <<claim, paid, credited, method, accepted, received, cut>>
    BY <2>1 DEF moveHeld, deal, ledger
  <2>3. hold' \in Holds /\ hold'.state \in {"refunded", "released"} /\ hold'.amount = hold.amount
    BY <1>1, <2>2 DEF Holds
  <2> QED BY <1>1, <2>2, <2>3, HoldMoves
<1> QED BY <1>2, <1>3, <1>4

\* Handlers that leave the money, the claim and the hold as they are.
LEMMA QuietInv ==
  ASSUME IInv,
         \/ bookOrder \/ cancelUnpaid \/ cancelPaid \/ closeOrder
         \/ undeliveredTick \/ stepShort
         \/ refundAll \/ ackReversal \/ raiseDispute
         \/ \E i \in DOMAIN credits, a \in 1 .. TypedMax : refundOne(i, a) \/ applyAway(i, a)
         \/ \E a \in 1 .. TypedMax : startRefund(a)
         \/ \E S :
              ackCreditRefund(S) \/ denyCreditRefund(S) \/ holdCredit(S)
         \/ \E i, a : submitReversal(i, a)
  PROVE  IInv'
<1>1. /\ UNCHANGED <<hold, claim, paid, credited, received, method, cut>>
      /\ accepted => accepted'
      /\ paymentStatus' \in {paymentStatus, "refunded"}
      /\ status' = "delivered" => status = "delivered"
  <2>1. CASE bookOrder \/ cancelUnpaid \/ cancelPaid \/ closeOrder
    BY <2>1 DEF bookOrder, cancelUnpaid, cancelPaid, closeOrder, deal, trip, ledger
  <2>2. CASE undeliveredTick \/ stepShort
    BY <2>2 DEF undeliveredTick, stepShort, undeliver, travellingStatus, deal, trip, ledger
  <2>3. CASE refundAll \/ ackReversal \/ raiseDispute
    BY <2>3 DEF refundAll, ackReversal, raiseDispute, deal, trip, ledger
  <2>4. CASE \E i \in DOMAIN credits, a \in 1 .. TypedMax : refundOne(i, a) \/ applyAway(i, a)
    <3>1. PICK i \in DOMAIN credits, a \in 1 .. TypedMax : refundOne(i, a) \/ applyAway(i, a)
      BY <2>4, Zenon
    <3>2. CASE refundOne(i, a)
      BY <3>2 DEF refundOne, deal, trip, ledger
    <3>3. CASE applyAway(i, a)
      <4>1. /\ UNCHANGED <<hold, claim, deal, trip, method, ledger>>
            /\ \/ UNCHANGED <<status, paymentStatus>>
               \/ finishReversal
               \/ status' = "cancelled" /\ UNCHANGED paymentStatus
        BY <3>3, Zenon DEF applyAway
      <4> QED BY <4>1 DEF finishReversal, deal, trip, ledger
    <3> QED BY <3>1, <3>2, <3>3
  <2>5. CASE \E a \in 1 .. TypedMax : startRefund(a)
    BY <2>5 DEF startRefund, deal, trip, ledger
  <2>6. CASE \E S :
               ackCreditRefund(S) \/ denyCreditRefund(S) \/ holdCredit(S)
    <3>1. PICK S :
                 ackCreditRefund(S) \/ denyCreditRefund(S) \/ holdCredit(S)
      BY <2>6, Zenon
    <3>2. CASE ackCreditRefund(S)
      <4>1. /\ UNCHANGED <<hold, claim, deal, trip, method, paid, credited>>
            /\ UNCHANGED <<status, paymentStatus, reversal>> \/ finishReversal
        BY <3>2, Zenon DEF ackCreditRefund
      <4> QED BY <4>1 DEF finishReversal, deal, trip
    <3>3. CASE denyCreditRefund(S)
      BY <3>3 DEF denyCreditRefund, deal, trip, ledger
    <3>4. CASE holdCredit(S)
      <4>1. /\ UNCHANGED <<hold, claim, deal, trip, paymentStatus, method, ledger>>
            /\ status' = "cancelled" \/ status' = status
        BY <3>4, Zenon DEF holdCredit
      <4> QED BY <4>1 DEF deal, trip, ledger
    <3> QED BY <3>1, <3>2, <3>3, <3>4
  <2>7. CASE \E i, a : submitReversal(i, a)
    <3>1. PICK i, a : submitReversal(i, a)
      BY <2>7, Zenon
    <3>2. /\ UNCHANGED <<hold, claim, deal, trip, method, paid, credited>>
          /\ status' = "cancelled_reversed" /\ paymentStatus' = "refunded"
      BY <3>1, Zenon DEF submitReversal
    <3> QED BY <3>2 DEF deal, trip
  <2> QED BY <2>1, <2>2, <2>3, <2>4, <2>5, <2>6, <2>7
<1> QED BY <1>1, Frame

LEMMA StutterInv == ASSUME IInv, UNCHANGED vars PROVE IInv'
BY Frame DEF vars, deal, trip, ledger

-----------------------------------------------------------------------------
\* Next, with its handlers sorted by what they do to the money and the hold.
LEMMA Steps ==
  ASSUME Next
  PROVE  \/ \E way \in {"direct", "protected"}, plan \in Plans, kept \in kepts : pay(way, plan, kept)
         \/ \E plan \in Plans, kept \in kepts : claimPayment(plan, kept) \/ claimCovered(plan, kept)
         \/ \E kept \in kepts : placeOrder(kept)
         \/ \E way \in {"direct", "protected"} : payCut(way)
         \/ \E sum \in Nat : sum > 0 /\ (payMoreDirect(sum) \/ payMoreProtected(sum))
         \/ settleClaimAccept \/ settleClaimDeny \/ acceptOrder \/ rejectOrder
         \/ \E a \in Nat, way \in {"direct", "protected"} : a > 0 /\ applyHere(a, way)
         \/ confirm \/ settleDue \/ dispatchTick \/ undispatch \/ deliveredTick \/ stepToLast
         \/ \E side \in {"buyer", "seller"} : open(side)
         \/ backOnHold
         \/ \E back \in 0 .. Price : moveHeld(back)
         \/ bookOrder \/ cancelUnpaid \/ cancelPaid \/ closeOrder
         \/ undeliveredTick \/ stepShort
         \/ refundAll \/ ackReversal \/ raiseDispute
         \/ \E i \in DOMAIN credits, a \in 1 .. TypedMax : refundOne(i, a) \/ applyAway(i, a)
         \/ \E a \in 1 .. TypedMax : startRefund(a)
         \/ \E S : ackCreditRefund(S) \/ denyCreditRefund(S) \/ holdCredit(S)
         \/ \E i, a : submitReversal(i, a)
<1>1. Methods \subseteq {"direct", "protected"} /\ 1 .. TypedMax \subseteq Nat
  BY MethodsAssumption, BoundsAssumption
<1>2. /\ \A a \in 1 .. KeptMax : a \in Nat /\ a > 0
      /\ \A a \in 1 .. TypedMax : a \in Nat /\ a > 0
  BY BoundsAssumption
<1>3. CASE BuyerPays
  BY <1>1, <1>2, <1>3, Zenon DEF BuyerPays
<1>4. CASE MoneyReturns
  BY <1>1, <1>2, <1>4, Zenon DEF MoneyReturns
<1> QED BY <1>3, <1>4, Zenon DEF Next, SellerAnswers, ParcelMoves, Disputing

LEMMA StepInv == ASSUME IInv, Next PROVE IInv'
<1>1. CASE \E way \in {"direct", "protected"}, plan \in Plans, kept \in kepts : pay(way, plan, kept)
  BY <1>1, PayInv, Zenon
<1>2. CASE \E plan \in Plans, kept \in kepts : claimPayment(plan, kept) \/ claimCovered(plan, kept)
  BY <1>2, ClaimPaymentInv, ClaimCoveredInv, Zenon
<1>9. CASE \E kept \in kepts : placeOrder(kept)
  BY <1>9, PlaceOrderInv, Zenon
<1>10. CASE \E way \in {"direct", "protected"} : payCut(way)
  BY <1>10, PayCutInv, Zenon
<1>3. CASE \E sum \in Nat : sum > 0 /\ (payMoreDirect(sum) \/ payMoreProtected(sum))
  BY <1>3, PayMoreDirectInv, PayMoreProtectedInv, Zenon
<1>4. CASE settleClaimAccept \/ settleClaimDeny \/ acceptOrder \/ rejectOrder
  BY <1>4, ClaimAcceptedInv, ClaimDeniedInv, AnswerInv, Zenon
<1>5. CASE \E a \in Nat, way \in {"direct", "protected"} : a > 0 /\ applyHere(a, way)
  BY <1>5, ApplyHereInv, Zenon
<1>6. CASE confirm \/ settleDue \/ dispatchTick \/ undispatch \/ deliveredTick \/ stepToLast
  BY <1>6, ReleaseInv, TickInv, DeliverInv, Zenon
<1>7. CASE \/ \E side \in {"buyer", "seller"} : open(side)
           \/ backOnHold
           \/ \E back \in 0 .. Price : moveHeld(back)
  BY <1>7, DisputeInv, Zenon
<1>8. CASE \/ bookOrder \/ cancelUnpaid \/ cancelPaid \/ closeOrder
           \/ undeliveredTick \/ stepShort
           \/ refundAll \/ ackReversal \/ raiseDispute
           \/ \E i \in DOMAIN credits, a \in 1 .. TypedMax : refundOne(i, a) \/ applyAway(i, a)
           \/ \E a \in 1 .. TypedMax : startRefund(a)
           \/ \E S : ackCreditRefund(S) \/ denyCreditRefund(S) \/ holdCredit(S)
           \/ \E i, a : submitReversal(i, a)
  BY <1>8, QuietInv, Zenon
<1> QED BY <1>1, <1>2, <1>3, <1>4, <1>5, <1>6, <1>7, <1>8, <1>9, <1>10, Steps, Zenon

LEMMA InitInv == ASSUME Init PROVE IInv
<1>1. Price \in Nat /\ Price > 0 /\ KeptMax \in Nat
  BY PriceAssumption, BoundsAssumption
<1>2. /\ hold = [state |-> "none", amount |-> Price, clock |-> FALSE, dispute |-> FALSE]
      /\ claim = NoClaim
  BY DEF Init
<1>3. /\ paid = 0 /\ received = FALSE /\ cut = FALSE /\ paymentStatus # "claimed"
      /\ paymentStatus = "unpaid" => credited = 0
  BY DEF Init
<1>4. credited \in Nat /\ credited <= Price
  <2>1. least(KeptMax, Price) \in Nat /\ least(KeptMax, Price) <= Price
    BY <1>1, LeastFacts
  <2>2. credited = 0 \/ credited \in 1 .. least(KeptMax, Price)
    BY DEF Init
  <2> QED BY <1>1, <2>1, <2>2
<1>5. Types
  BY <1>1, <1>2, <1>3, <1>4 DEF Types, Holds, Claims, NoClaim
<1> QED
  BY <1>1, <1>2, <1>3, <1>4, <1>5
     DEF IInv, NeverPaidOver, ClaimFits, ClaimedIsUndecided, HoldIsProtected,
         NoHoldNoWindow, UnpaidIsUnpaid, EmptyHold, DeliveredHeldHasClock, HoldBacked

\* The inductive invariant, for every price, plan, amount and interleaving.
THEOREM Inductive == Spec => []IInv
<1>1. Init => IInv
  BY InitInv
<1>2. IInv /\ [Next]_vars => IInv'
  BY StepInv, StutterInv, Zenon
<1> QED BY <1>1, <1>2, PTL DEF Spec

\* No order takes more than it costs: not by an advance and a rest, a claim
\* answered after credit arrived, or credit moved here from anywhere.
THEOREM NeverTakesMoreThanItCosts == Spec => []NeverPaidOver
<1>1. IInv => NeverPaidOver
  BY DEF IInv
<1> QED BY <1>1, Inductive, PTL

\* A claim on the seller's desk is one they can still answer, and whatever is
\* held beside it was never taken: a payment got no further there.
THEOREM ClaimsStayOpen == Spec => []ClaimedIsUndecided
<1>1. IInv => ClaimedIsUndecided
  BY DEF IInv
<1> QED BY <1>1, Inductive, PTL

\* Delivered, held money always has its window running.
THEOREM DeliveryRunsTheWindow == Spec => []DeliveredHeldHasClock
<1>1. IInv => DeliveredHeldHasClock
  BY DEF IInv
<1> QED BY <1>1, Inductive, PTL

\* Held or disputed money was paid, unless the payment that promised it got no
\* further than its first save and none was made or accepted since.
THEOREM HeldMoneyWasPaid == Spec => []HoldBacked
<1>1. IInv => HoldBacked
  BY DEF IInv
<1> QED BY <1>1, Inductive, PTL

-----------------------------------------------------------------------------
(* The hold implements HeldPayment.                                        *)

LEMMA QuietMaps ==
  ASSUME UNCHANGED <<hold, received>>
  PROVE  UNCHANGED Promise!vars
BY DEF Promise!vars

\* What changes no hold: everything but the actions below.
LEMMA QuietSteps ==
  ASSUME IInv,
         \/ \E plan \in Plans, kept \in kepts : claimPayment(plan, kept) \/ claimCovered(plan, kept)
         \/ \E kept \in kepts : placeOrder(kept)
         \/ \E sum \in Nat : payMoreDirect(sum)
         \/ settleClaimDeny \/ acceptOrder \/ rejectOrder
         \/ \E a \in Nat, way \in {"direct", "protected"} : a > 0 /\ applyHere(a, way)
         \/ bookOrder \/ cancelUnpaid \/ cancelPaid \/ closeOrder
         \/ undeliveredTick \/ stepShort
         \/ refundAll \/ ackReversal \/ raiseDispute
         \/ \E i \in DOMAIN credits, a \in 1 .. TypedMax : refundOne(i, a) \/ applyAway(i, a)
         \/ \E a \in 1 .. TypedMax : startRefund(a)
         \/ \E S : ackCreditRefund(S) \/ denyCreditRefund(S) \/ holdCredit(S)
         \/ \E i, a : submitReversal(i, a)
  PROVE  UNCHANGED <<hold, received>>
<1>1. UNCHANGED <<hold, trip>>
  BY Zenon
     DEF claimPayment, claimCovered, placeOrder, payMoreDirect, settleClaimDeny, acceptOrder, rejectOrder,
         applyHere, bookOrder, cancelUnpaid, cancelPaid, closeOrder, undeliveredTick, stepShort,
         refundAll, ackReversal, raiseDispute, refundOne, applyAway, startRefund,
         ackCreditRefund, denyCreditRefund, holdCredit, submitReversal
<1> QED BY <1>1 DEF trip

\* Where a payment was cut short before, there is no promise to keep.
LEMMA PayMaps ==
  ASSUME IInv, NEW way \in {"direct", "protected"}, NEW plan \in Plans, NEW kept \in kepts,
         pay(way, plan, kept) \/ payCut(way)
  PROVE  Promise!Take \/ neverTaken \/ UNCHANGED Promise!vars
<1>1. /\ hold \in Holds /\ received' = received
      /\ hold.state = "none" => ~hold.clock
      /\ hold.state # "none" => neverTaken
  BY PayableHoldsNothing DEF IInv, Types, pay, payCut, trip
<1>2. dueAfterCredit(plan, kept) \in Nat /\ hold.amount \in Nat
  BY <1>1, DueFits DEF Holds
<1>3. CASE hold.state = "none" /\ way = "protected"
  <2>1. /\ hold'.state = "held" /\ hold'.clock = FALSE
        /\ hold'.amount \in {dueAfterCredit(plan, kept), hold.amount}
    <3>1. CASE pay(way, plan, kept)
      <4>1. hold' = [hold EXCEPT !.state = "held", !.amount = dueAfterCredit(plan, kept), !.clock = FALSE]
        BY <1>3, <3>1 DEF pay
      <4> QED BY <1>1, <4>1 DEF Holds
    <3>2. CASE payCut(way)
      <4>1. hold' = [hold EXCEPT !.state = "held", !.clock = FALSE]
        BY <1>3, <3>2 DEF payCut
      <4> QED BY <1>1, <4>1 DEF Holds
    <3> QED BY <3>1, <3>2
  <2> QED BY <1>1, <1>2, <1>3, <2>1 DEF Promise!Take
<1>4. CASE hold.state = "none" /\ way = "direct"
  <2>1. hold' = [hold EXCEPT !.state = "none", !.clock = FALSE]
    BY <1>4 DEF pay, payCut
  <2>2. hold' = hold
    BY <1>1, <1>4, <2>1 DEF Holds
  <2> QED BY <1>1, <2>2, QuietMaps
<1> QED BY <1>1, <1>3, <1>4

\* A claim accepted ends only a hold that was never taken.
LEMMA ClaimMaps ==
  ASSUME IInv, settleClaimAccept
  PROVE  neverTaken \/ UNCHANGED Promise!vars
<1>1. hold \in Holds /\ (hold.state = "none" \/ neverTaken)
  BY DEF IInv, Types, settleClaimAccept, ClaimedIsUndecided
<1>2. hold' = [hold EXCEPT !.state = "none"] /\ received' = received
  BY DEF settleClaimAccept, trip
<1>3. hold.state = "none" => hold' = hold
  BY <1>1, <1>2 DEF Holds
<1> QED BY <1>1, <1>2, <1>3, QuietMaps

LEMMA PayMoreMaps ==
  ASSUME IInv, NEW sum \in Nat, payMoreProtected(sum)
  PROVE  Promise!TopUp \/ UNCHANGED Promise!vars
<1> DEFINE take == least(sum, outstanding)
<1>1. hold \in Holds /\ hold.amount \in Nat /\ take \in Nat /\ received' = received
  BY OutstandingFits, LeastFacts DEF IInv, Types, Holds, payMoreProtected, trip
<1>2. hold' = IF hold.state = "held" THEN [hold EXCEPT !.amount = @ + take] ELSE hold
  BY DEF payMoreProtected
<1> HIDE DEF take
<1>3. CASE hold.state = "held" /\ take > 0
  <2>1. /\ hold'.state = "held" /\ hold'.clock = hold.clock
        /\ hold'.amount = hold.amount + take
    BY <1>1, <1>2, <1>3 DEF Holds
  <2>2. hold'.amount \in Nat /\ hold'.amount > hold.amount
    BY <1>1, <1>3, <2>1
  <2> QED BY <1>1, <1>3, <2>1, <2>2 DEF Promise!TopUp
<1>4. CASE ~(hold.state = "held" /\ take > 0)
  <2>1. hold' = hold
    BY <1>1, <1>2, <1>4 DEF Holds
  <2> QED BY <1>1, <2>1, QuietMaps
<1> QED BY <1>3, <1>4

LEMMA ReleaseMaps ==
  ASSUME IInv, confirm \/ settleDue
  PROVE  Promise!Release \/ Promise!ArriveUnheld
<1>1. /\ hold \in Holds
      /\ hold' = IF hold.state = "held" THEN [hold EXCEPT !.state = "released"] ELSE hold
  BY DEF IInv, Types, confirm, settleDue, releaseHeld
<1>2. \/ received = FALSE /\ received' = TRUE
      \/ hold.state = "held" /\ hold.clock = TRUE /\ received' = received
  BY DEF confirm, settleDue, canConfirm, IInv, Types
<1>3. CASE hold.state = "held"
  <2>1. hold'.state = "released" /\ hold'.amount = hold.amount /\ hold'.clock = hold.clock
    BY <1>1, <1>3 DEF Holds
  <2> QED BY <1>2, <1>3, <2>1 DEF Promise!Release, Promise!Arrive
<1>4. CASE hold.state # "held"
  BY <1>1, <1>2, <1>4 DEF Promise!ArriveUnheld, Promise!Arrive
<1> QED BY <1>3, <1>4

LEMMA ParcelMaps ==
  ASSUME IInv, dispatchTick \/ undispatch \/ deliveredTick \/ stepToLast
  PROVE  Promise!SetWindow \/ UNCHANGED Promise!vars
<1>1. hold \in Holds /\ received' = received
  BY DEF IInv, Types, dispatchTick, undispatch, deliveredTick, stepToLast
<1>2. \/ hold' = hold
      \/ hold.state = "held" /\ hold' \in {[hold EXCEPT !.clock = TRUE], [hold EXCEPT !.clock = FALSE]}
  BY DEF dispatchTick, undispatch, deliveredTick, stepToLast, deliver
<1>3. CASE hold' = hold
  BY <1>1, <1>3, QuietMaps
<1>4. CASE hold.state = "held" /\ hold' \in {[hold EXCEPT !.clock = TRUE], [hold EXCEPT !.clock = FALSE]}
  <2>1. hold'.state = "held" /\ hold'.amount = hold.amount /\ hold'.clock \in BOOLEAN
    BY <1>1, <1>4 DEF Holds
  <2> QED BY <1>1, <1>4, <2>1 DEF Promise!SetWindow
<1> QED BY <1>2, <1>3, <1>4

LEMMA DisputeMaps ==
  ASSUME IInv,
         \/ \E side \in {"buyer", "seller"} : open(side)
         \/ backOnHold
         \/ \E back \in 0 .. Price : moveHeld(back)
  PROVE  Promise!Freeze \/ Promise!Unfreeze \/ Promise!Settle
<1>1. hold \in Holds
  BY DEF IInv, Types
<1>2. CASE \E side \in {"buyer", "seller"} : open(side)
  <2>1. /\ hold' = [hold EXCEPT !.state = "disputed", !.clock = FALSE, !.dispute = TRUE]
        /\ hold.state = "held" /\ received' = received
    BY <1>2 DEF open, trip
  <2>2. hold'.state = "disputed" /\ hold'.amount = hold.amount /\ hold'.clock = FALSE
    BY <1>1, <2>1 DEF Holds
  <2> QED BY <2>1, <2>2 DEF Promise!Freeze
<1>3. CASE backOnHold
  <2>1. hold.state = "disputed" /\ received' = received
    BY <1>3 DEF backOnHold, trip
  <2>2. PICK shipped \in BOOLEAN : hold' = [hold EXCEPT !.state = "held", !.clock = shipped, !.dispute = FALSE]
    BY <1>3 DEF backOnHold
  <2>3. hold'.state = "held" /\ hold'.amount = hold.amount /\ hold'.clock \in BOOLEAN
    BY <1>1, <2>2 DEF Holds
  <2> QED BY <2>1, <2>3 DEF Promise!Unfreeze
<1>4. CASE \E back \in 0 .. Price : moveHeld(back)
  <2>1. /\ hold.state = "disputed" /\ received' = received
        /\ hold' \in {[hold EXCEPT !.state = "refunded"], [hold EXCEPT !.state = "released"]}
    BY <1>4 DEF moveHeld
  <2>2. /\ hold'.state \in {"refunded", "released"}
        /\ hold'.amount = hold.amount /\ hold'.clock = hold.clock
    BY <1>1, <2>1 DEF Holds
  <2> QED BY <2>1, <2>2 DEF Promise!Settle
<1> QED BY <1>2, <1>3, <1>4

LEMMA StepMaps == ASSUME IInv, Next PROVE Promise!Next \/ neverTaken \/ UNCHANGED Promise!vars
<1>1. CASE \E way \in {"direct", "protected"}, plan \in Plans, kept \in kepts : pay(way, plan, kept)
  BY <1>1, PayMaps, Zenon DEF Promise!Next
<1>2. CASE \E way \in {"direct", "protected"} : payCut(way)
  <2>1. "full" \in Plans /\ 0 \in kepts
    <3>1. KeptMax \in Nat /\ outstanding \in Nat
      BY BoundsAssumption, OutstandingFits
    <3> QED BY <3>1 DEF Plans, kepts, least
  <2> QED BY <1>2, <2>1, PayMaps, Zenon DEF Promise!Next
<1>3. CASE \E sum \in Nat : payMoreProtected(sum)
  BY <1>3, PayMoreMaps, Zenon DEF Promise!Next
<1>4. CASE confirm \/ settleDue
  BY <1>4, ReleaseMaps, Zenon DEF Promise!Next
<1>5. CASE dispatchTick \/ undispatch \/ deliveredTick \/ stepToLast
  BY <1>5, ParcelMaps, Zenon DEF Promise!Next
<1>6. CASE \/ \E side \in {"buyer", "seller"} : open(side)
           \/ backOnHold
           \/ \E back \in 0 .. Price : moveHeld(back)
  BY <1>6, DisputeMaps, Zenon DEF Promise!Next
<1>7. CASE settleClaimAccept
  BY <1>7, ClaimMaps
<1>8. CASE UNCHANGED <<hold, received>>
  BY <1>8, QuietMaps
<1> QED BY <1>1, <1>2, <1>3, <1>4, <1>5, <1>6, <1>7, <1>8, Steps, QuietSteps, Zenon

\* Buyer protection's promise, kept by every interleaving of payments, ticks,
\* disputes, cancellations and refunds on the order, to all money it took.
THEOREM HoldKeepsPromise == Spec => HoldIsAsPromised
<1>1. Init => Promise!Init
  BY PriceAssumption DEF Init, Promise!Init
<1>2. IInv /\ [Next]_vars => [Promise!Next \/ neverTaken]_(Promise!vars)
  <2>1. ASSUME IInv, Next PROVE [Promise!Next \/ neverTaken]_(Promise!vars)
    BY <2>1, StepMaps, Zenon
  <2>2. ASSUME UNCHANGED vars PROVE UNCHANGED Promise!vars
    BY <2>2, QuietMaps DEF vars, trip
  <2> QED BY <2>1, <2>2, Zenon
<1> QED BY <1>1, <1>2, Inductive, PTL DEF Spec, HoldIsAsPromised
-----------------------------------------------------------------------------
(* The refunds list: its shape, what is on it and what it adds up to.      *)

\* TypeOK without the refunds list, one field at a time.
FieldsOK ==
  /\ status \in Statuses
  /\ placed \in BOOLEAN /\ booking \in BOOLEAN /\ cut \in BOOLEAN
  /\ accepted \in BOOLEAN /\ closed \in BOOLEAN
  /\ dispatched \in BOOLEAN /\ received \in BOOLEAN
  /\ paymentStatus \in {"unpaid", "claimed", "partially_paid", "paid", "refunded"}
  /\ method \in {"none", "direct", "protected"}
  /\ paid \in Nat /\ credited \in Nat /\ refunded \in Int
  /\ claim \in Claims
  /\ hold \in Holds
  /\ reversal \in {"none", "owed", "sent", "received", "not_received"}

LEMMA TypeIs == TypeOK <=> FieldsOK /\ credits \in Seq(Credits)
BY DEF TypeOK, FieldsOK

\* A list changed in place is a list.
LEMMA ListOf ==
  ASSUME NEW S, NEW s \in Seq(S), NEW t, t = [i \in DOMAIN s |-> t[i]],
         \A i \in DOMAIN s : t[i] \in S
  PROVE  t \in Seq(S) /\ DOMAIN t = DOMAIN s
<1>1. Len(s) \in Nat /\ DOMAIN s = 1 .. Len(s)
  OBVIOUS
<1>2. t \in [1 .. Len(s) -> S]
  BY <1>1
<1> QED BY <1>1, <1>2

\* A list and one more.
LEMMA ListAnd ==
  ASSUME NEW S, NEW s \in Seq(S), NEW c \in S
  PROVE  /\ Append(s, c) \in Seq(S)
         /\ DOMAIN Append(s, c) = DOMAIN s \cup {Len(s) + 1}
         /\ Len(s) + 1 \notin DOMAIN s
         /\ \A i \in DOMAIN s : Append(s, c)[i] = s[i]
         /\ Append(s, c)[Len(s) + 1] = c
OBVIOUS

LEMMA ListIsFinite ==
  ASSUME NEW S, NEW s \in Seq(S)
  PROVE  IsFiniteSet(DOMAIN s)
BY FS_Interval

LEMMA MoneyTypes ==
  ASSUME FieldsOK
  PROVE  /\ Price \in Nat /\ paidMinor \in Nat /\ outstanding \in Nat
         /\ \A sum \in Nat : statusFromMoney(sum) \in {"paid", "partially_paid", "unpaid"}
<1>1. Price \in Nat
  BY PriceAssumption
<1>2. paidMinor \in Nat
  BY <1>1 DEF FieldsOK, paidMinor
<1>3. outstanding \in Nat
  BY <1>1, <1>2, MinusFacts DEF outstanding
<1> QED BY <1>1, <1>2, <1>3 DEF statusFromMoney

LEMMA AmountTypes ==
  ASSUME FieldsOK
  PROVE  /\ \A plan \in Plans, kept \in kepts : kept \in Nat /\ dueAfterCredit(plan, kept) \in Nat
         /\ \A sum \in Nat : /\ least(sum, outstanding) \in Nat
                             /\ sum - least(sum, outstanding) \in Nat
<1>1. Price \in Nat /\ outstanding \in Nat /\ KeptMax \in Nat /\ Advance \in Nat
  BY MoneyTypes, PriceAssumption, BoundsAssumption
<1>2. paid \in Nat /\ credited \in Nat
  BY DEF FieldsOK
<1>3. \A kept \in kepts : kept \in Nat
  BY <1>1, LeastFacts DEF kepts
<1>4. ASSUME NEW plan \in Plans, NEW kept \in kepts
      PROVE  dueAfterCredit(plan, kept) \in Nat
  <2>1. kept \in Nat
    BY <1>3
  <2>2. /\ minus(IF plan = "full" THEN Price ELSE Advance, credited + kept) \in Nat
        /\ minus(Price, paid + credited + kept) \in Nat
    BY <1>1, <1>2, <2>1 DEF minus
  <2> QED BY <2>2, LeastFacts DEF dueAfterCredit
<1>5. ASSUME NEW sum \in Nat
      PROVE  /\ least(sum, outstanding) \in Nat
             /\ sum - least(sum, outstanding) \in Nat
  <2>1. least(sum, outstanding) \in Nat /\ least(sum, outstanding) <= sum
    BY <1>1, LeastFacts
  <2> QED BY <2>1
<1> QED BY <1>3, <1>4, <1>5

LEMMA CreditTypes ==
  ASSUME NEW c \in Credits
  PROVE  /\ creditLeft(c) \in Nat
         /\ \A a \in Nat : startReturn(c, a) \in Credits
         /\ \A a \in Int : [c EXCEPT !.refunded = @ + a, !.status = "refunded"] \in Credits
         /\ arrivedBack(c) \in Credits
         /\ \A s \in CreditStatuses : /\ [c EXCEPT !.status = s] \in Credits
                                      /\ [c EXCEPT !.status = s, !.pending = 0] \in Credits
         /\ \A a \in Nat : [c EXCEPT !.applied = @ + a] \in Credits
<1>1. /\ c.amount \in Nat /\ c.refunded \in Int /\ c.applied \in Nat /\ c.pending \in Nat
  BY DEF Credits
<1>2. creditLeft(c) \in Nat
  BY <1>1 DEF creditLeft, minus
<1>3. \A d \in Credits, s \in CreditStatuses : [d EXCEPT !.status = s] \in Credits
  BY DEF Credits
<1>4. arrivedBack(c) \in Credits
  <2> DEFINE d == [c EXCEPT !.refunded = @ + c.pending, !.pending = 0]
  <2>1. d \in Credits
    <3>1. [c EXCEPT !.refunded = @ + c.pending] \in Credits
      BY <1>1 DEF Credits
    <3>2. \A e \in Credits : [e EXCEPT !.pending = 0] \in Credits
      BY DEF Credits
    <3>3. d = [[c EXCEPT !.refunded = @ + c.pending] EXCEPT !.pending = 0]
      BY DEF Credits
    <3> QED BY <3>1, <3>2, <3>3
  <2>2. (IF creditLeft(d) > 0 THEN "open" ELSE "refunded") \in CreditStatuses
    BY DEF CreditStatuses
  <2>3. arrivedBack(c) = [d EXCEPT !.status = IF creditLeft(d) > 0 THEN "open" ELSE "refunded"]
    BY DEF arrivedBack
  <2> HIDE DEF d
  <2> QED BY <1>3, <2>1, <2>2, <2>3
<1>5. \A s \in CreditStatuses, a \in Nat : [c EXCEPT !.status = s, !.pending = a] \in Credits
  BY DEF Credits
<1>6. \A a \in Nat : [c EXCEPT !.applied = @ + a] \in Credits
  BY <1>1 DEF Credits
<1>7. \A s \in CreditStatuses, a \in Int : [c EXCEPT !.refunded = @ + a, !.status = s] \in Credits
  <2> TAKE s \in CreditStatuses, a \in Int
  <2>1. [c EXCEPT !.refunded = @ + a] \in Credits
    BY <1>1 DEF Credits
  <2>2. [c EXCEPT !.refunded = @ + a, !.status = s] = [[c EXCEPT !.refunded = @ + a] EXCEPT !.status = s]
    BY DEF Credits
  <2> QED BY <1>3, <2>1, <2>2
<1>8. "refund_pending" \in CreditStatuses /\ "refunded" \in CreditStatuses
  BY DEF CreditStatuses
<1> QED BY <1>2, <1>3, <1>4, <1>5, <1>6, <1>7, <1>8 DEF startReturn

LEMMA NewCredits ==
  ASSUME NEW origin \in {"overpaid", "cancelled", "manual"}, NEW state \in CreditStatuses,
         NEW amount \in Nat, NEW pending \in Nat
  PROVE  credit(origin, state, amount, pending) \in Credits
BY DEF credit, Credits

\* Next, with its handlers sorted by what they do to the refunds list.
LEMMA ListSteps ==
  ASSUME TypeOK, Next
  PROVE  \/ UNCHANGED <<credits, refunded>>
         \/ settleClaimAccept \/ (\E sum \in Nat : payMoreProtected(sum))
         \/ cancelPaid \/ (\E a \in Nat : startRefund(a))
         \/ refundAll
         \/ (\E i \in DOMAIN credits, a \in Nat : refundOne(i, a) \/ applyAway(i, a))
         \/ (\E i \in DOMAIN credits, a \in Int : submitReversal(i, a))
         \/ (\E S \in SUBSET DOMAIN credits : ackCreditRefund(S) \/ denyCreditRefund(S) \/ holdCredit(S))
<1>1. (\A a \in 1 .. TypedMax : a \in Nat) /\ (\A a \in -1 .. TypedMax : a \in Int)
  BY BoundsAssumption
<1>2. \A i \in DOMAIN credits : creditLeft(credits[i]) \in Int
  <2>1. \A i \in DOMAIN credits : credits[i] \in Credits
    BY TypeIs
  <2>2. \A i \in DOMAIN credits : creditLeft(credits[i]) \in Nat
    BY <2>1, CreditTypes
  <2> QED BY <2>2
<1>3. /\ Pending \in SUBSET DOMAIN credits
      /\ \A i \in Pending : {i} \in SUBSET DOMAIN credits
      /\ \A i \in Live : {i} \in SUBSET DOMAIN credits
      /\ {i \in Live : credits[i].status = "open"} \in SUBSET DOMAIN credits
  BY DEF Pending, Live
<1>4. CASE BuyerPays
  <2>1. CASE \E sum \in 1 .. TypedMax : payMoreProtected(sum)
    BY <1>1, <2>1, Zenon
  <2>2. CASE ~\E sum \in 1 .. TypedMax : payMoreProtected(sum)
    <3>1. UNCHANGED <<credits, refunded>>
      BY <1>4, <2>2
         DEF BuyerPays, pay, payCut, placeOrder, claimPayment, claimCovered, bookOrder, payMoreDirect, ledger
    <3> QED BY <3>1
  <2> QED BY <2>1, <2>2
<1>5. CASE SellerAnswers
  <2>1. CASE settleClaimDeny \/ acceptOrder \/ rejectOrder \/ cancelUnpaid \/ closeOrder
    <3>1. UNCHANGED <<credits, refunded>>
      BY <2>1 DEF settleClaimDeny, acceptOrder, rejectOrder, cancelUnpaid, closeOrder, ledger
    <3> QED BY <3>1
  <2> QED BY <1>5, <2>1, Zenon DEF SellerAnswers
<1>6. CASE MoneyReturns
  <2>1. CASE \/ \E i \in DOMAIN credits, a \in 1 .. TypedMax : refundOne(i, a) \/ applyAway(i, a)
             \/ \E i \in DOMAIN credits, a \in -1 .. TypedMax : submitReversal(i, a)
    BY <1>1, <2>1, Zenon
  <2>2. CASE \E i \in DOMAIN credits : submitReversal(i, creditLeft(credits[i]))
    BY <1>2, <2>2, Zenon
  <2>3. CASE \E S \in {Pending} \cup {{i} : i \in Pending} :
               S # {} /\ (ackCreditRefund(S) \/ denyCreditRefund(S))
    <3>1. PICK S \in {Pending} \cup {{i} : i \in Pending} : ackCreditRefund(S) \/ denyCreditRefund(S)
      BY <2>3, Zenon
    <3>2. S \in SUBSET DOMAIN credits
      BY <1>3
    <3> QED BY <3>1, <3>2, Zenon
  <2>4. CASE \E S \in {{i} : i \in Live} \cup {{i \in Live : credits[i].status = "open"}} : holdCredit(S)
    <3>1. PICK S \in {{i} : i \in Live} \cup {{i \in Live : credits[i].status = "open"}} : holdCredit(S)
      BY <2>4, Zenon
    <3>2. S \in SUBSET DOMAIN credits
      BY <1>3
    <3> QED BY <3>1, <3>2, Zenon
  <2>5. CASE (\E a \in 1 .. KeptMax, way \in Methods : applyHere(a, way)) \/ ackReversal \/ raiseDispute
    <3>1. UNCHANGED <<credits, refunded>>
      BY <2>5 DEF applyHere, ackReversal, raiseDispute, ledger
    <3> QED BY <3>1
  <2>6. CASE \E a \in 1 .. TypedMax : startRefund(a)
    BY <1>1, <2>6, Zenon
  <2> QED BY <1>6, <2>1, <2>2, <2>3, <2>4, <2>5, <2>6, Zenon DEF MoneyReturns
<1>7. CASE ParcelMoves \/ settleDue \/ Disputing
  <2>1. UNCHANGED <<credits, refunded>>
    <3>1. CASE ParcelMoves \/ settleDue
      BY <3>1
         DEF ParcelMoves, confirm, settleDue, releaseHeld, dispatchTick, undispatch, deliveredTick,
             undeliveredTick, stepToLast, stepShort, ledger
    <3>2. CASE Disputing
      BY <3>2 DEF Disputing, open, backOnHold, moveHeld, ledger
    <3> QED BY <1>7, <3>1, <3>2
  <2> QED BY <2>1
<1> QED BY <1>4, <1>5, <1>6, <1>7, Zenon DEF Next

\* A credit more, with nothing sent of it yet.
LEMMA AppendKeeps ==
  ASSUME credits \in Seq(Credits), NEW c \in Credits, credits' = Append(credits, c)
  PROVE  /\ credits' \in Seq(Credits)
         /\ c.refunded = 0 /\ RefundLedger /\ refunded' = refunded => RefundLedger'
<1>1. /\ credits' \in Seq(Credits)
      /\ DOMAIN credits' = DOMAIN credits \cup {Len(credits) + 1}
      /\ Len(credits) + 1 \notin DOMAIN credits
      /\ \A i \in DOMAIN credits : credits'[i] = credits[i]
      /\ credits'[Len(credits) + 1] = c
  BY ListAnd
<1>2. ASSUME c.refunded = 0, RefundLedger, refunded' = refunded
      PROVE  RefundLedger'
  <2> DEFINE D == DOMAIN credits
             f == [i \in D |-> credits[i].refunded]
             g == [i \in DOMAIN credits' |-> credits'[i].refunded]
             y == Len(credits) + 1
  <2>1. IsFiniteSet(D)
    BY ListIsFinite
  <2>2. /\ \A x \in D : f[x] \in Int /\ f[x] = g[x]
        /\ g[y] = 0 /\ y \notin D /\ DOMAIN g = D \cup {y}
    <3>1. \A x \in D : credits[x] \in Credits
      OBVIOUS
    <3>2. \A x \in D : credits[x].refunded \in Int
      BY <3>1 DEF Credits
    <3> QED BY <1>1, <1>2, <3>2
  <2>3. refunded = SumFunctionOnSet(f, D)
    BY <1>2, SumWhole DEF RefundLedger
  <2>4. SumFunction(g) = SumFunctionOnSet(g, D \cup {y})
    BY <2>2, SumWhole
  <2>5. (RefundLedger)' <=> refunded' = SumFunction(g)
    BY DEF RefundLedger
  <2> HIDE DEF D, f, g, y
  <2>6. SumFunctionOnSet(g, D \cup {y}) = SumFunctionOnSet(g, D) + g[y]
    <3>1. \A x \in D \cup {y} : g[x] \in Int
      BY <2>2
    <3> QED BY <2>1, <2>2, <3>1, SumAdd
  <2>7. SumFunctionOnSet(f, D) = SumFunctionOnSet(g, D)
    BY <2>1, <2>2, SumSame
  <2>8. SumFunctionOnSet(g, D) \in Int
    BY <2>1, <2>2, SumType
  <2> QED BY <1>2, <2>2, <2>3, <2>4, <2>5, <2>6, <2>7, <2>8
<1> QED BY <1>1, <1>2

\* The list changed in place: what it adds up to follows each credit.
LEMMA InPlace ==
  ASSUME credits \in Seq(Credits), credits' = [i \in DOMAIN credits |-> credits'[i]],
         \A i \in DOMAIN credits : credits'[i] \in Credits
  PROVE  /\ credits' \in Seq(Credits) /\ DOMAIN credits' = DOMAIN credits
         /\ (RefundLedger <=> refunded = SumFunctionOnSet([i \in DOMAIN credits |-> credits[i].refunded],
                                                          DOMAIN credits))
         /\ (RefundLedger' <=> refunded' = SumFunctionOnSet([i \in DOMAIN credits |-> credits'[i].refunded],
                                                            DOMAIN credits))
<1>1. credits' \in Seq(Credits) /\ DOMAIN credits' = DOMAIN credits
  BY ListOf
<1> QED BY <1>1, SumWhole DEF RefundLedger

LEMMA SameRefunds ==
  ASSUME credits \in Seq(Credits), credits' = [i \in DOMAIN credits |-> credits'[i]],
         \A i \in DOMAIN credits : credits'[i] \in Credits /\ credits'[i].refunded = credits[i].refunded,
         refunded' = refunded
  PROVE  credits' \in Seq(Credits) /\ (RefundLedger => RefundLedger')
<1>1. [i \in DOMAIN credits |-> credits'[i].refunded] = [i \in DOMAIN credits |-> credits[i].refunded]
  OBVIOUS
<1> QED BY <1>1, InPlace

\* Sent again, kept, denied or spent elsewhere: none of it is a refund.
LEMMA ListQuiet ==
  ASSUME TypeOK,
         \/ refundAll
         \/ (\E i \in DOMAIN credits, a \in Nat : refundOne(i, a) \/ applyAway(i, a))
         \/ (\E S \in SUBSET DOMAIN credits : denyCreditRefund(S) \/ holdCredit(S))
  PROVE  credits' \in Seq(Credits) /\ (RefundLedger => RefundLedger')
<1>1. credits \in Seq(Credits) /\ \A i \in DOMAIN credits : credits[i] \in Credits
  BY TypeIs
<1>2. \A s \in {"open", "held", "applied"} : s \in CreditStatuses
  BY DEF CreditStatuses
<1>3. \A c \in Credits, a \in Nat : startReturn(c, a) \in Credits /\ startReturn(c, a).refunded = c.refunded
  BY CreditTypes DEF startReturn, Credits
<1>4. CASE refundAll
  <2>1. /\ credits' = [i \in DOMAIN credits |->
                        IF i \in Live THEN startReturn(credits[i], creditLeft(credits[i])) ELSE credits[i]]
        /\ refunded' = refunded
    BY <1>4 DEF refundAll, ledger
  <2>2. \A i \in DOMAIN credits : creditLeft(credits[i]) \in Nat
    BY <1>1, CreditTypes
  <2>3. \A i \in DOMAIN credits : credits'[i] \in Credits /\ credits'[i].refunded = credits[i].refunded
    BY <1>1, <1>3, <2>1, <2>2
  <2> QED BY <1>1, <2>1, <2>3, SameRefunds
<1>5. CASE \E i \in DOMAIN credits, a \in Nat : refundOne(i, a)
  <2>1. PICK i \in DOMAIN credits, a \in Nat : refundOne(i, a)
    BY <1>5
  <2>2. credits' = [credits EXCEPT ![i] = startReturn(credits[i], a)] /\ refunded' = refunded
    BY <2>1 DEF refundOne, ledger
  <2>3. \A j \in DOMAIN credits : credits'[j] \in Credits /\ credits'[j].refunded = credits[j].refunded
    BY <1>1, <1>3, <2>2
  <2>4. credits' = [j \in DOMAIN credits |-> credits'[j]]
    BY <1>1, <2>2
  <2> QED BY <1>1, <2>2, <2>3, <2>4, SameRefunds
<1>6. CASE \E i \in DOMAIN credits, a \in Nat : applyAway(i, a)
  <2>1. PICK i \in DOMAIN credits, a \in Nat : applyAway(i, a)
    BY <1>6
  <2> DEFINE c == [credits[i] EXCEPT !.applied = @ + a]
             d == IF creditLeft(c) > 0 THEN c ELSE [c EXCEPT !.status = "applied"]
  <2>2. credits' = [credits EXCEPT ![i] = d] /\ refunded' = refunded
    BY <2>1, Zenon DEF applyAway, ledger
  <2>3. c \in Credits /\ c.refunded = credits[i].refunded
    BY <1>1, CreditTypes DEF Credits
  <2>4. d \in Credits /\ d.refunded = c.refunded
    <3> HIDE DEF c
    <3>1. [c EXCEPT !.status = "applied"] \in Credits
      BY <1>2, <2>3, CreditTypes
    <3>2. [c EXCEPT !.status = "applied"].refunded = c.refunded
      BY <2>3 DEF Credits
    <3> QED BY <2>3, <3>1, <3>2
  <2> HIDE DEF c, d
  <2>5. \A j \in DOMAIN credits : credits'[j] \in Credits /\ credits'[j].refunded = credits[j].refunded
    BY <1>1, <2>2, <2>3, <2>4
  <2>6. credits' = [j \in DOMAIN credits |-> credits'[j]]
    BY <1>1, <2>2
  <2> QED BY <1>1, <2>2, <2>5, <2>6, SameRefunds
<1>7. CASE \E S \in SUBSET DOMAIN credits : denyCreditRefund(S) \/ holdCredit(S)
  <2>1. PICK S \in SUBSET DOMAIN credits : denyCreditRefund(S) \/ holdCredit(S)
    BY <1>7
  <2>2. /\ credits' = [i \in DOMAIN credits |-> credits'[i]]
        /\ \A i \in DOMAIN credits : \/ credits'[i] = [credits[i] EXCEPT !.status = "open", !.pending = 0]
                                     \/ credits'[i] = [credits[i] EXCEPT !.status = "held"]
                                     \/ credits'[i] = credits[i]
        /\ refunded' = refunded
    <3>1. CASE denyCreditRefund(S)
      BY <3>1 DEF denyCreditRefund, ledger
    <3>2. CASE holdCredit(S)
      BY <3>2 DEF holdCredit, ledger
    <3> QED BY <2>1, <3>1, <3>2
  <2>3. \A i \in DOMAIN credits : credits'[i] \in Credits /\ credits'[i].refunded = credits[i].refunded
    <3> TAKE i \in DOMAIN credits
    <3>1. /\ [credits[i] EXCEPT !.status = "open", !.pending = 0] \in Credits
          /\ [credits[i] EXCEPT !.status = "held"] \in Credits
      BY <1>1, <1>2, CreditTypes
    <3>2. /\ [credits[i] EXCEPT !.status = "open", !.pending = 0].refunded = credits[i].refunded
          /\ [credits[i] EXCEPT !.status = "held"].refunded = credits[i].refunded
      BY <1>1 DEF Credits
    <3> QED BY <1>1, <2>2, <3>1, <3>2
  <2> QED BY <1>1, <2>2, <2>3, SameRefunds
<1> QED BY <1>4, <1>5, <1>6, <1>7

\* A return the buyer has: on the list and in the payments alike.
LEMMA ArrivedRefunds ==
  ASSUME NEW c \in Credits
  PROVE  arrivedBack(c).refunded = c.refunded + c.pending
BY DEF arrivedBack, Credits

LEMMA ListArrives ==
  ASSUME TypeOK, NEW S \in SUBSET DOMAIN credits, ackCreditRefund(S)
  PROVE  credits' \in Seq(Credits) /\ refunded' \in Int /\ (RefundLedger => RefundLedger')
<1> DEFINE D == DOMAIN credits
           f == [i \in D |-> credits[i].refunded]
           g == [i \in D |-> credits'[i].refunded]
           p == [i \in D |-> credits[i].pending]
<1>1. /\ credits \in Seq(Credits) /\ refunded \in Int
      /\ \A i \in D : credits[i] \in Credits /\ f[i] \in Int /\ p[i] \in Int
  <2>1. \A i \in D : credits[i] \in Credits
    BY TypeIs
  <2> QED BY <2>1, TypeIs DEF FieldsOK, Credits
<1>2. /\ credits' = [i \in D |-> IF i \in S THEN arrivedBack(credits[i]) ELSE credits[i]]
      /\ refunded' = refunded + SumFunctionOnSet(p, S)
  BY DEF ackCreditRefund
<1>3. \A i \in D : credits'[i] \in Credits /\ g[i] = IF i \in S THEN f[i] + p[i] ELSE f[i]
  BY <1>1, <1>2, CreditTypes, ArrivedRefunds
<1>4. IsFiniteSet(D) /\ IsFiniteSet(S) /\ S \in SUBSET D
  BY <1>1, ListIsFinite, FS_Subset
<1>5. /\ credits' \in Seq(Credits)
      /\ RefundLedger <=> refunded = SumFunctionOnSet(f, D)
      /\ RefundLedger' <=> refunded' = SumFunctionOnSet(g, D)
  BY <1>1, <1>2, <1>3, InPlace
<1> HIDE DEF D, f, g, p
<1>6. SumFunctionOnSet(p, S) \in Int
  <2>1. \A x \in S : p[x] \in Int
    BY <1>1, <1>4
  <2> QED BY <1>4, <2>1, SumType
<1>8. SumFunctionOnSet(f, D) \in Int
  BY <1>1, <1>4, SumType
<1>7. SumFunctionOnSet(g, D) = SumFunctionOnSet(f, D) + SumFunctionOnSet(p, S)
  <2>1. \A x \in D : f[x] \in Int /\ p[x] \in Int
    BY <1>1
  <2> QED BY <1>3, <1>4, <2>1, SumGrows
<1> QED BY <1>1, <1>2, <1>5, <1>6, <1>7, <1>8

\* The reversal sent in one go, on the list and in the payments alike.
LEMMA ListReversed ==
  ASSUME TypeOK, NEW i \in DOMAIN credits, NEW a \in Int, submitReversal(i, a)
  PROVE  credits' \in Seq(Credits) /\ refunded' \in Int /\ (RefundLedger => RefundLedger')
<1> DEFINE D == DOMAIN credits
           f == [j \in D |-> credits[j].refunded]
           g == [j \in D |-> credits'[j].refunded]
           c == [credits[i] EXCEPT !.refunded = @ + a, !.status = "refunded"]
<1>1. /\ credits \in Seq(Credits) /\ refunded \in Int
      /\ \A j \in D : credits[j] \in Credits /\ f[j] \in Int
  <2>1. \A j \in D : credits[j] \in Credits
    BY TypeIs
  <2> QED BY <2>1, TypeIs DEF FieldsOK, Credits
<1>2. credits' = [credits EXCEPT ![i] = c] /\ refunded' = refunded + a
  BY <1>1 DEF submitReversal
<1>3. c \in Credits /\ c.refunded = f[i] + a
  <2>1. credits[i] \in Credits
    BY <1>1
  <2>2. "refunded" \in CreditStatuses
    BY DEF CreditStatuses
  <2> QED BY <2>1, <2>2, CreditTypes DEF Credits
<1> HIDE DEF c
<1>4. /\ credits' = [j \in D |-> credits'[j]]
      /\ \A j \in D : credits'[j] \in Credits
      /\ \A j \in D \ {i} : g[j] = f[j]
      /\ g[i] = f[i] + a /\ i \in D
  BY <1>1, <1>2, <1>3
<1>5. /\ credits' \in Seq(Credits)
      /\ RefundLedger <=> refunded = SumFunctionOnSet(f, D)
      /\ RefundLedger' <=> refunded' = SumFunctionOnSet(g, D)
  BY <1>1, <1>4, InPlace
<1>6. IsFiniteSet(D)
  BY <1>1, ListIsFinite
<1> HIDE DEF D, f, g
<1>7. \A j \in D : f[j] \in Int /\ g[j] \in Int
  BY <1>1, <1>4
<1>8. SumFunctionOnSet(g, D) = SumFunctionOnSet(f, D) - f[i] + g[i]
  BY <1>4, <1>6, <1>7, SumChange
<1>9. SumFunctionOnSet(f, D) \in Int
  BY <1>6, <1>7, SumType
<1>10. f[i] \in Int
  BY <1>4, <1>7
<1> QED BY <1>1, <1>2, <1>4, <1>5, <1>8, <1>9, <1>10

LEMMA ListGrows ==
  ASSUME TypeOK,
         \/ settleClaimAccept \/ (\E sum \in Nat : payMoreProtected(sum))
         \/ cancelPaid \/ (\E a \in Nat : startRefund(a))
  PROVE  /\ credits' \in Seq(Credits) /\ refunded' = refunded
         /\ RefundLedger => RefundLedger'
<1>1. FieldsOK /\ credits \in Seq(Credits)
  BY TypeIs
<1>2. "open" \in CreditStatuses /\ "refund_pending" \in CreditStatuses
  BY DEF CreditStatuses
<1>3. CASE UNCHANGED <<credits, refunded>>
  BY <1>1, <1>3 DEF RefundLedger
<1>4. CASE /\ refunded' = refunded
           /\ \E origin \in {"overpaid", "cancelled", "manual"}, state \in CreditStatuses,
                 amount \in Nat, pending \in Nat :
                credits' = Append(credits, credit(origin, state, amount, pending))
  <2>1. PICK origin \in {"overpaid", "cancelled", "manual"}, state \in CreditStatuses,
             amount \in Nat, pending \in Nat :
               credits' = Append(credits, credit(origin, state, amount, pending))
    BY <1>4
  <2> DEFINE c == credit(origin, state, amount, pending)
  <2>2. c \in Credits /\ c.refunded = 0 /\ credits' = Append(credits, c)
    BY <2>1, NewCredits DEF credit
  <2> HIDE DEF c
  <2> QED BY <1>1, <1>4, <2>2, AppendKeeps
<1>5. CASE settleClaimAccept
  <2>1. refunded' = refunded /\ claim.excess \in Nat
    BY <1>1, <1>5 DEF settleClaimAccept, FieldsOK, Claims
  <2>2. \/ credits' = Append(credits, credit("overpaid", "open", claim.excess, 0))
        \/ credits' = credits
    BY <1>5 DEF settleClaimAccept
  <2> QED BY <1>2, <1>3, <1>4, <2>1, <2>2
<1>6. CASE \E sum \in Nat : payMoreProtected(sum)
  <2>1. PICK sum \in Nat : payMoreProtected(sum)
    BY <1>6
  <2>2. refunded' = refunded /\ sum - least(sum, outstanding) \in Nat
    BY <1>1, <2>1, AmountTypes DEF payMoreProtected
  <2>3. \/ credits' = Append(credits, credit("overpaid", "open", sum - least(sum, outstanding), 0))
        \/ credits' = credits
    BY <2>1 DEF payMoreProtected
  <2> QED BY <1>2, <1>3, <1>4, <2>2, <2>3
<1>7. CASE cancelPaid
  <2>1. /\ refunded' = refunded /\ paidMinor \in Nat
        /\ credits' = Append(credits, credit("cancelled", "open", paidMinor, 0))
    BY <1>1, <1>7, MoneyTypes DEF cancelPaid, ledger
  <2> QED BY <1>2, <1>4, <2>1
<1>8. CASE \E a \in Nat : startRefund(a)
  <2>1. PICK a \in Nat : startRefund(a)
    BY <1>8
  <2>2. /\ refunded' = refunded
        /\ credits' = Append(credits, credit("manual", "refund_pending", a, a))
    BY <2>1 DEF startRefund, ledger
  <2> QED BY <1>2, <1>4, <2>2
<1> QED BY <1>5, <1>6, <1>7, <1>8

LEMMA ListStep ==
  ASSUME TypeOK, Next
  PROVE  /\ credits' \in Seq(Credits) /\ refunded' \in Int
         /\ RefundLedger => RefundLedger'
<1>1. credits \in Seq(Credits) /\ refunded \in Int
  BY TypeIs DEF FieldsOK
<1>2. CASE UNCHANGED <<credits, refunded>>
  BY <1>1, <1>2 DEF RefundLedger
<1>3. CASE \/ settleClaimAccept \/ (\E sum \in Nat : payMoreProtected(sum))
           \/ cancelPaid \/ (\E a \in Nat : startRefund(a))
  BY <1>1, <1>3, ListGrows
<1>4. CASE \/ refundAll
           \/ (\E i \in DOMAIN credits, a \in Nat : refundOne(i, a) \/ applyAway(i, a))
           \/ (\E S \in SUBSET DOMAIN credits : denyCreditRefund(S) \/ holdCredit(S))
  <2>1. refunded' = refunded
    <3>1. CASE refundAll
      BY <3>1 DEF refundAll, ledger
    <3>2. CASE \E i \in DOMAIN credits, a \in Nat : refundOne(i, a) \/ applyAway(i, a)
      <4>1. UNCHANGED ledger
        BY <3>2, Zenon DEF refundOne, applyAway
      <4> QED BY <4>1 DEF ledger
    <3>3. CASE \E S \in SUBSET DOMAIN credits : denyCreditRefund(S) \/ holdCredit(S)
      <4>1. UNCHANGED ledger
        BY <3>3, Zenon DEF denyCreditRefund, holdCredit
      <4> QED BY <4>1 DEF ledger
    <3> QED BY <1>4, <3>1, <3>2, <3>3
  <2>2. credits' \in Seq(Credits) /\ (RefundLedger => RefundLedger')
    BY <1>4, ListQuiet
  <2> QED BY <1>1, <2>1, <2>2
<1>5. CASE \E i \in DOMAIN credits, a \in Int : submitReversal(i, a)
  BY <1>5, ListReversed
<1>6. CASE \E S \in SUBSET DOMAIN credits : ackCreditRefund(S)
  BY <1>6, ListArrives
<1> QED BY <1>2, <1>3, <1>4, <1>5, <1>6, ListSteps, Zenon

\* What a handler does to the fields, the money that came back aside.
LEMMA FieldsPay ==
  ASSUME TypeOK, refunded' \in Int, BuyerPays
  PROVE  FieldsOK'
<1>1. FieldsOK
  BY TypeIs
<1>2. Methods \subseteq {"direct", "protected"} /\ TypedMax \in Nat
  BY MethodsAssumption, BoundsAssumption
<1>3. /\ \A plan \in Plans, kept \in kepts : kept \in Nat /\ dueAfterCredit(plan, kept) \in Nat
      /\ \A sum \in Nat : statusFromMoney(sum) \in {"paid", "partially_paid", "unpaid"}
      /\ paidMinor \in Nat
  BY <1>1, AmountTypes, MoneyTypes
<1>4. CASE \E way \in Methods, plan \in Plans, kept \in kepts : pay(way, plan, kept)
  <2>1. PICK way \in Methods, plan \in Plans, kept \in kepts : pay(way, plan, kept)
    BY <1>4
  <2> DEFINE due == dueAfterCredit(plan, kept)
  <2>2. kept \in Nat /\ due \in Nat
    BY <1>3
  <2>3. /\ placed' = TRUE /\ status' = "confirmed" /\ accepted' = TRUE /\ method' = way
        /\ credited' = credited + kept /\ paid' = paid + due
        /\ paymentStatus' = statusFromMoney(paid + due + credited + kept)
        /\ hold' = IF way = "protected"
                   THEN [hold EXCEPT !.state = "held", !.amount = due, !.clock = FALSE]
                   ELSE [hold EXCEPT !.state = "none", !.clock = FALSE]
        /\ cut' = FALSE
        /\ UNCHANGED <<booking, closed, dispatched, received, claim, reversal>>
    BY <2>1 DEF pay, place, trip
  <2> HIDE DEF due
  <2>4. hold' \in Holds
    BY <1>1, <2>2, <2>3 DEF FieldsOK, Holds
  <2>5. paymentStatus' \in {"paid", "partially_paid", "unpaid"}
    BY <1>1, <1>3, <2>2, <2>3 DEF FieldsOK
  <2>6. placed' \in BOOLEAN /\ accepted' \in BOOLEAN /\ cut' \in BOOLEAN
    BY <2>3
  <2> QED BY <1>1, <1>2, <2>2, <2>3, <2>4, <2>5, <2>6 DEF FieldsOK, Statuses
<1>5. CASE \E plan \in Plans, kept \in kepts : claimPayment(plan, kept)
  <2>1. PICK plan \in Plans, kept \in kepts : claimPayment(plan, kept)
    BY <1>5
  <2> DEFINE due == dueAfterCredit(plan, kept)
  <2>2. kept \in Nat /\ due \in Nat
    BY <1>3
  <2>3. /\ placed' = TRUE /\ credited' = credited + kept /\ paymentStatus' = "claimed"
        /\ claim' = [decision |-> "open", amount |-> due, excess |-> 0] /\ method' = "direct"
        /\ UNCHANGED <<status, booking, cut, accepted, closed, dispatched, received, paid,
                       hold, reversal>>
    BY <2>1 DEF claimPayment, place, trip
  <2> HIDE DEF due
  <2>4. claim' \in Claims
    BY <2>2, <2>3 DEF Claims
  <2> QED BY <1>1, <2>2, <2>3, <2>4 DEF FieldsOK
<1>6. CASE \E plan \in Plans, kept \in kepts : claimCovered(plan, kept)
  <2>1. PICK plan \in Plans, kept \in kepts : claimCovered(plan, kept)
    BY <1>6
  <2>2. /\ placed' = TRUE /\ credited' = credited + kept /\ status' = "confirmed" /\ accepted' = TRUE
        /\ paymentStatus' = statusFromMoney(paid + credited + kept) /\ method' = "direct"
        /\ UNCHANGED <<booking, cut, closed, dispatched, received, paid, claim,
                       hold, reversal>>
    BY <2>1 DEF claimCovered, place, trip
  <2>3. kept \in Nat
    BY <1>3
  <2>4. paymentStatus' \in {"paid", "partially_paid", "unpaid"}
    BY <1>1, <1>3, <2>2, <2>3 DEF FieldsOK
  <2> QED BY <1>1, <2>2, <2>3, <2>4 DEF FieldsOK, Statuses
<1>7. CASE bookOrder
  BY <1>1, <1>7 DEF FieldsOK, bookOrder, trip, ledger
<1>8. CASE \E sum \in 1 .. TypedMax : payMoreDirect(sum) \/ payMoreProtected(sum)
  <2>1. PICK sum \in 1 .. TypedMax : payMoreDirect(sum) \/ payMoreProtected(sum)
    BY <1>8
  <2> DEFINE take == least(sum, outstanding)
  <2>2. sum \in Nat /\ take \in Nat /\ sum - take \in Nat
    <3>1. sum \in Nat
      BY <1>2
    <3> QED BY <1>1, <3>1, AmountTypes
  <2>3. CASE payMoreDirect(sum)
    <3>1. /\ claim' = [decision |-> "open", amount |-> take, excess |-> sum - take]
          /\ paymentStatus' = "claimed"
          /\ UNCHANGED <<status, deal, trip, method, ledger, hold, reversal>>
      BY <2>3 DEF payMoreDirect
    <3> HIDE DEF take
    <3>2. claim' \in Claims
      BY <2>2, <3>1 DEF Claims
    <3> QED BY <1>1, <3>1, <3>2 DEF FieldsOK, deal, trip, ledger
  <2>4. CASE payMoreProtected(sum)
    <3>1. /\ paid' = paid + take
          /\ paymentStatus' = IF take > 0 THEN statusFromMoney(paidMinor + take) ELSE paymentStatus
          /\ hold' = IF hold.state = "held" THEN [hold EXCEPT !.amount = @ + take] ELSE hold
          /\ UNCHANGED <<status, deal, trip, method, credited, claim, reversal>>
      BY <2>4 DEF payMoreProtected
    <3> HIDE DEF take
    <3>2. hold' \in Holds
      BY <1>1, <2>2, <3>1 DEF FieldsOK, Holds
    <3>3. statusFromMoney(paidMinor + take) \in {"paid", "partially_paid", "unpaid"}
      BY <1>3, <2>2
    <3> QED BY <1>1, <2>2, <3>1, <3>2, <3>3 DEF FieldsOK, deal, trip
  <2> QED BY <2>1, <2>3, <2>4
<1>9. CASE \E kept \in kepts : placeOrder(kept)
  <2>1. PICK kept \in kepts : placeOrder(kept)
    BY <1>9
  <2>2. /\ placed' = TRUE /\ credited' = credited + kept
        /\ paymentStatus' = statusFromMoney(paid + credited + kept)
        /\ UNCHANGED <<status, booking, cut, accepted, closed, dispatched, received, method, paid,
                       claim, hold, reversal>>
    BY <2>1 DEF placeOrder, place, trip
  <2>3. kept \in Nat
    <3>1. "full" \in Plans
      BY DEF Plans
    <3> QED BY <1>3, <3>1
  <2>4. paymentStatus' \in {"paid", "partially_paid", "unpaid"}
    BY <1>1, <1>3, <2>2, <2>3 DEF FieldsOK
  <2> QED BY <1>1, <2>2, <2>3, <2>4 DEF FieldsOK
<1>10. CASE \E way \in Methods : payCut(way)
  <2>1. PICK way \in Methods : payCut(way)
    BY <1>10
  <2>2. /\ status' = "confirmed" /\ accepted' = TRUE /\ method' = way /\ cut' = (way = "protected")
        /\ hold' = [hold EXCEPT !.state = IF way = "protected" THEN "held" ELSE "none", !.clock = FALSE]
        /\ UNCHANGED <<placed, booking, closed, dispatched, received, paymentStatus, paid, credited,
                       claim, reversal>>
    BY <2>1 DEF payCut, trip, ledger
  <2>3. hold' \in Holds
    BY <1>1, <2>2 DEF FieldsOK, Holds
  <2>4. cut' \in BOOLEAN
    BY <2>2
  <2> QED BY <1>1, <1>2, <2>2, <2>3, <2>4 DEF FieldsOK, Statuses
<1> QED BY <1>4, <1>5, <1>6, <1>7, <1>8, <1>9, <1>10, Zenon DEF BuyerPays

LEMMA FieldsAnswer ==
  ASSUME TypeOK, refunded' \in Int, SellerAnswers
  PROVE  FieldsOK'
<1>1. FieldsOK
  BY TypeIs
<1>2. \A sum \in Nat : statusFromMoney(sum) \in {"paid", "partially_paid", "unpaid"}
  BY <1>1, MoneyTypes
<1>3. CASE settleClaimAccept
  <2>1. /\ claim' = [NoClaim EXCEPT !.decision = "accepted"]
        /\ hold' = [hold EXCEPT !.state = "none"]
        /\ cut' = FALSE
        /\ paid' = paid + claim.amount
        /\ paymentStatus' = statusFromMoney(paid + claim.amount + credited)
        /\ status' = IF status = "pending_payment" THEN "confirmed" ELSE status
        /\ accepted' = (accepted \/ status = "pending_payment")
        /\ method' = "direct"
        /\ UNCHANGED <<placed, booking, closed, dispatched, received, credited, reversal>>
    BY <1>3 DEF settleClaimAccept, trip
  <2>2. claim' \in Claims /\ hold' \in Holds /\ claim.amount \in Nat
    BY <1>1, <2>1 DEF FieldsOK, Claims, Holds, NoClaim
  <2>3. statusFromMoney(paid + claim.amount + credited) \in {"paid", "partially_paid", "unpaid"}
    BY <1>1, <1>2, <2>2 DEF FieldsOK
  <2>4. accepted' \in BOOLEAN /\ cut' \in BOOLEAN
    BY <2>1
  <2> QED BY <1>1, <2>1, <2>2, <2>3, <2>4 DEF FieldsOK, Statuses
<1>4. CASE settleClaimDeny
  <2>1. /\ claim' = [NoClaim EXCEPT !.decision = "denied"]
        /\ paymentStatus' = statusFromMoney(paid + credited)
        /\ UNCHANGED <<status, deal, trip, method, ledger, hold, reversal>>
    BY <1>4 DEF settleClaimDeny
  <2>2. claim' \in Claims
    BY <1>1, <2>1 DEF FieldsOK, Claims, NoClaim
  <2>3. statusFromMoney(paid + credited) \in {"paid", "partially_paid", "unpaid"}
    BY <1>1, <1>2 DEF FieldsOK
  <2> QED BY <1>1, <2>1, <2>2, <2>3 DEF FieldsOK, deal, trip, ledger
<1>5. CASE acceptOrder \/ rejectOrder
  <2>1. /\ UNCHANGED <<placed, booking, cut, closed, trip, paid, refunded, claim, hold, reversal>>
        /\ accepted' \in BOOLEAN /\ credited' \in {0, credited}
        /\ status' \in {"confirmed", "rejected", status}
        /\ paymentStatus' \in {"paid", "unpaid", paymentStatus}
        /\ method' \in {"direct", method}
    BY <1>1, <1>5 DEF FieldsOK, acceptOrder, rejectOrder, deal, ledger
  <2> QED BY <1>1, <2>1 DEF FieldsOK, trip, Statuses, Stopped
<1>6. CASE cancelUnpaid \/ cancelPaid \/ closeOrder
  <2>1. /\ UNCHANGED <<placed, booking, cut, accepted, trip, paymentStatus, method, ledger, claim, hold>>
        /\ closed' \in BOOLEAN /\ reversal' \in {"owed", reversal}
        /\ status' \in {"cancelled", "payment_reversal_pending", status}
    BY <1>1, <1>6 DEF FieldsOK, cancelUnpaid, cancelPaid, closeOrder, deal
  <2> QED BY <1>1, <2>1 DEF FieldsOK, trip, ledger, Statuses, Stopped
<1> QED BY <1>3, <1>4, <1>5, <1>6, Zenon DEF SellerAnswers

LEMMA FieldsReturn ==
  ASSUME TypeOK, refunded' \in Int, MoneyReturns
  PROVE  FieldsOK'
<1>1. FieldsOK
  BY TypeIs
<1>2. Methods \subseteq {"direct", "protected"} /\ KeptMax \in Nat
  BY MethodsAssumption, BoundsAssumption
<1>3. CASE \E a \in 1 .. KeptMax, way \in Methods : applyHere(a, way)
  <2>1. PICK a \in 1 .. KeptMax, way \in Methods : applyHere(a, way)
    BY <1>3
  <2>2. a \in Nat
    BY <1>2
  <2>3. statusFromMoney(paid + credited + a) \in {"paid", "partially_paid", "unpaid"}
    BY <1>1, <2>2, MoneyTypes DEF FieldsOK
  <2> QED BY <1>1, <1>2, <2>1, <2>2, <2>3 DEF FieldsOK, applyHere, trip, Statuses
<1>4. CASE /\ UNCHANGED <<deal, trip, method, paid, credited, claim, hold>>
           /\ status' \in Statuses
           /\ paymentStatus' \in {paymentStatus, "refunded"}
           /\ reversal' \in {reversal, "sent", "received", "not_received"}
  BY <1>1, <1>4 DEF FieldsOK, deal, trip
<1>5. /\ status \in Statuses
      /\ {"cancelled", "cancelled_reversed", "dispute_raised"} \subseteq Statuses
  BY <1>1 DEF FieldsOK, Statuses, Stopped
<1>6. CASE ackReversal \/ raiseDispute
  BY <1>4, <1>5, <1>6 DEF ackReversal, raiseDispute, ledger
<1>7. CASE refundAll \/ \E a \in 1 .. TypedMax : startRefund(a)
  BY <1>4, <1>5, <1>7 DEF refundAll, startRefund, ledger
<1>8. CASE \E i \in DOMAIN credits, a \in 1 .. TypedMax : refundOne(i, a) \/ applyAway(i, a)
  <2>1. /\ UNCHANGED <<deal, trip, method, ledger, claim, hold>>
        /\ \/ UNCHANGED <<status, paymentStatus, reversal>>
           \/ finishReversal
           \/ status' = "cancelled" /\ UNCHANGED <<paymentStatus, reversal>>
    BY <1>8, Zenon DEF refundOne, applyAway
  <2> QED BY <1>4, <1>5, <2>1 DEF finishReversal, ledger
<1>9. CASE \E S : S # {} /\ (ackCreditRefund(S) \/ denyCreditRefund(S))
  <2>1. /\ UNCHANGED <<deal, trip, method, paid, credited, claim, hold>>
        /\ UNCHANGED <<status, paymentStatus, reversal>> \/ finishReversal
    <3>1. PICK S : ackCreditRefund(S) \/ denyCreditRefund(S)
      BY <1>9, Zenon
    <3>2. CASE ackCreditRefund(S)
      BY <3>2, Zenon DEF ackCreditRefund
    <3>3. CASE denyCreditRefund(S)
      BY <3>3 DEF denyCreditRefund, ledger
    <3> QED BY <3>1, <3>2, <3>3
  <2> QED BY <1>4, <1>5, <2>1 DEF finishReversal
<1>10. CASE \E S : holdCredit(S)
  <2>1. /\ UNCHANGED <<deal, trip, paymentStatus, method, ledger, claim, hold, reversal>>
        /\ status' = "cancelled" \/ status' = status
    BY <1>10, Zenon DEF holdCredit
  <2> QED BY <1>4, <1>5, <2>1 DEF ledger
<1>11. CASE \E i, a : submitReversal(i, a)
  <2>1. /\ UNCHANGED <<deal, trip, method, paid, credited, claim, hold>>
        /\ status' = "cancelled_reversed" /\ paymentStatus' = "refunded" /\ reversal' = "sent"
    BY <1>11, Zenon DEF submitReversal
  <2> QED BY <1>4, <1>5, <2>1
<1> QED BY <1>3, <1>6, <1>7, <1>8, <1>9, <1>10, <1>11, Zenon DEF MoneyReturns

LEMMA FieldsParcel ==
  ASSUME TypeOK, refunded' \in Int, ParcelMoves \/ settleDue \/ Disputing
  PROVE  FieldsOK'
<1>1. FieldsOK
  BY TypeIs
<1>2. CASE confirm \/ settleDue
  <2>1. hold' \in Holds
    BY <1>1, <1>2 DEF FieldsOK, confirm, settleDue, releaseHeld, Holds
  <2>2. /\ UNCHANGED <<deal, dispatched, paymentStatus, method, ledger, claim, reversal>>
        /\ received' \in BOOLEAN
        /\ status' \in {status, "delivered"}
    BY <1>1, <1>2 DEF FieldsOK, confirm, settleDue, releaseHeld
  <2> QED BY <1>1, <2>1, <2>2 DEF FieldsOK, deal, ledger, Statuses
<1>3. CASE dispatchTick \/ undispatch
  <2>1. hold' \in Holds
    BY <1>1, <1>3 DEF FieldsOK, dispatchTick, undispatch, Holds
  <2>2. /\ UNCHANGED <<deal, received, paymentStatus, method, ledger, claim, reversal>>
        /\ dispatched' \in BOOLEAN
        /\ status' \in {status, "shipped", "in_fulfilment", "confirmed"}
    BY <1>3 DEF dispatchTick, undispatch
  <2> QED BY <1>1, <2>1, <2>2 DEF FieldsOK, deal, ledger, Statuses
<1>4. CASE deliveredTick \/ stepToLast
  <2>1. deliver /\ UNCHANGED <<deal, dispatched, received, paymentStatus, method, ledger, claim, reversal>>
    BY <1>4 DEF deliveredTick, stepToLast
  <2>2. hold' \in Holds
    BY <1>1, <2>1 DEF FieldsOK, deliver, Holds
  <2>3. status' \in {status, "delivered"}
    BY <1>1, <2>1 DEF deliver, FieldsOK
  <2> QED BY <1>1, <2>1, <2>2, <2>3 DEF FieldsOK, deal, ledger, Statuses
<1>5. CASE undeliveredTick \/ stepShort
  BY <1>1, <1>5 DEF FieldsOK, undeliveredTick, stepShort, undeliver, travellingStatus, deal, trip, ledger, Statuses
<1>6. CASE Disputing
  <2>1. CASE \E side \in {"buyer", "seller"} : open(side)
    <3>1. hold' \in Holds
      BY <1>1, <2>1 DEF FieldsOK, open, Holds
    <3> QED BY <1>1, <2>1, <3>1 DEF FieldsOK, open, deal, trip, ledger
  <2>2. CASE backOnHold
    <3>1. hold' \in Holds
      BY <1>1, <2>2 DEF FieldsOK, backOnHold, Holds
    <3> QED BY <1>1, <2>2, <3>1 DEF FieldsOK, backOnHold, deal, trip, ledger
  <2>3. CASE \E back \in 0 .. Price : moveHeld(back)
    <3>1. PICK back \in 0 .. Price : moveHeld(back)
      BY <2>3
    <3>2. hold' \in Holds
      BY <1>1, <3>1 DEF FieldsOK, moveHeld, Holds
    <3> QED BY <1>1, <3>1, <3>2 DEF FieldsOK, moveHeld, deal, ledger, Statuses, Stopped
  <2> QED BY <1>6, <2>1, <2>2, <2>3, Zenon DEF Disputing
<1> QED BY <1>2, <1>3, <1>4, <1>5, <1>6, Zenon DEF ParcelMoves

LEMMA TypeStep ==
  ASSUME TypeOK, Next
  PROVE  TypeOK' /\ (RefundLedger => RefundLedger')
<1>1. /\ credits' \in Seq(Credits) /\ refunded' \in Int
      /\ RefundLedger => RefundLedger'
  BY ListStep
<1>2. FieldsOK'
  BY <1>1, FieldsPay, FieldsAnswer, FieldsReturn, FieldsParcel, Zenon DEF Next
<1>3. TypeOK'
  BY <1>1, <1>2 DEF TypeOK, FieldsOK
<1> QED BY <1>1, <1>3

LEMMA TypeInit == ASSUME Init PROVE TypeOK /\ RefundLedger
<1>1. Price \in Nat /\ KeptMax \in Nat /\ Price > 0
  BY PriceAssumption, BoundsAssumption
<1>2. credited \in Nat
  <2>1. least(KeptMax, Price) \in Nat
    BY <1>1, LeastFacts
  <2>2. credited = 0 \/ credited \in 1 .. least(KeptMax, Price)
    BY DEF Init
  <2> QED BY <2>1, <2>2
<1>3. claim \in Claims /\ hold \in Holds
  BY <1>1 DEF Init, Claims, Holds, NoClaim
<1>4. FieldsOK
  <2>1. /\ placed \in BOOLEAN /\ booking \in BOOLEAN /\ cut \in BOOLEAN
        /\ accepted \in BOOLEAN /\ closed \in BOOLEAN
        /\ dispatched \in BOOLEAN /\ received \in BOOLEAN
    BY DEF Init
  <2>2. paymentStatus \in {"unpaid", "partially_paid", "paid"}
    BY DEF Init
  <2> QED BY <1>2, <1>3, <2>1, <2>2 DEF Init, FieldsOK, Statuses
<1>5. credits = <<>> /\ refunded = 0
  BY DEF Init
<1>6. credits \in Seq(Credits)
  BY <1>5
<1>7. RefundLedger
  <2>1. SumFunction([i \in DOMAIN credits |-> credits[i].refunded]) = 0
    <3>1. DOMAIN credits = {}
      BY <1>5
    <3> QED BY <3>1, SumWhole, SumEmpty
  <2> QED BY <1>5, <2>1 DEF RefundLedger
<1> QED BY <1>4, <1>6, <1>7, TypeIs

LEMMA TypedLedgers == Spec => [](TypeOK /\ RefundLedger)
<1>1. Init => TypeOK /\ RefundLedger
  BY TypeInit
<1>2. TypeOK /\ RefundLedger /\ [Next]_vars => (TypeOK /\ RefundLedger)'
  <2>1. CASE Next
    BY <2>1, TypeStep
  <2>2. CASE UNCHANGED vars
    BY <2>2 DEF vars, deal, trip, ledger, TypeOK, RefundLedger
  <2> QED BY <2>1, <2>2
<1> QED BY <1>1, <1>2, PTL DEF Spec

\* Every field keeps a value its declaration allows.
THEOREM FieldsStayTyped == Spec => []TypeOK
<1> QED BY TypedLedgers, PTL

\* What the payment history says went back is what the refunds list says,
\* however returns are started, denied, sent again, spent elsewhere or sent in
\* one go.
THEOREM LedgersAgree == Spec => []RefundLedger
<1> QED BY TypedLedgers, PTL

-----------------------------------------------------------------------------
(* The money of a cancelled order.                                         *)

Cancels == {i \in DOMAIN credits : isCancelCredit(credits[i])}
Moving(c) == c.status \in {"open", "held", "refund_pending"}

\* Called off once, or never.
Once == \A i, j \in Cancels : i = j

MovingIsLeft == \A i \in Cancels : Moving(credits[i]) => creditLeft(credits[i]) > 0

OwedIsListed ==
  status = "payment_reversal_pending" =>
    \E i \in Cancels : credits[i].status \in {"open", "refund_pending"}

ReversedIsDone ==
  status = "cancelled_reversed" => \A i \in Cancels : ~Moving(credits[i])

Listed == MovingIsLeft /\ OwedIsListed /\ ReversedIsDone

RInv == Once => Listed

LEMMA ReversalFollows == ASSUME RInv PROVE ReversalHasMoney
<1> SUFFICES ASSUME ~calledOffTwice
             PROVE  LET owing == {i \in DOMAIN credits :
                                    isCancelCredit(credits[i]) /\ credits[i].status \in {"open", "refund_pending"}}
                    IN  /\ status = "payment_reversal_pending" => \E i \in owing : creditLeft(credits[i]) > 0
                        /\ status = "cancelled_reversed" => owing = {}
  BY DEF ReversalHasMoney
<1>1. Once
  BY DEF calledOffTwice, Once, Cancels
<1>2. MovingIsLeft /\ OwedIsListed /\ ReversedIsDone
  BY <1>1 DEF RInv, Listed
<1> QED BY <1>2 DEF MovingIsLeft, OwedIsListed, ReversedIsDone, Cancels, Moving

\* Whatever leaves the cancelled order's credit alone, and does not call the
\* order reversed or up for reversal.
LEMMA CancelsRest ==
  ASSUME RInv, Cancels' = Cancels, \A i \in Cancels : credits'[i] = credits[i],
         status' \in {"payment_reversal_pending", "cancelled_reversed"} => status' = status
  PROVE  RInv'
<1> SUFFICES ASSUME Once, Listed PROVE Listed'
  BY DEF RInv, Once
<1>1. MovingIsLeft'
  BY DEF Listed, MovingIsLeft
<1>2. OwedIsListed' /\ ReversedIsDone'
  BY DEF Listed, OwedIsListed, ReversedIsDone
<1> QED BY <1>1, <1>2 DEF Listed

\* Another credit than a cancellation's.
LEMMA CancelsAppended ==
  ASSUME credits \in Seq(Credits), NEW c \in Credits, credits' = Append(credits, c)
  PROVE  /\ \A i \in Cancels : credits'[i] = credits[i]
         /\ ~isCancelCredit(c) => Cancels' = Cancels
         /\ isCancelCredit(c) => Cancels' = Cancels \cup {Len(credits) + 1}
         /\ credits'[Len(credits) + 1] = c
BY ListAnd DEF Cancels

\* The cancelled order's credit, sent, denied, arrived or spent elsewhere: it
\* keeps something to send, or the order is no longer up for reversal.
LEMMA CancelsMove ==
  ASSUME Once, Listed, Cancels' = Cancels,
         \A j \in Cancels :
           \/ credits'[j] = credits[j]
           \/ /\ Moving(credits[j]) /\ creditLeft(credits'[j]) > 0
              /\ credits'[j].status \in {"open", "refund_pending", credits[j].status}
           \/ /\ Moving(credits[j]) /\ ~Moving(credits'[j]) /\ creditLeft(credits'[j]) = 0
              /\ status # "payment_reversal_pending" \/ status' # "payment_reversal_pending",
         \/ status' = status
         \/ /\ status = "payment_reversal_pending" /\ status' \in {"cancelled", "cancelled_reversed"}
            /\ \E j \in Cancels : creditLeft(credits'[j]) = 0
  PROVE  Listed'
<1>1. MovingIsLeft'
  BY DEF Listed, MovingIsLeft
<1>2. OwedIsListed'
  <2> SUFFICES ASSUME status' = "payment_reversal_pending"
               PROVE  \E j \in Cancels : credits'[j].status \in {"open", "refund_pending"}
    BY DEF OwedIsListed
  <2>1. PICK j \in Cancels : credits[j].status \in {"open", "refund_pending"}
    BY DEF Listed, OwedIsListed
  <2>2. credits'[j].status \in {"open", "refund_pending"}
    BY <2>1
  <2> QED BY <2>2
<1>3. ReversedIsDone'
  <2> SUFFICES ASSUME status' = "cancelled_reversed", NEW k \in Cancels PROVE ~Moving(credits'[k])
    BY DEF ReversedIsDone
  <2>1. CASE status = "cancelled_reversed"
    BY <2>1 DEF Listed, ReversedIsDone
  <2>2. CASE status # "cancelled_reversed"
    <3>1. status = "payment_reversal_pending" /\ \E j \in Cancels : creditLeft(credits'[j]) = 0
      BY <2>2
    <3>2. \A j \in Cancels : j = k
      BY DEF Once
    <3>3. creditLeft(credits'[k]) = 0
      BY <3>1, <3>2
    <3>4. Moving(credits[k]) /\ creditLeft(credits[k]) > 0
      BY <3>1, <3>2 DEF Listed, OwedIsListed, MovingIsLeft, Moving
    <3> QED BY <3>3, <3>4
  <2> QED BY <2>1, <2>2
<1> QED BY <1>1, <1>2, <1>3 DEF Listed

\* A list changed in place keeps whose credit is whose.
LEMMA CancelsInPlace ==
  ASSUME DOMAIN credits' = DOMAIN credits,
         \A i \in DOMAIN credits : credits'[i].origin = credits[i].origin
  PROVE  Cancels' = Cancels
BY DEF Cancels, isCancelCredit

\* The line the code finds first is the only one.
LEMMA TheLine ==
  ASSUME credits \in Seq(Credits), Once, Cancels' = Cancels, DOMAIN credits' = DOMAIN credits
  PROVE  \A i \in DOMAIN credits : isReversalLine(i, credits') <=> i \in Cancels
<1> TAKE i \in DOMAIN credits
<1>1. i \in 1 .. Len(credits) /\ DOMAIN credits = 1 .. Len(credits)
  OBVIOUS
<1>2. \A j \in DOMAIN credits : isCancelCredit(credits'[j]) <=> j \in Cancels
  BY DEF Cancels
<1>3. \A j \in 1 .. i - 1 : j \in DOMAIN credits /\ j # i
  BY <1>1
<1> QED BY <1>2, <1>3 DEF isReversalLine, Once

\* Only these call an order reversed, or up for reversal.
LEMMA CallsOff ==
  ASSUME TypeOK, Next
  PROVE  \/ status' \in {"payment_reversal_pending", "cancelled_reversed"} => status' = status
         \/ cancelPaid
         \/ (\E i \in DOMAIN credits, a \in Nat : applyAway(i, a))
         \/ (\E i \in DOMAIN credits, a \in Int : submitReversal(i, a))
         \/ (\E S \in SUBSET DOMAIN credits : ackCreditRefund(S))
<1>1. CASE BuyerPays
  BY <1>1 DEF BuyerPays, pay, payCut, placeOrder, claimPayment, claimCovered, bookOrder,
              payMoreDirect, payMoreProtected
<1>2. CASE SellerAnswers
  BY <1>2 DEF SellerAnswers, settleClaimAccept, settleClaimDeny, acceptOrder, rejectOrder, cancelUnpaid, closeOrder
<1>3. CASE MoneyReturns
  <2>1. CASE \/ (\E i \in DOMAIN credits, a \in 1 .. TypedMax : refundOne(i, a))
             \/ refundAll \/ ackReversal \/ raiseDispute
             \/ (\E a \in 1 .. TypedMax : startRefund(a))
             \/ (\E S : denyCreditRefund(S))
             \/ (\E a \in 1 .. KeptMax, way \in Methods : applyHere(a, way))
             \/ (\E S : holdCredit(S))
    <3>1. status' \in {status, "confirmed", "cancelled", "dispute_raised"}
      BY <2>1, Zenon DEF refundOne, refundAll, ackReversal, raiseDispute, startRefund, denyCreditRefund,
                         applyHere, holdCredit
    <3> QED BY <3>1
  <2>2. (\A a \in 1 .. TypedMax : a \in Nat) /\ (\A a \in -1 .. TypedMax : a \in Int)
    BY BoundsAssumption
  <2>3. CASE \/ \E i \in DOMAIN credits, a \in 1 .. TypedMax : applyAway(i, a)
             \/ \E i \in DOMAIN credits, a \in -1 .. TypedMax : submitReversal(i, a)
    BY <2>2, <2>3, Zenon
  <2>4. CASE \E i \in DOMAIN credits : submitReversal(i, creditLeft(credits[i]))
    <3>1. \A i \in DOMAIN credits : credits[i] \in Credits
      BY TypeIs
    <3>2. \A i \in DOMAIN credits : creditLeft(credits[i]) \in Nat
      BY <3>1, CreditTypes
    <3>3. \A i \in DOMAIN credits : creditLeft(credits[i]) \in Int
      BY <3>2
    <3> QED BY <2>4, <3>3, Zenon
  <2>5. CASE \E S \in {Pending} \cup {{i} : i \in Pending} : ackCreditRefund(S)
    <3>1. \A S \in {Pending} \cup {{i} : i \in Pending} : S \in SUBSET DOMAIN credits
      BY DEF Pending
    <3> QED BY <2>5, <3>1, Zenon
  <2> QED BY <1>3, <2>1, <2>3, <2>4, <2>5, Zenon DEF MoneyReturns
<1>4. CASE ParcelMoves \/ settleDue
  <2>1. status' \in {status, "delivered", "shipped", "in_fulfilment", "confirmed"}
    BY <1>4 DEF ParcelMoves, confirm, settleDue, releaseHeld, dispatchTick, undispatch, deliveredTick,
                stepToLast, deliver, undeliveredTick, stepShort, undeliver, travellingStatus
  <2> QED BY <2>1
<1>5. CASE Disputing
  BY <1>5 DEF Disputing, open, backOnHold, moveHeld
<1> QED BY <1>1, <1>2, <1>3, <1>4, <1>5, Zenon DEF Next

LEMMA SentMoves ==
  ASSUME NEW c \in Credits, NEW a \in Nat
  PROVE  /\ startReturn(c, a).origin = c.origin
         /\ creditLeft(startReturn(c, a)) = creditLeft(c)
         /\ startReturn(c, a).status = "refund_pending"
BY DEF startReturn, creditLeft, Credits

\* What the refunds list's operations do to one credit.
LEMMA CreditMoves ==
  ASSUME NEW c \in Credits, NEW a \in Nat
  PROVE  /\ LET d == arrivedBack(c) IN
              d.origin = c.origin /\ d.status = IF creditLeft(d) > 0 THEN "open" ELSE "refunded"
         /\ LET d == [c EXCEPT !.status = "open", !.pending = 0] IN
              d.origin = c.origin /\ creditLeft(d) = creditLeft(c) /\ d.status = "open"
         /\ LET d == [c EXCEPT !.status = "held"] IN
              d.origin = c.origin /\ creditLeft(d) = creditLeft(c) /\ d.status = "held"
         /\ LET d == [c EXCEPT !.applied = @ + a] IN
              d.origin = c.origin /\ d.status = c.status
         /\ LET d == [c EXCEPT !.status = "applied"] IN
              d.origin = c.origin /\ creditLeft(d) = creditLeft(c) /\ d.status = "applied"
<1>2. LET d == arrivedBack(c) IN
        d.origin = c.origin /\ d.status = IF creditLeft(d) > 0 THEN "open" ELSE "refunded"
  <2> DEFINE n == [c EXCEPT !.refunded = @ + c.pending, !.pending = 0]
             d == [n EXCEPT !.status = IF creditLeft(n) > 0 THEN "open" ELSE "refunded"]
  <2>1. /\ n.origin = c.origin
        /\ n = [n EXCEPT !.origin = n.origin]
        /\ DOMAIN n = DOMAIN c /\ "status" \in DOMAIN n
    BY DEF Credits
  <2> HIDE DEF n
  <2>2. /\ d.origin = n.origin /\ creditLeft(d) = creditLeft(n)
        /\ d.status = IF creditLeft(n) > 0 THEN "open" ELSE "refunded"
    BY <2>1 DEF creditLeft
  <2>3. arrivedBack(c) = d
    BY DEF arrivedBack, n
  <2> HIDE DEF d
  <2> QED BY <2>1, <2>2, <2>3
<1>3. LET d == [c EXCEPT !.status = "open", !.pending = 0] IN
        d.origin = c.origin /\ creditLeft(d) = creditLeft(c) /\ d.status = "open"
  BY DEF creditLeft, Credits
<1>4. LET d == [c EXCEPT !.status = "held"] IN
        d.origin = c.origin /\ creditLeft(d) = creditLeft(c) /\ d.status = "held"
  BY DEF creditLeft, Credits
<1>5. LET d == [c EXCEPT !.applied = @ + a] IN
        d.origin = c.origin /\ d.status = c.status
  BY DEF Credits
<1>6. LET d == [c EXCEPT !.status = "applied"] IN
        d.origin = c.origin /\ creditLeft(d) = creditLeft(c) /\ d.status = "applied"
  BY DEF creditLeft, Credits
<1> QED BY <1>2, <1>3, <1>4, <1>5, <1>6, Zenon

LEMMA SendingKeeps ==
  ASSUME TypeOK, RInv,
         \/ refundAll
         \/ (\E i \in DOMAIN credits, a \in Nat : refundOne(i, a))
         \/ (\E S \in SUBSET DOMAIN credits : denyCreditRefund(S))
  PROVE  RInv'
<1>1. credits \in Seq(Credits) /\ \A i \in DOMAIN credits : credits[i] \in Credits
  BY TypeIs
<1>2. /\ DOMAIN credits' = DOMAIN credits /\ status' = status
      /\ \A i \in DOMAIN credits :
           \/ credits'[i] = credits[i]
           \/ /\ Moving(credits[i])
              /\ \/ \E a \in Nat : credits'[i] = startReturn(credits[i], a)
                 \/ credits'[i] = [credits[i] EXCEPT !.status = "open", !.pending = 0]
  <2>1. CASE refundAll
    <3>1. \A i \in Live : creditLeft(credits[i]) \in Nat /\ Moving(credits[i])
      BY <1>1, CreditTypes DEF Live, creditIsLive, Moving
    <3>2. /\ credits' = [i \in DOMAIN credits |->
                          IF i \in Live THEN startReturn(credits[i], creditLeft(credits[i])) ELSE credits[i]]
          /\ status' = status
      BY <2>1 DEF refundAll
    <3> QED BY <3>1, <3>2
  <2>2. CASE \E i \in DOMAIN credits, a \in Nat : refundOne(i, a)
    <3>1. PICK i \in DOMAIN credits, a \in Nat : refundOne(i, a)
      BY <2>2
    <3>2. /\ credits' = [credits EXCEPT ![i] = startReturn(credits[i], a)]
          /\ status' = status /\ Moving(credits[i])
      BY <3>1 DEF refundOne, Live, creditIsLive, Moving
    <3> QED BY <1>1, <3>2
  <2>3. CASE \E S \in SUBSET DOMAIN credits : denyCreditRefund(S)
    <3>1. PICK S \in SUBSET DOMAIN credits : denyCreditRefund(S)
      BY <2>3
    <3>2. /\ credits' = [i \in DOMAIN credits |->
                          IF i \in S THEN [credits[i] EXCEPT !.status = "open", !.pending = 0]
                                     ELSE credits[i]]
          /\ status' = status /\ \A i \in S : Moving(credits[i])
      BY <3>1 DEF denyCreditRefund, Pending, Moving
    <3> QED BY <3>2
  <2> QED BY <2>1, <2>2, <2>3
<1>3. \A i \in DOMAIN credits :
        /\ credits'[i].origin = credits[i].origin
        /\ \/ credits'[i] = credits[i]
           \/ /\ Moving(credits[i]) /\ creditLeft(credits'[i]) = creditLeft(credits[i])
              /\ credits'[i].status \in {"open", "refund_pending"}
  <2> TAKE i \in DOMAIN credits
  <2>1. credits[i] \in Credits /\ 0 \in Nat
    BY <1>1
  <2>2. CASE credits'[i] = credits[i]
    BY <2>2
  <2>3. CASE \E a \in Nat : credits'[i] = startReturn(credits[i], a) /\ Moving(credits[i])
    <3>1. PICK a \in Nat : credits'[i] = startReturn(credits[i], a)
      BY <2>3
    <3> QED BY <2>1, <2>3, <3>1, SentMoves
  <2>4. CASE credits'[i] = [credits[i] EXCEPT !.status = "open", !.pending = 0] /\ Moving(credits[i])
    <3> DEFINE d == [credits[i] EXCEPT !.status = "open", !.pending = 0]
    <3>1. d.origin = credits[i].origin /\ creditLeft(d) = creditLeft(credits[i]) /\ d.status = "open"
      BY <2>1, CreditMoves
    <3> HIDE DEF d
    <3> QED BY <2>4, <3>1 DEF d
  <2> QED BY <1>2, <2>2, <2>3, <2>4
<1>4. Cancels' = Cancels
  BY <1>2, <1>3, CancelsInPlace
<1> SUFFICES ASSUME Once, Listed PROVE Listed'
  BY <1>4 DEF RInv, Once
<1>5. \A j \in Cancels :
        \/ credits'[j] = credits[j]
        \/ /\ Moving(credits[j]) /\ creditLeft(credits'[j]) > 0
           /\ credits'[j].status \in {"open", "refund_pending"}
  BY <1>3 DEF Listed, MovingIsLeft, Cancels
<1> QED BY <1>2, <1>4, <1>5, CancelsMove

LEMMA HoldingKeeps ==
  ASSUME TypeOK, RInv, NEW S \in SUBSET DOMAIN credits, holdCredit(S)
  PROVE  RInv'
<1>1. credits \in Seq(Credits) /\ \A i \in DOMAIN credits : credits[i] \in Credits
  BY TypeIs
<1>2. /\ credits' = [i \in DOMAIN credits |->
                       IF i \in S THEN [credits[i] EXCEPT !.status = "held"] ELSE credits[i]]
      /\ \A i \in S : credits[i].status = "open"
      /\ status' = IF /\ status = "payment_reversal_pending"
                      /\ \E i \in DOMAIN credits' : isCancelCredit(credits'[i]) /\ credits'[i].status = "held"
                   THEN "cancelled" ELSE status
  BY DEF holdCredit
<1>3. \A i \in DOMAIN credits :
        /\ credits'[i].origin = credits[i].origin
        /\ \/ credits'[i] = credits[i]
           \/ /\ credits[i].status = "open" /\ creditLeft(credits'[i]) = creditLeft(credits[i])
              /\ credits'[i].status = "held"
  <2> TAKE i \in DOMAIN credits
  <2>1. credits[i] \in Credits /\ 0 \in Nat
    BY <1>1
  <2>2. CASE i \in S
    BY <1>2, <2>1, <2>2, CreditMoves
  <2> QED BY <1>2, <2>2
<1>4. Cancels' = Cancels
  BY <1>2, <1>3, CancelsInPlace
<1> SUFFICES ASSUME Once, Listed PROVE Listed'
  BY <1>4 DEF RInv, Once
<1>5. MovingIsLeft'
  BY <1>3, <1>4 DEF Listed, MovingIsLeft, Moving, Cancels
<1>6. OwedIsListed'
  <2> SUFFICES ASSUME status' = "payment_reversal_pending"
               PROVE  \E j \in Cancels : credits'[j].status \in {"open", "refund_pending"}
    BY <1>4 DEF OwedIsListed
  <2>1. status = "payment_reversal_pending" /\ \A i \in Cancels : credits'[i].status # "held"
    BY <1>2, <1>4 DEF Cancels
  <2>2. PICK j \in Cancels : credits[j].status \in {"open", "refund_pending"}
    BY <2>1 DEF Listed, OwedIsListed
  <2> QED BY <1>3, <2>1, <2>2 DEF Cancels
<1>7. ReversedIsDone'
  BY <1>2, <1>3, <1>4 DEF Listed, ReversedIsDone, Moving, Cancels
<1> QED BY <1>5, <1>6, <1>7 DEF Listed

\* Spent elsewhere, or arrived: with nothing left of it the order is reversed.
LEMMA SpendingKeeps ==
  ASSUME TypeOK, RInv, NEW i \in DOMAIN credits, NEW a \in Nat, applyAway(i, a)
  PROVE  RInv'
<1>1. credits \in Seq(Credits) /\ \A j \in DOMAIN credits : credits[j] \in Credits
  BY TypeIs
<1> DEFINE c == [credits[i] EXCEPT !.applied = @ + a]
           d == IF creditLeft(c) > 0 THEN c ELSE [c EXCEPT !.status = "applied"]
<1>2. /\ credits' = [credits EXCEPT ![i] = d]
      /\ creditIsLive(credits[i])
      /\ IF allReturned(credits') THEN status' \in {"cancelled", "cancelled_reversed"} ELSE status' = status
  BY Zenon DEF applyAway, finishReversal, Live
<1>3. c \in Credits /\ c.origin = credits[i].origin /\ c.status = credits[i].status
  BY <1>1, CreditTypes, CreditMoves
<1> HIDE DEF c
<1>4. /\ d.origin = credits[i].origin
      /\ \/ creditLeft(d) > 0 /\ d.status = credits[i].status
         \/ creditLeft(d) = 0 /\ d.status = "applied"
  <2>1. creditLeft(c) \in Nat
    BY <1>3, CreditTypes
  <2>2. LET e == [c EXCEPT !.status = "applied"] IN
          e.origin = c.origin /\ creditLeft(e) = creditLeft(c) /\ e.status = "applied"
    BY <1>3, CreditMoves
  <2> QED BY <1>3, <2>1, <2>2
<1> HIDE DEF d
<1>5. /\ credits'[i] = d /\ DOMAIN credits' = DOMAIN credits
      /\ \A j \in DOMAIN credits \ {i} : credits'[j] = credits[j]
  BY <1>1, <1>2
<1>6. Cancels' = Cancels
  BY <1>4, <1>5, CancelsInPlace
<1> SUFFICES ASSUME Once, Listed PROVE Listed'
  BY <1>6 DEF RInv, Once
<1>7. allReturned(credits') <=> /\ status = "payment_reversal_pending"
                                /\ \E j \in Cancels : /\ creditLeft(credits'[j]) = 0
                                                      /\ credits'[j].status # "refund_pending"
  <2>1. \A j \in DOMAIN credits : isReversalLine(j, credits') <=> j \in Cancels
    BY <1>1, <1>5, <1>6, TheLine
  <2> QED BY <1>5, <2>1 DEF allReturned, Cancels
<1>8. Moving(credits[i])
  BY <1>2 DEF creditIsLive, Moving
<1>9. i \in Cancels /\ creditLeft(d) = 0 /\ status = "payment_reversal_pending"
        => status' # "payment_reversal_pending"
  BY <1>2, <1>4, <1>5, <1>7
<1>10. \A j \in Cancels :
         \/ credits'[j] = credits[j]
         \/ /\ Moving(credits[j]) /\ creditLeft(credits'[j]) > 0
            /\ credits'[j].status \in {"open", "refund_pending", credits[j].status}
         \/ /\ Moving(credits[j]) /\ ~Moving(credits'[j]) /\ creditLeft(credits'[j]) = 0
            /\ status # "payment_reversal_pending" \/ status' # "payment_reversal_pending"
  <2> TAKE j \in Cancels
  <2>1. CASE j # i
    BY <1>5, <2>1 DEF Cancels
  <2>2. CASE j = i
    BY <1>4, <1>5, <1>8, <1>9, <2>2 DEF Moving
  <2> QED BY <2>1, <2>2
<1>11. \/ status' = status
       \/ /\ status = "payment_reversal_pending" /\ status' \in {"cancelled", "cancelled_reversed"}
          /\ \E j \in Cancels : creditLeft(credits'[j]) = 0
  BY <1>2, <1>7
<1> QED BY <1>6, <1>10, <1>11, CancelsMove

LEMMA ArrivingKeeps ==
  ASSUME TypeOK, RInv, NEW S \in SUBSET DOMAIN credits, ackCreditRefund(S)
  PROVE  RInv'
<1>1. credits \in Seq(Credits) /\ \A j \in DOMAIN credits : credits[j] \in Credits
  BY TypeIs
<1>2. /\ credits' = [i \in DOMAIN credits |-> IF i \in S THEN arrivedBack(credits[i]) ELSE credits[i]]
      /\ \A i \in S : Moving(credits[i])
      /\ IF allReturned(credits') THEN status' = "cancelled_reversed" ELSE status' = status
  BY Zenon DEF ackCreditRefund, finishReversal, Pending, Moving
<1>3. \A i \in DOMAIN credits :
        /\ credits'[i].origin = credits[i].origin
        /\ \/ credits'[i] = credits[i]
           \/ /\ Moving(credits[i])
              /\ \/ creditLeft(credits'[i]) > 0 /\ credits'[i].status = "open"
                 \/ creditLeft(credits'[i]) = 0 /\ credits'[i].status = "refunded"
  <2> TAKE i \in DOMAIN credits
  <2>1. credits[i] \in Credits /\ 0 \in Nat
    BY <1>1
  <2>2. CASE i \in S
    <3>1. credits'[i] = arrivedBack(credits[i])
      BY <1>2, <2>2
    <3>2. creditLeft(credits'[i]) \in Nat
      BY <2>1, <3>1, CreditTypes
    <3>3. /\ credits'[i].origin = credits[i].origin
          /\ credits'[i].status = IF creditLeft(credits'[i]) > 0 THEN "open" ELSE "refunded"
      <4> DEFINE d == arrivedBack(credits[i])
      <4>1. d.origin = credits[i].origin /\ d.status = IF creditLeft(d) > 0 THEN "open" ELSE "refunded"
        BY <2>1, CreditMoves
      <4> HIDE DEF d
      <4> QED BY <3>1, <4>1 DEF d
    <3> QED BY <1>2, <2>2, <3>2, <3>3
  <2> QED BY <1>2, <2>2
<1>4. Cancels' = Cancels
  BY <1>2, <1>3, CancelsInPlace
<1> SUFFICES ASSUME Once, Listed PROVE Listed'
  BY <1>4 DEF RInv, Once
<1>5. allReturned(credits') <=> /\ status = "payment_reversal_pending"
                                /\ \E j \in Cancels : /\ creditLeft(credits'[j]) = 0
                                                      /\ credits'[j].status # "refund_pending"
  <2>1. DOMAIN credits' = DOMAIN credits
    BY <1>2
  <2>2. \A j \in DOMAIN credits : isReversalLine(j, credits') <=> j \in Cancels
    BY <1>1, <1>4, <2>1, TheLine
  <2> QED BY <2>1, <2>2 DEF allReturned, Cancels
<1>6. \A j \in Cancels :
         \/ credits'[j] = credits[j]
         \/ /\ Moving(credits[j]) /\ creditLeft(credits'[j]) > 0
            /\ credits'[j].status \in {"open", "refund_pending", credits[j].status}
         \/ /\ Moving(credits[j]) /\ ~Moving(credits'[j]) /\ creditLeft(credits'[j]) = 0
            /\ status # "payment_reversal_pending" \/ status' # "payment_reversal_pending"
  <2> TAKE j \in Cancels
  <2>1. j \in DOMAIN credits
    BY DEF Cancels
  <2>2. CASE creditLeft(credits'[j]) = 0 /\ credits'[j].status = "refunded"
    BY <1>2, <1>3, <1>5, <2>1, <2>2 DEF Moving
  <2> QED BY <1>3, <2>1, <2>2
<1>7. \/ status' = status
      \/ /\ status = "payment_reversal_pending" /\ status' \in {"cancelled", "cancelled_reversed"}
         /\ \E j \in Cancels : creditLeft(credits'[j]) = 0
  BY <1>2, <1>5
<1> QED BY <1>4, <1>6, <1>7, CancelsMove

LEMMA ReversingKeeps ==
  ASSUME TypeOK, RInv, NEW i \in DOMAIN credits, NEW a \in Int, submitReversal(i, a)
  PROVE  RInv'
<1>1. credits \in Seq(Credits) /\ \A j \in DOMAIN credits : credits[j] \in Credits
  BY TypeIs
<1> DEFINE d == [credits[i] EXCEPT !.refunded = @ + a, !.status = "refunded"]
<1>2. credits' = [credits EXCEPT ![i] = d] /\ status' = "cancelled_reversed" /\ isCancelCredit(credits[i])
  BY DEF submitReversal, isReversalLine
<1>3. d.origin = credits[i].origin /\ d.status = "refunded"
  <2>1. credits[i] \in Credits
    BY <1>1
  <2> QED BY <2>1 DEF Credits
<1> HIDE DEF d
<1>4. /\ credits'[i] = d /\ DOMAIN credits' = DOMAIN credits
      /\ \A j \in DOMAIN credits \ {i} : credits'[j] = credits[j]
  BY <1>1, <1>2
<1>5. Cancels' = Cancels
  BY <1>3, <1>4, CancelsInPlace
<1> SUFFICES ASSUME Once, Listed PROVE Listed'
  BY <1>5 DEF RInv, Once
<1>6. \A j \in Cancels : j = i
  BY <1>2 DEF Once, Cancels
<1>7. \A j \in Cancels : ~Moving(credits'[j])
  BY <1>3, <1>4, <1>6 DEF Moving
<1>8. MovingIsLeft'
  BY <1>5, <1>7 DEF MovingIsLeft
<1> QED BY <1>2, <1>5, <1>7, <1>8 DEF Listed, OwedIsListed, ReversedIsDone

\* The cancellation itself, of an order that had paid something: the first, or
\* the order has been called off twice.
LEMMA CancellingKeeps ==
  ASSUME TypeOK, RInv, cancelPaid
  PROVE  RInv'
<1> DEFINE c == credit("cancelled", "open", paidMinor, 0)
           n == Len(credits) + 1
<1>1. credits \in Seq(Credits) /\ paidMinor \in Nat /\ paidMinor > 0
  BY TypeIs, MoneyTypes DEF cancelPaid
<1>2. credits' = Append(credits, c) /\ status' = "payment_reversal_pending"
  BY DEF cancelPaid
<1>3. c \in Credits
  BY <1>1, NewCredits DEF CreditStatuses
<1>4. c.origin = "cancelled" /\ c.status = "open" /\ creditLeft(c) > 0
  <2>1. c.amount = paidMinor /\ c.refunded = 0 /\ c.applied = 0
    BY DEF credit
  <2>2. creditLeft(c) > 0
    BY <1>1, <2>1 DEF creditLeft, minus
  <2> QED BY <2>2 DEF credit
<1> HIDE DEF c
<1>5. Cancels' = Cancels \cup {n} /\ credits'[n] = c
  BY <1>1, <1>2, <1>3, <1>4, CancelsAppended DEF isCancelCredit
<1> SUFFICES ASSUME Once' PROVE Listed'
  BY DEF RInv
<1>6. Cancels = {}
  <2>1. \A i \in Cancels : i = n
    BY <1>5 DEF Once
  <2>2. n \notin Cancels
    BY <1>1 DEF Cancels
  <2> QED BY <2>1, <2>2
<1>7. Cancels' = {n}
  BY <1>5, <1>6
<1>8. MovingIsLeft' /\ OwedIsListed' /\ ReversedIsDone'
  BY <1>2, <1>4, <1>5, <1>7 DEF MovingIsLeft, OwedIsListed, ReversedIsDone
<1> QED BY <1>8 DEF Listed

\* Credit from elsewhere on the order: an instalment that overshot, or a
\* refund of the seller's own.
LEMMA AddingKeeps ==
  ASSUME TypeOK, RInv, Next,
         settleClaimAccept \/ (\E sum \in Nat : payMoreProtected(sum)) \/ (\E a \in Nat : startRefund(a))
  PROVE  RInv'
<1>1. FieldsOK /\ credits \in Seq(Credits)
  BY TypeIs
<1>2. status' = status \/ status' = "confirmed"
  BY DEF settleClaimAccept, payMoreProtected, startRefund
<1>3. CASE credits' = credits
  BY <1>2, <1>3, CancelsRest DEF Cancels
<1>4. CASE \E origin \in {"overpaid", "manual"}, state \in CreditStatuses, amount \in Nat, pending \in Nat :
             credits' = Append(credits, credit(origin, state, amount, pending))
  <2>1. PICK origin \in {"overpaid", "manual"}, state \in CreditStatuses, amount \in Nat, pending \in Nat :
               credits' = Append(credits, credit(origin, state, amount, pending))
    BY <1>4
  <2> DEFINE c == credit(origin, state, amount, pending)
  <2>2. c \in Credits /\ ~isCancelCredit(c)
    BY NewCredits DEF credit, isCancelCredit
  <2> HIDE DEF c
  <2>3. credits' = Append(credits, c)
    BY <2>1 DEF c
  <2>4. Cancels' = Cancels /\ \A i \in Cancels : credits'[i] = credits[i]
    BY <1>1, <2>2, <2>3, CancelsAppended
  <2> QED BY <1>2, <2>4, CancelsRest
<1>5. "open" \in CreditStatuses /\ "refund_pending" \in CreditStatuses
  BY DEF CreditStatuses
<1>6. CASE settleClaimAccept
  <2>1. claim.excess \in Nat
    BY <1>1 DEF FieldsOK, Claims
  <2>2. \/ credits' = Append(credits, credit("overpaid", "open", claim.excess, 0))
        \/ credits' = credits
    BY <1>6 DEF settleClaimAccept
  <2> QED BY <1>3, <1>4, <1>5, <2>1, <2>2
<1>7. CASE \E sum \in Nat : payMoreProtected(sum)
  <2>1. PICK sum \in Nat : payMoreProtected(sum)
    BY <1>7
  <2>2. sum - least(sum, outstanding) \in Nat
    BY <1>1, AmountTypes
  <2>3. \/ credits' = Append(credits, credit("overpaid", "open", sum - least(sum, outstanding), 0))
        \/ credits' = credits
    BY <2>1 DEF payMoreProtected
  <2> QED BY <1>3, <1>4, <1>5, <2>2, <2>3
<1>8. CASE \E a \in Nat : startRefund(a)
  <2>1. PICK a \in Nat : startRefund(a)
    BY <1>8
  <2>2. credits' = Append(credits, credit("manual", "refund_pending", a, a))
    BY <2>1 DEF startRefund
  <2> QED BY <1>4, <1>5, <2>2
<1> QED BY <1>6, <1>7, <1>8

LEMMA ReversalStep ==
  ASSUME TypeOK, RInv, Next
  PROVE  RInv'
<1>1. CASE cancelPaid
  BY <1>1, CancellingKeeps
<1>2. CASE settleClaimAccept \/ (\E sum \in Nat : payMoreProtected(sum)) \/ (\E a \in Nat : startRefund(a))
  BY <1>2, AddingKeeps
<1>3. CASE \/ refundAll
           \/ (\E i \in DOMAIN credits, a \in Nat : refundOne(i, a))
           \/ (\E S \in SUBSET DOMAIN credits : denyCreditRefund(S))
  BY <1>3, SendingKeeps
<1>4. CASE \E i \in DOMAIN credits, a \in Nat : applyAway(i, a)
  BY <1>4, SpendingKeeps, Zenon
<1>5. CASE \E i \in DOMAIN credits, a \in Int : submitReversal(i, a)
  BY <1>5, ReversingKeeps, Zenon
<1>6. CASE \E S \in SUBSET DOMAIN credits : ackCreditRefund(S) \/ holdCredit(S)
  BY <1>6, ArrivingKeeps, HoldingKeeps, Zenon
<1>7. CASE UNCHANGED <<credits, refunded>>
  <2>1. CASE status' \in {"payment_reversal_pending", "cancelled_reversed"} => status' = status
    <3>1. Cancels' = Cancels /\ \A i \in Cancels : credits'[i] = credits[i]
      BY <1>7 DEF Cancels
    <3> QED BY <2>1, <3>1, CancelsRest
  <2> QED BY <1>1, <1>4, <1>5, <1>6, <2>1, CallsOff, Zenon
<1> QED BY <1>1, <1>2, <1>3, <1>4, <1>5, <1>6, <1>7, ListSteps, Zenon

LEMMA ReversalInit == ASSUME Init PROVE RInv
<1>1. status = "pending_payment" /\ credits = <<>>
  BY DEF Init
<1>2. Cancels = {}
  BY <1>1 DEF Cancels
<1> QED BY <1>1, <1>2 DEF RInv, Listed, MovingIsLeft, OwedIsListed, ReversedIsDone

\* An order called off once, and up for reversal, always has the money on the
\* seller's refunds list, and one called reversed has none of it left there: its
\* credit, while it moves, has something left.
THEOREM ReversalIsListed == Spec => []ReversalHasMoney
<1>1. Init => RInv
  BY ReversalInit
<1>2. TypeOK /\ RInv /\ [Next]_vars => RInv'
  <2>1. ASSUME TypeOK, RInv, Next PROVE RInv'
    BY <2>1, ReversalStep
  <2>2. ASSUME RInv, UNCHANGED vars PROVE RInv'
    <3>1. UNCHANGED <<status, credits>>
      BY <2>2 DEF vars
    <3>2. Cancels' = Cancels
      BY <3>1 DEF Cancels
    <3> QED BY <2>2, <3>1, <3>2, CancelsRest
  <2> QED BY <2>1, <2>2, Zenon
<1>3. RInv => ReversalHasMoney
  BY ReversalFollows
<1> QED BY <1>1, <1>2, <1>3, FieldsStayTyped, PTL DEF Spec
=============================================================================
