------------------------- MODULE PreOrderExpected -------------------------
(***************************************************************************)
(* What the comments of api/src/functions/preorder.ts and its routes say   *)
(* of a campaign and an interleaving of its requests does not keep.        *)
(***************************************************************************)
EXTENDS PreOrder

AtRest == \A r \in Everyone : ~underWay(r)

\* "Closed and paused campaigns take nobody: a booking into either is money
\* held for something that is not happening" (preOrderRefusal), "A checkout
\* never placed is not a booking; the guard keeps it from becoming one"
\* (closeCampaign): a placement past its guard takes its units after the close.
ClosedTakesNobody ==
  AtRest /\ campaign.closed => \A b \in Buyers : orders[b].status # "placed"

\* "a pledge is intent, an order is money, and the threshold is met by the two
\* of them together": whose place is being booked is in both for a moment, and
\* a reconcile of that moment counts it twice (placeOrder, counts).
inIt(b) == orders[b].status \in {"placed", "shipped"} \/ holding(pledges, b) # {}
FilledByEnough ==
  [][campaign.filledAt = 0 /\ campaign'.filledAt # 0 /\ ~campaign'.proceededShort
       => SumFunctionOnSet(Units, {b \in Buyers : inIt(b)}) >= campaign.threshold]_vars

\* Of a campaign that closes, "every booking that has not shipped is called off"
\* (closeCampaign), and one that took its units before the close should be
\* found by it, for it moved the campaign's count.  The count can move back: a
\* reconcile that read the campaign with a booking's units still missing from
\* it, and the order already there, writes its own count over the booking's,
\* and a close that read that count takes its campaign for unchanged.
NoBookingLeftBehind ==
  campaign.closed => \A b \in booked : orders[b].status # "placed"

\* The same of those a reconcile read: one that it read as dispatched, and whose
\* dispatch is undone before the close is saved, is left booked.
NotShippedIsCalledOff ==
  [][\A r \in Everyone : save(r) /\ campaign'.closed /\ ~campaign.closed =>
       \A b \in Buyers : mem[r].orders[b].status # "draft" => orders[b].status # "placed"]_vars

\* Bookings are called off because "it is over without going ahead"
\* (closeCampaign): they are before the campaign is saved, and the save is
\* refused when the seller extended it, or the request dies.
CalledOffMeansOver ==
  AtRest /\ (\E b \in Buyers : orders[b].status = "called_off") => campaign.closed

\* "A bare second tap is leaving - the waitlist as much as the group" (pledge):
\* a reconcile that read the row before writes it back.
LeftStaysLeft ==
  [][\A i \in Rows : pledges[i].status = "left" => pledges'[i].status = "left"]_vars
=============================================================================
