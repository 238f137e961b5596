# Figmark, specified

Figmark is a marketplace for people who import collectibles in lots and resell
them. A buyer orders an item from a shop, pays the seller directly or through
Figmark's buyer protection (which holds the money until the parcel has come),
follows the parcel, and gets money back through credits, refunds and reversals
when a deal is called off. The server is an Azure Functions API over Cosmos DB
(`api/src`), with rules it shares with the web app (`shared`).

This directory holds TLA+ modules of the server's core logic, the TLC
configurations that check them, and proofs that TLAPS checks. Paths below are
relative to the repository's root.

1. Components  2. Modules and the code  3. Runs  4. Fairness  5. Proofs
6. Known disagreements  7. What is not modelled  8. Plan

## 1. Components

**Checked document writes** (`api/src/data/concurrency.ts`,
`api/src/data/cosmos-repository.ts`). Orders, lots, listings, users and user
parts are JSON documents with an etag. State: the document in the store, and in
each API instance a bounded cache of what was read under which etag
(`ReadSnapshots`). Operations: point reads; `writeChecked`, a conditional write
that merges a lost race field by field (`mergeChanges`) and tries again, five
times at most; read-and-replace loops (`takeStock`, `mutateListing`,
`bumpCounter`). Hard: requests interleave between any two awaits, on one
instance or several, and the cache forgets. Correct when no write takes
another's change away and a refused write changes nothing.

**Orders and their money** (`api/src/functions/order-routes.ts`, `call-off.ts`,
`shared/orders.ts`, `shared/payments.ts`). State of an order: status, payment
status, list of payments, an open claim ("I sent it"), credits (the refunds
list), the held payment and the reversal of a cancellation. Some thirty handlers
of buyer and seller, each allowed by `actionsFor`. Hard: the same money is
written down in several places and they must agree in whatever order the two
act. Correct when an order never takes more than it costs, every refund is on
both lists, a reversal that is owed has money left to send, and a claim can be
answered.

**Delivery and the held payment** (`api/src/delivery.ts`,
`api/src/functions/fulfilment-routes.ts`, `tracking-routes.ts`). State: the
order's status and ticks, `hold.state`, the auto-release time. Operations:
ticks and item steps that deliver and undeliver, the buyer's confirmation, and
`settleDue`, which releases held money when somebody reads the order after the
window: there is no background job. Correct when held money leaves once, for
a reason the buyer was promised, and does leave.

**Buyer protection disputes** (`api/src/community.ts`,
`api/src/functions/dispute-routes.ts`, `shared/disputes.ts`). A dispute is a
document of its own with a version: up to three rounds, each with a community
manager who decides it, a settlement the two sides may offer and accept
instead, an answer, agreements, a window in which the losing side may escalate
for a fee, and a result. Operations: open, reply, offer, accept, withdraw,
decide, agree, escalate, release, and `loadDispute`, which every one of them and an
hourly job begin with and which moves rounds off managers who are gone, makes
decisions final whose window is over, and gives out the duty to release held
money. A dispute about a protected order freezes the money; its result moves
it. Hard: whoever looks may find a result due, at the same moment; the result,
the records it counts on, the claim and the order are saved one after another;
a reply is saved without a version. Correct when a result is made final once
and is the one the rounds decided, and held money leaves once, as agreed.

**Placing an order** (`api/src/functions/placement.ts`, its callers `pay`,
`claimPayment`, `bookOrder` in `order-routes.ts`). Touches the order, the
listing's stock, and other orders whose kept credit is spent. Hard: none of it
is a transaction, a request may be refused or die between any two writes, and
the seller rejects, reprices and moves credit meanwhile. Correct when an order
takes one unit and gives one back at most, a cart holds none, the count on the
shelf is what was taken and returned, no credit is spent twice or appears from
nowhere.

**Pre-orders** (`api/src/functions/preorder.ts`, `preorder-routes.ts`,
`shared/preorder.ts`). State: a campaign on its listing (threshold, cutoff, rules
for short and full, when it filled, when places are due, a pause waiting for the
seller, cached counts), pledge rows, and the orders booked. `reconcilePreOrder`
runs on every read, pledge, placement, edit, decision and tick of a clock; it
lets go of places whose grace is over, calls in the waitlist, fills, closes,
calls bookings off, and saves the campaign last. Hard: the three kinds of
documents are written one at a time, rows without a check; a placement passes
its guard, is claimed, counted and converted in four writes. Correct when a
campaign that is over stays over, it is closed over no booking its reconcile
read, a booking is called off once, and what is due gets settled.

**Power sales** (`api/src/functions/power-sale.ts`, `power-sale-routes.ts`). State: a
sale with its schedule and what was done of it, the messages and listings it
wrote, who asked to be reminded. The clock and every look at the sale run a
pass that writes what falls due soon, to show at its own time, under fixed
identifiers, and saves the sale last and unchecked; stop and reminders save it
too. Correct when what is recorded was done, every item reaches everybody, and
nobody's window stays open.

**Others, not modelled** (section 7): the lot view of an order
(`data/lot-view.ts`), lots and routes, the undo window and held notices, offers
and loyalty, fees and billing, rate limits, photo clean-up, append-only logs,
accounts and identifiers, the cancellation watch, service work, social feed and
messages, the in-memory repository, the web app.

How they meet: every handler of an order reads one document, changes its copy
and saves it through checked writes. Placing also moves stock and other orders,
and turns a pledge into a booking. Delivery, disputes and refunds share
`order.hold`, `order.status` and `order.paymentStatus`; a campaign that closes calls
orders off as a seller does. Reads are not innocent: they settle what is due,
of an order, a dispute, a campaign and a sale.

## 2. Modules and the code

| Module | Models | State |
|---|---|---|
| `AtomicFields` | what a checked write promises: a compare-and-swap of the fields a request changed | the stored document, per request what it started from and its phase |
| `CheckedStore` | `concurrency.ts`, `writeChecked` | every version with its writer, the caches, per request its copy, its etag, its base and its attempts |
| `HeldPayment` | what buyer protection promises about held money | state, amount, window, the buyer's word |
| `Purchase` | one order, from checkout to the last refund | its status, ticks, ledger, claim, credits, hold, reversal |
| `Checkout` | placing orders as interleaved requests over several documents | orders, kept credits, the shelf, the price, per request its step and memory |
| `Dispute` | one dispute document: rounds, decisions, settlement, result, records | the document, who is a manager, windows that closed, per request its step and copy |
| `DisputeReply` | `Dispute` with the one route that saves unchecked | |
| `HeldDispute` | held money beside the disputes about it and the ordinary ways out | the order, its disputes, the two trade counters, per request its step and copies |
| `PreOrder` | a campaign, its pledges and bookings, reconciled by everybody | campaign, pledge rows, orders, time, per request its step and copies |
| `PowerSale` | a sale run by passes, stopped and asked about | the sale, posts, listings, notices, time, per request its step and copy |
| `PurchaseExpected`, `CheckoutExpected`, `HeldDisputeExpected`, `PreOrderExpected`, `PowerSaleExpected` | what comments and tests say and the code does not do | none of their own |
| `CheckedStoreProofs`, `PurchaseProofs`, `CheckoutProofs`, `DisputeProofs`, `HeldDisputeProofs`, `PreOrderProofs`, `PowerSaleProofs` | theorems about the seven | |
| `Sums` | lemmas about the sums of the library, for the proofs | |
| `MC...` | instances for TLC, of the `Expected` module where there is one | |

Definitions with a comment `\* slip:` are plausible bugs of the definition they
precede. Nothing uses them: put in its place, each breaks a property, which is
how the properties were tried out.

**CheckedStore.** `read` is a point read, `write` the moment a handler calls
`updateOrder` and the like (its copy may have become any document), `replace`
and `replaceLost` the conditional write that succeeds or meets 412 or 404,
`merge` and `refuse` what follows a lost race. Etags are version numbers. The
cache is shared with all other documents of an instance, so `evict` may drop any
entry at any time; `restart` loses an instance with its requests, `remove` the
document. `StampFields` are the fields `mergeChanges` never counts as a
conflict (`updatedAt`). A base is remembered per etag, so the loop, and not an
invariant of a single write, is what has to be right: `KeepsPromise` says that
CheckedStore implements `AtomicFields`, with `current` for the stored document
and `versions[tag[r]].doc` for what a request started from.

**Purchase.** A handler is one step, from its reads to its last save. This is what
CheckedStore shows: every handler of an order appends to its `stageHistory`, so two
that cross touch one field and the later is refused, its caller told to look
again. Two handlers save the order twice. `placeOrder` saves it as placed before it
takes the unit, spends credit and saves the rest (`placement.ts:167` to `:219`);
paying for an accepted booking saves it as confirmed and held before it spends
credit and records the payment (`order-routes.ts:294` to `:307`). The second save adds
to the history too, for money is due or credit was spent (`DueFits`), so nobody comes
between the two and both succeed; but the request may die after the first, be
refused at another order's credit, or lose its second save to somebody. That is
`placeOrder` and `payCut`: a request that got no further. After `payCut` the order is
confirmed and, if it was to be protected, held for its old amount, with nothing
recorded as paid; it can be shipped, and then paid again or claimed, called off,
argued over, released. `cut` is history: the hold is of such a payment; while it is for
more than was paid it is `neverTaken`. The list of
payments is three sums (`paid`, `credited`, `refunded`), one per way money is
written down; each order of the same payments has the same sums and no handler
looks further. A claim that was decided keeps no amounts, since they are in the sums.
`submitReversal` takes whatever number is typed, one below zero or a fraction that
rounds to none as well. `hold.dispute` says that the hold has a dispute's number,
which the end of the dispute leaves there. A deadline is a flag, `hold.clock`: a window that is running may
be over whenever the order is next read (`settleDue`). A choice of `undeliver`
and `backOnHold` is nondeterministic where the code looks at the lot or the
stage, which this module does not have. Other documents are not here: credit
that comes from or goes to other orders is any amount the code lets through.
`Init` is a checkout, or one of the old bookings `actionsFor` still allows for
(`onlyKeptCredit`), which had kept credit on them before being accepted.

**HeldPayment.** The promise `Purchase` implements (`HoldIsAsPromised`): money
is taken once, grows only while held, is frozen while disputed, and leaves once;
from "held" it leaves only on the buyer's word or on a window that was running
before the step.

**Checkout.** Here the handlers are not atomic, since they write several
documents one after another. A request is a handler run once (`job`), and each
await on the store is a step (`at`). A save is `AtomicFields`' step (`save`):
the fields the request changed, if nobody else changed them, and from then on
the request carries on from what was stored. An order's `log` stands for
`stageHistory`: two saves that both append conflict. Any request may die between
two steps (`die`). `found`, `taken` and `returned` are history, for the
properties. The order of the steps is the code's: `look` (the listing as it is
now), `claim` (`placed` is saved first), `takeStock` or `takeNothing` (which takes
the claim back), `listSources` and `spend` (`adjustHeldCredit`), `recordPlaced`,
`charge`. A booking is claimed and noted, accepted by the seller, and paid later:
`commitBooking` saves it before credit is spent. `rejectOrder` gives credit back,
saves and restocks; `applyCredit` moves credit by hand; `discardCheckout` reads
and deletes; `assignListingsToLot` writes a listing back as read.

**Dispute.** A request is `load` (or one turn of the hourly job's loop), then one
route. `load` takes a copy and finds out whether a result or a move of the round
is due; `bringFinal` and `moveRound` do that by a commit, and the loser of one
carries on with what the winner saved (`takesTheirs`). `commit` is `commitDispute`:
the version must not have moved. Whoever makes a result final then counts it,
one profile at a time (`bump`), and may be lost before or between (`leave`). The
three pure rules of `shared/disputes.ts` that decide it (`standingDecision`,
`escalationOpen`, `finalDue`) are translated as they stand. Times are `lapsed`, the
windows that have closed. A fee of an escalation is a step without an amount.
An offer is its number; whoever accepts an offer that is not the latest is
refused and takes no step. The instance is without "late", a manager two days
behind, whose handler is the one of a manager who is gone. `DisputeReply` adds
the reply, an upsert of what was read; it is apart because it breaks
`FinalOnce` (section 6).

**HeldDispute.** The same documents with the money beside them. A dispute here
is resolved in one step, with any split; how it comes to one is `Dispute`. What
is interleaved is everything `dispute-routes.ts` and `delivery.ts` write for it:
`list`, `create` and `freeze` of open; `load`, which gives out the release duty and
reads the order; `settle`; `withdraw` and `unfreeze`; `release`, which counts buyer and
seller (`countCompleted`), claims on the dispute (`claim`) and saves the order
(`payOut`); `receive` and `letGo`, the ways out without a dispute; `reply`. Saves of
the order are those of `AtomicFields` with `stageHistory` (`log`) in every one.

**PreOrder.** A reconcile is `listRows`, one `letGo` per overdue row, one `admitNext`
per place offered, `outcome` (all of `reconcilePreOrder` that is computed: fills,
at the cutoff, after a lapse, an unanswered pause), one `callOffOrder` per booking of
a closed campaign, and `save`, which starts again when the campaign is not the
one that was read. `pledge`, `join`, `place` to `reread`, `decide`, `waitlistDecided` and
`edit` are the routes, each ending in the reconcile the code runs there. The
campaign is one field of its listing, compared as a whole as `mergeChanges`
does, so the counts cached in it matter: they are what tells a reconcile that a
booking was counted since it read. Meanwhile parcels leave (`ship`), and a dispatch is
undone (`unship`, `fulfilment-routes.ts:1423` to `:1455`): within three minutes its line is
taken off the history again (`undo.ts:46`), so that a copy from before is as good as
new, and later another line says so. A call-off is refused when the order differs
from the copy in anything that is here, its status or its history.

**PowerSale.** What a pass does next is computed from its copy, in the code's
order: open, drop each item that is due (a listing, a post, notices for those who
asked), announce and lift each whose window ends, close, save. A public post that
fails is recorded all the same (`announceLost`; "a lost announcement is the lesser
loss", `power-sale.ts:391`). Fixed
identifiers are `once`: what is there stays as it is. `Init` is a sale just
scheduled, or one opened on time with everybody's reminders set. A sale here
has a closing message, and posts publicly when windows end.

## 3. Runs

| Run | Question | Instance |
|---|---|---|
| `store` | is every save an atomic compare-and-swap, with evictions, restarts and removal? | 2 requests on one instance, 2 saves each, 2 fields |
| `store_live` | does every save end, across instances, with a stamped field? | 2 requests on 2 instances, 1 save each, 3 fields |
| `purchase` | do ledger, total, claim, reversal and hold agree after any order of handlers, payments cut short among them? | both ways to pay |
| `purchase_live` | does held money on a delivered order get out? | protected only |
| `checkout_stock` | units: taken once, given back once, counted | 3 requests, 2 checkouts, last unit, two prices |
| `checkout_credit` | credit: never twice, never from nowhere | 3 requests, 2 checkouts, credit on two orders |
| `dispute` | is a result final once, the right one, counted, and does a decision end? | 2 requests over and over, 3 rounds, 4 managers of whom one is a party |
| `held_dispute` | does held money leave once, as agreed, and counted? | 4 requests, 2 disputes, splits of 2 coins |
| `preorder` | is what a campaign over means kept, by readers, the clock, the two sides and the parcels? | 2 buyers, threshold 2, 3 pledges, 3 ticks, one lost request |
| `preorder_live` | is what is due settled? | the same with one pair of rules, one pledge row and no lost request |
| `power_sale` | is what is recorded done, and every item everybody's in the end? | 2 items, the clock and one request, 5 ticks, one lost request or announcement |
| `expected_final_once` | section 6 | `dispute` with replies |

What each property says is above its definition. The ones worth a second look:

* `KeepsPromise` and `RefusedOnlyByOthers` (CheckedStore): the loop is one
  compare-and-swap of the fields a request changed; a handler that saves the same
  object twice is never refused by its own first save.
* `RefundLedger`, `ReversalHasMoney`, `NeverPaidOver` (Purchase): relations between
  lists that different handlers write. `ReversalHasMoney` is about an order called off
  once. After a payment cut short an order can be shipped, called off, have its money
  back, be paid once more and be called off again (`calledOffTwice`); the handlers
  then look at the first of the two lines only.
* `HoldIsAsPromised`: every step of the hold is one of `HeldPayment`'s, unless the hold is
  of money that was never taken. That one is promised nothing: paying again
  replaces it, and an accepted claim ends it.
* `DeliveredHeldHasClock` and `HeldDeliveredEnds`: nothing but a running window
  gets money out of a delivered order whose buyer is silent, so every way into
  "delivered" must leave it running.
* `CartHoldsNoStock`, `PlacedHoldsUnit` (Checkout): the claim comes before the unit,
  and is taken back when there is none.
* `NoCreditFromNowhere`: an order may have less credit than was spent for it (a
  payment died), never more, unless a rejection of it has begun.
* `BookingSpentByOne`: of any payments that found a booking placed, one reaches
  the kept credit.
* `ResultIsBestOfRounds` (Dispute) says what a result should be, by counting
  rounds, and not how `standingDecision` finds it.
* `CountsAreFinal`: records never run ahead of the results made final; they may
  stay behind, when a request is lost between the two.
* `PaidAsAgreed` (HeldDispute): `agreed` and `claimed` are history, the splits a
  dispute was ever resolved and claimed with, so a payment by a stale copy of the
  dispute shows.
* `CloseCallsOffWhatItRead` (PreOrder): between a reconcile's list of bookings and
  its save anybody may write, and a call-off of its own may be refused; the save
  that closes is made only when whoever was read as booked and not shipped has been
  called off. Of a booking that was read as shipped, or not on the list, it says
  nothing: the dispatch may be undone by then (`NotShippedIsCalledOff`), and the booking
  may be new (`NoBookingLeftBehind`, both in section 6).
* `DoneMeansPublic` (PowerSale): a finished sale has posted and handed over every item.
  That the public post is there it cannot say, since one that fails counts as made;
  it says that it was tried.
* `DueIsSettled` and `WindowCloses`: reconciles and passes lose their writes, or
  die, and what was due is done by a later one.

**Bounds, and why they are enough.**

* `Attempts = 2` for the code's 5: a request loses a first race, merges, and
  loses a second; a third attempt is in no other state than the second.
  `MaxSaves = 2` is what `RefusedOnlyByOthers` needs. Two requests: a merge has two
  sides, and a third writer is for either of them one more change of the
  document. Two values per field: changed or not is all that `mergeChanges`
  tells apart, and the two of a field can differ or agree.
* `Price = 2`, `Advance = 1`: the smallest total with an advance and a rest, an
  instalment short of the rest and one over it. `TypedMax = 2` and `KeptMax = 2`
  reach the whole total and no more; of the amounts below zero that may be typed for
  a reversal -1 stands for all, and 0 is a fraction that rounds to it. `MaxCredits = 1` is one credit besides the
  cancellation's, so two on the refunds list, which is where one and all differ.
  `purchase_live` has no credits: none of them reaches the hold.
* Two checkouts and one unit are a race for the last one. Three requests are two
  that race and one that gets in between, or one that dies and two that come
  after. Two sources, of which one alone covers the item and the other does not,
  so spending goes over one source and stops within another; two prices let one
  edit be met. `checkout_credit` leaves the price alone and starts with a shelf
  that suffices.
* Two managers decide differently and a third breaks the tie; the fourth, who is
  a party, must not be picked. One dismissal moves a round; one offer is
  accepted, or is there when the round is decided. Three decisions are all that
  three rounds have. Two requests at a time, each of which begins again when it
  ends: every commit has one winner and one loser, and the loser goes on.
* Four requests over an order on hold: two that open, or settle, or release at
  once, one that replies with what it read before, and one that lets the money go
  without a dispute. Two coins have the three splits the code tells apart:
  nothing, a part and everything back.
* Threshold 2 with one buyer of one unit and one of two: it is met by two, or
  by one alone, or exceeded. Three rows allow for one that is left and one that
  is pledged again. Three ticks hold a last call, a cutoff, a pause and a grace
  of one each. `MaxLog = 2` is the two lines a placement writes. An undone dispatch of a
  booking that has both takes its own line away; one that adds a line is met between
  the two writes, which is where it gets in a placement's way. One user's request runs at a time among reads that never end; a
  count that two users' requests change back to what it was is therefore out of
  the instance's reach.
* Two items one tick apart with windows of one tick: one window opens as the
  other ends. `MaxFailures = 1`: one request dies, or one announcement is lost. Five ticks outlast the sale, so a pass may come at any time of it.
* The distinct states TLC finds: `store` 849,880, `store_live` 541,952, `purchase`
  1,720,864, `purchase_live` 11,913, `checkout_stock` 559,176, `checkout_credit` 1,035,110,
  `dispute` 396,712, `held_dispute` 41,138, `preorder` 1,995,983, `preorder_live` 216,035,
  `power_sale` 531,745.
* `Handlers` says which handlers the requests of a run may be. `checkout_stock` is
  without `assign`, which breaks `ShelfCounts` as the code stands (section 6), and
  `checkout_credit` without `discard`, which touches no credit.
* Symmetry is over requests, checkouts, disputes and values that nothing tells apart, and
  only in runs without liveness properties.
* `CHECK_DEADLOCK FALSE` where the instance really stops: the requests of
  CheckedStore, Checkout and HeldDispute end and no more are sent, a closed
  dispute takes no more requests, and a sale that is over begins no more passes.
  An order of `Purchase` always has a next step in the instance and a campaign can
  always be read, so deadlock is checked there.

## 4. Fairness

`FairSpec` of CheckedStore has weak fairness of `saveStep(r)` for each request:
an await of a running handler comes back with an answer or an error. Nothing
makes a handler start, an entry be evicted, or an instance restart; a request on
an instance that restarts ends as "lost".

`FairSpec` of Purchase has weak fairness of `settleDue`: every order is read again
by its buyer, its seller or a list either of them opens, and each such read calls
it (`api/src/delivery.ts`). Nothing makes a buyer or a seller do anything: they
may argue, withdraw and argue again for ever, which is why the property is that
an order does not *stay* delivered with its money held, and not that the money
reaches the seller.

`FairSpec` of Dispute has weak fairness of `load` and of a request's next step
(which may be `leave`, its loss), and of `lapse`: the hourly job reads every open
dispute (`disputeClock`), in a slot of requests that is free again and again, and
time passes. No party and no manager has to do anything.

`FairSpec` of PreOrder has weak fairness of each request's next step and of `clock`,
which is `closeDuePreOrders`, run by a timer (`api/src/clocks.ts`) and by reads; time
itself need not go on, since the property starts where something is due. And a
dispatch is not ticked and undone for ever (`<>[][~unship]`): each time refuses a
call-off, and with it the close, and a seller who never stopped would keep the
campaign open. Deaths are bounded, and none in this run: a read that dies is
followed by another.

`FairSpec` of PowerSale has weak fairness of a pass beginning (`tickPowerSales`,
by a timer of `api/src/clocks.ts`), of each step, and of `tick`: windows are about
time. One request may die, or one announcement be lost.

Checkout and HeldDispute have none. Their requests may die at any step, and that
a request which does not die comes to an end is plain from its steps.

## 5. Proofs

Each proof file holds for every value of the constants its module assumes
(`ASSUME`), and TLC evaluates those assumptions in the runs. Every leaf is checked
by the SMT solver, Zenon or LS4.

**`CheckedStoreProofs`**, for any number of requests, instances, fields, values,
attempts and saves: `TypeCorrect`, `SnapshotsStayFaithful`, `OffersAreOverlays`, and
`StoreKeepsPromise`: the loop implements `AtomicFields`; and `RefusalsAreOthers`,
since a request adopts what it wrote and loses a race only to a later version
(`BeatenInv`). `IInv` adds to types and
faithful snapshots the invariant of the loop (`LoopInv`): a request that is to
replace makes its first offer under the etag it read, and every later one from
a known base, without a conflict, onto the version the write is conditional on.

**`PurchaseProofs`**, for every price, advance, set of methods and bound:
`NeverTakesMoreThanItCosts`, `ClaimsStayOpen`, `DeliveryRunsTheWindow`,
`HeldMoneyWasPaid`, `HoldKeepsPromise` (an order's hold implements `HeldPayment`),
`FieldsStayTyped`, `LedgersAgree`, `ReversalIsListed`. What they need beside themselves: `ClaimFits`, an unanswered claim
is for something and still fits the balance (it was cut to size when it was made,
and nothing may be paid meanwhile); `HoldIsProtected`, what is held is of a protected
order that was paid towards, or was never taken, so that no direct claim meets money
that was; `UnpaidIsUnpaid`, `EmptyHold` and `NoHoldNoWindow`, so that an order that can be
paid has no money on it, and a hold on it, if any, is of a payment cut short
(`PayableHoldsNothing`): a new hold starts with its window closed. A payment cut short
keeps all of it (`PayCutInv`), since nobody else's amounts move. Handlers that leave money
alone are proved at once (`Frame`, `QuietInv`), those that move the hold only by what they
do to it (`HoldMoves`), the rest one by one. Of `HoldKeepsPromise` the hard case is a second
payment: the hold it replaces was never taken (`PayMaps`). The two refund
ledgers agree because every handler that adds to one moves one line of the other
by as much, or adds a line (`SumChange`, `SumAdd`). Amounts typed below zero
are why what went back is an integer and no more. `ReversalHasMoney` is not inductive:
what makes it so (`RInv`) is that, while the refunds list has one line of a
cancellation (`Once`, and then the code finds that one, `TheLine`), a line which is open,
set aside or on its way has something left (`MovingIsLeft`), and the reversal's status
and that line's change together (`OwedIsListed`, `ReversedIsDone`). A second line, once
there, stays, so nothing is to be shown of an order called off twice.

**`CheckoutProofs`**, for any number of checkouts, requests, sources, units and
prices: `TypeCorrect`, `UnitsMoveOnce`, `CartsHoldNothing`, `BookingsSpentOnce`,
`PlacedHaveUnits`, `ShelfAddsUp`, `KeptCreditAddsUp`, `CreditWasSpent`. The
argument is that a save which changes `placed` or `status` is refused when
anybody else has changed it: `CopiesAgree` (a request's copy says of them what it
last saw, and no order becomes pending again), `ClaimsAreAlone` (between a claim
and its unit the order is placed, has no unit yet, and nobody else is taking
one), `ReturnsAreAlone` (the same for a rejection and its restock),
`PaymentsOfBookings` (a payment that found its order placed does not place it
again, and confirms a pending one before it spends credit). Every step is then a load, a walk that moves
none of these, a save, or one of the two that move a unit (`LoadKeeps`,
`WalkKeeps`, `SaveKeeps`), so the invariant is proved for four kinds of step.
`PlacedHaveUnits` adds that a placed order has its unit or that whoever claimed it is
still at it, or died there (`UnitOrClaim`); they have not touched their copy since, so
taking the claim back is refused only when the order is gone.
`ShelfAddsUp` assumes what its run does, that no lot is put together (`"assign" \notin
Handlers`): that handler breaks it (section 6). The two about credit have one
invariant (`CreditInv`). A kept credit only moves by a save that compares what it
was read as (`SeenBefore`), so it is spent within its amount and its applications
stay what it says was applied; only a request that rejects an order takes
an application back (`OnlyRejectionsGiveBack`); and what a request's copy says credit
paid was spent (`CopiesWithinSpent`), so its save never makes an order claim more.
Seen from credit every step writes none, or one kept credit's application to one
order (`ReadsCredit`, `MovesCredit`).

**`DisputeProofs`**, for any two parties, any managers and ranks, any number of
requests, decisions and offers: `TypeCorrect`, `FinalIsOnce`, `ManagersStayFresh`,
`ResultsAreBest`, `CountsStayFinal`. A
request acts on a copy that was open when it was read; if its commit is accepted
nobody has committed since, so the dispute is open too and nothing is final yet
(`CopyOpen`, `FinalsTold`). Rounds are given to somebody who has decided none, and
every round but the last is decided, so no two are with one manager (`Fresh`); that
is more than `ManagersAreFresh` says, and what makes it inductive. Each route is an
edit of a copy (`Finalized`, `Rewritten`, `Said`, `Spoken`) and a commit (`CommitKeeps`,
`FinalKeeps`, `PlainKeeps`). A result is best because there are three rounds at most, of
which two that agree outnumber the rest and the last is the tie-break
(`StandingIsBest`, `BestInv`). Records need `CountInv`: a commit that makes a result
final sends one request to count, nobody else is counting, and the records together
with what it has left are those of one result.

**`HeldDisputeProofs`**, for any sum, splits, disputes and requests: `TypeCorrect`,
`PaidOutAsAgreed`, `DoneIsCounted`, `MoneyLeavesOnce`. What they need is what a request
knows (`Knows`): its copy of the order is the order's in all that matters, or is old
and will be refused (`OrderCopy`); a step towards paying out was taken from a hold
that was on (`HoldCopy`); the split of a dispute's copy is one it was resolved, and,
if it says so, claimed with, although a reply may have brought the copy back
(`DocCopy`); and what has been counted so far (`CountCopy`). A step moves the memory
of one request and adds to the order's history or leaves it, so the others' knowledge
holds (`OthersKeep`).

**`PreOrderProofs`**, for any buyers, units, requests, terms and bounds:
`CallsOffOnce`, `StaysOver`, `GraceIsGiven`, `ClosesOverNobodyItRead`,
`CampaignsStayTyped`; the last for finitely many buyers, whose units it adds up.
Copies are old, never wrong: the campaign
has kept what any copy of it says of being over or ahead (`Sticks`); an order whose
history a copy has is as the copy says (`Agrees`), and the one being placed is not
called off (`Own`); offers were made after the campaign went ahead, for a grace or more
(`Granted`, `Good`). Each stage of `outcome` keeps these (`Outcome`); the rest is one
lemma per step. An order that is called off in a copy is so in the store
for good (`Agrees`; a shipped one is not, for its dispatch may be undone), and a
reconcile gets to its save with every booking of its copy called off or shipped, or
with a campaign it does not close: that is `ClosesOverNobodyItRead`. For the types
(`TInv`), a placement knows what line of its order's history it writes (`Knows`) and an
undone dispatch adds lines up to `MaxLog` (`Numbered`), which bounds the history, and a
campaign's counts are numbers because the sums of units are (`SumNat`). The horizon is two ticks at least,
for a campaign starts with its cutoff at the second.

**`PowerSaleProofs`**, for any items, schedule, members and passes: `LedgerStaysTrue`,
`DoneIsPublic`, `SalesStayTyped`. What is on the board stays there (`Grows`), so every copy of the sale,
however old, is true of it (`Truth`) and may be saved over another; a copy that says
"done" has every item done. Once the seller stops the sale nothing is claimed. The
listing a pass hands over first is the one due first, which needs that a set of
times has a least member (`MinIsLeast`, from well-foundedness), so that it is one
whose window has run and which was announced, or whose announcement was tried. `SalesStayTyped` holds after a stop
too. Its `TypeOK` is inductive once the copies' times are known to be ticks that have
been (`InTime`): a pass writes what falls due within the lookahead of its copy's time
or later by the time it shows (`ShowAtTyped`, `AheadTyped`), so every time written is in
`Times`, and a listing at the members' price is written once with its whole window.
The bounds have to contain the sale's opening (`Opening <= Horizon`).

**`Sums`** is what the proofs about amounts rest on. The library defines a sum by
recursion over the subsets of a set, which the provers take for a CHOOSE of a
function with that equation: so the function is shown to exist (`SumExists`, on
subsets of at most n elements, for every n) and its equation follows (`SumStep`).
That an element may be taken first, whichever CHOOSE takes (`SumRemove`), and then
what a change of one amount does (`SumChange`), what one more adds (`SumAdd`) and what
sums of ones count (`SumCounts`) are by induction over subsets. The library's
induction theorems take a predicate, which these provers cannot give them;
`SubsetInduct` takes a set, and is proved by a smallest subset left out of it
(`LeastOf`).

**Proved and without a run.** `OffersAreOverlays`, `ClaimsStayOpen` and
`HeldMoneyWasPaid` state invariants (`OfferIsOverlay`, `ClaimedIsUndecided`,
`HoldBacked`) that are lemmas of the others' proofs and follow from the code's shape
more directly than those. The last two have the same exception as `HoldIsAsPromised`: a
claim may be open beside a hold that was never taken, and only a payment that got no
further than its first save leaves more held than was paid.

**Model-checked only.** Liveness (`SavesEnd`, `HeldDeliveredEnds`,
`DecisionIsAnswered`, `DueIsSettled`, `WindowCloses`) is beyond the proof system, as are
`FairSpec` and ENABLED. Every invariant and every action property of the passing runs
is a theorem, `ShelfCounts` under the assumption above.

## 6. Known disagreements

Statements of the repository's comments and tests that the modelled handlers do
not keep. One is a run, which finds the shortest counterexample:

| Run | Said | Done |
|---|---|---|
| `expected_final_once` | "a result is only ever made final once, however many readers arrive at the same moment" (`community.ts:506`) | a reply saves the dispute as it was read, unchecked (`dispute-routes.ts:665`, `cosmos-repository.ts:890`), so an open copy comes back and is made final again |

The others are definitions of the `Expected` modules. TLC finds each violated when
it is named in the cfg given with its table in place of that cfg's properties
(INVARIANT, or PROPERTY for an action `[][...]_vars`), but for those whose row says
that they need a larger instance. `PurchaseExpected`, with
`MCPurchase.cfg`:

| Definition | Said | Done |
|---|---|---|
| `RefundsWithinPaid` | a refund is "never more than the buyer actually paid on this order less what has already gone back" (`order-routes.ts:1306`) | `callOffOrder` credits all payments, sent refunds included (`call-off.ts:46`) |
| `CalledOffMoneyIsOwed` | "anything paid becomes a reversal the seller owes" (`call-off.ts:10`) | a claim accepted after the cancellation is money received and owed to nobody (`order-routes.ts:935`) |
| `StoppedNeverDelivered` | a stopped order is never "turned into `delivered`" (`orders.ts:318`) | a dispute settled after a cancellation does (`dispute-routes.ts:205`) |
| `PayingKeepsItsPlace` | "paying does not rewind where it is" (`scripts/smoke-api.mjs:8345`) | `pay` sets "confirmed" on a shipped order; only `claimPayment` does not (`order-routes.ts:239`) |
| `PayButtonStays` | the status is kept "so the Pay button does not vanish" (`orders.ts:349`) | an undone dispatch, or delivery, makes an unpaid order "confirmed" (`fulfilment-routes.ts:1454`) |
| `BookingsCanBeAnswered` | a booking is "waiting on their yes" (`order-routes.ts:2611`) | once a claim on it was denied a booking is no longer fresh, and has no accept or reject (`orders.ts:166`) |
| `ClaimsCanBeAnswered` | a claim is the seller's to answer (`orders.ts:135`) | the reversal of an order cancelled over an open claim ends in "refunded", and the claim has no button (`order-routes.ts:1428`) |
| `DeniedIsNotPaid` | "Denying puts the order back to unpaid" (`order-routes.ts:895`) | an order closed while it was claimed owes nothing, so denying makes it "paid" (`order-routes.ts:124`) |
| `NothingMovesOverAClaim` | a claim "is answered before anything ships" (`fulfilment-routes.ts:1344`) | a step of the item delivers over it (`tracking-routes.ts:1033`) |
| `NothingBackIsARelease` | nothing back "is a release like any other" (`dispute-routes.ts:196`) | when credit paid it all nothing is held, and nothing back is a refund (`dispute-routes.ts:201`) |
| `PaidInFullIsHeld` | paid in full "is what is held" (`orders.ts:216`) | an instalment paid while a dispute is open is not added to what is held (`order-routes.ts:1119`) |
| `HeldIsPaid` | "Paid with Buyer Protection. Figmark is holding it" (`order-routes.ts:282`) | a booking's first save says so; one whose payment got no further is held with nothing paid, and can be shipped and its hold released (`order-routes.ts:294`) |
| `RefundedIsAllBack` | a credit that is "refunded" has "nothing left" (`models.ts:2213`) | a reversal of a smaller amount, or one below zero, is a refund of all the same (`order-routes.ts:2438`) |

`CheckoutExpected`, with `MCCheckoutStock.cfg`:

| Definition | Said | Done |
|---|---|---|
| `ReplayMeansPaid` | a retry of "a payment that already went through gets the same answer" (`order-routes.ts:202`) | so does one of a payment that died between its two saves (`order-routes.ts:245`) |
| `OneAccount` | moved credit is "written on both orders" (`placement.ts:349`) | the sources are saved first, and the order's save may be refused (`placement.ts:408`) |
| `LastOneTakenOnce` | "two buyers cannot both take the last one" (`repository.ts:242`) | a rejection crossing a payment restocks a unit not taken yet (`order-routes.ts:1982`): add `o3` to `Checkouts`, `r4` to `Requests`; also with `Handlers` "pay" and "assign", since `assignListingsToLot` writes the count it read (`cosmos-repository.ts:2161`) |
| `DeletedHeldNoStock` | deleted is "only a cart item, which holds no stock" (`repository.ts:246`) | it may be placed between read and delete (`order-routes.ts:2188`) |
| `CartCanBePlaced` | "Check the new total, then try again" (`placement.ts:162`) | the booking's mark is saved with the new price, and the cart can no longer be paid (`placement.ts:109`) |
| `PlacedKeepsPrice` | "an order is at the price it was placed at" (`placement.ts:196`) | another request's price update reaches it after it is placed (`placement.ts:109`) |

`HeldDisputeExpected`, with `MCHeldDispute.cfg`:

| Definition | Said | Done |
|---|---|---|
| `FrozenWhileOpen` | "no auto-release can run while this is open" (`dispute-routes.ts:435`) | the dispute is created before the order is frozen, and that save may be lost; or one of two disputes opened at once is withdrawn and unfreezes it |
| `OneOpenDispute` | nobody "opens a second one on an order while one is still being worked" (`dispute-routes.ts:291`) | two that list before either creates both create one |
| `CountedOnce` | "Counts a finished trade toward both people's record, exactly once" (`delivery.ts:151`) | the counters are saved before the mark on the order, and that save may be refused (`delivery.ts:157`) |
| `ClaimIsPaid` | a dispute's release says the money moved (`dispute-routes.ts:219`) | the order's save after it may be lost, and the order stays disputed: the dispute cannot be released again (`dispute-routes.ts:229`) |
| `ClaimedOnce` | "with nothing paid twice" (`dispute-routes.ts:226`) | a reply brings back the dispute as it was before it was settled, and it is settled and claimed again; one dispute and five requests show it. The order itself is paid out once (`HoldLeavesOnce`) |

`PreOrderExpected`, with `MCPreOrder.cfg`:

| Definition | Said | Done |
|---|---|---|
| `ClosedTakesNobody` | "Closed and paused campaigns take nobody" (`placement.ts:72`) | a placement past its guard takes its units after the close (`placement.ts:167`) |
| `FilledByEnough` | "the threshold is met by the two of them together" (`preorder.ts:21`) | whose place is being booked is a pledge and an order for a moment, and is counted as both (`preorder.ts:92`) |
| `CalledOffMeansOver` | bookings are called off because "it is over without going ahead" (`preorder.ts:203`) | they are before the campaign is saved, and that save is refused when the seller extended it, or is lost |
| `NoBookingLeftBehind` | of a closed campaign "every booking that has not shipped is called off" (`preorder.ts:203`) | the save that closes compares the campaign's counts (`concurrency.ts:29`); a reconcile that read the rows before a booking and the campaign after it writes the count back to what the closer read, and the closer, who had not seen the booking, is let through (`preorder.ts:499`). It needs `AtOnce = 3` and three buyers, two placements that overlap two reconciles; with those the search is too long for TLC, and the counterexample was found by following these steps |
| `NotShippedIsCalledOff` | "every booking that has not shipped is called off" (`preorder.ts:203`) | one that was read as shipped is passed over, and its dispatch may be undone before the close is saved (`fulfilment-routes.ts:1452`): a booking in a closed campaign |
| `LeftStaysLeft` | "A bare second tap is leaving" (`preorder-routes.ts:127`) | a reconcile that read the row before writes it back (`preorder.ts:340`) |

`PowerSaleExpected`, with `MCPowerSale.cfg`; the cause of most is that `savePowerSale`
is an upsert of the whole sale (`cosmos-repository.ts:1374`):

| Definition | Said | Done |
|---|---|---|
| `StoppedStaysStopped` | calling a sale off "must not still drop the item written for 9:03" (`power-sale.ts:520`) | a pass that read it before saves it running again |
| `StopStrandsNothing` | "Stopping a sale must not strand what it dropped" (`power-sale.ts:562`) | an item a pass writes after stop has read the sale is not handed over |
| `MembersFirst` | "the window rewards being here" (`power-sale.ts:361`) | of two passes behind schedule, the slower keeps an earlier window for an item the other wrote, and hands it over early |
| `AskingIsKept` | who asked is told (`showcase-routes.ts:208`) | a pass saves the reminders it read |

Known from the modules, without a definition: A booking whose payment was cut
short is confirmed and unpaid, and once it is shipped its buyer can pay again. If
they pay directly the hold is gone without a release; if they say they sent the money
there is a claim beside a hold of the old amount, and accepting it ends the hold.
Such an order can also be called off, paid and called off again, and then the
reversal is of the first line found (`order-routes.ts:2434`). A called-off order whose
window runs out counts toward both records (`delivery.ts:220`, against "counts toward
their record", `orders.ts:318`). With four requests more kept
credit can be spent for an order than it costs, since a payment that is refused
has spent already and the next one spends again (`placement.ts:371`, against "never
more than the order costs" at :348). With six, a claim that was taken back lets a
request from before it claim again, and two payments that found the order
unplaced both reach the credit; `BookingSpentByOne` is therefore about payments
that found it placed. Of a campaign that is short after places lapsed the seller
is asked by the reconcile that let them go, and by no later one: if that one is
lost nobody is asked (`preorder.ts:443`). Two taps of one buyer at once make two
pledge rows (`preorder-routes.ts:105`). A notice of a campaign may go out twice,
since its mark is saved after it (`preorder.ts:300`).

## 7. What is not modelled

*Left out of modelled parts.*

* Purchase: `flagDispute` and the bank-details check, which move none of its state;
  `repriceBasket`, which moves the total; the lot that mirrors an order's ticks; the
  two users' counters and the marks of a release on order and dispute, which are
  HeldDispute's; what a payment for a booking leaves on other orders when it is cut
  short, which is Checkout's.
* Checkout: credit won as a prize, offers and loyalty repricing, pre-order pledges
  (PreOrder has the placement as a campaign sees it), the protection fee, the
  seller's own edits of stock, affiliates, advance plans, `claimPayment`'s way to
  `placeOrder` (it is `pay`'s).
* The store: queries, counters, user parts, and the move of an order into a lot's
  partition.
* Dispute: sanctions of managers, disputes whose subject is not an order, notices,
  what a fee amounts to. HeldDispute: disputes over a missing reversal, and a
  release duty handed from one manager to another.
* PreOrder: notices, of which the last call is a mark; `nearlyNotifiedAt`, which a
  campaign gets from a threshold of ten; `expiresAt`, the stock of the listing,
  referrals. A list of pledges and one of orders, read one after the other, are one
  step; so are finding one's pledge and writing it.
* PowerSale: drawing up and editing a sale, the notices of its opening and the
  heads-up, other writers of its listings (a listing is compared by what it says
  instead of by its etag), sales without a closing message or without public posts.

*Left out altogether, for a reason of the code.*

* The lot view merges two documents field by field, by a table of stages; its
  promise needs the lot's own life cycle, which is most of `fulfilment-routes.ts` and
  `tracking-routes.ts`. Of lots and routes the modules have what they do to an order.
* Undo and held notices: what is taken back is a message to a person, and the queue
  and the push service that carry it are outside.
* Fees are arithmetic of a released order and dates. Offers, loyalty and basket
  prices are arithmetic of one document.
* Rate limits bound load, and nothing else relies on them. Append-only logs are
  written and not read back. Which documents mention a photo, and so whether it is
  unused, is spread over all of them. Phones and handles are reserved by the
  creation of a document, which the store decides.
* The cancellation watch computes a flag, whose effect is an input of Purchase
  (`Methods`). Feed, messages and search have no protocol between actors beyond
  single-document writes. Service work is a second life cycle of the same kind as
  an order's, without held money.
* The in-memory repository stands in for Cosmos in local runs; the modules follow
  the Cosmos one. The web app shows what the server decides.

## 8. Plan

Built: CheckedStore and its promise; Purchase and the held payment; Checkout;
Dispute and the held money beside it; PreOrder; PowerSale; proofs about all seven.
What would come next, in this order:

1. Dispute as an implementation of what HeldDispute takes it for: open, resolved
   once with a split, or withdrawn.
2. Lots: their moves and legs, and the orders that ride on them.

To run one by hand, in this directory:

    tlc -config MCPurchase.cfg MCPurchase
    tlapm PurchaseProofs.tla
