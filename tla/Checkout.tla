------------------------------ MODULE Checkout ------------------------------
(***************************************************************************)
(* One buyer's checkouts for one item of a shop, and the documents that    *)
(* placing them moves: the orders, the listing's stock, and the orders     *)
(* whose kept credit is spent (api/src/functions/placement.ts and its      *)
(* callers in order-routes.ts).                                            *)
(*                                                                         *)
(* A request is a handler run once; each await on the store is a step.  A  *)
(* document is saved as AtomicFields promises: the fields this request     *)
(* changed, if nobody else changed them.  Any request may die between two  *)
(* steps, with the instance it runs on or by an error of the store.        *)
(*                                                                         *)
(* Every order is for one unit.  Purchase has what happens to one order    *)
(* before and after; here it is placed, paid in full, booked, accepted,    *)
(* turned down or thrown out of the cart.                                  *)
(***************************************************************************)
EXTENDS Integers, FiniteSets, Functions

CONSTANTS Checkouts,
          Requests,
          Handlers,   \* the handlers these requests run
          Keys,       \* idempotency keys a payment may carry
          NoKey,
          Prices,     \* what the seller may ask for the item
          Stock,      \* units on the shelf at first
          Sources,    \* cancelled orders with kept credit, numbered by age
          Kept,       \* Kept[s]: the credit kept on s
          Failures    \* requests may die

ASSUME CheckoutsAssumption == IsFiniteSet(Checkouts)
ASSUME HandlersAssumption ==
  Handlers \subseteq {"pay", "book", "accept", "reject", "discard", "assign", "apply"}
ASSUME KeysAssumption == NoKey \notin Keys
ASSUME AmountsAssumption == Prices \subseteq Nat \ {0} /\ Stock \in Nat
ASSUME SourcesAssumption ==
  Sources \subseteq Nat /\ IsFiniteSet(Sources) /\ Kept \in [Sources -> Nat]
ASSUME FailuresAssumption == Failures \in BOOLEAN

VARIABLES orders, sources, shelf, price,
          job,       \* job[r]: what request r asks for
          at,        \* at[r]: the step r takes next, or how it ended
          mem,       \* mem[r]: what r has read, and its copy of the order
                     \* (found, a history: it was placed when r read it)
          taken,     \* history: units taken off the shelf for an order
          returned   \* history: units put back for it

vars == <<orders, sources, shelf, price, job, at, mem, taken, returned>>

Order == [live : BOOLEAN, placed : BOOLEAN, booking : BOOLEAN, accepted : BOOLEAN,
          status : {"pending_payment", "confirmed", "rejected"},
          price : Prices, credit : Nat, paid : Nat, key : Keys \cup {NoKey}, log : Nat]

\* One kept credit: appliedMinor and the applications it sums.
Source == [applied : Nat, spends : [Checkouts -> Nat], log : Nat]

Jobs == {j \in [op : Handlers, order : Checkouts, key : Keys \cup {NoKey}] :
           j.op # "pay" => j.key = NoKey}

Ends == {"done", "refused", "lost", "replayed"}
InFlight(r) == at[r] \notin Ends \cup {"idle"}
Working(o) == \E r \in Requests : InFlight(r) /\ job[r].order = o

least(a, b) == IF a < b THEN a ELSE b
minus(a, b) == IF a > b THEN a - b ELSE 0

unpaid(o) == o.paid + o.credit = 0
outstanding(o) == minus(o.price, o.paid + o.credit)
creditLeft(s, c) == minus(Kept[s], c.applied)

\* actionsFor, as far as these orders go.
canPay(o) == (o.booking => o.accepted) /\ unpaid(o) /\ o.status = "pending_payment"
fresh(o) == o.placed /\ o.status = "pending_payment" /\ ~o.accepted

-----------------------------------------------------------------------------
(* Steps of a request: r writes its order, and what it does next.          *)

goes(r, step) == at' = [at EXCEPT ![r] = step]

\* updateOrder(d): the fields r changed, if they still are what r last saw.
save(r, d, step) ==
  LET o == job[r].order
      base == mem[r].base
      touched == {f \in DOMAIN d : d[f] # base[f]}
      stored == [f \in DOMAIN d |-> IF f \in touched THEN d[f] ELSE orders[o][f]]
  IN  IF orders[o].live /\ \A f \in touched : orders[o][f] = base[f]
      THEN /\ orders' = [orders EXCEPT ![o] = stored]
           /\ mem' = [mem EXCEPT ![r].mine = stored, ![r].base = stored]
           /\ goes(r, step)
      ELSE goes(r, "refused") /\ UNCHANGED <<orders, mem>>

saveBlind(r, d, step) ==   \* slip: the write is not checked
  /\ orders' = [orders EXCEPT ![job[r].order] = d]
  /\ mem' = [mem EXCEPT ![r].mine = d, ![r].base = d]
  /\ goes(r, step)

\* updateOrder of a kept credit's order: every writer appends to its history,
\* so a source somebody wrote since r listed it is refused.
unseen(r, s) == sources[s].log # mem[r].seen[s].log
saveSource(s, c) == sources' = [sources EXCEPT ![s] = [c EXCEPT !.log = @ + 1]]

loaded(r, step) ==
  LET o == orders[job[r].order] IN
  /\ mem' = [mem EXCEPT ![r].mine = o, ![r].base = o, ![r].terms = o.price, ![r].found = o.placed]
  /\ goes(r, step)

elsewhere == UNCHANGED <<shelf, price, job, taken, returned>>

-----------------------------------------------------------------------------
\* Each checkout is in the cart, or a booking the seller has said yes to.
Init ==
  /\ price \in Prices
  /\ \E booked \in SUBSET Checkouts :
       /\ Cardinality(booked) <= Stock
       /\ shelf = Stock - Cardinality(booked)
       /\ taken = [o \in Checkouts |-> IF o \in booked THEN 1 ELSE 0]
       /\ orders = [o \in Checkouts |->
                      [live |-> TRUE, placed |-> o \in booked, booking |-> o \in booked,
                       accepted |-> o \in booked, status |-> "pending_payment", price |-> price,
                       credit |-> 0, paid |-> 0, key |-> NoKey, log |-> 0]]
  /\ sources = [s \in Sources |-> [applied |-> 0, spends |-> [o \in Checkouts |-> 0], log |-> 0]]
  /\ job \in [Requests -> Jobs]
  /\ at = [r \in Requests |-> "idle"]
  /\ mem = [r \in Requests |->
              [mine |-> orders[job[r].order], base |-> orders[job[r].order],
               seen |-> sources, todo |-> {}, terms |-> price, shelf |-> 0, found |-> FALSE]]
  /\ returned = [o \in Checkouts |-> 0]

(* pay, book: the order is loaded, and refused, replayed or gone on with.  *)

begins(r, op) == at[r] = "idle" /\ job[r].op = op

pay(r) ==
  LET o == orders[job[r].order] IN
  /\ begins(r, "pay") /\ o.live
  /\ IF job[r].key # NoKey /\ o.key = job[r].key THEN loaded(r, "replayed")
     ELSE IF ~canPay(o) THEN loaded(r, "refused")
     ELSE IF ~o.placed THEN loaded(r, "look")
     ELSE loaded(r, IF o.booking THEN "commit" ELSE "charge")
  /\ elsewhere /\ UNCHANGED <<orders, sources>>

bookOrder(r) ==
  LET o == orders[job[r].order] IN
  /\ begins(r, "book") /\ o.live
  /\ canPay(o) /\ ~o.booking
  /\ mem' = [mem EXCEPT ![r].mine = [o EXCEPT !.booking = TRUE], ![r].base = o]
  /\ goes(r, IF o.placed THEN "note" ELSE "look")
  /\ elsewhere /\ UNCHANGED <<orders, sources>>

(* placeOrder.                                                             *)

\* The listing as it is now: sold out, dearer or cheaper, or as shown.  A new
\* price is saved on the checkout, and the buyer sent back to look at it.
look(r) ==
  LET mine == mem[r].mine IN
  /\ at[r] = "look"
  /\ IF shelf = 0 THEN goes(r, "refused") /\ UNCHANGED <<orders, mem>>
     ELSE IF price # mine.price THEN save(r, [mine EXCEPT !.price = price], "refused")
     ELSE goes(r, "claim") /\ UNCHANGED <<orders, mem>>
  /\ elsewhere /\ UNCHANGED sources

claimBlind(r) ==   \* slip: two requests may both claim one checkout
  /\ at[r] = "claim"
  /\ saveBlind(r, [mem[r].mine EXCEPT !.placed = TRUE], "take")
  /\ elsewhere /\ UNCHANGED sources

claimLater(r) ==   \* slip: marked placed in memory, and saved with the rest at the end
  /\ at[r] = "claim"
  /\ mem' = [mem EXCEPT ![r].mine.placed = TRUE]
  /\ goes(r, "take")
  /\ elsewhere /\ UNCHANGED <<orders, sources>>

\* The order is claimed before anything else moves.
claim(r) ==
  /\ at[r] = "claim"
  /\ save(r, [mem[r].mine EXCEPT !.placed = TRUE], "take")
  /\ elsewhere /\ UNCHANGED sources

takeUnchecked(r) ==   \* slip: the count is not looked at in the write that takes the unit
  /\ at[r] = "take"
  /\ shelf' = shelf - 1
  /\ taken' = [taken EXCEPT ![job[r].order] = @ + 1]
  /\ goes(r, IF mem[r].mine.booking THEN "record" ELSE "list")
  /\ UNCHANGED <<orders, sources, price, job, mem, returned>>

\* takeStock: read and replaced under its etag until that succeeds.
takeStock(r) ==
  /\ at[r] = "take"
  /\ shelf > 0
  /\ shelf' = shelf - 1
  /\ taken' = [taken EXCEPT ![job[r].order] = @ + 1]
  /\ goes(r, IF mem[r].mine.booking THEN "record" ELSE "list")
  /\ UNCHANGED <<orders, sources, price, job, mem, returned>>

takeNothingKeeps(r) ==   \* slip: sold out after the claim, and the claim is kept
  /\ at[r] = "take"
  /\ shelf = 0
  /\ goes(r, "refused")
  /\ UNCHANGED <<orders, sources, mem>> /\ elsewhere

\* None left after all: the claim is taken back.
takeNothing(r) ==
  /\ at[r] = "take"
  /\ shelf = 0
  /\ save(r, [mem[r].mine EXCEPT !.placed = FALSE], "refused")
  /\ elsewhere /\ UNCHANGED sources

\* adjustHeldCredit: the buyer's other orders are listed...
listSources(r) ==
  /\ at[r] = "list"
  /\ mem' = [mem EXCEPT ![r].seen = sources,
                        ![r].todo = {s \in Sources : creditLeft(s, sources[s]) > 0}]
  /\ goes(r, "spend")
  /\ elsewhere /\ UNCHANGED <<orders, sources>>

\* ...and spent oldest first, each saved before the next, and before this
\* order says anything of it.
spendNext(r) == mem[r].todo # {} /\ outstanding(mem[r].mine) > 0
oldest(s, r) == s \in mem[r].todo /\ \A t \in mem[r].todo : s <= t

share(s, r) == least(creditLeft(s, mem[r].seen[s]), outstanding(mem[r].mine))
spent(c, o, a) == [c EXCEPT !.applied = @ + a, !.spends[o] = @ + a]

spendStale(r) ==   \* slip: the source is saved as it was listed, without a check
  /\ at[r] = "spend" /\ spendNext(r)
  /\ \E s \in Sources :
       /\ oldest(s, r)
       /\ sources' = [sources EXCEPT ![s] = spent(mem[r].seen[s], job[r].order, share(s, r))]
       /\ mem' = [mem EXCEPT ![r].mine.credit = @ + share(s, r), ![r].todo = @ \ {s}]
  /\ UNCHANGED at
  /\ elsewhere /\ UNCHANGED orders

spendOnTop(r) ==   \* slip: what was worked out from the list is added to whatever is there now
  /\ at[r] = "spend" /\ spendNext(r)
  /\ \E s \in Sources :
       /\ oldest(s, r)
       /\ sources' = [sources EXCEPT ![s] = spent(@, job[r].order, share(s, r))]
       /\ mem' = [mem EXCEPT ![r].mine.credit = @ + share(s, r), ![r].todo = @ \ {s}]
  /\ UNCHANGED at
  /\ elsewhere /\ UNCHANGED orders

spend(r) ==
  /\ at[r] = "spend" /\ spendNext(r)
  /\ \E s \in Sources :
       /\ oldest(s, r)
       /\ IF unseen(r, s) THEN goes(r, "refused") /\ UNCHANGED <<sources, mem>>
          ELSE /\ saveSource(s, spent(sources[s], job[r].order, share(s, r)))
               /\ mem' = [mem EXCEPT ![r].mine.credit = @ + share(s, r), ![r].todo = @ \ {s}]
               /\ UNCHANGED at
  /\ elsewhere /\ UNCHANGED orders

spendEnds(r) ==
  /\ at[r] = "spend" /\ ~spendNext(r)
  /\ goes(r, IF mem[r].mine.booking THEN "charge" ELSE "record")
  /\ UNCHANGED <<orders, sources, mem>> /\ elsewhere

\* placeOrder's last save.
recordPlaced(r) ==
  /\ at[r] = "record"
  /\ save(r, [mem[r].mine EXCEPT !.log = @ + 1],
          IF job[r].op = "book" THEN "note" ELSE IF mem[r].mine.booking THEN "commit" ELSE "charge")
  /\ elsewhere /\ UNCHANGED sources

noteBooking(r) ==
  /\ at[r] = "note"
  /\ save(r, [mem[r].mine EXCEPT !.log = @ + 1], "done")
  /\ elsewhere /\ UNCHANGED sources

(* The rest of pay.                                                        *)

confirmed(r) ==
  [mem[r].mine EXCEPT !.status = "confirmed", !.accepted = TRUE, !.key = job[r].key, !.log = @ + 1]

commitLater(r) ==   \* slip: a booking's credit is spent before the booking is saved
  /\ at[r] = "commit"
  /\ goes(r, "list")
  /\ UNCHANGED <<orders, sources, mem>> /\ elsewhere

\* An accepted booking is saved before its payment spends any credit.
commitBooking(r) ==
  /\ at[r] = "commit"
  /\ save(r, confirmed(r), "list")
  /\ elsewhere /\ UNCHANGED sources

\* What credit has not covered of the terms agreed to at first.
charge(r) ==
  LET mine == mem[r].mine
      due == least(minus(mem[r].terms, mine.credit), outstanding(mine))
  IN  /\ at[r] = "charge"
      /\ save(r, [confirmed(r) EXCEPT !.paid = @ + due], "done")
      /\ elsewhere /\ UNCHANGED sources

-----------------------------------------------------------------------------
(* The seller.                                                             *)

acceptOrder(r) ==
  LET o == orders[job[r].order] IN
  /\ begins(r, "accept") /\ o.live /\ fresh(o)
  /\ loaded(r, "accept")
  /\ elsewhere /\ UNCHANGED <<orders, sources>>

accept(r) ==
  LET mine == mem[r].mine IN
  /\ at[r] = "accept"
  /\ save(r, [mine EXCEPT !.accepted = TRUE, !.log = @ + 1,
                          !.status = IF ~unpaid(mine) /\ outstanding(mine) = 0 THEN "confirmed" ELSE @],
          "done")
  /\ elsewhere /\ UNCHANGED sources

rejectOrder(r) ==
  LET o == orders[job[r].order] IN
  /\ begins(r, "reject") /\ o.live /\ fresh(o)
  /\ loaded(r, IF o.credit > 0 THEN "giveBackList" ELSE "reject")
  /\ elsewhere /\ UNCHANGED <<orders, sources>>

\* returnKeptCredit: back to where it came from, then off this order.
giveBackList(r) ==
  /\ at[r] = "giveBackList"
  /\ mem' = [mem EXCEPT ![r].seen = sources,
                        ![r].todo = {s \in Sources : sources[s].spends[job[r].order] > 0}]
  /\ goes(r, "giveBack")
  /\ elsewhere /\ UNCHANGED <<orders, sources>>

giveBack(r) ==
  /\ at[r] = "giveBack"
  /\ \E s \in mem[r].todo :
       IF unseen(r, s) THEN goes(r, "refused") /\ UNCHANGED <<sources, mem>>
       ELSE /\ saveSource(s, [sources[s] EXCEPT !.applied = minus(@, sources[s].spends[job[r].order]),
                                               !.spends[job[r].order] = 0])
            /\ mem' = [mem EXCEPT ![r].todo = @ \ {s}]
            /\ UNCHANGED at
  /\ elsewhere /\ UNCHANGED orders

giveBackEnds(r) ==
  /\ at[r] = "giveBack" /\ mem[r].todo = {}
  /\ goes(r, "reject")
  /\ UNCHANGED <<orders, sources, mem>> /\ elsewhere

reject(r) ==
  /\ at[r] = "reject"
  /\ save(r, [mem[r].mine EXCEPT !.status = "rejected", !.credit = 0, !.log = @ + 1], "restockRead")
  /\ elsewhere /\ UNCHANGED sources

readShelf(r, step) == mem' = [mem EXCEPT ![r].shelf = shelf] /\ goes(r, step)

restockRead(r) ==
  /\ at[r] = "restockRead"
  /\ readShelf(r, "restock")
  /\ elsewhere /\ UNCHANGED <<orders, sources>>

restockBlind(r) ==   \* slip: the count read a moment ago is written back
  /\ at[r] = "restock"
  /\ shelf' = mem[r].shelf + 1
  /\ returned' = [returned EXCEPT ![job[r].order] = @ + 1]
  /\ goes(r, "done")
  /\ UNCHANGED <<orders, sources, price, job, mem, taken>>

\* The count is saved like any field, if nobody has moved it since.
restock(r) ==
  /\ at[r] = "restock"
  /\ IF shelf = mem[r].shelf
     THEN /\ shelf' = shelf + 1
          /\ returned' = [returned EXCEPT ![job[r].order] = @ + 1]
          /\ goes(r, "done")
     ELSE goes(r, "refused") /\ UNCHANGED <<shelf, returned>>
  /\ UNCHANGED <<orders, sources, price, job, mem, taken>>

\* applyCredit: the seller moves a kept credit here by hand, source first.  An
\* order that went back to the cart since the seller saw it is not refused.
applyCredit(r) ==
  LET o == orders[job[r].order] IN
  /\ begins(r, "apply") /\ o.live
  /\ o.status # "rejected" /\ outstanding(o) > 0
  /\ \E s \in Sources :
       /\ creditLeft(s, sources[s]) > 0
       /\ mem' = [mem EXCEPT ![r].mine = o, ![r].base = o, ![r].seen = sources, ![r].todo = {s}]
  /\ goes(r, "applyAway")
  /\ elsewhere /\ UNCHANGED <<orders, sources>>

applyAway(r) ==
  /\ at[r] = "applyAway"
  /\ \E s \in mem[r].todo :
       IF unseen(r, s) THEN goes(r, "refused") /\ UNCHANGED <<sources, mem>>
       ELSE /\ saveSource(s, spent(sources[s], job[r].order, share(s, r)))
            /\ mem' = [mem EXCEPT ![r].mine.credit = @ + share(s, r)]
            /\ goes(r, "applyHere")
  /\ elsewhere /\ UNCHANGED orders

applyHere(r) ==
  /\ at[r] = "applyHere"
  /\ save(r, [mem[r].mine EXCEPT !.status = "confirmed", !.log = @ + 1,
                                 !.accepted = @ \/ mem[r].mine.status = "pending_payment"], "done")
  /\ elsewhere /\ UNCHANGED sources

\* The item's price is edited; changeListing leaves the count as it is.
editPrice ==
  /\ price' \in Prices \ {price}
  /\ UNCHANGED <<orders, sources, shelf, job, at, mem, taken, returned>>

\* assignListingsToLot: the listing as read, written back without a check.
assignRead(r) ==
  /\ begins(r, "assign")
  /\ readShelf(r, "assign")
  /\ elsewhere /\ UNCHANGED <<orders, sources>>

assignListingsToLot(r) ==
  /\ at[r] = "assign"
  /\ shelf' = mem[r].shelf
  /\ goes(r, "done")
  /\ UNCHANGED <<orders, sources, price, job, mem, taken, returned>>

-----------------------------------------------------------------------------
\* The buyer takes a checkout out of the cart: read, then deleted.
discardCheckout(r) ==
  LET o == orders[job[r].order] IN
  /\ begins(r, "discard") /\ o.live /\ ~o.placed
  /\ loaded(r, "delete")
  /\ elsewhere /\ UNCHANGED <<orders, sources>>

deleteOrder(r) ==
  /\ at[r] = "delete"
  /\ orders' = [orders EXCEPT ![job[r].order].live = FALSE]
  /\ goes(r, "done")
  /\ elsewhere /\ UNCHANGED <<sources, mem>>

die(r) ==
  /\ Failures
  /\ InFlight(r)
  /\ goes(r, "lost")
  /\ UNCHANGED <<orders, sources, mem>> /\ elsewhere

buyerStep(r) ==
  \/ pay(r) \/ bookOrder(r) \/ discardCheckout(r) \/ deleteOrder(r)
  \/ look(r) \/ claim(r) \/ takeStock(r) \/ takeNothing(r)
  \/ listSources(r) \/ spend(r) \/ spendEnds(r) \/ recordPlaced(r) \/ noteBooking(r)
  \/ commitBooking(r) \/ charge(r)

sellerStep(r) ==
  \/ acceptOrder(r) \/ accept(r)
  \/ rejectOrder(r) \/ giveBackList(r) \/ giveBack(r) \/ giveBackEnds(r) \/ reject(r)
  \/ restockRead(r) \/ restock(r)
  \/ applyCredit(r) \/ applyAway(r) \/ applyHere(r)
  \/ assignRead(r) \/ assignListingsToLot(r)

Next == editPrice \/ \E r \in Requests : buyerStep(r) \/ sellerStep(r) \/ die(r)

Spec == Init /\ [][Next]_vars

-----------------------------------------------------------------------------
Steps == {"idle", "look", "claim", "take", "list", "spend", "record", "note", "commit", "charge",
          "accept", "giveBackList", "giveBack", "reject", "restockRead", "restock",
          "applyAway", "applyHere", "assign", "delete"} \cup Ends

TypeOK ==
  /\ orders \in [Checkouts -> Order]
  /\ sources \in [Sources -> Source]
  /\ shelf \in Nat /\ price \in Prices
  /\ job \in [Requests -> Jobs]
  /\ at \in [Requests -> Steps]
  /\ mem \in [Requests -> [mine : Order, base : Order, seen : [Sources -> Source],
                           todo : SUBSET Sources, terms : Prices, shelf : Nat, found : BOOLEAN]]
  /\ taken \in [Checkouts -> Nat] /\ returned \in [Checkouts -> Nat]

\* However its checkout is pressed - twice at once, again after a failure, on
\* two screens - an order takes one unit at most and gives one back at most
\* (placeOrder: "the second is refused here rather than taking the stock a
\* second time").
TakenOnce == \A o \in Checkouts : taken[o] <= 1 /\ returned[o] <= 1

\* A checkout still in the cart, or back in it, holds no unit: whatever took
\* one off the shelf left a placed order (takeStock comes after the claim).
CartHoldsNoStock == \A o \in Checkouts : ~orders[o].placed => taken[o] = 0

\* The shelf is what it was at first less what was taken plus what came back,
\* whichever sales and rejections cross (mutateListing, restock).
ShelfCounts ==
  shelf + SumFunction(taken) = Stock + SumFunction(returned)

\* An order that is placed and stays so has its unit, unless a request died
\* over it (placeOrder takes its claim back when the unit is gone after all).
PlacedHoldsUnit ==
  \A o \in Checkouts :
    orders[o].live /\ orders[o].placed /\ orders[o].status # "rejected" /\ ~Working(o) =>
      taken[o] = 1 \/ \E r \in Requests : at[r] = "lost" /\ job[r].order = o

\* Credit an order says it was paid with was taken off a kept credit for it,
\* unless a rejection has begun to give it back: a payment may die having spent
\* credit for nothing, never the other way round (adjustHeldCredit and
\* applyCredit save the source first; so does returnKeptCredit).
turnedDown(o) == \E r \in Requests : job[r].order = o /\ job[r].op = "reject" /\ at[r] # "idle"
spentOn(o) == SumFunction([s \in Sources |-> sources[s].spends[o]])
NoCreditFromNowhere == \A o \in Checkouts : ~turnedDown(o) => orders[o].credit <= spentOn(o)

\* No kept credit is spent twice, and what it says was applied is what its
\* applications add up to.
CreditWithinKept ==
  \A s \in Sources : /\ sources[s].applied <= Kept[s]
                     /\ sources[s].applied = SumFunction(sources[s].spends)

\* Two payments that found one booking placed never both reach the buyer's
\* kept credit (pay: "this one is saved first: a second payment made at the
\* same moment is refused here, before it can spend the same credit again").
spendsOnBooking(r) == mem[r].found /\ at[r] \in {"list", "spend"}

BookingSpentByOne ==
  \A r, q \in Requests :
    r # q /\ spendsOnBooking(r) /\ spendsOnBooking(q) => job[r].order # job[q].order
=============================================================================
