--------------------------- MODULE PreOrderProofs ---------------------------
(***************************************************************************)
(* PreOrder, for any buyers, requests and terms: that a campaign which is  *)
(* over stays over and one that went ahead went ahead, that a booking is   *)
(* called off once, that a campaign is closed over no booking it read, and *)
(* that nobody loses a place before its grace ends.                        *)
(*                                                                         *)
(* Copies are old, never wrong: the campaign has kept what any copy of it  *)
(* says of being over or ahead (Sticks), and an order that a copy has as   *)
(* called off is (Agrees).  Types come last: of a campaign's counts only   *)
(* they need that sums are numbers (Sums).                                 *)
(***************************************************************************)
EXTENDS PreOrder, Sums

OrderT == [status : {"draft", "placed", "shipped", "called_off"}, log : Nat]
RowT == [status : {"none", "held", "waiting", "lapsed", "booked", "left"},
         userId : Buyers \cup {NoRow.userId}, offerDueAt : Nat]

IsCampaign(c) ==
  /\ DOMAIN c = {"threshold", "cutoffAt", "whenShort", "whenFull", "filledAt", "proceededShort", "decisionDueAt",
                 "closed", "pledgeDueAt", "lastCall", "filledCount", "pledgedCount", "waitlistCount"}
  /\ c.filledAt \in Nat /\ c.pledgeDueAt \in Nat
  /\ c.closed \in BOOLEAN /\ c.proceededShort \in BOOLEAN

\* At time t: places are due a grace after it went ahead, or later.
Good(c, t) ==
  /\ IsCampaign(c)
  /\ c.filledAt <= t
  /\ c.pledgeDueAt # 0 => c.filledAt # 0 /\ c.pledgeDueAt >= c.filledAt + Grace
  /\ c.proceededShort => c.filledAt # 0

\* What c was, new is.
Sticks(new, c) ==
  /\ c.closed => new.closed
  /\ c.filledAt # 0 => new.filledAt = c.filledAt

\* Offers were made after c went ahead.
Granted(p, c) ==
  \A i \in Rows : p[i].offerDueAt # 0 => c.filledAt # 0 /\ p[i].offerDueAt >= c.filledAt + Grace

Shape(m) ==
  /\ DOMAIN m = {"op", "who", "base", "next", "pledges", "orders", "time", "lapsed", "log"}
  /\ m.who \in Buyers \cup {NoRow.userId}
  /\ m.pledges \in [Rows -> RowT] /\ m.orders \in [Buyers -> OrderT]
  /\ m.time \in Nat /\ m.log \in Nat

\* What a copy says of the campaign c at time t...
Terms(m, c, t) ==
  /\ Good(m.base, t) /\ Good(m.next, t) /\ m.time <= t
  /\ Sticks(m.next, m.base) /\ Sticks(c, m.base)
  /\ Granted(m.pledges, c)

\* An order nothing is written to any more.
Over(order) == order.status = "called_off"

\* ...of the orders o...
Agrees(m, o) == \A b \in Buyers : Over(m.orders[b]) => Over(o[b])

\* ...and of the one being placed.
Own(m) == m.op = "place" => m.who \in Buyers

AtStep(m, s) ==
  /\ s \in {"place", "claim", "take", "convert", "stamp"} => m.op = "place"
  /\ s \in {"list", "decide", "tidy", "admit", "dismiss"} => m.next = m.base
  /\ s \in {"tidy", "admit", "dismiss"} => m.base.filledAt <= m.time
  /\ s \in {"tidy", "admit"} => m.base.filledAt # 0

Fits(m, s, c, o, t) == Shape(m) /\ Terms(m, c, t) /\ Agrees(m, o) /\ Own(m) /\ AtStep(m, s)

CampaignInv == now \in Nat \ {0} /\ Good(campaign, now)
PledgesInv == pledges \in [Rows -> RowT] /\ Granted(pledges, campaign)
OrdersInv ==
  /\ orders \in [Buyers -> OrderT] /\ calledOff \in [Buyers -> Nat]
  /\ CalledOffOnce
CopiesInv ==
  /\ DOMAIN at = Everyone /\ DOMAIN mem = Everyone
  /\ \A r \in Everyone : Fits(mem[r], at[r], campaign, orders, now)
IInv == CampaignInv /\ PledgesInv /\ OrdersInv /\ CopiesInv

-----------------------------------------------------------------------------
(* Campaigns.                                                              *)

\* All that matters here.
Same(a, b) ==
  a.filledAt = b.filledAt /\ a.pledgeDueAt = b.pledgeDueAt /\ a.closed = b.closed /\ a.proceededShort = b.proceededShort

LEMMA FreshIsGood == ASSUME NEW t \in Nat PROVE Good(Fresh, t)
BY DEF Good, IsCampaign, Fresh

LEMMA SameIsGood ==
  ASSUME NEW t \in Nat, NEW c, Good(c, t), NEW e, DOMAIN e = DOMAIN c, Same(e, c)
  PROVE  Good(e, t) /\ Sticks(e, c)
BY DEF Good, IsCampaign, Same, Sticks

LEMMA Counted ==
  ASSUME NEW t \in Nat, NEW c, Good(c, t), NEW p, NEW o
  PROVE  Good(counted(c, p, o), t) /\ Sticks(counted(c, p, o), c)
<1> DEFINE a == filledCount(o)
           b == unitsOf(p, live(p))
           d == unitsOf(p, waiting(p))
           e == [c EXCEPT !.filledCount = a, !.pledgedCount = b, !.waitlistCount = d]
<1>1. counted(c, p, o) = e
  BY DEF counted
<1> HIDE DEF a, b, d
<1>2. DOMAIN e = DOMAIN c /\ Same(e, c)
  BY DEF Good, IsCampaign, Same
<1> HIDE DEF e
<1> QED BY <1>1, <1>2, SameIsGood

LEMMA SticksOn ==
  ASSUME NEW a, NEW b, NEW c, Sticks(a, b), Sticks(b, c)
  PROVE  Sticks(a, c)
BY DEF Sticks

LEMMA Closed ==
  ASSUME NEW t \in Nat, NEW c, Good(c, t)
  PROVE  Good(closeCampaign(c), t) /\ Sticks(closeCampaign(c), c)
BY DEF Good, IsCampaign, Sticks, closeCampaign

LEMMA AheadShort ==
  ASSUME NEW t \in Nat \ {0}, NEW c, Good(c, t), NEW callIn \in BOOLEAN
  PROVE  Good(goAheadShort(c, callIn, t), t) /\ Sticks(goAheadShort(c, callIn, t), c)
<1> DEFINE f == IF c.filledAt = 0 THEN t ELSE c.filledAt
           g == IF callIn THEN t + Grace ELSE c.pledgeDueAt
           e == [c EXCEPT !.proceededShort = TRUE, !.decisionDueAt = 0, !.filledAt = f, !.pledgeDueAt = g]
<1>1. goAheadShort(c, callIn, t) = e
  BY DEF goAheadShort
<1>2. /\ f \in Nat /\ f # 0 /\ f <= t
      /\ c.filledAt # 0 => f = c.filledAt
  BY DEF Good, IsCampaign
<1>3. g \in Nat /\ (g # 0 => g >= f + Grace)
  BY BoundsAssumption DEF Good, IsCampaign
<1> HIDE DEF f, g
<1>4. /\ DOMAIN e = DOMAIN c /\ e.filledAt = f /\ e.pledgeDueAt = g
      /\ e.closed = c.closed /\ e.proceededShort = TRUE
  BY DEF Good, IsCampaign
<1> HIDE DEF e
<1>5. Good(e, t)
  BY <1>2, <1>3, <1>4 DEF Good, IsCampaign
<1>6. Sticks(e, c)
  BY <1>2, <1>4 DEF Sticks
<1> QED BY <1>1, <1>5, <1>6

LEMMA Paused ==
  ASSUME NEW t \in Nat, NEW c, Good(c, t), NEW x
  PROVE  /\ Good([c EXCEPT !.decisionDueAt = x], t) /\ Sticks([c EXCEPT !.decisionDueAt = x], c)
         /\ Good([c EXCEPT !.lastCall = x], t) /\ Sticks([c EXCEPT !.lastCall = x], c)
<1>1. /\ DOMAIN [c EXCEPT !.decisionDueAt = x] = DOMAIN c /\ Same([c EXCEPT !.decisionDueAt = x], c)
      /\ DOMAIN [c EXCEPT !.lastCall = x] = DOMAIN c /\ Same([c EXCEPT !.lastCall = x], c)
  BY DEF Good, IsCampaign, Same
<1> QED BY <1>1, SameIsGood

LEMMA SelfSticks == ASSUME NEW c PROVE Sticks(c, c)
BY DEF Sticks

LEMMA WhenShort ==
  ASSUME NEW t \in Nat \ {0}, NEW c, Good(c, t), NEW n, NEW callIn \in BOOLEAN
  PROVE  Good(whenShort(c, n, callIn, t), t) /\ Sticks(whenShort(c, n, callIn, t), c)
<1> DEFINE e == [c EXCEPT !.decisionDueAt = t + DecisionTime]
<1>1. \/ whenShort(c, n, callIn, t) = closeCampaign(c)
      \/ whenShort(c, n, callIn, t) = goAheadShort(c, callIn, t)
      \/ whenShort(c, n, callIn, t) = e
  BY DEF whenShort
<1>2. Good(e, t) /\ Sticks(e, c)
  BY Paused, Zenon
<1> HIDE DEF e
<1> QED BY <1>1, <1>2, Closed, AheadShort

LEMMA Fills ==
  ASSUME NEW t \in Nat \ {0}, NEW c, Good(c, t), NEW n
  PROVE  Good(fills(c, n, t), t) /\ Sticks(fills(c, n, t), c)
<1> DEFINE e == [c EXCEPT !.filledAt = t, !.decisionDueAt = 0, !.pledgeDueAt = t + Grace]
<1>1. \/ fills(c, n, t) = c
      \/ c.filledAt = 0 /\ fills(c, n, t) = e
  BY DEF fills
<1>2. /\ DOMAIN e = DOMAIN c /\ e.filledAt = t /\ e.pledgeDueAt = t + Grace
      /\ e.closed = c.closed /\ e.proceededShort = c.proceededShort
  BY DEF Good, IsCampaign
<1> HIDE DEF e
<1>3. ASSUME c.filledAt = 0 PROVE Good(e, t) /\ Sticks(e, c)
  BY <1>2, <1>3, BoundsAssumption DEF Good, IsCampaign, Sticks
<1> QED BY <1>1, <1>3, SelfSticks

\* What a reconcile makes of a campaign.
LEMMA Outcome ==
  ASSUME NEW t \in Nat \ {0}, NEW c, Good(c, t), NEW n, NEW lapsed
  PROVE  Good(outcome(c, n, t, lapsed), t) /\ Sticks(outcome(c, n, t, lapsed), c)
<1> DEFINE c1 == lastCall(c, n, t)
           c2 == fills(c1, n, t)
           c3 == atCutoff(c2, n, t)
           c4 == afterLapse(c3, n, t, lapsed)
           c5 == unanswered(c4, t)
<1>1. Good(c1, t) /\ Sticks(c1, c)
  <2>1. c1 = c \/ c1 = [c EXCEPT !.lastCall = TRUE]
    BY DEF lastCall
  <2>2. Good([c EXCEPT !.lastCall = TRUE], t) /\ Sticks([c EXCEPT !.lastCall = TRUE], c)
    BY Paused, Zenon
  <2>3. CASE c1 = c
    BY <2>3, SelfSticks
  <2>4. CASE c1 = [c EXCEPT !.lastCall = TRUE]
    BY <2>2, <2>4, Zenon
  <2> QED BY <2>1, <2>3, <2>4
<1> HIDE DEF c1
<1>2. Good(c2, t) /\ Sticks(c2, c1)
  BY <1>1, Fills
<1> HIDE DEF c2
<1>3. Good(c3, t) /\ Sticks(c3, c2)
  <2>1. c3 = c2 \/ c3 = whenShort(c2, n, TRUE, t)
    BY DEF atCutoff
  <2> QED BY <1>2, <2>1, WhenShort, SelfSticks
<1> HIDE DEF c3
<1>4. Good(c4, t) /\ Sticks(c4, c3)
  <2>1. c4 = c3 \/ c4 = whenShort(c3, n, FALSE, t)
    BY DEF afterLapse
  <2> QED BY <1>3, <2>1, WhenShort, SelfSticks
<1> HIDE DEF c4
<1>5. Good(c5, t) /\ Sticks(c5, c4)
  <2>1. c5 = c4 \/ c5 = closeCampaign(c4)
    BY DEF unanswered
  <2> QED BY <1>4, <2>1, Closed, SelfSticks
<1> HIDE DEF c5
<1>6. Sticks(c5, c)
  BY <1>1, <1>2, <1>3, <1>4, <1>5, SticksOn
<1>7. outcome(c, n, t, lapsed) = c5
  BY DEF outcome, c5, c4, c3, c2, c1
<1> QED BY <1>5, <1>6, <1>7

\* A campaign that goes ahead has a day it went ahead.
LEMMA AheadSince ==
  ASSUME NEW c, NEW t, Good(c, t), isGoingAhead(c)
  PROVE  c.filledAt # 0
BY DEF Good, isGoingAhead

-----------------------------------------------------------------------------
(* Copies.                                                                 *)

\* Orders o2 come after o: none that is over is written.
Grown(new, order) == Over(order) => Over(new)
Later(o2, o) ==
  /\ o \in [Buyers -> OrderT] /\ o2 \in [Buyers -> OrderT]
  /\ \A b \in Buyers : Grown(o2[b], o[b])

LEMMA FitsLater ==
  ASSUME NEW m, NEW s, NEW c, NEW o, NEW t \in Nat, Fits(m, s, c, o, t),
         NEW c2, NEW o2, NEW t2 \in Nat, IsCampaign(c), Sticks(c2, c), Later(o2, o), t <= t2
  PROVE  Fits(m, s, c2, o2, t2)
<1>1. Shape(m) /\ AtStep(m, s)
  BY DEF Fits
<1>2. Terms(m, c2, t2)
  <2>1. Good(m.base, t2) /\ Good(m.next, t2) /\ m.time <= t2
    BY DEF Fits, Terms, Good, IsCampaign, Shape
  <2>2. Sticks(m.next, m.base) /\ Sticks(c2, m.base)
    BY SticksOn DEF Fits, Terms
  <2>3. Granted(m.pledges, c2)
    BY DEF Fits, Terms, Granted, Sticks
  <2> QED BY <2>1, <2>2, <2>3 DEF Terms
<1>3. Agrees(m, o2)
  BY DEF Fits, Agrees, Later, Grown
<1> QED BY <1>1, <1>2, <1>3 DEF Fits

LEMMA SelfLater == ASSUME OrdersInv PROVE Later(orders, orders)
BY DEF OrdersInv, Later, Grown

\* Whoever moves leaves the copies of the others as true as they were.
LEMMA CopiesLater ==
  ASSUME IInv, now' \in Nat, now <= now', Sticks(campaign', campaign), Later(orders', orders),
         NEW r \in Everyone
  PROVE  Fits(mem[r], at[r], campaign', orders', now')
<1>1. Fits(mem[r], at[r], campaign, orders, now) /\ IsCampaign(campaign) /\ now \in Nat
  BY DEF IInv, CopiesInv, CampaignInv, Good
<1> QED BY <1>1, FitsLater

LEMMA Moves ==
  ASSUME IInv, NEW r \in Everyone, NEW s, NEW m, goes(r, s, m), UNCHANGED now,
         Good(campaign', now), Sticks(campaign', campaign),
         pledges' \in [Rows -> RowT], Granted(pledges', campaign),
         OrdersInv', Later(orders', orders), Fits(m, s, campaign', orders', now)
  PROVE  IInv'
<1>1. now \in Nat \ {0} /\ now \in Nat /\ now <= now'
  BY DEF IInv, CampaignInv
<1>2. CampaignInv'
  BY <1>1 DEF CampaignInv
<1>3. PledgesInv'
  BY DEF PledgesInv, Granted, Sticks
<1>4. CopiesInv'
  <2>1. DOMAIN at = Everyone /\ DOMAIN mem = Everyone
    BY DEF IInv, CopiesInv
  <2>2. DOMAIN at' = Everyone /\ DOMAIN mem' = Everyone
    BY <2>1 DEF goes
  <2>3. ASSUME NEW q \in Everyone
        PROVE  Fits(mem'[q], at'[q], campaign', orders', now')
    <3>1. CASE q = r
      <4>1. mem'[q] = m /\ at'[q] = s
        BY <2>1, <3>1 DEF goes
      <4> QED BY <4>1
    <3>2. CASE q # r
      <4>1. mem'[q] = mem[q] /\ at'[q] = at[q]
        BY <2>1, <3>2 DEF goes
      <4>2. Fits(mem[q], at[q], campaign', orders', now')
        BY <1>1, CopiesLater
      <4> QED BY <4>1, <4>2
    <3> QED BY <3>1, <3>2
  <2> QED BY <2>2, <2>3 DEF CopiesInv
<1> QED BY <1>2, <1>3, <1>4 DEF IInv

\* What is written besides the copy.
LEMMA MovesOnly ==
  ASSUME IInv, NEW r \in Everyone, NEW s, NEW m, goes(r, s, m), UNCHANGED <<campaign, orders, calledOff, now>>,
         pledges' \in [Rows -> RowT], Granted(pledges', campaign), Fits(m, s, campaign, orders, now)
  PROVE  IInv'
<1>1. Good(campaign', now) /\ Sticks(campaign', campaign)
  BY SelfSticks DEF IInv, CampaignInv
<1>2. OrdersInv'
  BY DEF IInv, OrdersInv, CalledOffOnce
<1>3. Later(orders', orders)
  BY SelfLater DEF IInv
<1>4. Fits(m, s, campaign', orders', now)
  OBVIOUS
<1> QED BY <1>1, <1>2, <1>3, <1>4, Moves

LEMMA MovesAlone ==
  ASSUME IInv, NEW r \in Everyone, NEW s, NEW m, goes(r, s, m), stored, UNCHANGED <<calledOff, now>>,
         Fits(m, s, campaign, orders, now)
  PROVE  IInv'
<1>1. UNCHANGED <<campaign, orders, calledOff, now>> /\ pledges' \in [Rows -> RowT] /\ Granted(pledges', campaign)
  BY DEF stored, IInv, PledgesInv
<1> QED BY <1>1, MovesOnly

LEMMA MovesOrders ==
  ASSUME IInv, NEW r \in Everyone, NEW s, NEW m, goes(r, s, m), UNCHANGED <<campaign, pledges, now>>,
         OrdersInv', Later(orders', orders), Fits(m, s, campaign, orders', now)
  PROVE  IInv'
<1>1. /\ Good(campaign', now) /\ Sticks(campaign', campaign)
      /\ pledges' \in [Rows -> RowT] /\ Granted(pledges', campaign)
  BY SelfSticks DEF IInv, CampaignInv, PledgesInv
<1>2. Fits(m, s, campaign', orders', now)
  OBVIOUS
<1> QED BY <1>1, <1>2, Moves

LEMMA MovesCampaign ==
  ASSUME IInv, NEW r \in Everyone, NEW s, NEW m, goes(r, s, m), UNCHANGED <<pledges, orders, calledOff, now>>,
         Good(campaign', now), Sticks(campaign', campaign), Fits(m, s, campaign', orders, now)
  PROVE  IInv'
<1>1. pledges' \in [Rows -> RowT] /\ Granted(pledges', campaign)
  BY DEF IInv, PledgesInv
<1>2. OrdersInv'
  BY DEF IInv, OrdersInv, CalledOffOnce
<1>3. Later(orders', orders)
  BY SelfLater DEF IInv
<1>4. Fits(m, s, campaign', orders', now)
  OBVIOUS
<1> QED BY <1>1, <1>2, <1>3, <1>4, Moves

-----------------------------------------------------------------------------
(* Copies that are new.                                                    *)

LEMMA NoRowsFit == NoRows \in [Rows -> RowT] /\ \A c : Granted(NoRows, c)
BY DEF NoRows, NoRow, RowT, Granted

LEMMA DraftsFit ==
  ASSUME OrdersInv
  PROVE  Drafts \in [Buyers -> OrderT] /\ \A m : m.orders = Drafts => Agrees(m, orders)
<1>1. Drafts \in [Buyers -> OrderT] /\ \A b \in Buyers : Drafts[b].status = "draft"
  BY DEF Drafts, OrderT
<1> QED BY <1>1 DEF Agrees, Over

\* The campaign read and none of the rows behind it.
LEMMA NewCopyFits ==
  ASSUME NEW m, NEW s \in {"idle", "done", "list", "edit", "claim"}, NEW x, NEW c, NEW t \in Nat, OrdersInv,
         Shape(m), m.base = c, m.next = c, m.pledges = NoRows, m.orders = Drafts, m.time <= t,
         Good(c, t), Sticks(x, c), Own(m), s = "claim" => m.op = "place"
  PROVE  Fits(m, s, x, orders, t)
<1>1. Terms(m, x, t)
  BY NoRowsFit, SelfSticks DEF Terms
<1>2. Agrees(m, orders)
  BY DraftsFit
<1>3. AtStep(m, s)
  BY DEF AtStep
<1> QED BY <1>1, <1>2, <1>3 DEF Fits

LEMMA NoCopyIs ==
  ASSUME OrdersInv
  PROVE  /\ Shape(NoCopy) /\ NoCopy.op = "none" /\ NoCopy.base = Fresh /\ NoCopy.next = Fresh
         /\ NoCopy.pledges = NoRows /\ NoCopy.orders = Drafts /\ NoCopy.time = 0
         /\ NoCopy.who = NoRow.userId /\ NoCopy.log = 0
<1>1. NoRows \in [Rows -> RowT] /\ Drafts \in [Buyers -> OrderT]
  BY NoRowsFit, DraftsFit
<1> QED BY <1>1 DEF NoCopy, Shape

LEMMA FreshSticks == ASSUME NEW x PROVE Sticks(x, Fresh)
BY DEF Sticks, Fresh

LEMMA NoCopyFits ==
  ASSUME NEW s \in {"idle", "done"}, NEW x, NEW t \in Nat, OrdersInv
  PROVE  Fits(NoCopy, s, x, orders, t)
<1>1. Own(NoCopy)
  BY NoCopyIs DEF Own
<1>2. NoCopy.time <= t /\ Good(Fresh, t) /\ Sticks(x, Fresh)
  BY NoCopyIs, FreshIsGood, FreshSticks
<1> QED BY <1>1, <1>2, NoCopyIs, NewCopyFits

LEMMA Ends ==
  ASSUME NEW r, ends(r), NEW x, NEW t \in Nat, OrdersInv
  PROVE  \E s, m : goes(r, s, m) /\ Fits(m, s, x, orders, t)
<1> DEFINE s == IF r = Clock THEN "idle" ELSE "done"
<1>1. goes(r, s, NoCopy)
  BY DEF ends
<1>2. s \in {"idle", "done"}
  OBVIOUS
<1> HIDE DEF s
<1>3. Fits(NoCopy, s, x, orders, t)
  BY <1>2, NoCopyFits
<1> QED BY <1>1, <1>3

LEMMA Reconciles ==
  ASSUME OrdersInv, NEW m, Shape(m), NEW c, NEW op, NEW e, e = reconciles(m, c, op)
  PROVE  /\ Shape(e) /\ e.op = op /\ e.base = c /\ e.next = c /\ e.pledges = NoRows /\ e.orders = Drafts
         /\ e.time = m.time /\ e.who = m.who /\ e.log = m.log
<1>1. NoRows \in [Rows -> RowT] /\ Drafts \in [Buyers -> OrderT]
  BY NoRowsFit, DraftsFit
<1> QED BY <1>1 DEF reconciles, Shape

\* On to the rest of a reconcile.
LEMMA ResumeFits ==
  ASSUME NEW r, NEW m, resume(r, m), NEW c, NEW o, NEW t \in Nat,
         Shape(m), Terms(m, c, t), Agrees(m, o), Own(m),
         m.next = m.base, m.time # 0, m.base.filledAt <= m.time
  PROVE  \E s, e : goes(r, s, e) /\ Fits(e, s, c, o, t)
<1> DEFINE n == committed(m.pledges, m.orders)
           todo == overdue(m.next, m.pledges, m.time) \cup offered(m.next, m.pledges, m.orders)
           w == outcome(m.next, n, m.time, m.lapsed)
           e == [m EXCEPT !.next = w, !.time = 0, !.lapsed = FALSE]
<1>1. IF todo # {} THEN goes(r, "tidy", m) ELSE goes(r, "settle", e)
  BY DEF resume
<1>2. CASE todo # {}
  <2>1. isGoingAhead(m.next)
    BY <1>2 DEF overdue, offered
  <2>2. m.base.filledAt # 0
    BY <2>1, AheadSince DEF Terms
  <2>3. AtStep(m, "tidy")
    BY <2>2 DEF AtStep
  <2> QED BY <1>1, <1>2, <2>3 DEF Fits
<1>3. CASE todo = {}
  <2>1. m.time \in Nat \ {0} /\ Good(m.next, m.time)
    BY DEF Shape, Terms, Good
  <2>2. Good(w, m.time) /\ Sticks(w, m.next)
    BY <2>1, Outcome
  <2>3. goes(r, "settle", e)
    BY <1>1, <1>3
  <2> HIDE DEF w
  <2>4. /\ Shape(e) /\ e.op = m.op /\ e.who = m.who /\ e.base = m.base /\ e.next = w /\ e.pledges = m.pledges
        /\ e.orders = m.orders /\ e.time = 0 /\ e.log = m.log
    BY DEF Shape
  <2> HIDE DEF e, todo, n
  <2>5. Good(w, t)
    BY <2>1, <2>2 DEF Good, IsCampaign, Terms
  <2>6. Terms(e, c, t)
    BY <2>2, <2>4, <2>5 DEF Terms
  <2>7. Agrees(e, o) /\ Own(e)
    BY <2>4 DEF Agrees, Own
  <2>8. AtStep(e, "settle")
    BY DEF AtStep
  <2> QED BY <2>3, <2>4, <2>6, <2>7, <2>8 DEF Fits
<1> QED BY <1>2, <1>3

LEMMA FinishFits ==
  ASSUME NEW r, NEW m, finish(r, m), NEW c, NEW t \in Nat, OrdersInv,
         Shape(m), Good(m.base, t), m.time <= t, Sticks(c, m.base), Granted(m.pledges, c),
         Agrees(m, orders), Own(m)
  PROVE  \E s, e : goes(r, s, e) /\ Fits(e, s, c, orders, t)
<1> DEFINE e == [m EXCEPT !.next = m.base]
<1>1. CASE m.op \in {"pledge", "place", "decide"}
  <2>1. goes(r, m.op, e)
    BY <1>1 DEF finish
  <2>2. /\ Shape(e) /\ e.op = m.op /\ e.who = m.who /\ e.base = m.base /\ e.next = m.base /\ e.pledges = m.pledges
        /\ e.orders = m.orders /\ e.time = m.time /\ e.log = m.log
    BY DEF Shape
  <2> HIDE DEF e
  <2>3. Terms(e, c, t)
    BY <2>2, SelfSticks DEF Terms
  <2>4. Agrees(e, orders) /\ Own(e)
    BY <2>2 DEF Agrees, Own
  <2>5. AtStep(e, m.op)
    BY <1>1, <2>2 DEF AtStep
  <2> QED BY <2>1, <2>2, <2>3, <2>4, <2>5 DEF Fits
<1>2. CASE m.op \notin {"pledge", "place", "decide"}
  <2>1. ends(r)
    BY <1>2 DEF finish
  <2> QED BY <2>1, Ends
<1> QED BY <1>1, <1>2

-----------------------------------------------------------------------------
(* Every step keeps the invariant.                                         *)

\* What the invariant says of the request that moves.
LEMMA Mine ==
  ASSUME IInv, NEW r \in Everyone
  PROVE  /\ now \in Nat \ {0} /\ now \in Nat /\ OrdersInv /\ Good(campaign, now)
         /\ Shape(mem[r]) /\ Terms(mem[r], campaign, now) /\ Agrees(mem[r], orders)
         /\ Own(mem[r]) /\ AtStep(mem[r], at[r])
BY DEF IInv, CampaignInv, CopiesInv, Fits

LEMMA BeginKeeps ==
  ASSUME IInv, NEW r \in Everyone, NEW op, begin(r, op)
  PROVE  IInv'
<1> DEFINE s == IF op = "edit" THEN "edit" ELSE "list"
           e(b) == [reconciles(NoCopy, campaign, op) EXCEPT !.who = b]
<1>1. PICK b \in Buyers : /\ op = "place" => orders[b].status = "draft"
                          /\ goes(r, s, e(b))
  BY DEF begin
<1>2. /\ Shape(e(b)) /\ e(b).op = op /\ e(b).base = campaign /\ e(b).next = campaign /\ e(b).pledges = NoRows
      /\ e(b).orders = Drafts /\ e(b).time = 0 /\ e(b).who = b
  <2> DEFINE d == reconciles(NoCopy, campaign, op)
  <2> HIDE DEF d
  <2>1. Shape(d) /\ d.op = op /\ d.base = campaign /\ d.next = campaign /\ d.pledges = NoRows
        /\ d.orders = Drafts /\ d.time = 0
    BY NoCopyIs, Reconciles DEF IInv, d
  <2>2. e(b) = [d EXCEPT !.who = b]
    BY DEF d
  <2> HIDE DEF e
  <2> QED BY <2>1, <2>2 DEF Shape
<1> HIDE DEF e
<1>3. Own(e(b))
  BY <1>2 DEF Own
<1>4. s \in {"list", "edit"}
  OBVIOUS
<1> HIDE DEF s
<1>5. Fits(e(b), s, campaign, orders, now)
  <2>1. s \in {"idle", "done", "list", "edit", "claim"} /\ s # "claim"
    BY <1>4
  <2>2. now \in Nat /\ Good(campaign, now) /\ OrdersInv /\ Sticks(campaign, campaign) /\ 0 <= now
    BY Mine, SelfSticks
  <2> QED BY <1>2, <1>3, <2>1, <2>2, NewCopyFits
<1>6. stored /\ UNCHANGED <<calledOff, now>>
  BY DEF begin, others, histories
<1> QED BY <1>1, <1>5, <1>6, MovesAlone

LEMMA ListRowsKeeps ==
  ASSUME IInv, NEW r \in Everyone, listRows(r)
  PROVE  IInv'
<1> DEFINE e == [mem[r] EXCEPT !.pledges = pledges, !.orders = orders, !.time = now]
<1>1. at[r] = "list" /\ resume(r, e) /\ stored /\ UNCHANGED <<calledOff, now>>
  BY DEF listRows, others, histories
<1>2. pledges \in [Rows -> RowT] /\ Granted(pledges, campaign) /\ orders \in [Buyers -> OrderT]
  BY DEF IInv, PledgesInv, OrdersInv
<1>3. mem[r].next = mem[r].base
  BY <1>1, Mine DEF AtStep
<1>4. /\ Shape(e) /\ e.op = mem[r].op /\ e.base = mem[r].base /\ e.next = mem[r].base /\ e.pledges = pledges
      /\ e.orders = orders /\ e.time = now /\ e.who = mem[r].who /\ e.log = mem[r].log
  BY <1>2, <1>3, Mine DEF Shape
<1> HIDE DEF e
<1>5. Terms(e, campaign, now)
  BY <1>2, <1>4, Mine, SelfSticks DEF Terms
<1>6. Agrees(e, orders) /\ Own(e)
  BY <1>4, Mine DEF Agrees, Own
<1>7. e.next = e.base /\ e.time # 0 /\ e.base.filledAt <= e.time
  BY <1>4, <1>5, Mine DEF Terms, Good
<1>8. \E s, m : goes(r, s, m) /\ Fits(m, s, campaign, orders, now)
  BY <1>1, <1>4, <1>5, <1>6, <1>7, Mine, ResumeFits
<1> QED BY <1>1, <1>8, MovesAlone

\* A pledge is let go.
LEMMA LetGoKeeps ==
  ASSUME IInv, NEW r \in Everyone, letGo(r)
  PROVE  IInv'
<1> DEFINE m == mem[r]
           i == Min(overdue(m.next, m.pledges, m.time))
           p == [m.pledges EXCEPT ![i].status = "lapsed"]
           e == [m EXCEPT !.pledges = p, !.lapsed = TRUE]
<1>1. /\ at[r] = "tidy" /\ pledges' = [pledges EXCEPT ![i] = p[i]] /\ resume(r, e)
      /\ UNCHANGED <<campaign, orders, calledOff, now>>
  BY DEF letGo, others, histories
<1> HIDE DEF i
<1>2. Shape(m) /\ Terms(m, campaign, now) /\ Agrees(m, orders) /\ Own(m) /\ AtStep(m, "tidy")
  BY <1>1, Mine
<1>3. p \in [Rows -> RowT] /\ Granted(p, campaign)
  <2>1. m.pledges \in [Rows -> RowT] /\ Granted(m.pledges, campaign)
    BY <1>2 DEF Shape, Terms
  <2> HIDE DEF m
  <2>2. p \in [Rows -> RowT]
    BY <2>1 DEF RowT
  <2>3. \A j \in Rows : p[j].offerDueAt = m.pledges[j].offerDueAt
    BY <2>1 DEF RowT
  <2> QED BY <2>1, <2>2, <2>3 DEF Granted
<1> HIDE DEF p
<1>4. pledges' \in [Rows -> RowT] /\ Granted(pledges', campaign)
  BY <1>1, <1>3 DEF IInv, PledgesInv, Granted
<1> HIDE DEF m
<1>5. /\ Shape(e) /\ e.op = m.op /\ e.base = m.base /\ e.next = m.next /\ e.pledges = p
      /\ e.orders = m.orders /\ e.time = m.time /\ e.who = m.who /\ e.log = m.log
  BY <1>2, <1>3 DEF Shape
<1> HIDE DEF e
<1>6. Terms(e, campaign, now)
  BY <1>2, <1>3, <1>5 DEF Terms
<1>7. Agrees(e, orders) /\ Own(e)
  BY <1>2, <1>5 DEF Agrees, Own
<1>8. e.next = e.base /\ e.time # 0 /\ e.base.filledAt <= e.time
  BY <1>2, <1>5 DEF AtStep, Terms, Good, IsCampaign, Shape
<1>9. \E s, w : goes(r, s, w) /\ Fits(w, s, campaign, orders, now)
  BY <1>1, <1>5, <1>6, <1>7, <1>8, Mine, ResumeFits
<1> QED BY <1>1, <1>4, <1>9, MovesOnly

\* An offer made at the time of a copy that goes ahead.
LEMMA OfferedTo ==
  ASSUME NEW m, NEW i, Shape(m), Granted(m.pledges, campaign), m.base.filledAt # 0, m.base.filledAt <= m.time,
         Sticks(campaign, m.base), m.base.filledAt \in Nat
  PROVE  offeredTo(m, i) \in [Rows -> RowT] /\ Granted(offeredTo(m, i), campaign)
<1> DEFINE t == m.time + Grace
           p == [m.pledges EXCEPT ![i].status = "held", ![i].offerDueAt = t]
<1>1. offeredTo(m, i) = p
  BY DEF offeredTo
<1>2. t \in Nat /\ campaign.filledAt # 0 /\ t >= campaign.filledAt + Grace
  BY BoundsAssumption DEF Shape, Sticks
<1>3. m.pledges \in [Rows -> RowT]
  BY DEF Shape
<1> HIDE DEF t
<1>4. p \in [Rows -> RowT] /\ \A j \in Rows : p[j].offerDueAt = t \/ p[j].offerDueAt = m.pledges[j].offerDueAt
  BY <1>2, <1>3 DEF RowT
<1> HIDE DEF p
<1>5. Granted(p, campaign)
  BY <1>2, <1>4 DEF Granted
<1> QED BY <1>1, <1>4, <1>5

LEMMA AdmitNextKeeps ==
  ASSUME IInv, NEW r \in Everyone, admitNext(r)
  PROVE  IInv'
<1> DEFINE m == mem[r]
           i == Min(offered(m.next, m.pledges, m.orders))
           p == offeredTo(m, i)
           e == [m EXCEPT !.pledges = p]
<1>1. /\ at[r] = "tidy" /\ pledges' = [pledges EXCEPT ![i] = p[i]] /\ resume(r, e)
      /\ UNCHANGED <<campaign, orders, calledOff, now>>
  BY DEF admitNext, others, histories
<1> HIDE DEF i
<1>2. Shape(m) /\ Terms(m, campaign, now) /\ Agrees(m, orders) /\ Own(m) /\ AtStep(m, "tidy")
  BY <1>1, Mine
<1>3. p \in [Rows -> RowT] /\ Granted(p, campaign)
  BY <1>2, OfferedTo DEF AtStep, Terms, Good, IsCampaign
<1> HIDE DEF p
<1>4. pledges' \in [Rows -> RowT] /\ Granted(pledges', campaign)
  BY <1>1, <1>3 DEF IInv, PledgesInv, Granted
<1> HIDE DEF m
<1>5. /\ Shape(e) /\ e.op = m.op /\ e.base = m.base /\ e.next = m.next /\ e.pledges = p
      /\ e.orders = m.orders /\ e.time = m.time /\ e.who = m.who /\ e.log = m.log
  BY <1>2, <1>3 DEF Shape
<1> HIDE DEF e
<1>6. Terms(e, campaign, now)
  BY <1>2, <1>3, <1>5 DEF Terms
<1>7. Agrees(e, orders) /\ Own(e)
  BY <1>2, <1>5 DEF Agrees, Own
<1>8. e.next = e.base /\ e.time # 0 /\ e.base.filledAt <= e.time
  BY <1>2, <1>5 DEF AtStep, Terms, Good, IsCampaign, Shape
<1>9. \E s, w : goes(r, s, w) /\ Fits(w, s, campaign, orders, now)
  BY <1>1, <1>5, <1>6, <1>7, <1>8, Mine, ResumeFits
<1> QED BY <1>1, <1>4, <1>9, MovesOnly

\* An order of the copy is called off, or the copy is refused.
LEMMA CallOffOrderKeeps ==
  ASSUME IInv, NEW r \in Everyone, callOffOrder(r)
  PROVE  IInv'
<1> DEFINE m == mem[r]
           e(b) == [m EXCEPT !.orders[b].status = "called_off"]
           off(b) == [status |-> "called_off", log |-> orders[b].log + 1]
<1>1. PICK b \in callable(m) :
        IF orders[b] = m.orders[b]
        THEN /\ orders' = [orders EXCEPT ![b] = off(b)]
             /\ calledOff' = [calledOff EXCEPT ![b] = calledOff[b] + 1]
             /\ goes(r, "settle", e(b))
        ELSE ends(r) /\ UNCHANGED <<orders, calledOff>>
  BY DEF callOffOrder
<1>2. b \in Buyers /\ m.orders[b].status = "placed"
  BY DEF callable
<1>3. UNCHANGED <<campaign, pledges, now>>
  BY DEF callOffOrder, others
<1>4. /\ orders \in [Buyers -> OrderT] /\ calledOff \in [Buyers -> Nat]
      /\ orders[b].log \in Nat /\ calledOff[b] \in Nat
  BY <1>2 DEF IInv, OrdersInv, OrderT
<1>5. Shape(m) /\ Terms(m, campaign, now) /\ Agrees(m, orders) /\ Own(m)
  BY Mine
<1>6. CASE orders[b] = m.orders[b]
  <2>1. orders[b].status = "placed"
    BY <1>2, <1>6
  <2>2. calledOff[b] = 0
    BY <1>2, <2>1 DEF IInv, OrdersInv, CalledOffOnce
  <2>3. off(b) \in OrderT
    BY <1>4 DEF OrderT
  <2>4. /\ orders' = [orders EXCEPT ![b] = off(b)]
        /\ calledOff' = [calledOff EXCEPT ![b] = calledOff[b] + 1]
        /\ goes(r, "settle", e(b))
    BY <1>1, <1>6
  <2>5. /\ off(b).status = "called_off" /\ off(b).log = orders[b].log + 1
    OBVIOUS
  <2> HIDE DEF off
  <2>6. OrdersInv'
    <3>1. orders' \in [Buyers -> OrderT] /\ calledOff' \in [Buyers -> Nat]
      <4>1. orders' \in [Buyers -> OrderT]
        BY <1>4, <2>3, <2>4
      <4>2. calledOff[b] + 1 \in Nat
        BY <1>4
      <4>3. calledOff' \in [Buyers -> Nat]
        BY <1>4, <2>4, <4>2
      <4> QED BY <4>1, <4>3
    <3>2. ASSUME NEW a \in Buyers
          PROVE  calledOff'[a] = IF orders'[a].status = "called_off" THEN 1 ELSE 0
      <4>1. CASE a = b
        BY <1>2, <1>4, <2>2, <2>4, <2>5, <4>1
      <4>2. CASE a # b
        BY <1>4, <2>4, <4>2 DEF IInv, OrdersInv, CalledOffOnce
      <4> QED BY <4>1, <4>2
    <3> QED BY <3>1, <3>2 DEF OrdersInv, CalledOffOnce
  <2>7. Later(orders', orders)
    <3>1. orders' \in [Buyers -> OrderT]
      BY <2>6 DEF OrdersInv
    <3>2. ASSUME NEW a \in Buyers PROVE Grown(orders'[a], orders[a])
      BY <1>4, <2>4, <2>5 DEF Grown, Over
    <3> QED BY <1>4, <3>1, <3>2 DEF Later
  <2>8. Fits(e(b), "settle", campaign, orders', now)
    <3>1. Fits(m, at[r], campaign, orders', now)
      <4>1. now' \in Nat /\ now <= now' /\ Sticks(campaign', campaign)
        BY <1>3, Mine, SelfSticks
      <4> QED BY <1>3, <2>7, <4>1, CopiesLater
    <3>2. m.orders \in [Buyers -> OrderT]
      BY <1>5 DEF Shape
    <3> DEFINE w == [m.orders EXCEPT ![b].status = "called_off"]
    <3>3. w \in [Buyers -> OrderT]
      BY <3>2 DEF OrderT
    <3>4. \A a \in Buyers : a # b => w[a].status = m.orders[a].status
      BY <3>2 DEF OrderT
    <3>5. e(b) = [m EXCEPT !.orders = w]
      OBVIOUS
    <3> HIDE DEF w, m, e
    <3>6. /\ Shape(e(b)) /\ e(b).op = m.op /\ e(b).who = m.who /\ e(b).base = m.base /\ e(b).next = m.next
          /\ e(b).pledges = m.pledges /\ e(b).orders = w /\ e(b).time = m.time /\ e(b).log = m.log
      BY <1>5, <3>3, <3>5 DEF Shape
    <3>7. Terms(e(b), campaign, now)
      BY <1>5, <3>6 DEF Terms
    <3>8. Agrees(e(b), orders')
      <4>1. Over(orders'[b])
        BY <1>2, <1>4, <2>4, <2>5 DEF Over
      <4>2. \A a \in Buyers : a # b => Over(w[a]) = Over(m.orders[a])
        BY <3>4 DEF Over
      <4> QED BY <3>1, <3>6, <4>1, <4>2 DEF Fits, Agrees
    <3>9. Own(e(b))
      BY <1>5, <3>6 DEF Own
    <3> QED BY <3>6, <3>7, <3>8, <3>9 DEF Fits, AtStep
  <2> QED BY <1>3, <2>4, <2>6, <2>7, <2>8, MovesOrders
<1>7. CASE orders[b] # m.orders[b]
  <2>1. ends(r) /\ stored /\ UNCHANGED <<calledOff, now>>
    BY <1>1, <1>3, <1>7 DEF stored
  <2> QED BY <2>1, Mine, Ends, MovesAlone
<1> QED BY <1>6, <1>7

LEMMA SaveKeeps ==
  ASSUME IInv, NEW r \in Everyone, save(r)
  PROVE  IInv'
<1> DEFINE m == mem[r]
           c == counted(m.next, m.pledges, m.orders)
           e == [m EXCEPT !.base = c]
<1>1. \/ finish(r, m) /\ UNCHANGED campaign
      \/ campaign = m.base /\ campaign' = c /\ finish(r, e)
      \/ ends(r) /\ UNCHANGED campaign
  BY DEF save
<1>2. UNCHANGED <<pledges, orders, calledOff, now>>
  BY DEF save, others, histories
<1>3. Shape(m) /\ Terms(m, campaign, now) /\ Agrees(m, orders) /\ Own(m)
  BY Mine
<1>4. Good(c, now) /\ Sticks(c, m.next)
  BY <1>3, Mine, Counted DEF Terms
<1> HIDE DEF c
<1>5. CASE finish(r, m) /\ UNCHANGED campaign
  <2>1. \E s, w : goes(r, s, w) /\ Fits(w, s, campaign, orders, now)
    BY <1>3, <1>5, Mine, FinishFits DEF Terms
  <2>2. stored
    BY <1>2, <1>5 DEF stored
  <2> QED BY <1>2, <2>1, <2>2, MovesAlone
<1>6. CASE campaign = m.base /\ campaign' = c /\ finish(r, e)
  <2>1. Sticks(campaign', campaign)
    BY <1>3, <1>4, <1>6, SticksOn DEF Terms
  <2> HIDE DEF m
  <2>2. /\ Shape(e) /\ e.op = m.op /\ e.who = m.who /\ e.base = c /\ e.next = m.next /\ e.pledges = m.pledges
        /\ e.orders = m.orders /\ e.time = m.time /\ e.log = m.log
    BY <1>3 DEF Shape
  <2> HIDE DEF e
  <2>3. Granted(m.pledges, campaign')
    BY <1>3, <2>1 DEF Terms, Granted, Sticks
  <2>4. Agrees(e, orders) /\ Own(e)
    BY <1>3, <2>2 DEF Agrees, Own
  <2>5. Good(e.base, now) /\ e.time <= now /\ Sticks(campaign', e.base) /\ Granted(e.pledges, campaign')
    BY <1>3, <1>4, <1>6, <2>2, <2>3, SelfSticks DEF Terms
  <2>6. \E s, w : goes(r, s, w) /\ Fits(w, s, campaign', orders, now)
    BY <1>6, <2>2, <2>4, <2>5, Mine, FinishFits
  <2> QED BY <1>2, <1>4, <1>6, <2>1, <2>6, MovesCampaign
<1>7. CASE ends(r) /\ UNCHANGED campaign
  <2>1. stored
    BY <1>2, <1>7 DEF stored
  <2> QED BY <1>2, <1>7, <2>1, Mine, Ends, MovesAlone
<1> QED BY <1>1, <1>5, <1>6, <1>7

LEMMA PledgeKeeps ==
  ASSUME IInv, NEW r \in Everyone, pledge(r)
  PROVE  IInv'
<1> DEFINE m == mem[r]
           e == [m EXCEPT !.pledges = pledges, !.orders = Drafts]
<1>1. /\ ends(r) \/ goes(r, "join", e)
      /\ stored /\ UNCHANGED <<calledOff, now>>
  BY DEF pledge, others, histories
<1>2. Shape(m) /\ Terms(m, campaign, now) /\ Agrees(m, orders) /\ Own(m) /\ now \in Nat /\ OrdersInv
  BY Mine
<1>3. CASE goes(r, "join", e)
  <2>1. pledges \in [Rows -> RowT] /\ Granted(pledges, campaign) /\ Drafts \in [Buyers -> OrderT]
    BY DraftsFit DEF IInv, PledgesInv
  <2> HIDE DEF m
  <2>2. /\ Shape(e) /\ e.op = m.op /\ e.who = m.who /\ e.base = m.base /\ e.next = m.next /\ e.pledges = pledges
        /\ e.orders = Drafts /\ e.time = m.time /\ e.log = m.log
    BY <1>2, <2>1 DEF Shape
  <2> HIDE DEF e
  <2>3. Terms(e, campaign, now)
    BY <1>2, <2>1, <2>2 DEF Terms
  <2>4. Agrees(e, orders)
    BY <1>2, <2>2, DraftsFit
  <2>5. Own(e)
    BY <1>2, <2>2 DEF Own
  <2>6. AtStep(e, "join")
    BY DEF AtStep
  <2>7. Fits(e, "join", campaign, orders, now)
    BY <2>2, <2>3, <2>4, <2>5, <2>6 DEF Fits
  <2> QED BY <1>1, <1>3, <2>7, MovesAlone
<1>4. CASE ends(r)
  BY <1>1, <1>2, <1>4, Ends, MovesAlone
<1> QED BY <1>1, <1>3, <1>4

\* A request starts over with a campaign c it has, for any x that has kept it.
LEMMA StartsOver ==
  ASSUME OrdersInv, NEW t \in Nat, NEW m, Shape(m), m.time <= t, NEW c, Good(c, t), NEW x, Sticks(x, c)
  PROVE  Fits(reconciles(m, c, "read"), "list", x, orders, t)
<1> DEFINE e == reconciles(m, c, "read")
<1>1. /\ Shape(e) /\ e.op = "read" /\ e.base = c /\ e.next = c /\ e.pledges = NoRows /\ e.orders = Drafts
      /\ e.time = m.time
  BY Reconciles
<1> HIDE DEF e
<1>2. Own(e)
  BY <1>1 DEF Own
<1>3. Fits(e, "list", x, orders, t)
  BY <1>1, <1>2, NewCopyFits
<1> QED BY <1>3 DEF e

LEMMA JoinKeeps ==
  ASSUME IInv, NEW r \in Everyone, join(r)
  PROVE  IInv'
<1> DEFINE m == mem[r]
           full == isGoingAhead(m.base)
           existing == IF full THEN queued(m.pledges, m.who) ELSE holding(m.pledges, m.who)
           unused == {i \in Rows : pledges[i].status = "none"}
           row == [status |-> IF full THEN "waiting" ELSE "held", userId |-> m.who, offerDueAt |-> 0]
           e == reconciles(NoCopy, m.base, "read")
           k == Min(existing)
           l == Min(unused)
<1>1. /\ \/ \E new \in {row, [row EXCEPT !.status = "left"]} : pledges' = [pledges EXCEPT ![k] = new]
         \/ pledges' = pledges
         \/ pledges' = [pledges EXCEPT ![l] = row]
      /\ goes(r, "list", e)
      /\ UNCHANGED <<campaign, orders, calledOff, now>>
  BY DEF join, others, histories
<1>2. Shape(m) /\ Terms(m, campaign, now) /\ now \in Nat /\ OrdersInv
  BY Mine
<1>3. Fits(e, "list", campaign, orders, now)
  <2>1. Shape(NoCopy) /\ NoCopy.time <= now
    BY <1>2, NoCopyIs
  <2>2. Good(m.base, now) /\ Sticks(campaign, m.base)
    BY <1>2 DEF Terms
  <2> QED BY <1>2, <2>1, <2>2, StartsOver
<1> HIDE DEF e, k, l
<1>4. /\ row \in RowT /\ row.offerDueAt = 0
      /\ [row EXCEPT !.status = "left"] \in RowT /\ [row EXCEPT !.status = "left"].offerDueAt = 0
  BY <1>2 DEF Shape, RowT
<1> DEFINE gone == [row EXCEPT !.status = "left"]
<1>5. \/ \E i, new : new \in RowT /\ new.offerDueAt = 0 /\ pledges' = [pledges EXCEPT ![i] = new]
      \/ pledges' = pledges
  <2> HIDE DEF row
  <2>1. pledges' = [pledges EXCEPT ![k] = row] \/ pledges' = [pledges EXCEPT ![k] = gone]
          \/ pledges' = pledges \/ pledges' = [pledges EXCEPT ![l] = row]
    BY <1>1
  <2>2. gone \in RowT /\ gone.offerDueAt = 0
    BY <1>4
  <2> HIDE DEF gone
  <2> QED BY <1>4, <2>1, <2>2
<1>6. pledges \in [Rows -> RowT] /\ Granted(pledges, campaign)
  BY DEF IInv, PledgesInv
<1>7. pledges' \in [Rows -> RowT] /\ Granted(pledges', campaign)
  <2>1. CASE pledges' = pledges
    BY <1>6, <2>1
  <2>2. ASSUME NEW i, NEW new \in RowT, new.offerDueAt = 0, pledges' = [pledges EXCEPT ![i] = new]
        PROVE  pledges' \in [Rows -> RowT] /\ Granted(pledges', campaign)
    <3>1. pledges' \in [Rows -> RowT]
      BY <1>6, <2>2
    <3>2. \A j \in Rows : pledges'[j] = new \/ pledges'[j] = pledges[j]
      BY <1>6, <2>2
    <3> QED BY <1>6, <2>2, <3>1, <3>2 DEF Granted
  <2> QED BY <1>5, <2>1, <2>2
<1> QED BY <1>1, <1>3, <1>7, MovesOnly

LEMMA RereadKeeps ==
  ASSUME IInv, NEW r \in Everyone, reread(r)
  PROVE  IInv'
<1> DEFINE e == reconciles(NoCopy, campaign, "read")
<1>1. goes(r, "list", e) /\ stored /\ UNCHANGED <<calledOff, now>>
  BY DEF reread, others, histories
<1>2. /\ Shape(e) /\ e.op = "read" /\ e.base = campaign /\ e.next = campaign /\ e.pledges = NoRows
      /\ e.orders = Drafts /\ e.time = 0
  BY NoCopyIs, Reconciles, Mine
<1> HIDE DEF e
<1>3. Own(e)
  BY <1>2 DEF Own
<1>4. 0 <= now /\ Sticks(campaign, campaign)
  BY Mine, SelfSticks
<1>5. Fits(e, "list", campaign, orders, now)
  BY <1>2, <1>3, <1>4, Mine, NewCopyFits
<1> QED BY <1>1, <1>5, MovesAlone

LEMMA PlaceKeeps ==
  ASSUME IInv, NEW r \in Everyone, place(r)
  PROVE  IInv'
<1> DEFINE m == mem[r]
           d == reconciles(m, Fresh, "place")
           e == [d EXCEPT !.who = m.who]
<1>1. /\ at[r] = "place" /\ (ends(r) \/ goes(r, "claim", e))
      /\ stored /\ UNCHANGED <<calledOff, now>>
  BY DEF place, others, histories
<1>2. Shape(m) /\ Own(m) /\ m.op = "place" /\ m.time <= now /\ now \in Nat /\ OrdersInv
  BY <1>1, Mine DEF AtStep, Terms
<1>3. CASE goes(r, "claim", e)
  <2>1. /\ Shape(d) /\ d.op = "place" /\ d.base = Fresh /\ d.next = Fresh /\ d.pledges = NoRows
        /\ d.orders = Drafts /\ d.time = m.time /\ d.log = m.log
    BY <1>2, Reconciles
  <2> HIDE DEF d, m
  <2>2. /\ Shape(e) /\ e.op = "place" /\ e.base = Fresh /\ e.next = Fresh /\ e.pledges = NoRows
        /\ e.orders = Drafts /\ e.time = m.time /\ e.log = m.log /\ e.who = m.who
    BY <1>2, <2>1 DEF Shape
  <2> HIDE DEF e
  <2>3. Own(e)
    BY <1>2, <2>2 DEF Own
  <2>4. Fits(e, "claim", campaign, orders, now)
    BY <1>2, <2>2, <2>3, FreshIsGood, FreshSticks, NewCopyFits
  <2> QED BY <1>1, <1>3, <2>4, MovesAlone
<1>4. CASE ends(r)
  BY <1>1, <1>2, <1>4, Ends, MovesAlone
<1> QED BY <1>1, <1>3, <1>4

\* An order is written that is not over.
LEMMA OrderLater ==
  ASSUME IInv, NEW b \in Buyers, NEW new \in OrderT, orders' = [orders EXCEPT ![b] = new], UNCHANGED calledOff,
         ~Over(new), ~Over(orders[b])
  PROVE  OrdersInv' /\ Later(orders', orders)
<1>1. orders \in [Buyers -> OrderT] /\ orders' \in [Buyers -> OrderT] /\ calledOff \in [Buyers -> Nat]
  BY DEF IInv, OrdersInv
<1>2. \A a \in Buyers : orders'[a] = IF a = b THEN new ELSE orders[a]
  BY <1>1
<1>3. ASSUME NEW a \in Buyers
      PROVE  /\ calledOff'[a] = IF orders'[a].status = "called_off" THEN 1 ELSE 0
             /\ Grown(orders'[a], orders[a])
  BY <1>2 DEF IInv, OrdersInv, CalledOffOnce, Grown, Over
<1> QED BY <1>1, <1>3 DEF OrdersInv, CalledOffOnce, Later

LEMMA WritesOwnKeeps ==
  ASSUME IInv, NEW r \in Everyone, NEW s \in {"take", "reread"}, NEW was \in {"draft", "placed"},
         writesOwn(r, was, s), mem[r].op = "place", UNCHANGED <<campaign, pledges, calledOff, now>>
  PROVE  IInv'
<1> DEFINE m == mem[r]
           b == m.who
           l == m.log + 1
           new == [status |-> "placed", log |-> l]
           e == [m EXCEPT !.log = l]
<1>1. IF orders[b] = [status |-> was, log |-> m.log]
      THEN orders' = [orders EXCEPT ![b] = new] /\ goes(r, s, e)
      ELSE ends(r) /\ UNCHANGED orders
  BY DEF writesOwn
<1>2. Shape(m) /\ Terms(m, campaign, now) /\ Own(m) /\ now \in Nat /\ OrdersInv
  BY Mine
<1>3. b \in Buyers /\ l \in Nat
  BY <1>2 DEF Own, Shape
<1>4. CASE orders[b] = [status |-> was, log |-> m.log]
  <2>1. new \in OrderT /\ ~Over(new) /\ ~Over(orders[b])
    BY <1>3, <1>4 DEF OrderT, Over
  <2>2. orders' = [orders EXCEPT ![b] = new] /\ goes(r, s, e)
    BY <1>1, <1>4
  <2> HIDE DEF new
  <2>3. OrdersInv' /\ Later(orders', orders)
    BY <1>3, <2>1, <2>2, OrderLater
  <2>4. now' \in Nat /\ now <= now' /\ Sticks(campaign', campaign)
    BY <1>2, SelfSticks
  <2>5. Fits(m, at[r], campaign, orders', now)
    BY <2>3, <2>4, CopiesLater
  <2> HIDE DEF l
  <2>6. /\ Shape(e) /\ e.op = m.op /\ e.who = m.who /\ e.base = m.base /\ e.next = m.next /\ e.pledges = m.pledges
        /\ e.orders = m.orders /\ e.time = m.time
    BY <1>2, <1>3 DEF Shape
  <2> HIDE DEF e
  <2>7. Own(e) /\ Terms(e, campaign, now) /\ Agrees(e, orders') /\ AtStep(e, s)
    BY <1>2, <2>5, <2>6 DEF Own, Terms, Fits, Agrees, AtStep
  <2>8. Fits(e, s, campaign, orders', now)
    BY <2>6, <2>7 DEF Fits
  <2> QED BY <2>2, <2>3, <2>8, MovesOrders
<1>5. CASE orders[b] # [status |-> was, log |-> m.log]
  <2>1. ends(r) /\ stored
    BY <1>1, <1>5 DEF stored
  <2> QED BY <1>2, <2>1, Ends, MovesAlone
<1> QED BY <1>4, <1>5

LEMMA ClaimKeeps == ASSUME IInv, NEW r \in Everyone, claim(r) PROVE IInv'
<1>1. /\ writesOwn(r, "draft", "take") /\ mem[r].op = "place" /\ UNCHANGED <<campaign, pledges, calledOff, now>>
  BY Mine DEF claim, others, histories, AtStep
<1> QED BY <1>1, WritesOwnKeeps

LEMMA StampKeeps == ASSUME IInv, NEW r \in Everyone, stamp(r) PROVE IInv'
<1>1. /\ writesOwn(r, "placed", "reread") /\ mem[r].op = "place" /\ UNCHANGED <<campaign, pledges, calledOff, now>>
  BY Mine DEF stamp, others, histories, AtStep
<1> QED BY <1>1, WritesOwnKeeps

\* The copy of a placement on its way from one step to the next.
LEMMA StillPlaces ==
  ASSUME IInv, NEW r \in Everyone, mem[r].op = "place", NEW s \in {"convert", "stamp"}
  PROVE  Fits(mem[r], s, campaign, orders, now)
<1>1. Fits(mem[r], at[r], campaign, orders, now)
  BY DEF IInv, CopiesInv
<1>2. AtStep(mem[r], s)
  BY DEF AtStep
<1> QED BY <1>1, <1>2 DEF Fits

LEMMA TakeStockKeeps ==
  ASSUME IInv, NEW r \in Everyone, takeStock(r)
  PROVE  IInv'
<1> DEFINE n == campaign.filledCount + Units[mem[r].who]
           c == [campaign EXCEPT !.filledCount = n]
<1>1. /\ campaign' = c /\ goes(r, "convert", mem[r]) /\ mem[r].op = "place"
      /\ UNCHANGED <<pledges, orders, calledOff, now>>
  BY Mine DEF takeStock, others, AtStep
<1> HIDE DEF n
<1>2. DOMAIN c = DOMAIN campaign /\ Same(c, campaign)
  BY Mine DEF Good, IsCampaign, Same
<1> HIDE DEF c
<1>3. Good(campaign', now) /\ Sticks(campaign', campaign)
  BY <1>1, <1>2, Mine, SameIsGood
<1>4. Fits(mem[r], "convert", campaign', orders, now)
  <2>1. Fits(mem[r], "convert", campaign, orders, now)
    BY <1>1, StillPlaces
  <2>2. IsCampaign(campaign) /\ Later(orders, orders) /\ now <= now
    BY Mine, SelfLater DEF Good
  <2> QED BY <1>3, <2>1, <2>2, Mine, FitsLater
<1> QED BY <1>1, <1>3, <1>4, MovesCampaign

LEMMA ConvertKeeps ==
  ASSUME IInv, NEW r \in Everyone, convert(r)
  PROVE  IInv'
<1> DEFINE own == {i \in mine(pledges, mem[r].who) : unbooked(pledges[i])}
           k == Min(own)
           p == [pledges EXCEPT ![k].status = "booked"]
<1>1. /\ pledges' = pledges \/ pledges' = p
      /\ goes(r, "stamp", mem[r]) /\ mem[r].op = "place"
      /\ UNCHANGED <<campaign, orders, calledOff, now>>
  BY Mine DEF convert, others, histories, AtStep
<1> HIDE DEF k
<1>2. pledges \in [Rows -> RowT] /\ Granted(pledges, campaign)
  BY DEF IInv, PledgesInv
<1>3. p \in [Rows -> RowT] /\ \A j \in Rows : p[j].offerDueAt = pledges[j].offerDueAt
  BY <1>2 DEF RowT
<1> HIDE DEF p
<1>4. pledges' \in [Rows -> RowT] /\ Granted(pledges', campaign)
  BY <1>1, <1>2, <1>3 DEF Granted
<1> QED BY <1>1, <1>4, StillPlaces, MovesOnly

\* A copy told what its seller decided.
LEMMA DecidedFits ==
  ASSUME NEW m, Shape(m), NEW c, NEW o, NEW t \in Nat \ {0}, Terms(m, c, t), Agrees(m, o), NEW e,
         Shape(e), e.op = "decided", e.base = m.base, Good(e.next, t), Sticks(e.next, m.base),
         e.pledges = m.pledges, e.orders = m.orders, e.time = t,
         NEW s, AtStep(e, s)
  PROVE  Fits(e, s, c, o, t)
<1>1. Terms(e, c, t)
  BY DEF Terms
<1>2. Agrees(e, o) /\ Own(e)
  BY DEF Agrees, Own
<1> QED BY <1>1, <1>2 DEF Fits

LEMMA DecideKeeps ==
  ASSUME IInv, NEW r \in Everyone, decide(r)
  PROVE  IInv'
<1> DEFINE m0 == mem[r]
           m == [m0 EXCEPT !.op = "decided", !.time = now]
           c == m0.base
           callIn == c.filledAt = 0 \/ c.pledgeDueAt = 0
           later(t) == [m EXCEPT !.next.cutoffAt = t, !.next.decisionDueAt = 0, !.next.lastCall = FALSE]
<1>1. Shape(m0) /\ Terms(m0, campaign, now) /\ Agrees(m0, orders) /\ AtStep(m0, "decide") /\ Good(c, now)
  BY Mine DEF decide, Terms
<1>2. now \in Nat \ {0} /\ now \in Nat /\ OrdersInv
  BY Mine
<1>3. stored /\ UNCHANGED <<calledOff, now>>
  BY DEF decide, others, histories
<1>4. \/ ends(r)
      \/ goes(r, "settle", [m EXCEPT !.next = goAheadShort(m.base, m.base.filledAt = 0 \/ m.base.pledgeDueAt = 0, now)])
      \/ goes(r, "settle", [m EXCEPT !.next = closeCampaign(m.base)])
      \/ \E t \in (now + 1)..Horizon : goes(r, "settle", later(t))
      \/ isGoingAhead(m.base) /\ goes(r, "admit", m)
      \/ goes(r, "dismiss", m)
  BY DEF decide
<1> HIDE DEF m0
<1>5. /\ Shape(m) /\ m.op = "decided" /\ m.base = c /\ m.next = c /\ m.pledges = m0.pledges /\ m.orders = m0.orders
      /\ m.time = now /\ m.who = m0.who /\ m.log = m0.log
  BY <1>1, <1>2 DEF Shape, AtStep
<1> HIDE DEF m
<1>6. ASSUME NEW d, Good(d, now), Sticks(d, c), goes(r, "settle", [m EXCEPT !.next = d])
      PROVE  IInv'
  <2> DEFINE e == [m EXCEPT !.next = d]
  <2>1. /\ Shape(e) /\ e.op = "decided" /\ e.base = c /\ e.next = d /\ e.pledges = m0.pledges
        /\ e.orders = m0.orders /\ e.time = now
    BY <1>5 DEF Shape
  <2>2. goes(r, "settle", e)
    BY <1>6
  <2> HIDE DEF e
  <2>3. AtStep(e, "settle")
    BY DEF AtStep
  <2>4. Fits(e, "settle", campaign, orders, now)
    BY <1>1, <1>2, <1>6, <2>1, <2>3, DecidedFits
  <2> QED BY <1>3, <2>2, <2>4, MovesAlone
<1>7. CASE ends(r)
  BY <1>2, <1>3, <1>7, Ends, MovesAlone
<1>8. CASE goes(r, "settle", [m EXCEPT !.next = goAheadShort(m.base, m.base.filledAt = 0 \/ m.base.pledgeDueAt = 0, now)])
  <2> DEFINE d == goAheadShort(c, callIn, now)
  <2>1. callIn \in BOOLEAN
    OBVIOUS
  <2>2. Good(d, now) /\ Sticks(d, c)
    <3> HIDE DEF callIn, c
    <3> QED BY <1>1, <1>2, <2>1, AheadShort
  <2>3. d = goAheadShort(m.base, m.base.filledAt = 0 \/ m.base.pledgeDueAt = 0, now)
    BY <1>5
  <2> HIDE DEF d
  <2>4. goes(r, "settle", [m EXCEPT !.next = d])
    BY <1>8, <2>3
  <2> QED BY <1>6, <2>2, <2>4
<1>9. CASE goes(r, "settle", [m EXCEPT !.next = closeCampaign(m.base)])
  <2> DEFINE d == closeCampaign(c)
  <2>1. Good(d, now) /\ Sticks(d, c)
    BY <1>1, <1>2, Closed
  <2>2. d = closeCampaign(m.base)
    BY <1>5
  <2> HIDE DEF d
  <2>3. goes(r, "settle", [m EXCEPT !.next = d])
    BY <1>9, <2>2
  <2> QED BY <1>6, <2>1, <2>3
<1>10. ASSUME NEW t \in (now + 1)..Horizon, goes(r, "settle", later(t))
       PROVE  IInv'
  <2> DEFINE d == [c EXCEPT !.cutoffAt = t, !.decisionDueAt = 0, !.lastCall = FALSE]
  <2>1. DOMAIN d = DOMAIN c /\ Same(d, c)
    BY <1>1 DEF Good, IsCampaign, Same
  <2>2. later(t) = [m EXCEPT !.next = d]
    BY <1>5 DEF Shape
  <2> HIDE DEF d, later
  <2>3. Good(d, now) /\ Sticks(d, c)
    BY <1>1, <1>2, <2>1, SameIsGood
  <2>4. goes(r, "settle", [m EXCEPT !.next = d])
    BY <1>10, <2>2
  <2> QED BY <1>6, <2>3, <2>4
<1>11. ASSUME NEW s \in {"admit", "dismiss"}, s = "admit" => isGoingAhead(m.base), goes(r, s, m)
       PROVE  IInv'
  <2>1. s = "admit" => m.base.filledAt # 0
    BY <1>1, <1>5, <1>11, AheadSince
  <2>2. AtStep(m, s)
    BY <1>1, <1>5, <1>11, <2>1 DEF AtStep, Good
  <2>3. Fits(m, s, campaign, orders, now)
    BY <1>1, <1>2, <1>5, <2>2, SelfSticks, DecidedFits
  <2> QED BY <1>3, <1>11, <2>3, MovesAlone
<1> HIDE DEF later
<1> QED BY <1>4, <1>7, <1>8, <1>9, <1>10, <1>11

LEMMA WaitlistDecidedKeeps ==
  ASSUME IInv, NEW r \in Everyone, waitlistDecided(r)
  PROVE  IInv'
<1> DEFINE m == mem[r]
           i == Min(waiting(m.pledges))
           p == IF at[r] = "admit" THEN offeredTo(m, i) ELSE [m.pledges EXCEPT ![i].status = "lapsed"]
           e == [m EXCEPT !.pledges = p]
<1>1. /\ at[r] \in {"admit", "dismiss"} /\ pledges' = [pledges EXCEPT ![i] = p[i]]
      /\ goes(r, at[r], e) \/ goes(r, "settle", e)
      /\ UNCHANGED <<campaign, orders, calledOff, now>>
  BY DEF waitlistDecided, others, histories
<1> HIDE DEF i
<1>2. Shape(m) /\ Terms(m, campaign, now) /\ Agrees(m, orders) /\ Own(m) /\ AtStep(m, at[r])
  BY Mine
<1>3. p \in [Rows -> RowT] /\ Granted(p, campaign)
  <2>1. m.pledges \in [Rows -> RowT] /\ Granted(m.pledges, campaign)
    BY <1>2 DEF Shape, Terms
  <2>2. CASE at[r] = "admit"
    <3>1. offeredTo(m, i) \in [Rows -> RowT] /\ Granted(offeredTo(m, i), campaign)
      BY <1>2, <2>2, OfferedTo DEF AtStep, Terms, Good, IsCampaign
    <3> QED BY <2>2, <3>1
  <2>3. CASE at[r] # "admit"
    <3> DEFINE q == [m.pledges EXCEPT ![i].status = "lapsed"]
    <3>1. q \in [Rows -> RowT] /\ \A j \in Rows : q[j].offerDueAt = m.pledges[j].offerDueAt
      BY <2>1 DEF RowT
    <3>2. p = q
      BY <2>3
    <3> HIDE DEF p, q
    <3> QED BY <2>1, <3>1, <3>2 DEF Granted
  <2> QED BY <2>2, <2>3
<1> HIDE DEF p
<1>4. pledges' \in [Rows -> RowT] /\ Granted(pledges', campaign)
  BY <1>1, <1>3 DEF IInv, PledgesInv, Granted
<1> HIDE DEF m
<1>5. /\ Shape(e) /\ e.op = m.op /\ e.base = m.base /\ e.next = m.next /\ e.pledges = p
      /\ e.orders = m.orders /\ e.time = m.time /\ e.who = m.who /\ e.log = m.log
  BY <1>2, <1>3 DEF Shape
<1> HIDE DEF e
<1>6. Terms(e, campaign, now) /\ Agrees(e, orders) /\ Own(e)
  BY <1>2, <1>3, <1>5 DEF Terms, Agrees, Own
<1>7. AtStep(e, at[r]) /\ AtStep(e, "settle")
  BY <1>1, <1>2, <1>5 DEF AtStep
<1>8. Fits(e, at[r], campaign, orders, now) /\ Fits(e, "settle", campaign, orders, now)
  BY <1>5, <1>6, <1>7 DEF Fits
<1> QED BY <1>1, <1>4, <1>8, MovesOnly

LEMMA EditKeeps ==
  ASSUME IInv, NEW r \in Everyone, edit(r)
  PROVE  IInv'
<1> DEFINE m == mem[r]
           c == m.base
           writes(new) ==
             IF campaign = c THEN campaign' = new /\ goes(r, "list", reconciles(m, new, "read"))
             ELSE ends(r) /\ UNCHANGED campaign
<1>1. /\ \/ ends(r) /\ UNCHANGED campaign
         \/ \E t \in Thresholds : writes([c EXCEPT !.threshold = t])
         \/ \E t \in (now + 1)..Horizon : writes([c EXCEPT !.cutoffAt = t, !.lastCall = FALSE, !.decisionDueAt = 0])
         \/ \E rule \in Rules : writes([c EXCEPT !.whenShort = rule[1], !.whenFull = rule[2]])
      /\ UNCHANGED <<pledges, orders, calledOff, now>>
  BY DEF edit, others, histories
<1>2. Shape(m) /\ Good(c, now) /\ m.time <= now /\ now \in Nat /\ OrdersInv
  BY Mine DEF Terms
<1>3. CASE ends(r) /\ UNCHANGED campaign
  <2>1. stored
    BY <1>1, <1>3 DEF stored
  <2> QED BY <1>1, <1>2, <1>3, <2>1, Ends, MovesAlone
<1>4. ASSUME NEW new, DOMAIN new = DOMAIN c, Same(new, c), writes(new)
      PROVE  IInv'
  <2>1. CASE campaign = c
    <3>1. Good(new, now) /\ Sticks(new, c)
      <4> HIDE DEF c
      <4> QED BY <1>2, <1>4, SameIsGood
    <3>2. campaign' = new /\ goes(r, "list", reconciles(m, new, "read"))
      BY <1>4, <2>1
    <3>3. Fits(reconciles(m, new, "read"), "list", campaign', orders, now)
      BY <1>2, <3>1, <3>2, SelfSticks, StartsOver
    <3>4. Good(campaign', now) /\ Sticks(campaign', campaign)
      BY <2>1, <3>1, <3>2
    <3> HIDE DEF m
    <3> QED BY <1>1, <3>2, <3>3, <3>4, MovesCampaign
  <2>2. CASE campaign # c
    <3>1. ends(r) /\ UNCHANGED campaign
      BY <1>4, <2>2
    <3> QED BY <1>3, <3>1
  <2> QED BY <2>1, <2>2
<1> HIDE DEF writes
<1>5. ASSUME NEW t \in Thresholds, writes([c EXCEPT !.threshold = t]) PROVE IInv'
  <2> DEFINE d == [c EXCEPT !.threshold = t]
  <2>1. DOMAIN d = DOMAIN c /\ Same(d, c) /\ writes(d)
    BY <1>2, <1>5 DEF Good, IsCampaign, Same
  <2> HIDE DEF d
  <2> QED BY <1>4, <2>1
<1>6. ASSUME NEW t \in (now + 1)..Horizon, writes([c EXCEPT !.cutoffAt = t, !.lastCall = FALSE, !.decisionDueAt = 0])
      PROVE  IInv'
  <2> DEFINE d == [c EXCEPT !.cutoffAt = t, !.lastCall = FALSE, !.decisionDueAt = 0]
  <2>1. DOMAIN d = DOMAIN c /\ Same(d, c) /\ writes(d)
    BY <1>2, <1>6 DEF Good, IsCampaign, Same
  <2> HIDE DEF d
  <2> QED BY <1>4, <2>1
<1>7. ASSUME NEW rule \in Rules, writes([c EXCEPT !.whenShort = rule[1], !.whenFull = rule[2]]) PROVE IInv'
  <2> DEFINE d == [c EXCEPT !.whenShort = rule[1], !.whenFull = rule[2]]
  <2>1. DOMAIN d = DOMAIN c /\ Same(d, c) /\ writes(d)
    BY <1>2, <1>7 DEF Good, IsCampaign, Same
  <2> HIDE DEF d
  <2> QED BY <1>4, <2>1
<1> QED BY <1>1, <1>3, <1>5, <1>6, <1>7

LEMMA DieKeeps ==
  ASSUME IInv, NEW r \in Everyone, die(r)
  PROVE  IInv'
<1>1. ends(r) /\ stored /\ UNCHANGED <<calledOff, now>>
  BY DEF die, histories
<1> QED BY <1>1, Mine, Ends, MovesAlone

\* No request moves.
LEMMA Unmoved ==
  ASSUME IInv, UNCHANGED <<campaign, pledges, at, mem>>, OrdersInv', Later(orders', orders),
         now' \in Nat \ {0}, now <= now'
  PROVE  IInv'
<1>1. CampaignInv'
  BY DEF IInv, CampaignInv, Good, IsCampaign
<1>2. PledgesInv'
  BY DEF IInv, PledgesInv
<1>3. CopiesInv'
  <2>1. now' \in Nat /\ Sticks(campaign', campaign)
    BY SelfSticks
  <2>2. \A r \in Everyone : Fits(mem[r], at[r], campaign', orders', now')
    BY <2>1, CopiesLater
  <2> QED BY <2>2 DEF IInv, CopiesInv
<1> QED BY <1>1, <1>2, <1>3 DEF IInv

\* A parcel leaves, or has not.
LEMMA ShipKeeps ==
  ASSUME IInv, NEW b \in Buyers, ship(b) \/ unship(b)
  PROVE  IInv'
<1>1. orders \in [Buyers -> OrderT] /\ orders[b].log \in Nat
  BY DEF IInv, OrdersInv, OrderT
<1>2. PICK new \in OrderT : ~Over(new) /\ orders' = [orders EXCEPT ![b] = new]
  <2>1. CASE ship(b)
    <3> DEFINE new == [orders[b] EXCEPT !.status = "shipped"]
    <3>1. new \in OrderT /\ ~Over(new)
      BY <1>1 DEF OrderT, Over
    <3>2. orders' = [orders EXCEPT ![b] = new]
      BY <2>1 DEF ship
    <3> QED BY <3>1, <3>2
  <2>2. CASE unship(b)
    <3>1. PICK l \in {orders[b].log, orders[b].log + 1} :
            orders' = [orders EXCEPT ![b] = [status |-> "placed", log |-> l]]
      BY <2>2 DEF unship
    <3>2. l \in Nat
      BY <1>1
    <3>3. [status |-> "placed", log |-> l] \in OrderT /\ ~Over([status |-> "placed", log |-> l])
      BY <3>2 DEF OrderT, Over
    <3> QED BY <3>1, <3>3
  <2> QED BY <2>1, <2>2
<1>3. ~Over(orders[b]) /\ UNCHANGED <<campaign, pledges, at, mem, calledOff, now>>
  BY DEF ship, unship, others, histories, Over
<1>4. OrdersInv' /\ Later(orders', orders)
  BY <1>2, <1>3, OrderLater
<1>5. now' \in Nat \ {0} /\ now <= now'
  BY <1>3 DEF IInv, CampaignInv
<1> QED BY <1>3, <1>4, <1>5, Unmoved

LEMMA TickKeeps ==
  ASSUME IInv, tick
  PROVE  IInv'
<1>1. UNCHANGED <<campaign, pledges, at, mem, orders, calledOff>> /\ now' = now + 1
  BY DEF tick
<1>2. OrdersInv'
  BY <1>1 DEF IInv, OrdersInv, CalledOffOnce
<1>3. Later(orders', orders)
  BY <1>1, SelfLater DEF IInv
<1>4. now' \in Nat \ {0} /\ now <= now'
  BY <1>1 DEF IInv, CampaignInv
<1> QED BY <1>1, <1>2, <1>3, <1>4, Unmoved

LEMMA StutterKeeps ==
  ASSUME IInv, UNCHANGED vars
  PROVE  IInv'
<1>1. UNCHANGED <<campaign, pledges, at, mem, orders, calledOff, now>>
  BY DEF vars
<1>2. OrdersInv'
  BY <1>1 DEF IInv, OrdersInv, CalledOffOnce
<1>3. Later(orders', orders)
  BY <1>1, SelfLater DEF IInv
<1>4. now' \in Nat \ {0} /\ now <= now'
  BY <1>1 DEF IInv, CampaignInv
<1> QED BY <1>1, <1>2, <1>3, <1>4, Unmoved

-----------------------------------------------------------------------------
LEMMA InitInv == Init => IInv
<1> SUFFICES ASSUME Init PROVE IInv
  OBVIOUS
<1>1. now = 1 /\ at = [r \in Everyone |-> "idle"] /\ mem = [r \in Everyone |-> NoCopy]
      /\ calledOff = [b \in Buyers |-> 0]
  BY DEF Init
<1>2. pledges \in [Rows -> RowT] /\ \A i \in Rows : pledges[i].offerDueAt = 0
  <2>1. pledges \in [Rows -> [status : {"none", "held", "waiting"}, userId : Buyers, offerDueAt : {0}]]
    BY DEF Init, Joined
  <2> QED BY <2>1 DEF RowT
<1>3. OrdersInv
  <2>1. PICK B : orders = [b \in Buyers |-> IF b \in B THEN [status |-> "placed", log |-> 2] ELSE Drafts[b]]
    BY DEF Init
  <2>2. ASSUME NEW b \in Buyers
        PROVE  /\ orders[b] \in OrderT
               /\ orders[b].status # "called_off"
    <3>1. CASE b \in B
      BY <2>1, <3>1 DEF OrderT
    <3>2. CASE b \notin B
      BY <2>1, <3>2 DEF OrderT, Drafts
    <3> QED BY <3>1, <3>2
  <2>3. orders \in [Buyers -> OrderT]
    BY <2>1, <2>2
  <2> QED BY <1>1, <2>2, <2>3 DEF OrdersInv, CalledOffOnce
<1>4. Good(campaign, 1)
  <2> DEFINE c(t, rule) == [Fresh EXCEPT !.threshold = t, !.whenShort = rule[1], !.whenFull = rule[2], !.cutoffAt = 2]
             f(t, rule) == [c(t, rule) EXCEPT !.filledAt = 1, !.pledgeDueAt = 1 + Grace]
  <2>1. PICK t \in Thresholds, rule \in Rules :
          \/ campaign = counted(f(t, rule), pledges, orders)
          \/ campaign = counted(c(t, rule), pledges, orders)
    BY DEF Init
  <2> DEFINE d == c(t, rule)
             e == f(t, rule)
  <2>2. /\ DOMAIN d = DOMAIN Fresh /\ Same(d, Fresh)
    BY DEF Fresh, Same
  <2>3. Good(d, 1)
    <3> HIDE DEF d
    <3> QED BY <2>2, FreshIsGood, SameIsGood
  <2>4. Good(e, 1)
    <3> DEFINE g == 1 + Grace
    <3>1. g \in Nat /\ g >= 1 + Grace
      BY BoundsAssumption
    <3>2. e = [d EXCEPT !.filledAt = 1, !.pledgeDueAt = g]
      OBVIOUS
    <3> HIDE DEF d, e, g
    <3>3. DOMAIN e = DOMAIN d /\ e.filledAt = 1 /\ e.pledgeDueAt = g /\ e.closed = d.closed
          /\ e.proceededShort = d.proceededShort
      BY <2>3, <3>2 DEF Good, IsCampaign
    <3> QED BY <2>3, <3>1, <3>3 DEF Good, IsCampaign
  <2>5. campaign = counted(e, pledges, orders) \/ campaign = counted(d, pledges, orders)
    BY <2>1
  <2> HIDE DEF d, e
  <2> QED BY <2>3, <2>4, <2>5, Counted
<1>5. CampaignInv /\ PledgesInv
  BY <1>1, <1>2, <1>4 DEF CampaignInv, PledgesInv, Granted
<1>6. CopiesInv
  <2>1. Fits(NoCopy, "idle", campaign, orders, 1)
    BY <1>3, NoCopyFits
  <2> QED BY <1>1, <2>1 DEF CopiesInv
<1> QED BY <1>3, <1>5, <1>6 DEF IInv

LEMMA NextInv == IInv /\ [Next]_vars => IInv'
<1> SUFFICES ASSUME IInv, [Next]_vars PROVE IInv'
  OBVIOUS
<1>1. CASE \E r \in Requests : request(r)
  BY <1>1, BeginKeeps DEF request, Everyone
<1>2. CASE reader
  BY <1>2, BeginKeeps DEF reader, Everyone
<1>3. ASSUME NEW r \in Everyone, step(r) PROVE IInv'
  BY <1>3, ListRowsKeeps, LetGoKeeps, AdmitNextKeeps, CallOffOrderKeeps, SaveKeeps, PledgeKeeps, JoinKeeps,
     DecideKeeps, WaitlistDecidedKeeps, EditKeeps, PlaceKeeps, ClaimKeeps, TakeStockKeeps, ConvertKeeps,
     StampKeeps, RereadKeeps
     DEF step
<1>4. ASSUME NEW r \in Everyone, die(r) PROVE IInv'
  BY <1>4, DieKeeps
<1>5. ASSUME NEW b \in Buyers, ship(b) \/ unship(b) PROVE IInv'
  BY <1>5, ShipKeeps
<1>6. CASE tick
  BY <1>6, TickKeeps
<1>7. CASE UNCHANGED vars
  BY <1>7, StutterKeeps
<1> QED BY <1>1, <1>2, <1>3, <1>4, <1>5, <1>6, <1>7 DEF Next

\* The three writers of the campaign write one that is over if it was.
LEMMA Onward == ASSUME IInv, [Next]_vars PROVE Sticks(campaign', campaign)
<1>1. ASSUME NEW r \in Everyone, save(r) PROVE Sticks(campaign', campaign)
  <2>1. \/ campaign' = campaign
        \/ campaign = mem[r].base /\ campaign' = counted(mem[r].next, mem[r].pledges, mem[r].orders)
    BY <1>1 DEF save
  <2>2. Good(mem[r].next, now) /\ Sticks(mem[r].next, mem[r].base) /\ now \in Nat
    BY Mine DEF Terms
  <2>3. Sticks(counted(mem[r].next, mem[r].pledges, mem[r].orders), mem[r].next)
    BY <2>2, Counted
  <2> QED BY <2>1, <2>2, <2>3, SelfSticks, SticksOn
<1>2. ASSUME NEW r \in Everyone, edit(r) PROVE Sticks(campaign', campaign)
  <2>1. \/ campaign' = campaign
        \/ \E t : campaign' = [campaign EXCEPT !.threshold = t]
        \/ \E t : campaign' = [campaign EXCEPT !.cutoffAt = t, !.lastCall = FALSE, !.decisionDueAt = 0]
        \/ \E x, y : campaign' = [campaign EXCEPT !.whenShort = x, !.whenFull = y]
    BY <1>2 DEF edit
  <2> QED BY <2>1, Mine DEF Good, IsCampaign, Sticks
<1>3. ASSUME NEW r \in Everyone, takeStock(r) PROVE Sticks(campaign', campaign)
  <2> DEFINE n == campaign.filledCount + Units[mem[r].who]
  <2>1. campaign' = [campaign EXCEPT !.filledCount = n]
    BY <1>3 DEF takeStock
  <2> HIDE DEF n
  <2> QED BY <2>1, Mine DEF Good, IsCampaign, Sticks
<1>4. ASSUME NEW r \in Everyone, step(r), ~save(r), ~edit(r), ~takeStock(r) PROVE UNCHANGED campaign
  BY <1>4 DEF step, listRows, letGo, admitNext, callOffOrder, pledge, join, place, claim, convert, stamp, reread,
              decide, waitlistDecided, stored
<1>5. ASSUME NEW r \in Everyone, NEW op, begin(r, op) PROVE UNCHANGED campaign
  BY <1>5 DEF begin, stored
<1>6. CASE \E r \in Requests : request(r)
  BY <1>5, <1>6, SelfSticks DEF request, Everyone
<1>7. CASE reader
  BY <1>5, <1>7, SelfSticks DEF reader, Everyone
<1>8. ASSUME NEW r \in Everyone, step(r) PROVE Sticks(campaign', campaign)
  BY <1>1, <1>2, <1>3, <1>4, <1>8, SelfSticks
<1>9. CASE \/ \E r \in Everyone : die(r)
           \/ \E b \in Buyers : ship(b) \/ unship(b)
           \/ tick \/ UNCHANGED vars
  BY <1>9, SelfSticks DEF die, ship, unship, tick, vars, stored
<1> QED BY <1>6, <1>7, <1>8, <1>9 DEF Next

LEMMA AlwaysInv == Spec => []IInv
BY InitInv, NextInv, PTL DEF Spec

\* A booking is called off once, and not while its parcel is on its way: whoever
\* calls it off has the order as it is (closeCampaign, the order's history).
THEOREM CallsOffOnce == Spec => []CalledOffOnce
<1>1. IInv => CalledOffOnce
  BY DEF IInv, OrdersInv
<1> QED BY <1>1, AlwaysInv, PTL

\* No copy brings a campaign back, or moves the day it went ahead (save).
THEOREM StaysOver == Spec => OverIsOver
<1> DEFINE Kept == /\ campaign.closed => campaign'.closed
                   /\ campaign.filledAt # 0 => campaign'.filledAt = campaign.filledAt
<1>1. IInv /\ [Next]_vars => [Kept]_vars
  <2> SUFFICES ASSUME IInv, [Next]_vars PROVE [Kept]_vars
    OBVIOUS
  <2> QED BY Onward DEF Sticks
<1> QED BY <1>1, AlwaysInv, PTL DEF Spec, OverIsOver

\* A campaign is closed over nobody it read as booked and not shipped: they have
\* been called off by the time its close is saved, and an order called off is not
\* made a booking again by the placement that is still writing it, or by a
\* dispatch undone (closeCampaign, the order's history).
THEOREM ClosesOverNobodyItRead == Spec => CloseCallsOffWhatItRead
<1>1. ASSUME IInv, NEW r \in Everyone, save(r), campaign'.closed, ~campaign.closed,
             NEW b \in Buyers, mem[r].orders[b].status \in {"placed", "called_off"}
      PROVE  orders[b].status = "called_off"
  <2> DEFINE m == mem[r]
  <2>1. Shape(m) /\ Terms(m, campaign, now) /\ Agrees(m, orders) /\ now \in Nat
    BY <1>1, Mine
  <2>2. campaign = m.base /\ campaign' = counted(m.next, m.pledges, m.orders) /\ callable(m) = {}
    BY <1>1 DEF save
  <2>3. m.next.closed
    BY <1>1, <2>2 DEF counted, Terms, Good, IsCampaign
  <2>4. m.orders[b].status # "placed"
    BY <1>1, <2>2, <2>3 DEF callable
  <2> QED BY <1>1, <2>1, <2>4 DEF Agrees, Over
<1>2. IInv /\ [Next]_vars =>
        [\A r \in Everyone : save(r) /\ campaign'.closed /\ ~campaign.closed =>
           \A b \in Buyers : mem[r].orders[b].status \in {"placed", "called_off"} =>
             orders[b].status = "called_off"]_vars
  BY <1>1
<1> QED BY <1>2, AlwaysInv, PTL DEF Spec, CloseCallsOffWhatItRead

\* A place is let go a grace after the campaign went ahead, or later, though the
\* reconcile that does it read the campaign, the rows and the time at different
\* moments (reconcilePreOrder).
THEOREM GraceIsGiven == Spec => LetGoAfterGrace
<1>1. ASSUME IInv, NEW r \in Everyone, letGo(r)
      PROVE  campaign.filledAt # 0 /\ now >= campaign.filledAt + Grace
  <2> DEFINE m == mem[r]
  <2>1. Shape(m) /\ Terms(m, campaign, now) /\ AtStep(m, "tidy") /\ now \in Nat
    BY <1>1, Mine DEF letGo
  <2>2. m.next = m.base /\ m.base.filledAt # 0 /\ campaign.filledAt = m.base.filledAt
    BY <2>1 DEF AtStep, Terms, Sticks
  <2>3. PICK i \in Rows :
          LET due == IF m.pledges[i].offerDueAt # 0 THEN m.pledges[i].offerDueAt ELSE m.next.pledgeDueAt
          IN  due # 0 /\ due <= m.time
    BY <1>1 DEF letGo, overdue, live
  <2>4. m.next.pledgeDueAt # 0 => m.next.pledgeDueAt >= campaign.filledAt + Grace
    BY <2>1, <2>2 DEF Terms, Good
  <2>5. m.pledges[i].offerDueAt # 0 => m.pledges[i].offerDueAt >= campaign.filledAt + Grace
    BY <2>1 DEF Terms, Granted
  <2>6. /\ m.pledges[i].offerDueAt \in Nat /\ m.next.pledgeDueAt \in Nat /\ m.time \in Nat /\ m.time <= now
        /\ campaign.filledAt \in Nat /\ Grace \in Nat
    BY <2>1, <2>2, BoundsAssumption DEF Shape, RowT, Terms, Good, IsCampaign
  <2> HIDE DEF m
  <2> QED BY <2>1, <2>2, <2>3, <2>4, <2>5, <2>6
<1>2. IInv /\ [Next]_vars =>
        [\A r \in Everyone : letGo(r) => campaign.filledAt # 0 /\ now >= campaign.filledAt + Grace]_vars
  BY <1>1
<1> QED BY <1>2, AlwaysInv, PTL DEF Spec, LetGoAfterGrace

-----------------------------------------------------------------------------
(* Types.                                                                  *)

\* Whoever pledges or buys, and whatever is asked for: there is somebody and something.
Inhabited == Buyers # {} /\ Thresholds # {}

\* The history of an order there is something to write to.
Numbered == \A b \in Buyers : orders[b].status \in {"placed", "shipped"} => orders[b].log \in 1..MaxLog

Typed(m) ==
  /\ m.base \in Campaign /\ m.next \in Campaign
  /\ m.pledges \in [Rows -> Row] /\ m.who \in Buyers
  /\ m.time \in 0..Horizon

\* What a placement knows the history of its order by.
Knows(m, s) ==
  m.op = "place" =>
    /\ s \in {"list", "tidy", "settle", "place", "claim"} => m.log = 0
    /\ s \in {"take", "convert", "stamp"} => m.log = 1
    /\ s \notin {"admit", "dismiss"}

StoreTyped == Inhabited /\ TypeOK /\ Numbered
CopiesTyped == \A r \in Everyone : Typed(mem[r]) /\ Knows(mem[r], at[r])
TInv == StoreTyped /\ CopiesTyped

LEMMA TimesFacts ==
  /\ Horizon \in Nat \ {0} /\ Horizon >= 2 /\ Grace \in Nat \ {0} /\ DecisionTime \in Nat \ {0} /\ MaxPledges \in Nat \ {0}
  /\ \A t \in 0..Horizon : t \in Times /\ t + Grace \in Times /\ t + DecisionTime \in Times
  /\ 0 \in Times /\ 1 + Grace \in Times /\ Times \subseteq Nat
<1>1. /\ Horizon \in Nat \ {0} /\ Horizon >= 2 /\ Grace \in Nat \ {0} /\ DecisionTime \in Nat \ {0}
      /\ MaxPledges \in Nat \ {0}
  BY BoundsAssumption
<1> QED BY <1>1 DEF Times

LEMMA LeastThreshold == ASSUME Inhabited PROVE Min(Thresholds) \in Thresholds
<1>1. \E x \in Thresholds : \A y \in Thresholds : x =< y
  BY TermsAssumption, LeastOf DEF Inhabited
<1> QED BY <1>1 DEF Min

LEMMA FreshTyped == ASSUME Inhabited PROVE Fresh \in Campaign
<1> DEFINE k == Min(Thresholds)
<1>1. k \in Thresholds /\ 1 \in 1..Horizon /\ 0 \in Times
  BY LeastThreshold, TimesFacts
<1>2. Fresh = [threshold |-> k, cutoffAt |-> 1, whenShort |-> "cancel", whenFull |-> "close",
          filledAt |-> 0, proceededShort |-> FALSE, decisionDueAt |-> 0, closed |-> FALSE,
          pledgeDueAt |-> 0, lastCall |-> FALSE, filledCount |-> 0, pledgedCount |-> 0, waitlistCount |-> 0]
  BY DEF Fresh
<1> HIDE DEF k
<1> QED BY <1>1, <1>2 DEF Campaign, Counts

\* The counts of a campaign are numbers.
LEMMA UnitsAreNat ==
  ASSUME NEW p \in [Rows -> Row], NEW S, S \subseteq Rows
  PROVE  unitsOf(p, S) \in Nat
<1> DEFINE f == [i \in Rows |-> Units[p[i].userId]]
<1>1. IsFiniteSet(S)
  <2>1. IsFiniteSet(Rows)
    BY TimesFacts, FS_Interval DEF Rows
  <2> QED BY <2>1, FS_Subset
<1>2. \A i \in S : f[i] \in Nat
  BY UnitsAssumption DEF Row
<1> HIDE DEF f
<1>3. SumFunctionOnSet(f, S) \in Nat
  BY <1>1, <1>2, SumNat
<1> QED BY <1>3 DEF unitsOf, f

LEMMA FilledIsNat == ASSUME NEW o PROVE filledCount(o) \in Nat
<1> DEFINE S == {b \in Buyers : o[b].status \in {"placed", "shipped"}}
<1>1. IsFiniteSet(S)
  BY UnitsAssumption, FS_Subset
<1>2. \A b \in S : Units[b] \in Nat
  BY UnitsAssumption
<1> HIDE DEF S
<1>3. SumFunctionOnSet(Units, S) \in Nat
  BY <1>1, <1>2, SumNat
<1> QED BY <1>3 DEF filledCount, S

LEMMA CountedTyped ==
  ASSUME NEW c \in Campaign, NEW p \in [Rows -> Row], NEW o
  PROVE  counted(c, p, o) \in Campaign
<1> DEFINE a == filledCount(o)
           b == unitsOf(p, live(p))
           d == unitsOf(p, waiting(p))
<1>1. a \in Nat /\ b \in Nat /\ d \in Nat
  BY FilledIsNat, UnitsAreNat DEF live, waiting
<1>2. counted(c, p, o) = [c EXCEPT !.filledCount = a, !.pledgedCount = b, !.waitlistCount = d]
  BY DEF counted
<1> HIDE DEF a, b, d
<1> QED BY <1>1, <1>2 DEF Campaign, Counts

LEMMA ClosedTyped == ASSUME NEW c \in Campaign PROVE closeCampaign(c) \in Campaign
BY TimesFacts DEF closeCampaign, Campaign

LEMMA AheadTyped ==
  ASSUME NEW c \in Campaign, NEW callIn, NEW t \in 0..Horizon
  PROVE  goAheadShort(c, callIn, t) \in Campaign
<1> DEFINE f == IF c.filledAt = 0 THEN t ELSE c.filledAt
           g == IF callIn THEN t + Grace ELSE c.pledgeDueAt
<1>1. f \in Times /\ g \in Times /\ 0 \in Times
  BY TimesFacts DEF Campaign
<1>2. goAheadShort(c, callIn, t)
        = [c EXCEPT !.proceededShort = TRUE, !.decisionDueAt = 0, !.filledAt = f, !.pledgeDueAt = g]
  BY DEF goAheadShort
<1> HIDE DEF f, g
<1> QED BY <1>1, <1>2 DEF Campaign

LEMMA ShortTyped ==
  ASSUME NEW c \in Campaign, NEW n, NEW callIn, NEW t \in 0..Horizon
  PROVE  whenShort(c, n, callIn, t) \in Campaign
<1> DEFINE d == t + DecisionTime
<1>1. [c EXCEPT !.decisionDueAt = d] \in Campaign
  <2>1. d \in Times
    BY TimesFacts
  <2> HIDE DEF d
  <2> QED BY <2>1 DEF Campaign
<1>2. \/ whenShort(c, n, callIn, t) = closeCampaign(c)
      \/ whenShort(c, n, callIn, t) = goAheadShort(c, callIn, t)
      \/ whenShort(c, n, callIn, t) = [c EXCEPT !.decisionDueAt = d]
  BY DEF whenShort
<1> HIDE DEF d
<1> QED BY <1>1, <1>2, ClosedTyped, AheadTyped

LEMMA OutcomeTyped ==
  ASSUME NEW c \in Campaign, NEW n, NEW lapsed, NEW t \in 0..Horizon
  PROVE  outcome(c, n, t, lapsed) \in Campaign
<1> DEFINE c1 == lastCall(c, n, t)
           c2 == fills(c1, n, t)
           c3 == atCutoff(c2, n, t)
           c4 == afterLapse(c3, n, t, lapsed)
           c5 == unanswered(c4, t)
<1>1. c1 \in Campaign
  BY DEF lastCall, Campaign
<1> HIDE DEF c1
<1>2. c2 \in Campaign
  <2> DEFINE g == t + Grace
  <2>1. t \in Times /\ g \in Times /\ 0 \in Times
    BY TimesFacts
  <2>2. c2 = c1 \/ c2 = [c1 EXCEPT !.filledAt = t, !.decisionDueAt = 0, !.pledgeDueAt = g]
    BY DEF fills
  <2> HIDE DEF c2, g
  <2> QED BY <1>1, <2>1, <2>2 DEF Campaign
<1> HIDE DEF c2
<1>3. c3 \in Campaign
  BY <1>2, ShortTyped DEF atCutoff
<1> HIDE DEF c3
<1>4. c4 \in Campaign
  BY <1>3, ShortTyped DEF afterLapse
<1> HIDE DEF c4
<1>5. c5 \in Campaign
  BY <1>4, ClosedTyped DEF unanswered
<1> QED BY <1>5 DEF outcome, c1, c2, c3, c4

LEMMA NoRowTyped == ASSUME Inhabited PROVE NoRow \in Row /\ NoRows \in [Rows -> Row] /\ NoRow.userId \in Buyers
<1>1. NoRow.userId \in Buyers
  BY DEF NoRow, Inhabited
<1>2. NoRow \in Row
  BY <1>1, TimesFacts DEF NoRow, Row
<1> QED BY <1>1, <1>2 DEF NoRows

LEMMA NoCopyTyped == ASSUME Inhabited, OrdersInv, NEW s PROVE Typed(NoCopy) /\ Knows(NoCopy, s)
<1>1. 0 \in 0..Horizon
  BY TimesFacts
<1> QED BY <1>1, NoCopyIs, NoRowTyped, FreshTyped DEF Typed, Knows

LEMMA EndsTyped ==
  ASSUME Inhabited, OrdersInv, NEW r, ends(r)
  PROVE  \E s, m : goes(r, s, m) /\ Typed(m) /\ Knows(m, s)
BY NoCopyTyped DEF ends

LEMMA ReconcilesTyped ==
  ASSUME Inhabited, OrdersInv, NEW m, Shape(m), Typed(m), NEW c \in Campaign, NEW op,
         NEW s, op = "place" => Knows(m, s)  /\ m.op = "place"
  PROVE  Typed(reconciles(m, c, op)) /\ Knows(reconciles(m, c, op), s)
<1> DEFINE e == reconciles(m, c, op)
<1>1. /\ e.op = op /\ e.base = c /\ e.next = c /\ e.pledges = NoRows /\ e.time = m.time
      /\ e.who = m.who /\ e.log = m.log
  BY Reconciles
<1> HIDE DEF e
<1>2. Typed(e) /\ Knows(e, s)
  BY <1>1, NoRowTyped DEF Typed, Knows
<1> QED BY <1>2 DEF e

LEMMA ResumeTyped ==
  ASSUME NEW r, NEW m, resume(r, m), Shape(m), Typed(m), Knows(m, "tidy")
  PROVE  \E s, e : goes(r, s, e) /\ Typed(e) /\ Knows(e, s)
<1> DEFINE n == committed(m.pledges, m.orders)
           w == outcome(m.next, n, m.time, m.lapsed)
           e == [m EXCEPT !.next = w, !.time = 0, !.lapsed = FALSE]
<1>1. goes(r, "tidy", m) \/ goes(r, "settle", e)
  BY DEF resume
<1>2. w \in Campaign
  BY OutcomeTyped DEF Typed
<1> HIDE DEF w
<1>3. /\ e.op = m.op /\ e.who = m.who /\ e.base = m.base /\ e.next = w /\ e.pledges = m.pledges
      /\ e.time = 0 /\ e.log = m.log
  BY DEF Shape
<1> HIDE DEF e
<1>4. Typed(e)
  BY <1>2, <1>3, TimesFacts DEF Typed
<1>5. Knows(e, "settle")
  BY <1>3 DEF Knows
<1> QED BY <1>1, <1>4, <1>5

LEMMA FinishTyped ==
  ASSUME Inhabited, OrdersInv, NEW r, NEW m, finish(r, m), Shape(m), Typed(m), Knows(m, "settle")
  PROVE  \E s, e : goes(r, s, e) /\ Typed(e) /\ Knows(e, s)
<1> DEFINE e == [m EXCEPT !.next = m.base]
<1>1. CASE m.op \in {"pledge", "place", "decide"}
  <2>1. goes(r, m.op, e)
    BY <1>1 DEF finish
  <2>2. /\ e.op = m.op /\ e.who = m.who /\ e.base = m.base /\ e.next = m.base /\ e.pledges = m.pledges
        /\ e.time = m.time /\ e.log = m.log
    BY DEF Shape
  <2> HIDE DEF e
  <2>3. Typed(e) /\ Knows(e, m.op)
    BY <2>2 DEF Typed, Knows
  <2> QED BY <2>1, <2>3
<1>2. CASE m.op \notin {"pledge", "place", "decide"}
  BY <1>2, EndsTyped DEF finish
<1> QED BY <1>1, <1>2

LEMMA MovesTyped ==
  ASSUME IInv, TInv, NEW r \in Everyone, \E s, m : goes(r, s, m) /\ Typed(m) /\ Knows(m, s),
         campaign' \in Campaign, pledges' \in [Rows -> Row], orders' \in [Buyers -> Order], Numbered',
         now' = now, deaths' \in 0..MaxDeaths, booked' \subseteq Buyers
  PROVE  TInv'
<1>1. StoreTyped'
  BY DEF TInv, StoreTyped, TypeOK, Inhabited
<1>2. PICK s, m : goes(r, s, m) /\ Typed(m) /\ Knows(m, s)
  OBVIOUS
<1>3. ASSUME NEW q \in Everyone PROVE Typed(mem'[q]) /\ Knows(mem'[q], at'[q])
  <2>1. DOMAIN at = Everyone /\ DOMAIN mem = Everyone
    BY DEF IInv, CopiesInv
  <2>2. CASE q = r
    BY <1>2, <2>1, <2>2 DEF goes
  <2>3. CASE q # r
    <3>1. mem'[q] = mem[q] /\ at'[q] = at[q]
      BY <1>2, <2>1, <2>3 DEF goes
    <3> QED BY <3>1 DEF TInv, CopiesTyped
  <2> QED BY <2>2, <2>3
<1> QED BY <1>1, <1>3 DEF TInv, CopiesTyped

\* What is stored and what the copies hold, as TInv has it.
LEMMA MineTyped ==
  ASSUME IInv, TInv, NEW r \in Everyone
  PROVE  /\ Inhabited /\ OrdersInv /\ Numbered
         /\ campaign \in Campaign /\ pledges \in [Rows -> Row] /\ orders \in [Buyers -> Order]
         /\ now \in 1..Horizon /\ deaths \in 0..MaxDeaths /\ booked \subseteq Buyers
         /\ Shape(mem[r]) /\ Typed(mem[r]) /\ Knows(mem[r], at[r])
BY Mine DEF TInv, StoreTyped, CopiesTyped, TypeOK

\* Nothing is written besides the copy.
LEMMA MovesAloneTyped ==
  ASSUME IInv, TInv, NEW r \in Everyone, \E s, m : goes(r, s, m) /\ Typed(m) /\ Knows(m, s),
         stored, now' = now, deaths' \in 0..MaxDeaths, booked' \subseteq Buyers
  PROVE  TInv'
<1>1. campaign' \in Campaign /\ pledges' \in [Rows -> Row] /\ orders' \in [Buyers -> Order]
  BY MineTyped DEF stored
<1>2. Numbered'
  BY MineTyped DEF stored, Numbered
<1> QED BY <1>1, <1>2, MovesTyped

LEMMA MovesPledgesTyped ==
  ASSUME IInv, TInv, NEW r \in Everyone, \E s, m : goes(r, s, m) /\ Typed(m) /\ Knows(m, s),
         pledges' \in [Rows -> Row], UNCHANGED <<campaign, orders>>, others, histories
  PROVE  TInv'
<1>1. campaign' \in Campaign /\ orders' \in [Buyers -> Order] /\ now' = now /\ deaths' \in 0..MaxDeaths
      /\ booked' \subseteq Buyers
  BY MineTyped DEF others, histories
<1>2. Numbered'
  BY MineTyped DEF Numbered
<1> QED BY <1>1, <1>2, MovesTyped

LEMMA MovesCampaignTyped ==
  ASSUME IInv, TInv, NEW r \in Everyone, \E s, m : goes(r, s, m) /\ Typed(m) /\ Knows(m, s),
         campaign' \in Campaign, UNCHANGED <<pledges, orders>>, others, booked' \subseteq Buyers
  PROVE  TInv'
<1>1. pledges' \in [Rows -> Row] /\ orders' \in [Buyers -> Order] /\ now' = now /\ deaths' \in 0..MaxDeaths
  BY MineTyped DEF others
<1>2. Numbered'
  BY MineTyped DEF Numbered
<1> QED BY <1>1, <1>2, MovesTyped

LEMMA MovesOrdersTyped ==
  ASSUME IInv, TInv, NEW r \in Everyone, \E s, m : goes(r, s, m) /\ Typed(m) /\ Knows(m, s),
         NEW b \in Buyers, NEW new \in Order, orders' = [orders EXCEPT ![b] = new],
         new.status \in {"placed", "shipped"} => new.log \in 1..MaxLog,
         UNCHANGED <<campaign, pledges, booked>>, others
  PROVE  TInv'
<1>1. /\ campaign' \in Campaign /\ pledges' \in [Rows -> Row] /\ orders' \in [Buyers -> Order] /\ now' = now
      /\ deaths' \in 0..MaxDeaths /\ booked' \subseteq Buyers
  BY MineTyped DEF others
<1>2. Numbered'
  BY MineTyped DEF Numbered
<1> QED BY <1>1, <1>2, MovesTyped

LEMMA BeginTyped == ASSUME IInv, TInv, NEW r \in Everyone, NEW op, begin(r, op) PROVE TInv'
<1> DEFINE s == IF op = "edit" THEN "edit" ELSE "list"
           d == reconciles(NoCopy, campaign, op)
           e(b) == [d EXCEPT !.who = b]
<1>1. PICK b \in Buyers : /\ op = "place" => orders[b].status = "draft"
                          /\ goes(r, s, e(b))
  BY DEF begin
<1>2. Shape(d) /\ d.op = op /\ d.base = campaign /\ d.next = campaign /\ d.pledges = NoRows /\ d.time = 0 /\ d.log = 0
  BY MineTyped, NoCopyIs, Reconciles
<1> HIDE DEF d
<1>3. /\ e(b).op = op /\ e(b).base = campaign /\ e(b).next = campaign /\ e(b).pledges = NoRows
      /\ e(b).time = 0 /\ e(b).who = b /\ e(b).log = 0
  BY <1>2 DEF Shape
<1> HIDE DEF e
<1>4. Typed(e(b))
  BY <1>3, MineTyped, NoRowTyped, TimesFacts DEF Typed
<1>5. Knows(e(b), s)
  BY <1>3 DEF Knows
<1>6. stored /\ now' = now /\ deaths' = deaths /\ booked' = booked
  BY DEF begin, others, histories
<1> HIDE DEF s
<1> QED BY <1>1, <1>4, <1>5, <1>6, MineTyped, MovesAloneTyped

LEMMA ListRowsTyped == ASSUME IInv, TInv, NEW r \in Everyone, listRows(r) PROVE TInv'
<1> DEFINE e == [mem[r] EXCEPT !.pledges = pledges, !.orders = orders, !.time = now]
<1>1. at[r] = "list" /\ resume(r, e) /\ stored /\ now' = now /\ deaths' = deaths /\ booked' = booked
  BY DEF listRows, others, histories
<1>2. pledges \in [Rows -> RowT] /\ orders \in [Buyers -> OrderT]
  BY DEF IInv, PledgesInv, OrdersInv
<1>3. now \in 0..Horizon /\ now \in Nat
  BY MineTyped, Mine
<1>4. /\ Shape(e) /\ e.op = mem[r].op /\ e.base = mem[r].base /\ e.next = mem[r].next /\ e.pledges = pledges
      /\ e.time = now /\ e.who = mem[r].who /\ e.log = mem[r].log
  BY <1>2, <1>3, MineTyped DEF Shape
<1> HIDE DEF e
<1>5. Typed(e) /\ Knows(e, "tidy")
  BY <1>1, <1>3, <1>4, MineTyped DEF Typed, Knows
<1>6. \E s, m : goes(r, s, m) /\ Typed(m) /\ Knows(m, s)
  BY <1>1, <1>4, <1>5, ResumeTyped
<1> QED BY <1>1, <1>6, MineTyped, MovesAloneTyped

\* A row of the copy is rewritten, and stored as it is there.
LEMMA RowTyped ==
  ASSUME NEW p \in [Rows -> Row], NEW q \in [Rows -> Row], NEW i
  PROVE  [p EXCEPT ![i] = q[i]] \in [Rows -> Row]
OBVIOUS

LEMMA LapsedTyped ==
  ASSUME NEW p \in [Rows -> Row], NEW i
  PROVE  [p EXCEPT ![i].status = "lapsed"] \in [Rows -> Row] /\ [p EXCEPT ![i].status = "booked"] \in [Rows -> Row]
BY DEF Row

LEMMA OfferedTyped ==
  ASSUME NEW m, Typed(m), NEW i
  PROVE  offeredTo(m, i) \in [Rows -> Row]
<1> DEFINE t == m.time + Grace
<1>1. t \in Times
  BY TimesFacts DEF Typed
<1> HIDE DEF t
<1>2. [m.pledges EXCEPT ![i].status = "held", ![i].offerDueAt = t] \in [Rows -> Row]
  BY <1>1 DEF Typed, Row
<1> QED BY <1>2 DEF offeredTo, t

\* A copy takes new rows.
LEMMA TidiedTyped ==
  ASSUME IInv, NEW m, Shape(m), Typed(m), NEW s, NEW z, Knows(m, s), NEW p \in [Rows -> Row], NEW e,
         e = [m EXCEPT !.pledges = p] \/ e = [m EXCEPT !.pledges = p, !.lapsed = z]
  PROVE  Shape(e) /\ Typed(e) /\ Knows(e, s)
<1>1. p \in [Rows -> RowT]
  BY TimesFacts DEF Row, RowT
<1>2. /\ Shape(e) /\ e.op = m.op /\ e.base = m.base /\ e.next = m.next /\ e.pledges = p
      /\ e.time = m.time /\ e.who = m.who /\ e.log = m.log
  BY <1>1 DEF Shape
<1> QED BY <1>2 DEF Typed, Knows

LEMMA LetGoTyped == ASSUME IInv, TInv, NEW r \in Everyone, letGo(r) PROVE TInv'
<1> DEFINE m == mem[r]
           i == Min(overdue(m.next, m.pledges, m.time))
           p == [m.pledges EXCEPT ![i].status = "lapsed"]
           e == [m EXCEPT !.pledges = p, !.lapsed = TRUE]
<1>1. /\ at[r] = "tidy" /\ pledges' = [pledges EXCEPT ![i] = p[i]] /\ resume(r, e)
      /\ UNCHANGED <<campaign, orders>> /\ others /\ histories
  BY DEF letGo
<1> HIDE DEF i
<1>2. Shape(m) /\ Typed(m) /\ Knows(m, "tidy") /\ pledges \in [Rows -> Row]
  BY <1>1, MineTyped
<1>3. p \in [Rows -> Row]
  BY <1>2, LapsedTyped DEF Typed
<1> HIDE DEF p, m
<1>4. Shape(e) /\ Typed(e) /\ Knows(e, "tidy")
  BY <1>2, <1>3, TidiedTyped
<1>5. pledges' \in [Rows -> Row]
  BY <1>1, <1>2, <1>3, RowTyped
<1> HIDE DEF e
<1>6. \E s, w : goes(r, s, w) /\ Typed(w) /\ Knows(w, s)
  BY <1>1, <1>4, ResumeTyped
<1> QED BY <1>1, <1>5, <1>6, MovesPledgesTyped

LEMMA AdmitNextTyped == ASSUME IInv, TInv, NEW r \in Everyone, admitNext(r) PROVE TInv'
<1> DEFINE m == mem[r]
           i == Min(offered(m.next, m.pledges, m.orders))
           p == offeredTo(m, i)
           e == [m EXCEPT !.pledges = p]
<1>1. /\ at[r] = "tidy" /\ pledges' = [pledges EXCEPT ![i] = p[i]] /\ resume(r, e)
      /\ UNCHANGED <<campaign, orders>> /\ others /\ histories
  BY DEF admitNext
<1> HIDE DEF i
<1>2. Shape(m) /\ Typed(m) /\ Knows(m, "tidy") /\ pledges \in [Rows -> Row]
  BY <1>1, MineTyped
<1>3. p \in [Rows -> Row]
  BY <1>2, OfferedTyped
<1> HIDE DEF p, m
<1>4. Shape(e) /\ Typed(e) /\ Knows(e, "tidy")
  BY <1>2, <1>3, TidiedTyped
<1>5. pledges' \in [Rows -> Row]
  BY <1>1, <1>2, <1>3, RowTyped
<1> HIDE DEF e
<1>6. \E s, w : goes(r, s, w) /\ Typed(w) /\ Knows(w, s)
  BY <1>1, <1>4, ResumeTyped
<1> QED BY <1>1, <1>5, <1>6, MovesPledgesTyped

LEMMA WaitlistDecidedTyped == ASSUME IInv, TInv, NEW r \in Everyone, waitlistDecided(r) PROVE TInv'
<1> DEFINE m == mem[r]
           i == Min(waiting(m.pledges))
           p == IF at[r] = "admit" THEN offeredTo(m, i) ELSE [m.pledges EXCEPT ![i].status = "lapsed"]
           e == [m EXCEPT !.pledges = p]
<1>1. /\ at[r] \in {"admit", "dismiss"} /\ pledges' = [pledges EXCEPT ![i] = p[i]]
      /\ goes(r, at[r], e) \/ goes(r, "settle", e)
      /\ UNCHANGED <<campaign, orders>> /\ others /\ histories
  BY DEF waitlistDecided
<1> HIDE DEF i
<1>2. Shape(m) /\ Typed(m) /\ pledges \in [Rows -> Row]
  BY MineTyped
<1>3. p \in [Rows -> Row]
  BY <1>2, OfferedTyped, LapsedTyped DEF Typed
<1> HIDE DEF p
<1>4. Knows(m, at[r]) /\ Knows(m, "settle")
  BY <1>1, MineTyped DEF Knows
<1> HIDE DEF m
<1>5. Typed(e) /\ Knows(e, at[r]) /\ Knows(e, "settle")
  BY <1>2, <1>3, <1>4, TidiedTyped
<1>6. pledges' \in [Rows -> Row]
  BY <1>1, <1>2, <1>3, RowTyped
<1> HIDE DEF e
<1>7. \E s, w : goes(r, s, w) /\ Typed(w) /\ Knows(w, s)
  BY <1>1, <1>5
<1> QED BY <1>1, <1>6, <1>7, MovesPledgesTyped

LEMMA CallOffOrderTyped == ASSUME IInv, TInv, NEW r \in Everyone, callOffOrder(r) PROVE TInv'
<1> DEFINE m == mem[r]
           e(b) == [m EXCEPT !.orders[b].status = "called_off"]
           off(b) == [status |-> "called_off", log |-> orders[b].log + 1]
<1>1. PICK b \in callable(m) :
        IF orders[b] = m.orders[b]
        THEN orders' = [orders EXCEPT ![b] = off(b)] /\ goes(r, "settle", e(b))
        ELSE ends(r) /\ UNCHANGED <<orders, calledOff>>
  BY DEF callOffOrder
<1>2. /\ b \in Buyers /\ m.orders[b].status = "placed" /\ at[r] = "settle"
      /\ UNCHANGED <<campaign, pledges, booked>> /\ others
  BY DEF callable, callOffOrder
<1>3. CASE orders[b] = m.orders[b]
  <2>1. orders[b].status = "placed"
    BY <1>2, <1>3
  <2>2. orders[b].log \in 1..MaxLog
    BY <1>2, <2>1, MineTyped DEF Numbered
  <2>3. off(b) \in Order /\ off(b).status = "called_off"
    BY <2>2, BoundsAssumption DEF Order
  <2>4. orders' = [orders EXCEPT ![b] = off(b)] /\ goes(r, "settle", e(b))
    BY <1>1, <1>3
  <2> HIDE DEF off
  <2> DEFINE w == [m.orders EXCEPT ![b].status = "called_off"]
  <2>5. e(b) = [m EXCEPT !.orders = w]
    OBVIOUS
  <2>6. Shape(m) /\ Typed(m) /\ Knows(m, "settle")
    BY <1>2, MineTyped
  <2> HIDE DEF w, m, e
  <2>7. /\ e(b).op = m.op /\ e(b).who = m.who /\ e(b).base = m.base /\ e(b).next = m.next
        /\ e(b).pledges = m.pledges /\ e(b).time = m.time /\ e(b).log = m.log
    BY <2>5, <2>6 DEF Shape
  <2>8. Typed(e(b)) /\ Knows(e(b), "settle")
    BY <2>6, <2>7 DEF Typed, Knows
  <2>9. \E s, x : goes(r, s, x) /\ Typed(x) /\ Knows(x, s)
    BY <2>4, <2>8
  <2> QED BY <1>2, <2>3, <2>4, <2>9, MovesOrdersTyped
<1>4. CASE orders[b] # m.orders[b]
  <2>1. ends(r) /\ stored /\ now' = now /\ deaths' = deaths /\ booked' = booked
    BY <1>1, <1>2, <1>4 DEF stored, others
  <2> QED BY <2>1, MineTyped, EndsTyped, MovesAloneTyped
<1> QED BY <1>3, <1>4

LEMMA SaveTyped == ASSUME IInv, TInv, NEW r \in Everyone, save(r) PROVE TInv'
<1> DEFINE m == mem[r]
           c == counted(m.next, m.pledges, m.orders)
           e == [m EXCEPT !.base = c]
<1>1. /\ at[r] = "settle"
      /\ \/ finish(r, m) /\ UNCHANGED campaign
         \/ campaign' = c /\ finish(r, e)
         \/ ends(r) /\ UNCHANGED campaign
      /\ UNCHANGED <<pledges, orders>> /\ others /\ booked' = booked
  BY DEF save, histories
<1>2. Shape(m) /\ Typed(m) /\ Knows(m, "settle")
  BY <1>1, MineTyped
<1>3. c \in Campaign
  BY <1>2, CountedTyped DEF Typed
<1> HIDE DEF c, m
<1>4. /\ Shape(e) /\ e.op = m.op /\ e.who = m.who /\ e.base = c /\ e.next = m.next /\ e.pledges = m.pledges
      /\ e.time = m.time /\ e.log = m.log
  BY <1>2 DEF Shape
<1> HIDE DEF e
<1>5. Typed(e) /\ Knows(e, "settle")
  BY <1>2, <1>3, <1>4 DEF Typed, Knows
<1>6. \E s, x : goes(r, s, x) /\ Typed(x) /\ Knows(x, s)
  BY <1>1, <1>2, <1>4, <1>5, MineTyped, FinishTyped, EndsTyped
<1>7. campaign' \in Campaign
  BY <1>1, <1>3, MineTyped
<1> QED BY <1>1, <1>6, <1>7, MineTyped, MovesCampaignTyped

LEMMA PledgeTyped == ASSUME IInv, TInv, NEW r \in Everyone, pledge(r) PROVE TInv'
<1> DEFINE m == mem[r]
           e == [m EXCEPT !.pledges = pledges, !.orders = Drafts]
<1>1. /\ ends(r) \/ goes(r, "join", e)
      /\ stored /\ now' = now /\ deaths' = deaths /\ booked' = booked
  BY DEF pledge, others, histories
<1>2. Shape(m) /\ Typed(m) /\ pledges \in [Rows -> Row] /\ OrdersInv /\ Inhabited
  BY MineTyped
<1> HIDE DEF m
<1>3. /\ e.op = m.op /\ e.who = m.who /\ e.base = m.base /\ e.next = m.next /\ e.pledges = pledges
      /\ e.time = m.time /\ e.log = m.log
  BY <1>2 DEF Shape
<1> HIDE DEF e
<1>4. Typed(e) /\ Knows(e, "join")
  BY <1>2, <1>3 DEF Typed, Knows
<1>5. \E s, x : goes(r, s, x) /\ Typed(x) /\ Knows(x, s)
  BY <1>1, <1>2, <1>4, EndsTyped
<1> QED BY <1>1, <1>5, MineTyped, MovesAloneTyped

LEMMA JoinTyped == ASSUME IInv, TInv, NEW r \in Everyone, join(r) PROVE TInv'
<1> DEFINE m == mem[r]
           full == isGoingAhead(m.base)
           existing == IF full THEN queued(m.pledges, m.who) ELSE holding(m.pledges, m.who)
           unused == {i \in Rows : pledges[i].status = "none"}
           row == [status |-> IF full THEN "waiting" ELSE "held", userId |-> m.who, offerDueAt |-> 0]
           gone == [row EXCEPT !.status = "left"]
           e == reconciles(NoCopy, m.base, "read")
           k == Min(existing)
           l == Min(unused)
<1>1. /\ \/ \E new \in {row, gone} : pledges' = [pledges EXCEPT ![k] = new]
         \/ pledges' = pledges
         \/ pledges' = [pledges EXCEPT ![l] = row]
      /\ goes(r, "list", e)
      /\ UNCHANGED <<campaign, orders>> /\ others /\ histories
  BY DEF join
<1>2. Shape(m) /\ Typed(m) /\ pledges \in [Rows -> Row] /\ OrdersInv /\ Inhabited
  BY MineTyped
<1>3. row \in Row /\ gone \in Row
  BY <1>2, TimesFacts DEF Typed, Row
<1> HIDE DEF e, k, l, row, gone
<1>4. pledges' \in [Rows -> Row]
  BY <1>1, <1>2, <1>3
<1>5. Typed(e) /\ Knows(e, "list")
  <2>1. Shape(NoCopy) /\ Typed(NoCopy) /\ m.base \in Campaign
    BY <1>2, NoCopyIs, NoCopyTyped DEF Typed
  <2> QED BY <1>2, <2>1, ReconcilesTyped DEF e
<1>6. \E s, x : goes(r, s, x) /\ Typed(x) /\ Knows(x, s)
  BY <1>1, <1>5
<1> QED BY <1>1, <1>4, <1>6, MovesPledgesTyped

LEMMA RereadTyped == ASSUME IInv, TInv, NEW r \in Everyone, reread(r) PROVE TInv'
<1> DEFINE e == reconciles(NoCopy, campaign, "read")
<1>1. goes(r, "list", e) /\ stored /\ now' = now /\ deaths' = deaths /\ booked' = booked
  BY DEF reread, others, histories
<1>2. Shape(NoCopy) /\ Typed(NoCopy) /\ campaign \in Campaign /\ OrdersInv /\ Inhabited
  BY NoCopyIs, NoCopyTyped, MineTyped
<1>3. Typed(e) /\ Knows(e, "list")
  BY <1>2, ReconcilesTyped
<1> HIDE DEF e
<1> QED BY <1>1, <1>3, MineTyped, MovesAloneTyped

LEMMA PlaceTyped == ASSUME IInv, TInv, NEW r \in Everyone, place(r) PROVE TInv'
<1> DEFINE m == mem[r]
           d == reconciles(m, Fresh, "place")
           e == [d EXCEPT !.who = m.who]
<1>1. /\ at[r] = "place" /\ (ends(r) \/ goes(r, "claim", e))
      /\ stored /\ now' = now /\ deaths' = deaths /\ booked' = booked
  BY DEF place, others, histories
<1>2. Shape(m) /\ Typed(m) /\ Knows(m, "place") /\ m.op = "place" /\ OrdersInv /\ Inhabited
  BY <1>1, Mine, MineTyped DEF AtStep
<1>3. /\ Shape(d) /\ d.op = "place" /\ d.base = Fresh /\ d.next = Fresh /\ d.pledges = NoRows
      /\ d.time = m.time /\ d.log = m.log
  BY <1>2, Reconciles
<1> HIDE DEF d, m
<1>4. /\ e.op = "place" /\ e.base = Fresh /\ e.next = Fresh /\ e.pledges = NoRows
      /\ e.time = m.time /\ e.log = m.log /\ e.who = m.who
  BY <1>2, <1>3 DEF Shape
<1> HIDE DEF e
<1>5. Typed(e) /\ Knows(e, "claim")
  BY <1>2, <1>4, NoRowTyped, FreshTyped DEF Typed, Knows
<1>6. \E s, x : goes(r, s, x) /\ Typed(x) /\ Knows(x, s)
  BY <1>1, <1>2, <1>5, EndsTyped
<1> QED BY <1>1, <1>6, MineTyped, MovesAloneTyped

LEMMA WritesOwnTyped ==
  ASSUME IInv, TInv, NEW r \in Everyone, NEW s \in {"take", "reread"}, NEW was, writesOwn(r, was, s), mem[r].op = "place",
         s = "take" => mem[r].log = 0, s = "reread" => mem[r].log = 1,
         UNCHANGED <<campaign, pledges>>, others, histories
  PROVE  TInv'
<1> DEFINE m == mem[r]
           b == m.who
           l == m.log + 1
           new == [status |-> "placed", log |-> l]
           e == [m EXCEPT !.log = l]
<1>1. IF orders[b] = [status |-> was, log |-> m.log]
      THEN orders' = [orders EXCEPT ![b] = new] /\ goes(r, s, e)
      ELSE ends(r) /\ UNCHANGED orders
  BY DEF writesOwn
<1>2. Shape(m) /\ Typed(m) /\ b \in Buyers /\ OrdersInv /\ Inhabited
  BY MineTyped DEF Typed
<1>3. l \in 1..MaxLog /\ l \in 0..(MaxLog + 1) /\ (s = "take" => l = 1)
  BY BoundsAssumption
<1>4. new \in Order /\ new.status = "placed" /\ new.log = l
  BY <1>3 DEF Order
<1> HIDE DEF new, l
<1>5. CASE orders[b] = [status |-> was, log |-> m.log]
  <2>1. orders' = [orders EXCEPT ![b] = new] /\ goes(r, s, e)
    BY <1>1, <1>5
  <2>2. /\ e.op = m.op /\ e.who = m.who /\ e.base = m.base /\ e.next = m.next /\ e.pledges = m.pledges
        /\ e.time = m.time /\ e.log = l
    BY <1>2 DEF Shape
  <2> HIDE DEF e, m
  <2>3. Typed(e) /\ Knows(e, s)
    BY <1>2, <1>3, <2>2 DEF Typed, Knows
  <2>4. \E q, x : goes(r, q, x) /\ Typed(x) /\ Knows(x, q)
    BY <2>1, <2>3
  <2>5. UNCHANGED booked
    BY DEF histories
  <2> QED BY <1>2, <1>3, <1>4, <2>1, <2>4, <2>5, MovesOrdersTyped
<1>6. CASE orders[b] # [status |-> was, log |-> m.log]
  <2>1. ends(r) /\ stored /\ now' = now /\ deaths' = deaths /\ booked' = booked
    BY <1>1, <1>6 DEF stored, others, histories
  <2> QED BY <1>2, <2>1, MineTyped, EndsTyped, MovesAloneTyped
<1> QED BY <1>5, <1>6

LEMMA ClaimTyped == ASSUME IInv, TInv, NEW r \in Everyone, claim(r) PROVE TInv'
<1>1. /\ writesOwn(r, "draft", "take") /\ mem[r].op = "place" /\ mem[r].log = 0
      /\ UNCHANGED <<campaign, pledges>> /\ others /\ histories
  BY Mine, MineTyped DEF claim, AtStep, Knows
<1> QED BY <1>1, WritesOwnTyped

LEMMA StampTyped == ASSUME IInv, TInv, NEW r \in Everyone, stamp(r) PROVE TInv'
<1>1. /\ writesOwn(r, "placed", "reread") /\ mem[r].op = "place" /\ mem[r].log = 1
      /\ UNCHANGED <<campaign, pledges>> /\ others /\ histories
  BY Mine, MineTyped DEF stamp, AtStep, Knows
<1> QED BY <1>1, WritesOwnTyped

LEMMA TakeStockTyped == ASSUME IInv, TInv, NEW r \in Everyone, takeStock(r) PROVE TInv'
<1> DEFINE n == campaign.filledCount + Units[mem[r].who]
<1>1. /\ at[r] = "take" /\ campaign' = [campaign EXCEPT !.filledCount = n] /\ goes(r, "convert", mem[r])
      /\ UNCHANGED <<pledges, orders>> /\ others
      /\ booked' = booked \/ booked' = booked \cup {mem[r].who}
  BY DEF takeStock
<1>2. n \in Nat
  BY MineTyped, UnitsAssumption DEF Typed, Campaign, Counts
<1> HIDE DEF n
<1>3. campaign' \in Campaign
  BY <1>1, <1>2, MineTyped DEF Campaign, Counts
<1>4. Typed(mem[r]) /\ Knows(mem[r], "convert") /\ booked' \subseteq Buyers
  BY <1>1, MineTyped DEF Typed, Knows
<1>5. \E s, x : goes(r, s, x) /\ Typed(x) /\ Knows(x, s)
  BY <1>1, <1>4
<1> QED BY <1>1, <1>3, <1>4, <1>5, MovesCampaignTyped

LEMMA ConvertTyped == ASSUME IInv, TInv, NEW r \in Everyone, convert(r) PROVE TInv'
<1> DEFINE own == {i \in mine(pledges, mem[r].who) : unbooked(pledges[i])}
           k == Min(own)
           p == [pledges EXCEPT ![k].status = "booked"]
<1>1. /\ at[r] = "convert" /\ (pledges' = pledges \/ pledges' = p) /\ goes(r, "stamp", mem[r])
      /\ UNCHANGED <<campaign, orders>> /\ others /\ histories
  BY DEF convert
<1> HIDE DEF k
<1>2. p \in [Rows -> Row]
  BY MineTyped, LapsedTyped
<1> HIDE DEF p
<1>3. pledges' \in [Rows -> Row]
  BY <1>1, <1>2, MineTyped
<1>4. Typed(mem[r]) /\ Knows(mem[r], "stamp")
  BY <1>1, MineTyped DEF Typed, Knows
<1>5. \E s, x : goes(r, s, x) /\ Typed(x) /\ Knows(x, s)
  BY <1>1, <1>4
<1> QED BY <1>1, <1>3, <1>5, MovesPledgesTyped

LEMMA DieTyped == ASSUME IInv, TInv, NEW r \in Everyone, die(r) PROVE TInv'
<1>1. ends(r) /\ stored /\ now' = now /\ booked' = booked /\ deaths < MaxDeaths /\ deaths' = deaths + 1
  BY DEF die, histories
<1>2. deaths' \in 0..MaxDeaths
  BY <1>1, MineTyped, BoundsAssumption
<1> QED BY <1>1, <1>2, MineTyped, EndsTyped, MovesAloneTyped

LEMMA ShipTyped == ASSUME IInv, TInv, NEW b \in Buyers, ship(b) \/ unship(b) PROVE TInv'
<1>1. UNCHANGED <<campaign, pledges, at, mem, now, deaths, booked>>
  BY DEF ship, unship, others, histories
<1>2. orders \in [Buyers -> Order] /\ orders[b].log \in 1..MaxLog
  BY DEF ship, unship, TInv, StoreTyped, TypeOK, Numbered
<1>3. PICK new \in Order : new.log \in 1..MaxLog /\ orders' = [orders EXCEPT ![b] = new]
  <2>1. CASE ship(b)
    <3> DEFINE new == [orders[b] EXCEPT !.status = "shipped"]
    <3>1. new \in Order /\ new.log = orders[b].log
      BY <1>2 DEF Order
    <3>2. orders' = [orders EXCEPT ![b] = new]
      BY <2>1 DEF ship
    <3> QED BY <1>2, <3>1, <3>2
  <2>2. CASE unship(b)
    <3>1. PICK l \in {orders[b].log, orders[b].log + 1} :
            l <= MaxLog /\ orders' = [orders EXCEPT ![b] = [status |-> "placed", log |-> l]]
      BY <2>2 DEF unship
    <3>2. l \in 1..MaxLog /\ l \in 0..(MaxLog + 1)
      BY <1>2, <3>1, BoundsAssumption
    <3> DEFINE new == [status |-> "placed", log |-> l]
    <3>3. new \in Order /\ new.log = l
      BY <3>2 DEF Order
    <3> QED BY <3>1, <3>2, <3>3
  <2> QED BY <2>1, <2>2
<1>4. orders' \in [Buyers -> Order] /\ Numbered'
  BY <1>2, <1>3 DEF TInv, StoreTyped, Numbered
<1>5. TypeOK' /\ Inhabited'
  BY <1>1, <1>4 DEF TInv, StoreTyped, TypeOK, Inhabited
<1> QED BY <1>1, <1>4, <1>5 DEF TInv, StoreTyped, CopiesTyped

\* Nothing moves but time.
LEMMA TimeTyped ==
  ASSUME TInv, UNCHANGED <<campaign, pledges, orders, at, mem, deaths, booked>>, now' \in 1..Horizon
  PROVE  TInv'
<1>1. StoreTyped'
  BY DEF TInv, StoreTyped, TypeOK, Numbered, Inhabited
<1> QED BY <1>1 DEF TInv, CopiesTyped

LEMMA TickTyped == ASSUME TInv, tick PROVE TInv'
<1>1. UNCHANGED <<campaign, pledges, orders, at, mem, deaths, booked>> /\ now < Horizon /\ now' = now + 1
  BY DEF tick
<1>2. now' \in 1..Horizon
  BY <1>1, TimesFacts DEF TInv, StoreTyped, TypeOK
<1> QED BY <1>1, <1>2, TimeTyped

LEMMA StutterTyped == ASSUME TInv, UNCHANGED vars PROVE TInv'
<1>1. UNCHANGED <<campaign, pledges, orders, at, mem, deaths, booked>> /\ now' \in 1..Horizon
  BY DEF vars, TInv, StoreTyped, TypeOK
<1> QED BY <1>1, TimeTyped

LEMMA DecideTyped == ASSUME IInv, TInv, NEW r \in Everyone, decide(r) PROVE TInv'
<1> DEFINE m0 == mem[r]
           m == [m0 EXCEPT !.op = "decided", !.time = now]
           ahead == goAheadShort(m.base, m.base.filledAt = 0 \/ m.base.pledgeDueAt = 0, now)
           over == closeCampaign(m.base)
           later(t) == [m EXCEPT !.next.cutoffAt = t, !.next.decisionDueAt = 0, !.next.lastCall = FALSE]
<1>1. \/ ends(r)
      \/ goes(r, "settle", [m EXCEPT !.next = ahead])
      \/ goes(r, "settle", [m EXCEPT !.next = over])
      \/ \E t \in (now + 1)..Horizon : goes(r, "settle", later(t))
      \/ goes(r, "admit", m) \/ goes(r, "dismiss", m)
  BY DEF decide
<1>2. stored /\ now' = now /\ deaths' = deaths /\ booked' = booked
  BY DEF decide, others, histories
<1>3. Shape(m0) /\ Typed(m0) /\ OrdersInv /\ Inhabited /\ now \in 1..Horizon /\ now \in 0..Horizon /\ now \in Nat
  BY MineTyped, Mine
<1> HIDE DEF m0, ahead, over
<1>4. /\ Shape(m) /\ m.op = "decided" /\ m.base = m0.base /\ m.next = m0.next /\ m.pledges = m0.pledges
      /\ m.time = now /\ m.who = m0.who
  BY <1>3 DEF Shape
<1> HIDE DEF m
<1>5. Typed(m) /\ \A s : Knows(m, s)
  BY <1>3, <1>4 DEF Typed, Knows
<1>6. ahead \in Campaign /\ over \in Campaign
  BY <1>3, <1>5, AheadTyped, ClosedTyped DEF Typed, ahead, over
<1>7. ASSUME NEW d \in Campaign, goes(r, "settle", [m EXCEPT !.next = d])
      PROVE  \E s, x : goes(r, s, x) /\ Typed(x) /\ Knows(x, s)
  <2> DEFINE e == [m EXCEPT !.next = d]
  <2>1. /\ e.op = "decided" /\ e.base = m.base /\ e.next = d /\ e.pledges = m.pledges
        /\ e.time = m.time /\ e.who = m.who
    BY <1>4 DEF Shape
  <2>2. goes(r, "settle", e)
    BY <1>7
  <2> HIDE DEF e
  <2>3. Typed(e) /\ Knows(e, "settle")
    BY <1>5, <2>1 DEF Typed, Knows
  <2> QED BY <2>2, <2>3
<1>8. ASSUME NEW t \in (now + 1)..Horizon, goes(r, "settle", later(t))
      PROVE  \E s, x : goes(r, s, x) /\ Typed(x) /\ Knows(x, s)
  <2> DEFINE d == [m.next EXCEPT !.cutoffAt = t, !.decisionDueAt = 0, !.lastCall = FALSE]
  <2>1. t \in 1..Horizon /\ 0 \in Times /\ m.next \in Campaign
    BY <1>3, <1>5, TimesFacts DEF Typed
  <2>2. d \in Campaign
    BY <2>1 DEF Campaign
  <2>3. later(t) = [m EXCEPT !.next = d]
    BY <1>4 DEF Shape
  <2> HIDE DEF d, later
  <2> QED BY <1>7, <1>8, <2>2, <2>3
<1> HIDE DEF later
<1>9. \E s, x : goes(r, s, x) /\ Typed(x) /\ Knows(x, s)
  <2>1. CASE ends(r)
    BY <1>3, <2>1, EndsTyped
  <2>2. CASE goes(r, "admit", m) \/ goes(r, "dismiss", m)
    BY <1>5, <2>2
  <2> QED BY <1>1, <1>6, <1>7, <1>8, <2>1, <2>2
<1> QED BY <1>9, <1>2, MineTyped, MovesAloneTyped

LEMMA EditTyped == ASSUME IInv, TInv, NEW r \in Everyone, edit(r) PROVE TInv'
<1> DEFINE m == mem[r]
           c == m.base
           writes(new) ==
             IF campaign = c THEN campaign' = new /\ goes(r, "list", reconciles(m, new, "read"))
             ELSE ends(r) /\ UNCHANGED campaign
<1>1. /\ \/ ends(r) /\ UNCHANGED campaign
         \/ \E t \in Thresholds : writes([c EXCEPT !.threshold = t])
         \/ \E t \in (now + 1)..Horizon : writes([c EXCEPT !.cutoffAt = t, !.lastCall = FALSE, !.decisionDueAt = 0])
         \/ \E rule \in Rules : writes([c EXCEPT !.whenShort = rule[1], !.whenFull = rule[2]])
      /\ UNCHANGED <<pledges, orders>> /\ others /\ booked' = booked
  BY DEF edit, histories
<1>2. Shape(m) /\ Typed(m) /\ c \in Campaign /\ now \in 1..Horizon /\ OrdersInv /\ Inhabited /\ campaign \in Campaign
  BY MineTyped DEF Typed
<1>3. ASSUME NEW new \in Campaign, writes(new) PROVE TInv'
  <2>1. Typed(reconciles(m, new, "read")) /\ Knows(reconciles(m, new, "read"), "list")
    BY <1>2, ReconcilesTyped
  <2>2. /\ campaign' \in Campaign
        /\ ends(r) \/ goes(r, "list", reconciles(m, new, "read"))
    BY <1>2, <1>3
  <2>3. \E s, x : goes(r, s, x) /\ Typed(x) /\ Knows(x, s)
    BY <1>2, <2>1, <2>2, EndsTyped
  <2> QED BY <1>1, <2>2, <2>3, MineTyped, MovesCampaignTyped
<1>4. CASE ends(r) /\ UNCHANGED campaign
  BY <1>1, <1>2, <1>4, EndsTyped, MineTyped, MovesCampaignTyped
<1> HIDE DEF writes, c, m
<1>5. ASSUME NEW t \in Thresholds, writes([c EXCEPT !.threshold = t]) PROVE TInv'
  <2>1. [c EXCEPT !.threshold = t] \in Campaign
    BY <1>2 DEF Campaign
  <2> QED BY <1>3, <1>5, <2>1
<1>6. ASSUME NEW t \in (now + 1)..Horizon, writes([c EXCEPT !.cutoffAt = t, !.lastCall = FALSE, !.decisionDueAt = 0])
      PROVE  TInv'
  <2>1. t \in 1..Horizon /\ 0 \in Times
    BY <1>2, TimesFacts
  <2>2. [c EXCEPT !.cutoffAt = t, !.lastCall = FALSE, !.decisionDueAt = 0] \in Campaign
    BY <1>2, <2>1 DEF Campaign
  <2> QED BY <1>3, <1>6, <2>2
<1>7. ASSUME NEW rule \in Rules, writes([c EXCEPT !.whenShort = rule[1], !.whenFull = rule[2]]) PROVE TInv'
  <2>1. rule[1] \in {"cancel", "proceed", "ask"} /\ rule[2] \in {"keep_open", "waitlist", "close"}
    BY TermsAssumption
  <2> DEFINE x == rule[1]
             y == rule[2]
  <2>2. [c EXCEPT !.whenShort = x, !.whenFull = y] \in Campaign
    <3> HIDE DEF x, y
    <3>1. x \in {"cancel", "proceed", "ask"} /\ y \in {"keep_open", "waitlist", "close"}
      BY <2>1 DEF x, y
    <3> QED BY <1>2, <3>1 DEF Campaign
  <2> QED BY <1>3, <1>7, <2>2
<1> QED BY <1>1, <1>4, <1>5, <1>6, <1>7

LEMMA InitTyped == Init => TInv
<1> SUFFICES ASSUME Init PROVE TInv
  OBVIOUS
<1>1. now = 1 /\ at = [r \in Everyone |-> "idle"] /\ mem = [r \in Everyone |-> NoCopy] /\ deaths = 0
  BY DEF Init
<1>2. pledges \in [Rows -> [status : {"none", "held", "waiting"}, userId : Buyers, offerDueAt : {0}]]
  BY DEF Init, Joined
<1>3. pledges \in [Rows -> Row]
  BY <1>2, TimesFacts DEF Row
<1>4. Inhabited
  <2>1. 1 \in Rows
    BY TimesFacts DEF Rows
  <2>2. pledges[1].userId \in Buyers
    BY <1>2, <2>1
  <2>3. Thresholds # {}
    BY DEF Init
  <2> QED BY <2>2, <2>3 DEF Inhabited
<1>5. PICK B \in SUBSET Buyers :
        /\ orders = [b \in Buyers |-> IF b \in B THEN [status |-> "placed", log |-> 2] ELSE Drafts[b]]
        /\ booked = B
  BY DEF Init
<1>6. orders \in [Buyers -> Order] /\ Numbered
  <2>1. ASSUME NEW b \in Buyers
        PROVE  /\ orders[b] \in Order
               /\ orders[b].status \in {"placed", "shipped"} => orders[b].log \in 1..MaxLog
    <3>1. CASE b \in B
      BY <1>5, <3>1, BoundsAssumption DEF Order
    <3>2. CASE b \notin B
      BY <1>5, <3>2, BoundsAssumption DEF Order, Drafts
    <3> QED BY <3>1, <3>2
  <2> QED BY <1>5, <2>1 DEF Numbered
<1>7. campaign \in Campaign
  <2> DEFINE c(t, rule) == [Fresh EXCEPT !.threshold = t, !.whenShort = rule[1], !.whenFull = rule[2], !.cutoffAt = 2]
             f(t, rule) == [c(t, rule) EXCEPT !.filledAt = 1, !.pledgeDueAt = 1 + Grace]
  <2>1. PICK t \in Thresholds, rule \in Rules :
          \/ campaign = counted(f(t, rule), pledges, orders)
          \/ campaign = counted(c(t, rule), pledges, orders)
    BY DEF Init
  <2> DEFINE x == rule[1]
             y == rule[2]
             g == 1 + Grace
             d == [Fresh EXCEPT !.threshold = t, !.whenShort = x, !.whenFull = y, !.cutoffAt = 2]
             e == [d EXCEPT !.filledAt = 1, !.pledgeDueAt = g]
  <2>2. campaign = counted(e, pledges, orders) \/ campaign = counted(d, pledges, orders)
    BY <2>1
  <2>3. /\ x \in {"cancel", "proceed", "ask"} /\ y \in {"keep_open", "waitlist", "close"} /\ g \in Times
        /\ 2 \in 1..Horizon /\ 1 \in Times
    BY TermsAssumption, TimesFacts DEF Times
  <2> HIDE DEF x, y, g
  <2>4. d \in Campaign
    BY <1>4, <2>3, FreshTyped DEF Campaign
  <2> HIDE DEF d
  <2>5. e \in Campaign
    BY <2>3, <2>4 DEF Campaign
  <2> HIDE DEF e
  <2> QED BY <1>3, <2>2, <2>4, <2>5, CountedTyped
<1>8. StoreTyped
  <2>1. now \in 1..Horizon /\ deaths \in 0..MaxDeaths /\ booked \subseteq Buyers
    BY <1>1, <1>5, TimesFacts, BoundsAssumption
  <2> QED BY <1>3, <1>4, <1>6, <1>7, <2>1 DEF StoreTyped, TypeOK
<1>9. CopiesTyped
  <2>1. OrdersInv
    BY InitInv DEF IInv
  <2> QED BY <1>1, <1>4, <2>1, NoCopyTyped DEF CopiesTyped
<1> QED BY <1>8, <1>9 DEF TInv

LEMMA NextTyped == IInv /\ TInv /\ [Next]_vars => TInv'
<1> SUFFICES ASSUME IInv, TInv, [Next]_vars PROVE TInv'
  OBVIOUS
<1>1. CASE (\E r \in Requests : request(r)) \/ reader
  BY <1>1, BeginTyped DEF request, reader, Everyone
<1>2. ASSUME NEW r \in Everyone, step(r) PROVE TInv'
  BY <1>2, ListRowsTyped, LetGoTyped, AdmitNextTyped, CallOffOrderTyped, SaveTyped, PledgeTyped, JoinTyped,
     DecideTyped, WaitlistDecidedTyped, EditTyped, PlaceTyped, ClaimTyped, TakeStockTyped, ConvertTyped,
     StampTyped, RereadTyped
     DEF step
<1>3. ASSUME NEW r \in Everyone, die(r) PROVE TInv'
  BY <1>3, DieTyped
<1>4. ASSUME NEW b \in Buyers, ship(b) \/ unship(b) PROVE TInv'
  BY <1>4, ShipTyped
<1>5. CASE tick \/ UNCHANGED vars
  BY <1>5, TickTyped, StutterTyped
<1> QED BY <1>1, <1>2, <1>3, <1>4, <1>5 DEF Next

\* Everything stored and every copy of it has its type, the clocks of a
\* campaign their bounds, its counts are numbers, and a call-off adds one line to
\* an order's history (takeStock, reconcilePreOrder, closeCampaign).
THEOREM CampaignsStayTyped == Spec => []TypeOK
<1>1. Init => IInv /\ TInv
  BY InitInv, InitTyped
<1>2. (IInv /\ TInv) /\ [Next]_vars => (IInv /\ TInv)'
  BY NextInv, NextTyped
<1>3. IInv /\ TInv => TypeOK
  BY DEF TInv, StoreTyped
<1> QED BY <1>1, <1>2, <1>3, PTL DEF Spec
=============================================================================
