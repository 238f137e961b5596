------------------------------ MODULE PreOrder ------------------------------
(***************************************************************************)
(* A pre-order campaign: the campaign kept on the listing, the pledges and *)
(* the orders behind it, and the reconcile that every read, pledge,        *)
(* placement, edit, decision and tick of the clock runs over all three     *)
(* (api/src/functions/preorder.ts, preorder-routes.ts, shared/preorder.ts; *)
(* the placement of placement.ts as far as it touches a campaign).         *)
(*                                                                         *)
(* A reconcile reads, writes pledges and orders one at a time and saves    *)
(* the campaign last.  A pledge is written without a check.  An order's    *)
(* writers all change its history, so a copy that has not the history of   *)
(* now is refused; the campaign is one field of its listing, refused when  *)
(* it has another value than the one read, the cached counts included      *)
(* (AtomicFields).                                                         *)
(*                                                                         *)
(* A step up to the next read or write of the store is one action.  A      *)
(* deadline of 0 is none; cutoffs, grace and pauses are counted in ticks.  *)
(***************************************************************************)
EXTENDS Integers, FiniteSetsExt, Functions

CONSTANTS Buyers,
          Units,       \* Units[b]: what b pledges for and orders
          Requests, Clock,   \* one request each, and the clock's, over and over
          Ops,         \* what they ask for
          Thresholds,  \* what a seller may ask for
          Rules,       \* ... when it is short, and when it is full
          Grace, DecisionTime, LastCallTime,
          Horizon,     \* the last tick, and the latest cutoff
          MaxPledges,  \* pledge rows ever created
          MaxLog,      \* lines of a booking's history, its dispatch apart
          AtOnce,      \* requests under way at a time
          MaxDeaths    \* requests that may die half way

ASSUME UnitsAssumption == IsFiniteSet(Buyers) /\ Units \in [Buyers -> Nat \ {0}]
ASSUME OpsAssumption == Ops \subseteq {"read", "pledge", "place", "decide", "edit"}
ASSUME ClockAssumption == Clock \notin Requests
ASSUME TermsAssumption ==
  /\ Thresholds \subseteq Nat \ {0, 1}
  /\ Rules \subseteq {"cancel", "proceed", "ask"} \X {"keep_open", "waitlist", "close"}
ASSUME BoundsAssumption ==
  /\ {Grace, DecisionTime, LastCallTime, Horizon, MaxPledges, AtOnce} \subseteq Nat \ {0}
  /\ Horizon >= 2 /\ MaxLog \in Nat /\ MaxLog >= 2
  /\ MaxDeaths \in Nat

VARIABLES campaign,  \* listing.preOrder
          pledges,   \* pledges[i]: the i-th row created
          orders,    \* orders[b]: the order of b for this listing
          now,
          at, mem,   \* the step each request takes next, and its copies
          deaths,
          calledOff, \* history: how often each order was called off
          booked     \* history: orders that took their units before a close

vars == <<campaign, pledges, orders, now, at, mem, deaths, calledOff, booked>>

Rows == 1..MaxPledges
Times == 0..(Horizon + Grace + DecisionTime)
Counts == Nat
Campaign ==
  [threshold : Thresholds, cutoffAt : 1..Horizon,
   whenShort : {"cancel", "proceed", "ask"}, whenFull : {"keep_open", "waitlist", "close"},
   filledAt : Times, proceededShort : BOOLEAN, decisionDueAt : Times, closed : BOOLEAN,
   pledgeDueAt : Times, lastCall : BOOLEAN,
   filledCount : Counts, pledgedCount : Counts, waitlistCount : Counts]
Row == [status : {"none", "held", "waiting", "lapsed", "booked", "left"},
        userId : Buyers, offerDueAt : Times]
\* log counts the lines of its history; that of a dispatch goes with "shipped".
Order == [status : {"draft", "placed", "shipped", "called_off"}, log : 0..(MaxLog + 1)]

-----------------------------------------------------------------------------
(* What a reconcile works out, from a campaign c, rows p and orders o.     *)

holdsPlace(row) == row.status = "held"
isWaiting(row) == row.status = "waiting"
isGoingAhead(c) == ~c.closed /\ (c.filledAt # 0 \/ c.proceededShort)

live(p) == {i \in Rows : holdsPlace(p[i])}
waiting(p) == {i \in Rows : isWaiting(p[i])}
unitsOf(p, S) == SumFunctionOnSet([i \in Rows |-> Units[p[i].userId]], S)
filledCount(o) == SumFunctionOnSet(Units, {b \in Buyers : o[b].status \in {"placed", "shipped"}})
committed(p, o) == filledCount(o) + unitsOf(p, live(p))

counted(c, p, o) ==
  [c EXCEPT !.filledCount = filledCount(o),
            !.pledgedCount = unitsOf(p, live(p)),
            !.waitlistCount = unitsOf(p, waiting(p))]

\* Called in and not booked in time.
overdue(c, p, t) ==
  {i \in live(p) :
     LET due == IF p[i].offerDueAt # 0 THEN p[i].offerDueAt ELSE c.pledgeDueAt
     IN  isGoingAhead(c) /\ due # 0 /\ due <= t}

\* The waitlist's oldest that fits the places free.
offered(c, p, o) ==
  {i \in waiting(p) :
     /\ isGoingAhead(c) /\ c.whenFull = "waitlist"
     /\ Units[p[i].userId] <= c.threshold - committed(p, o)}

closeCampaign(c) == [c EXCEPT !.closed = TRUE, !.decisionDueAt = 0]
goAheadShort(c, callIn, t) ==
  [c EXCEPT !.proceededShort = TRUE, !.decisionDueAt = 0,
            !.filledAt = IF @ = 0 THEN t ELSE @,
            !.pledgeDueAt = IF callIn THEN t + Grace ELSE @]

whenShort(c, n, callIn, t) ==
  IF c.whenShort = "cancel" \/ n = 0 THEN closeCampaign(c)
  ELSE IF c.whenShort = "proceed" THEN goAheadShort(c, callIn, t)
  ELSE [c EXCEPT !.decisionDueAt = t + DecisionTime]

undecided(c) == ~c.closed /\ c.filledAt = 0 /\ ~c.proceededShort /\ c.decisionDueAt = 0

lastCall(c, n, t) ==
  IF undecided(c) /\ ~c.lastCall /\ n < c.threshold /\ c.cutoffAt > t /\ c.cutoffAt - t <= LastCallTime
  THEN [c EXCEPT !.lastCall = TRUE] ELSE c
fillsAtOnce(c, n, t) ==   \* slip: the places are due the moment they are called in
  IF c.filledAt = 0 /\ ~c.closed /\ n >= c.threshold
  THEN [c EXCEPT !.filledAt = t, !.decisionDueAt = 0, !.pledgeDueAt = t] ELSE c
fills(c, n, t) ==
  IF c.filledAt = 0 /\ ~c.closed /\ n >= c.threshold
  THEN [c EXCEPT !.filledAt = t, !.decisionDueAt = 0, !.pledgeDueAt = t + Grace] ELSE c
atCutoff(c, n, t) == IF undecided(c) /\ c.cutoffAt <= t THEN whenShort(c, n, TRUE, t) ELSE c
afterLapse(c, n, t, lapsed) ==
  IF lapsed /\ c.filledAt # 0 /\ ~c.proceededShort /\ ~c.closed /\ c.decisionDueAt = 0 /\ n < c.threshold
  THEN whenShort(c, n, FALSE, t) ELSE c
unansweredKeeps(c, t) == c   \* slip: silence holds everybody's money
unanswered(c, t) ==
  IF ~c.closed /\ c.decisionDueAt # 0 /\ c.decisionDueAt <= t THEN closeCampaign(c) ELSE c

\* The rest of reconcilePreOrder, once the pledges are tidy.
outcome(c, n, t, lapsed) ==
  unanswered(afterLapse(atCutoff(fills(lastCall(c, n, t), n, t), n, t), n, t, lapsed), t)

\* The clock's query.
Due ==
  /\ ~campaign.closed
  /\ \/ undecided(campaign) /\ campaign.cutoffAt <= now
     \/ campaign.decisionDueAt # 0 /\ campaign.decisionDueAt <= now

-----------------------------------------------------------------------------
(* Steps of a request.                                                     *)

Everyone == Requests \cup {Clock}
underWay(r) == at[r] \notin {"idle", "done"}
NoRow == [status |-> "none", userId |-> CHOOSE b \in Buyers : TRUE, offerDueAt |-> 0]
NoRows == [i \in Rows |-> NoRow]
Drafts == [b \in Buyers |-> [status |-> "draft", log |-> 0]]
Fresh == [threshold |-> Min(Thresholds), cutoffAt |-> 1, whenShort |-> "cancel", whenFull |-> "close",
          filledAt |-> 0, proceededShort |-> FALSE, decisionDueAt |-> 0, closed |-> FALSE,
          pledgeDueAt |-> 0, lastCall |-> FALSE, filledCount |-> 0, pledgedCount |-> 0, waitlistCount |-> 0]
NoCopy == [op |-> "none", who |-> NoRow.userId, base |-> Fresh, next |-> Fresh, pledges |-> NoRows,
           orders |-> Drafts, time |-> 0, lapsed |-> FALSE, log |-> 0]

goes(r, step, m) ==
  /\ at' = [at EXCEPT ![r] = step]
  /\ mem' = [mem EXCEPT ![r] = m]
ends(r) == goes(r, IF r = Clock THEN "idle" ELSE "done", NoCopy)
others == UNCHANGED <<now, deaths>>
histories == UNCHANGED <<calledOff, booked>>
stored == UNCHANGED <<campaign, pledges, orders>>

\* Pledges still to let go or to admit, or the campaign as it becomes.
resume(r, m) ==
  LET n == committed(m.pledges, m.orders)
  IN  IF overdue(m.next, m.pledges, m.time) \cup offered(m.next, m.pledges, m.orders) # {}
      THEN goes(r, "tidy", m)
      ELSE goes(r, "settle", [m EXCEPT !.next = outcome(@, n, m.time, m.lapsed), !.time = 0, !.lapsed = FALSE])

\* A request that only reconciles is over; another goes on with what it came for.
finish(r, m) ==
  IF m.op \in {"pledge", "place", "decide"}
  THEN goes(r, m.op, [m EXCEPT !.next = m.base])
  ELSE ends(r)

reconciles(m, c, op) == [m EXCEPT !.op = op, !.base = c, !.next = c, !.pledges = NoRows, !.orders = Drafts]

-----------------------------------------------------------------------------
\* A campaign that runs, or went ahead at the first tick: some pledged, some
\* booked, some behind a full one.
Joined ==
  {p \in [Rows -> [status : {"none", "held", "waiting"}, userId : Buyers, offerDueAt : {0}]] :
     \A i, j \in Rows :
       /\ p[i].status = "none" => p[i] = NoRow
       /\ i < j /\ p[j].status # "none" => p[i].status # "none" /\ p[i].userId # p[j].userId}

Init ==
  /\ pledges \in Joined
  /\ \E B \in SUBSET (Buyers \ {pledges[i].userId : i \in live(pledges) \cup waiting(pledges)}) :
       /\ orders = [b \in Buyers |-> IF b \in B THEN [status |-> "placed", log |-> 2] ELSE Drafts[b]]
       /\ booked = B
  /\ \E t \in Thresholds, rule \in Rules :
       LET c == [Fresh EXCEPT !.threshold = t, !.whenShort = rule[1], !.whenFull = rule[2], !.cutoffAt = 2]
           full == committed(pledges, orders) >= t
       IN  /\ waiting(pledges) # {} => full /\ rule[2] = "waitlist"
           /\ campaign = counted(IF full THEN [c EXCEPT !.filledAt = 1, !.pledgeDueAt = 1 + Grace] ELSE c,
                                 pledges, orders)
  /\ now = 1
  /\ at = [r \in Everyone |-> "idle"]
  /\ mem = [r \in Everyone |-> NoCopy]
  /\ deaths = 0
  /\ calledOff = [b \in Buyers |-> 0]

\* The listing read, by whoever it is for.
begin(r, op) ==
  /\ at[r] = "idle" /\ Cardinality({x \in Everyone : underWay(x)}) < AtOnce
  /\ \E b \in Buyers :
       /\ op = "place" => orders[b].status = "draft"
       /\ op \notin {"place", "pledge"} => b = NoCopy.who
       /\ goes(r, IF op = "edit" THEN "edit" ELSE "list", [reconciles(NoCopy, campaign, op) EXCEPT !.who = b])
  /\ stored /\ others /\ histories

request(r) == \E op \in Ops : begin(r, op)
reader == begin(Clock, "read")
clock == Due /\ reader

\* The rows behind it, read side by side, and the time.
listRows(r) ==
  /\ at[r] = "list"
  /\ resume(r, [mem[r] EXCEPT !.pledges = pledges, !.orders = orders, !.time = now])
  /\ stored /\ others /\ histories

(* The reconcile's writes.                                                 *)

letGo(r) ==
  LET m == mem[r]
      i == Min(overdue(m.next, m.pledges, m.time))
      p == [m.pledges EXCEPT ![i].status = "lapsed"]
  IN  /\ at[r] = "tidy" /\ overdue(m.next, m.pledges, m.time) # {}
      /\ pledges' = [pledges EXCEPT ![i] = p[i]]
      /\ resume(r, [m EXCEPT !.pledges = p, !.lapsed = TRUE])
      /\ UNCHANGED <<campaign, orders>> /\ others /\ histories

offeredTo(m, i) == [m.pledges EXCEPT ![i].status = "held", ![i].offerDueAt = m.time + Grace]

admitNext(r) ==
  LET m == mem[r]
      i == Min(offered(m.next, m.pledges, m.orders))
  IN  /\ at[r] = "tidy" /\ overdue(m.next, m.pledges, m.time) = {}
      /\ pledges' = [pledges EXCEPT ![i] = offeredTo(m, i)[i]]
      /\ resume(r, [m EXCEPT !.pledges = offeredTo(m, i)])
      /\ UNCHANGED <<campaign, orders>> /\ others /\ histories

\* The orders closeCampaign has still to call off: booked, and not on their way.
callable(m) ==
  IF m.next.closed /\ ~m.base.closed THEN {b \in Buyers : m.orders[b].status = "placed"} ELSE {}

callOffUnchecked(r) ==   \* slip: the order is written whatever became of it
  /\ at[r] = "settle"
  /\ \E b \in callable(mem[r]) :
       /\ orders' = [orders EXCEPT ![b] = [status |-> "called_off", log |-> @.log + 1]]
       /\ calledOff' = [calledOff EXCEPT ![b] = @ + 1]
       /\ goes(r, "settle", [mem[r] EXCEPT !.orders[b].status = "called_off"])
  /\ UNCHANGED <<campaign, pledges, booked>> /\ others

callOffQuietly(r) ==   \* slip: a refused call-off is passed over
  /\ at[r] = "settle"
  /\ \E b \in callable(mem[r]) :
       /\ IF orders[b] = mem[r].orders[b]
          THEN /\ orders' = [orders EXCEPT ![b] = [status |-> "called_off", log |-> @.log + 1]]
               /\ calledOff' = [calledOff EXCEPT ![b] = @ + 1]
          ELSE UNCHANGED <<orders, calledOff>>
       /\ goes(r, "settle", [mem[r] EXCEPT !.orders[b].status = "called_off"])
  /\ UNCHANGED <<campaign, pledges, booked>> /\ others

callOffOrder(r) ==
  /\ at[r] = "settle"
  /\ \E b \in callable(mem[r]) :
       IF orders[b] = mem[r].orders[b]
       THEN /\ orders' = [orders EXCEPT ![b] = [status |-> "called_off", log |-> @.log + 1]]
            /\ calledOff' = [calledOff EXCEPT ![b] = @ + 1]
            /\ goes(r, "settle", [mem[r] EXCEPT !.orders[b].status = "called_off"])
       ELSE ends(r) /\ UNCHANGED <<orders, calledOff>>
  /\ UNCHANGED <<campaign, pledges, booked>> /\ others

saveBlind(r) ==   \* slip: the campaign is written over whatever it is by now
  LET m == mem[r]
      c == counted(m.next, m.pledges, m.orders)
  IN  /\ at[r] = "settle" /\ callable(m) = {}
      /\ campaign' = c /\ finish(r, [m EXCEPT !.base = c])
      /\ UNCHANGED <<pledges, orders>> /\ others /\ histories

\* save: nothing when nothing moved, refused when somebody else moved it.
save(r) ==
  LET m == mem[r]
      c == counted(m.next, m.pledges, m.orders)
  IN  /\ at[r] = "settle" /\ callable(m) = {}
      /\ IF c = m.base THEN finish(r, m) /\ UNCHANGED campaign
         ELSE IF campaign = m.base THEN campaign' = c /\ finish(r, [m EXCEPT !.base = c])
         ELSE ends(r) /\ UNCHANGED campaign
      /\ UNCHANGED <<pledges, orders>> /\ others /\ histories

-----------------------------------------------------------------------------
(* pledge: join, leave, or the waitlist of a full campaign.                *)

mine(p, b) == {i \in Rows : p[i].userId = b}
holding(p, b) == {i \in mine(p, b) : holdsPlace(p[i])}
queued(p, b) == {i \in mine(p, b) : isWaiting(p[i])}

pledge(r) ==
  LET m == mem[r]
      c == m.base
      full == isGoingAhead(c)
      refused == \/ c.closed \/ c.decisionDueAt # 0
                 \/ ~full /\ c.cutoffAt <= now
                 \/ full /\ (c.whenFull # "waitlist" \/ holding(pledges, m.who) # {})
  IN  /\ at[r] = "pledge"
      /\ IF refused THEN ends(r) ELSE goes(r, "join", [m EXCEPT !.pledges = pledges, !.orders = Drafts])
      /\ stored /\ others /\ histories

join(r) ==
  LET m == mem[r]
      full == isGoingAhead(m.base)
      existing == IF full THEN queued(m.pledges, m.who) ELSE holding(m.pledges, m.who)
      unused == {i \in Rows : pledges[i].status = "none"}
      row == [status |-> IF full THEN "waiting" ELSE "held", userId |-> m.who, offerDueAt |-> 0]
  IN  /\ at[r] = "join"
      /\ \/ /\ existing # {}   \* a bare second tap, or another number
            /\ \E new \in {row, [row EXCEPT !.status = "left"]} :
                 pledges' = [pledges EXCEPT ![Min(existing)] = new]
         \/ /\ existing = {}
            /\ pledges' = IF unused = {} THEN pledges ELSE [pledges EXCEPT ![Min(unused)] = row]
      /\ goes(r, "list", reconciles(NoCopy, m.base, "read"))
      /\ UNCHANGED <<campaign, orders>> /\ others /\ histories

-----------------------------------------------------------------------------
(* placeOrder, from its checks on.                                         *)

preOrderRefusal(c, p, b) ==
  \/ c.closed \/ c.decisionDueAt # 0
  \/ ~isGoingAhead(c) /\ c.cutoffAt <= now
  \/ /\ isGoingAhead(c) /\ holding(p, b) = {}
     /\ c.whenFull # "keep_open" \/ c.cutoffAt <= now

place(r) ==
  LET m == mem[r]
  IN  /\ at[r] = "place"
      /\ IF preOrderRefusal(m.base, pledges, m.who) THEN ends(r)
         ELSE goes(r, "claim", [reconciles(m, Fresh, "place") EXCEPT !.who = m.who])
      /\ stored /\ others /\ histories

writesOwn(r, status, step) ==
  LET m == mem[r]
      b == m.who
  IN  IF orders[b] = [status |-> status, log |-> m.log]
      THEN /\ orders' = [orders EXCEPT ![b] = [status |-> "placed", log |-> m.log + 1]]
           /\ goes(r, step, [m EXCEPT !.log = @ + 1])
      ELSE ends(r) /\ UNCHANGED orders

claim(r) ==
  /\ at[r] = "claim"
  /\ writesOwn(r, "draft", "take")
  /\ UNCHANGED <<campaign, pledges>> /\ others /\ histories

\* takeStock, as far as the campaign's count of it.
takeStock(r) ==
  /\ at[r] = "take"
  /\ campaign' = [campaign EXCEPT !.filledCount = @ + Units[mem[r].who]]
  /\ booked' = IF campaign.closed THEN booked ELSE booked \cup {mem[r].who}
  /\ goes(r, "convert", mem[r])
  /\ UNCHANGED <<pledges, orders, calledOff>> /\ others

unbooked(row) == row.status \in {"held", "waiting", "lapsed"}

\* The buyer's own pledge, made good; what it was meanwhile makes no difference.
convert(r) ==
  LET own == {i \in mine(pledges, mem[r].who) : unbooked(pledges[i])}
  IN  /\ at[r] = "convert"
      /\ pledges' = IF own = {} THEN pledges ELSE [pledges EXCEPT ![Min(own)].status = "booked"]
      /\ goes(r, "stamp", mem[r])
      /\ UNCHANGED <<campaign, orders>> /\ others /\ histories

stamp(r) ==
  /\ at[r] = "stamp"
  /\ writesOwn(r, "placed", "reread")
  /\ UNCHANGED <<campaign, pledges>> /\ others /\ histories

reread(r) ==
  /\ at[r] = "reread"
  /\ goes(r, "list", reconciles(NoCopy, campaign, "read"))
  /\ stored /\ others /\ histories

-----------------------------------------------------------------------------
(* sellerDecides and editPreOrder.                                         *)

decide(r) ==
  LET m == [mem[r] EXCEPT !.op = "decided", !.time = now]
      c == m.base
      n == committed(m.pledges, m.orders)
  IN  /\ at[r] = "decide"
      /\ \/ /\ c.closed /\ ends(r)
         \/ /\ ~c.closed
            /\ ~c.proceededShort /\ (c.filledAt = 0 \/ n < c.threshold) /\ n # 0
            /\ goes(r, "settle",
                    [m EXCEPT !.next = goAheadShort(c, c.filledAt = 0 \/ c.pledgeDueAt = 0, now)])
         \/ ~c.closed /\ goes(r, "settle", [m EXCEPT !.next = closeCampaign(c)])
         \/ /\ undecided([c EXCEPT !.decisionDueAt = 0])
            /\ \E t \in (now + 1)..Horizon :
                 goes(r, "settle", [m EXCEPT !.next.cutoffAt = t, !.next.decisionDueAt = 0, !.next.lastCall = FALSE])
         \/ /\ waiting(m.pledges) # {}
            /\ \/ isGoingAhead(c) /\ goes(r, "admit", m)
               \/ ~c.closed /\ goes(r, "dismiss", m)
      /\ stored /\ others /\ histories

\* admit, as many as the seller said; dismiss, every one.
waitlistDecided(r) ==
  LET m == mem[r]
      i == Min(waiting(m.pledges))
      p == IF at[r] = "admit" THEN offeredTo(m, i) ELSE [m.pledges EXCEPT ![i].status = "lapsed"]
  IN  /\ at[r] \in {"admit", "dismiss"}
      /\ pledges' = [pledges EXCEPT ![i] = p[i]]
      /\ \/ waiting(p) # {} /\ goes(r, at[r], [m EXCEPT !.pledges = p])
         \/ (at[r] = "admit" \/ waiting(p) = {}) /\ goes(r, "settle", [m EXCEPT !.pledges = p])
      /\ UNCHANGED <<campaign, orders>> /\ others /\ histories

edit(r) ==
  LET m == mem[r]
      c == m.base
      writes(new) ==
        IF campaign = c THEN campaign' = new /\ goes(r, "list", reconciles(m, new, "read"))
        ELSE ends(r) /\ UNCHANGED campaign
  IN  /\ at[r] = "edit"
      /\ \/ c.closed /\ ends(r) /\ UNCHANGED campaign
         \/ /\ ~c.closed /\ ~isGoingAhead(c)
            /\ \/ \E t \in Thresholds : writes([c EXCEPT !.threshold = t])
               \/ \E t \in (now + 1)..Horizon :
                    writes([c EXCEPT !.cutoffAt = t, !.lastCall = FALSE, !.decisionDueAt = 0])
         \/ /\ ~c.closed
            /\ \E rule \in Rules : writes([c EXCEPT !.whenShort = rule[1], !.whenFull = rule[2]])
      /\ UNCHANGED <<pledges, orders>> /\ others /\ histories

-----------------------------------------------------------------------------
\* A parcel leaves, or the tick that said so is undone: within three minutes
\* its line is taken off the history, later another says so.
ship(b) ==
  /\ orders[b].status = "placed"
  /\ orders' = [orders EXCEPT ![b].status = "shipped"]
  /\ UNCHANGED <<campaign, pledges, at, mem>> /\ others /\ histories

unship(b) ==
  /\ orders[b].status = "shipped"
  /\ \E l \in {orders[b].log, orders[b].log + 1} :
       l <= MaxLog /\ orders' = [orders EXCEPT ![b] = [status |-> "placed", log |-> l]]
  /\ UNCHANGED <<campaign, pledges, at, mem>> /\ others /\ histories

\* A tick; a request dies.

tick ==
  /\ now < Horizon /\ now' = now + 1
  /\ UNCHANGED <<campaign, pledges, orders, at, mem, deaths, calledOff, booked>>

die(r) ==
  /\ underWay(r) /\ deaths < MaxDeaths
  /\ deaths' = deaths + 1 /\ ends(r)
  /\ stored /\ UNCHANGED now /\ histories

step(r) ==
  \/ listRows(r) \/ letGo(r) \/ admitNext(r) \/ callOffOrder(r) \/ save(r)
  \/ pledge(r) \/ join(r) \/ decide(r) \/ waitlistDecided(r) \/ edit(r)
  \/ place(r) \/ claim(r) \/ takeStock(r) \/ convert(r) \/ stamp(r) \/ reread(r)

Next ==
  \/ \E r \in Requests : request(r)
  \/ reader
  \/ \E r \in Everyone : step(r) \/ die(r)
  \/ \E b \in Buyers : ship(b) \/ unship(b)
  \/ tick

Spec == Init /\ [][Next]_vars

\* A request that runs goes on; reads, and with them the clock, keep coming;
\* and a dispatch is not undone for ever, which refuses every call-off.
Fairness ==
  /\ \A r \in Everyone : WF_vars(step(r))
  /\ WF_vars(clock)
  /\ <>[][~\E b \in Buyers : unship(b)]_vars
FairSpec == Spec /\ Fairness

-----------------------------------------------------------------------------
TypeOK ==
  /\ campaign \in Campaign
  /\ pledges \in [Rows -> Row]
  /\ orders \in [Buyers -> Order]
  /\ now \in 1..Horizon
  /\ deaths \in 0..MaxDeaths
  /\ booked \subseteq Buyers

\* A booking is called off, and its money owed back, once, and never when the
\* parcel has left: two reads that both close a campaign, or a close and a
\* shipment, are told apart by the version of the order (closeCampaign).
CalledOffOnce ==
  \A b \in Buyers : calledOff[b] = IF orders[b].status = "called_off" THEN 1 ELSE 0

\* A campaign is closed over nobody it knows to be booked: whoever its
\* reconcile read as booked and not shipped has been called off by the time the
\* close is saved, and a call-off that was refused stops it (closeCampaign).
CloseCallsOffWhatItRead ==
  [][\A r \in Everyone : save(r) /\ campaign'.closed /\ ~campaign.closed =>
       \A b \in Buyers : mem[r].orders[b].status \in {"placed", "called_off"} => orders[b].status = "called_off"]_vars

\* A campaign that is over stays over, and one that went ahead went ahead:
\* no copy read before it brings it back (save).
OverIsOver ==
  [][/\ campaign.closed => campaign'.closed
     /\ campaign.filledAt # 0 => campaign'.filledAt = campaign.filledAt]_vars

\* A place is let go by a reconcile only a whole grace after the campaign went
\* ahead (reconcilePreOrder).
LetGoAfterGrace ==
  [][\A r \in Everyone : letGo(r) => campaign.filledAt # 0 /\ now >= campaign.filledAt + Grace]_vars

\* A cutoff or a pause that has run out is settled, by whoever looks
\* (closeDuePreOrders), though a reconcile loses its writes to other requests.
DueIsSettled == Due ~> ~Due
=============================================================================
