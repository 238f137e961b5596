------------------------------ MODULE PowerSale -----------------------------
(***************************************************************************)
(* A scheduled sale in a shop's channel: a message that opens it, its items*)
(* one at a time at the members' price, each to everybody when its window  *)
(* ends, a message that closes it (api/src/functions/power-sale.ts, stop   *)
(* of power-sale-routes.ts, remind of showcase-routes.ts).                 *)
(*                                                                         *)
(* The clock and every look at the sale run a pass, which writes what falls*)
(* due within the lookahead to show at its own time, under fixed            *)
(* identifiers: of two passes that write a thing, the second finds it      *)
(* there.  The sale itself is saved last, without a check, by passes, by   *)
(* stop and by reminders: the last to save has it their way.               *)
(*                                                                         *)
(* Times are ticks, 0 is none.  The notices of the opening and the         *)
(* heads-up, which are written as the reminders are, are left out.         *)
(***************************************************************************)
EXTENDS Integers, FiniteSetsExt

CONSTANTS Last,       \* the sale has items 1 to Last
          Opening, Lead, Every, Window,  \* its schedule
          Lookahead,
          Members,    \* who may ask to be reminded
          Passes,     \* the clock and lookers, one pass after another
          Requests,   \* one request each: a look, a stop, a reminder
          Horizon,    \* the last tick
          MaxFailures \* requests that may die half way, announcements lost

ASSUME ScheduleAssumption ==
  /\ {Last, Opening, Lead, Every, Window, Horizon} \subseteq Nat \ {0}
  /\ {Lookahead, MaxFailures} \subseteq Nat
  /\ Opening <= Horizon

VARIABLES sale, posts, listings, notices, now,
          at, mem,   \* the step each request takes next, and its copies
          failures,
          stopped    \* history: the seller pressed stop

vars == <<sale, posts, listings, notices, now, at, mem, failures, stopped>>

Items == 1..Last
Times == 0..(Horizon + Lookahead + Lead + Window + Every * Last)
Everyone == Passes \cup Requests

Item == [postedAt : Times, windowEndsAt : Times, listed : BOOLEAN, lifted : BOOLEAN, publicPostAt : Times]
Sale == [status : {"scheduled", "running", "done", "cancelled"}, openedAt : Times, closingAt : Times,
         remindedAt : Times, reminders : SUBSET Members, items : [Items -> Item]]
Posts == [opening : Times, drop : [Items -> Times], public : [Items -> Times], closing : Times]
Listing == [status : {"absent", "members", "public"}, visibleAt : Times, windowEndsAt : Times]
Absent == [status |-> "absent", visibleAt |-> 0, windowEndsAt |-> 0]

dueAt(i) == Opening + Lead + Every * (i - 1)
later(a, b) == IF a > b THEN a ELSE b
over(s) == s.status \in {"done", "cancelled"}

-----------------------------------------------------------------------------
NoItem == [postedAt |-> 0, windowEndsAt |-> 0, listed |-> FALSE, lifted |-> FALSE, publicPostAt |-> 0]
NewSale == [status |-> "scheduled", openedAt |-> 0, closingAt |-> 0, remindedAt |-> 0,
            reminders |-> {}, items |-> [i \in Items |-> NoItem]]
\* Opened on time, and everybody has asked to be reminded.
Asked == [NewSale EXCEPT !.status = "running", !.openedAt = Opening, !.reminders = Members]
NoCopy == [sale |-> NewSale, time |-> 0, caughtUp |-> FALSE, changed |-> FALSE, listing |-> [i \in Items |-> Absent], who |-> {}]

Init ==
  /\ \/ sale = NewSale /\ now = 1
     \/ sale = Asked /\ now = Opening
  /\ posts = [opening |-> sale.openedAt, drop |-> [i \in Items |-> 0], public |-> [i \in Items |-> 0], closing |-> 0]
  /\ listings = [i \in Items |-> Absent]
  /\ notices = [m \in Members |-> 0]
  /\ at = [r \in Everyone |-> "idle"]
  /\ mem = [r \in Everyone |-> NoCopy]
  /\ failures = 0
  /\ stopped = FALSE

goes(r, step, m) == at' = [at EXCEPT ![r] = step] /\ mem' = [mem EXCEPT ![r] = m]
ends(r) == goes(r, IF r \in Passes THEN "idle" ELSE "done", NoCopy)
others == UNCHANGED <<now, failures, stopped>>

\* Write once: what is there already stays as it is.
once(x, t) == IF x = 0 THEN t ELSE x

-----------------------------------------------------------------------------
(* advancePowerSale.  What a pass does next follows from its copy.         *)

\* slip: only sales still scheduled are listed for the clock
beginScheduled(r) ==
  /\ at[r] = "idle" /\ sale.status = "scheduled"
  /\ goes(r, "pass", [NoCopy EXCEPT !.sale = sale, !.time = now])
  /\ UNCHANGED <<sale, posts, listings, notices>> /\ others

begin(r) ==
  /\ at[r] = "idle" /\ ~over(sale)
  /\ goes(r, "pass", [NoCopy EXCEPT !.sale = sale, !.time = now])
  /\ UNCHANGED <<sale, posts, listings, notices>> /\ others

ahead(m, t) == t <= m.time + Lookahead
allPosted(s) == \A i \in Items : s.items[i].postedAt # 0

opens(m) == m.sale.openedAt = 0 /\ ahead(m, Opening)
dueOf(m, i) == later(dueAt(i), m.sale.openedAt)
drops(m) ==
  LET next == {i \in Items : m.sale.items[i].postedAt = 0}
  IN  {i \in next : /\ m.sale.openedAt # 0 /\ i = Min(next) /\ ahead(m, dueOf(m, i))
                    /\ m.caughtUp => dueOf(m, i) > m.time}
inWindow(s, i) == s.items[i].postedAt # 0 /\ ~s.items[i].lifted /\ s.items[i].listed
announces(m) ==
  {i \in Items : inWindow(m.sale, i) /\ m.sale.items[i].publicPostAt = 0 /\ ahead(m, m.sale.items[i].windowEndsAt)}
lifts(m) == {i \in Items : inWindow(m.sale, i) /\ m.sale.items[i].windowEndsAt <= m.time}
lastWindow(s) == Max({s.items[i].windowEndsAt : i \in Items})
closes(m) == allPosted(m.sale) /\ m.sale.closingAt = 0 /\ ahead(m, lastWindow(m.sale))

\* slip: a sale set to open in the past is marked open with nothing said
openSaleQuietly(r) ==
  LET m == mem[r] IN
  /\ at[r] = "pass" /\ opens(m)
  /\ posts' = IF Opening < m.time THEN posts ELSE [posts EXCEPT !.opening = once(@, Opening)]
  /\ goes(r, "pass", [m EXCEPT !.sale.openedAt = later(Opening, m.time), !.sale.status = "running", !.changed = TRUE])
  /\ UNCHANGED <<sale, listings, notices>> /\ others

openSale(r) ==
  LET m == mem[r]
      t == later(Opening, m.time)
  IN  /\ at[r] = "pass" /\ opens(m)
      /\ posts' = [posts EXCEPT !.opening = once(@, t)]
      /\ goes(r, "pass", [m EXCEPT !.sale.openedAt = t, !.sale.status = "running", !.changed = TRUE])
      /\ UNCHANGED <<sale, listings, notices>> /\ others

\* dropItem: the listing, its post, and for the first item the reminders.
showAt(m, i) == later(dueOf(m, i), m.time)

\* slip: behind schedule, the window is counted from when the item was due
dropItemDue(r) ==
  LET m == mem[r] IN
  /\ at[r] = "pass" /\ ~opens(m)
  /\ \E i \in drops(m) :
       listings' = IF listings[i].status # "absent" THEN listings
                   ELSE [listings EXCEPT ![i] = [status |-> "members", visibleAt |-> showAt(m, i),
                                                 windowEndsAt |-> dueOf(m, i) + Window]]
  /\ goes(r, "post", m)
  /\ UNCHANGED <<sale, posts, notices>> /\ others

dropItem(r) ==
  LET m == mem[r] IN
  /\ at[r] = "pass" /\ ~opens(m)
  /\ \E i \in drops(m) :
       listings' = IF listings[i].status # "absent" THEN listings
                   ELSE [listings EXCEPT ![i] = [status |-> "members", visibleAt |-> showAt(m, i),
                                                 windowEndsAt |-> showAt(m, i) + Window]]
  /\ goes(r, "post", m)
  /\ UNCHANGED <<sale, posts, notices>> /\ others

postItem(r) ==
  LET m == mem[r] IN
  /\ at[r] = "post"
  /\ \E i \in drops(m) :
       LET t == showAt(m, i)
           s == [m.sale EXCEPT !.items[i].postedAt = t, !.items[i].windowEndsAt = t + Window, !.items[i].listed = TRUE]
       IN  /\ posts' = [posts EXCEPT !.drop[i] = once(@, t)]
           /\ goes(r, IF i = 1 /\ s.remindedAt = 0 /\ s.reminders # {} THEN "tell" ELSE "pass",
                   [m EXCEPT !.sale = s, !.changed = TRUE, !.caughtUp = @ \/ dueOf(m, i) <= m.time])
  /\ UNCHANGED <<sale, listings, notices>> /\ others

tellAsked(r) ==
  LET m == mem[r]
      t == m.sale.items[1].postedAt
  IN  /\ at[r] = "tell"
      /\ notices' = [p \in Members |-> IF p \in m.sale.reminders THEN t ELSE notices[p]]
      /\ goes(r, "pass", [m EXCEPT !.sale.remindedAt = t])
      /\ UNCHANGED <<sale, posts, listings>> /\ others

announcedAt(m, i) == later(m.sale.items[i].windowEndsAt, m.time)

announcing(r, i) ==
  LET m == mem[r] IN
  /\ at[r] = "pass" /\ ~opens(m) /\ drops(m) = {}
  /\ i \in announces(m) /\ \A j \in lifts(m) : i <= j
  /\ goes(r, "pass", [m EXCEPT !.sale.items[i].publicPostAt = announcedAt(m, i), !.changed = TRUE])
  /\ UNCHANGED <<sale, listings, notices>>

announce(r) ==
  /\ \E i \in Items : announcing(r, i) /\ posts' = [posts EXCEPT !.public[i] = once(@, announcedAt(mem[r], i))]
  /\ others

\* The post fails, and is recorded all the same.
announceLost(r) ==
  /\ failures < MaxFailures
  /\ \E i \in Items : announcing(r, i)
  /\ failures' = failures + 1
  /\ UNCHANGED <<posts, now, stopped>>

\* The handover: the listing read, and written if it is still as read.
toLift(m) == Min(lifts(m))

readListing(r) ==
  LET m == mem[r] IN
  /\ at[r] = "pass" /\ ~opens(m) /\ drops(m) = {}
  /\ lifts(m) # {} /\ ~(\E i \in announces(m) : i <= toLift(m))
  /\ goes(r, "lift", [m EXCEPT !.listing[toLift(m)] = listings[toLift(m)]])
  /\ UNCHANGED <<sale, posts, listings, notices>> /\ others

public(l) == [l EXCEPT !.status = "public", !.windowEndsAt = 0]

lift(r) ==
  LET m == mem[r]
      i == toLift(m)
      lifted == [m EXCEPT !.sale.items[i].lifted = TRUE, !.changed = TRUE, !.listing[i] = Absent]
  IN  /\ at[r] = "lift"
      /\ IF m.listing[i].status = "absent" THEN goes(r, "pass", lifted) /\ UNCHANGED listings
         ELSE IF listings[i] = m.listing[i]
         THEN listings' = [listings EXCEPT ![i] = public(m.listing[i])] /\ goes(r, "pass", lifted)
         ELSE ends(r) /\ UNCHANGED listings
      /\ UNCHANGED <<sale, posts, notices>> /\ others

quiet(m) == ~opens(m) /\ drops(m) = {} /\ announces(m) = {} /\ lifts(m) = {}

closeSale(r) ==
  LET m == mem[r]
      t == later(lastWindow(m.sale), m.time)
  IN  /\ at[r] = "pass" /\ quiet(m) /\ closes(m)
      /\ posts' = [posts EXCEPT !.closing = once(@, t)]
      /\ goes(r, "pass", [m EXCEPT !.sale.closingAt = t, !.changed = TRUE])
      /\ UNCHANGED <<sale, listings, notices>> /\ others

\* slip: done as soon as everything is posted
finishedPosted(s) == IF allPosted(s) THEN [s EXCEPT !.status = "done"] ELSE s

finishedOf(s) ==
  IF \A i \in Items : s.items[i].postedAt # 0 /\ s.items[i].lifted THEN [s EXCEPT !.status = "done"] ELSE s

save(r) ==
  LET m == mem[r] IN
  /\ at[r] = "pass" /\ quiet(m) /\ ~closes(m)
  /\ sale' = IF m.changed \/ finishedOf(m.sale) # m.sale THEN finishedOf(m.sale) ELSE sale
  /\ ends(r)
  /\ UNCHANGED <<posts, listings, notices>> /\ others

-----------------------------------------------------------------------------
(* stop: what is written ahead is taken back, what has shown goes public.  *)

beginStop(r) ==
  /\ r \in Requests /\ at[r] = "idle"
  /\ IF over(sale) THEN ends(r)
     ELSE goes(r, "callOff", [NoCopy EXCEPT !.sale = sale, !.time = now])
  /\ stopped' = (stopped \/ ~over(sale))
  /\ UNCHANGED <<sale, posts, listings, notices, now, failures>>

hidden(m, t) == t > m.time
hiddenItems(m) ==
  {i \in Items : hidden(m, m.sale.items[i].postedAt) \/ hidden(m, m.sale.items[i].publicPostAt)}

callOffOpening(r) ==
  LET m == mem[r] IN
  /\ at[r] = "callOff" /\ hidden(m, m.sale.openedAt)
  /\ posts' = [posts EXCEPT !.opening = 0]
  /\ goes(r, "callOff", [m EXCEPT !.sale.openedAt = 0])
  /\ UNCHANGED <<sale, listings, notices>> /\ others

callOffNotices(r) ==
  LET m == mem[r] IN
  /\ at[r] = "callOff" /\ ~hidden(m, m.sale.openedAt) /\ hidden(m, m.sale.remindedAt)
  /\ notices' = [p \in Members |-> IF p \in m.sale.reminders THEN 0 ELSE notices[p]]
  /\ goes(r, "callOff", [m EXCEPT !.sale.remindedAt = 0])
  /\ UNCHANGED <<sale, posts, listings>> /\ others

callOffItem(r) ==
  LET m == mem[r]
      i == Min(hiddenItems(m))
  IN  /\ at[r] = "callOff" /\ ~hidden(m, m.sale.openedAt) /\ ~hidden(m, m.sale.remindedAt)
      /\ hiddenItems(m) # {}
      /\ IF hidden(m, m.sale.items[i].postedAt)
         THEN posts' = [posts EXCEPT !.drop[i] = 0] /\ goes(r, "callOffListing", m)
         ELSE /\ posts' = [posts EXCEPT !.public[i] = 0]
              /\ goes(r, "callOff", [m EXCEPT !.sale.items[i].publicPostAt = 0])
      /\ UNCHANGED <<sale, listings, notices>> /\ others

callOffListing(r) ==
  LET m == mem[r]
      i == Min(hiddenItems(m))
  IN  /\ at[r] = "callOffListing"
      /\ listings' = [listings EXCEPT ![i] = Absent]
      /\ goes(r, "callOff", [m EXCEPT !.sale.items[i].postedAt = 0, !.sale.items[i].windowEndsAt = 0,
                                      !.sale.items[i].listed = FALSE])
      /\ UNCHANGED <<sale, posts, notices>> /\ others

callOffClosing(r) ==
  LET m == mem[r] IN
  /\ at[r] = "callOff" /\ ~hidden(m, m.sale.openedAt) /\ ~hidden(m, m.sale.remindedAt) /\ hiddenItems(m) = {}
  /\ posts' = IF hidden(m, m.sale.closingAt) THEN [posts EXCEPT !.closing = 0] ELSE posts
  /\ goes(r, "pending", [m EXCEPT !.sale.closingAt = IF hidden(m, @) THEN 0 ELSE @])
  /\ UNCHANGED <<sale, listings, notices>> /\ others

\* releaseItems: all the listings are read, then written one by one.
pendingOf(s) == {i \in Items : s.items[i].listed /\ ~s.items[i].lifted}

readPending(r) ==
  LET m == mem[r] IN
  /\ at[r] = "pending"
  /\ goes(r, "release", [m EXCEPT !.listing = [i \in Items |-> IF i \in pendingOf(m.sale) THEN listings[i] ELSE Absent]])
  /\ UNCHANGED <<sale, posts, listings, notices>> /\ others

held(m) == {i \in Items : m.listing[i] # Absent}

release(r) ==
  LET m == mem[r]
      i == Min(held(m))
  IN  /\ at[r] = "release" /\ held(m) # {}
      /\ IF listings[i] = m.listing[i]
         THEN /\ listings' = [listings EXCEPT ![i] = public(m.listing[i])]
              /\ goes(r, "release", [m EXCEPT !.sale.items[i].lifted = TRUE, !.listing[i] = Absent])
         ELSE ends(r) /\ UNCHANGED listings
      /\ UNCHANGED <<sale, posts, notices>> /\ others

cancel(r) ==
  /\ at[r] = "release" /\ held(mem[r]) = {}
  /\ sale' = [mem[r].sale EXCEPT !.status = "cancelled"]
  /\ ends(r)
  /\ UNCHANGED <<posts, listings, notices>> /\ others

-----------------------------------------------------------------------------
(* remind, pressed by a member while the sale counts down to its first item*)

shown(s) == /\ s.status = "running" /\ s.openedAt # 0 /\ s.openedAt <= now
            /\ \A i \in Items : s.items[i].postedAt = 0 \/ s.items[i].postedAt > now

beginRemind(r) ==
  /\ r \in Requests /\ at[r] = "idle"
  /\ IF shown(sale) THEN goes(r, "remind", [NoCopy EXCEPT !.sale = sale]) ELSE ends(r)
  /\ UNCHANGED <<sale, posts, listings, notices>> /\ others

remind(r) ==
  /\ at[r] = "remind"
  /\ \E p \in Members :
       LET s == mem[r].sale
           saved == [s EXCEPT !.reminders = IF p \in @ THEN @ \ {p} ELSE @ \cup {p}]
       IN  /\ sale' = saved
           /\ goes(r, IF s.remindedAt = 0 \/ s.items[1].postedAt = 0 THEN "done"
                      ELSE IF p \in s.reminders THEN "untell" ELSE "tellOne",
                   IF s.remindedAt = 0 \/ s.items[1].postedAt = 0 THEN NoCopy
                   ELSE [mem[r] EXCEPT !.who = {p}])
  /\ UNCHANGED <<posts, listings, notices>> /\ others

\* remindOne, the first item being written ahead and its notices with it.
remindOne(r) ==
  LET m == mem[r] IN
  /\ at[r] \in {"tellOne", "untell"}
  /\ notices' = [p \in Members |-> IF p \notin m.who THEN notices[p]
                                    ELSE IF at[r] = "untell" THEN 0 ELSE m.sale.items[1].postedAt]
  /\ ends(r)
  /\ UNCHANGED <<sale, posts, listings>> /\ others

-----------------------------------------------------------------------------
die(r) ==
  /\ at[r] \notin {"idle", "done"} /\ failures < MaxFailures
  /\ failures' = failures + 1
  /\ ends(r)
  /\ UNCHANGED <<sale, posts, listings, notices, now, stopped>>

tick ==
  /\ now < Horizon
  /\ now' = now + 1
  /\ UNCHANGED <<sale, posts, listings, notices, at, mem, failures, stopped>>

step(r) ==
  \/ openSale(r) \/ dropItem(r) \/ postItem(r) \/ tellAsked(r) \/ announce(r)
  \/ readListing(r) \/ lift(r) \/ closeSale(r) \/ save(r)
  \/ callOffOpening(r) \/ callOffNotices(r) \/ callOffItem(r) \/ callOffListing(r) \/ callOffClosing(r)
  \/ readPending(r) \/ release(r) \/ cancel(r)
  \/ remind(r) \/ remindOne(r)

Next ==
  \/ tick
  \/ \E r \in Everyone : begin(r) \/ beginStop(r) \/ beginRemind(r) \/ step(r) \/ announceLost(r) \/ die(r)

\* What a request has begun it goes on with, time goes on, and the clock
\* comes round: a pass that can begin does.
Fairness ==
  /\ \A r \in Everyone : WF_vars(step(r))
  /\ \A r \in Passes : WF_vars(begin(r))
  /\ WF_vars(tick)

Spec == Init /\ [][Next]_vars
FairSpec == Spec /\ Fairness

-----------------------------------------------------------------------------
Steps == {"idle", "pass", "post", "tell", "lift", "callOff", "callOffListing", "pending", "release",
          "remind", "tellOne", "untell", "done"}
Copy == [sale : Sale, time : Times, caughtUp : BOOLEAN, changed : BOOLEAN,
         listing : [Items -> Listing], who : SUBSET Members]

\* Types, and a listing at the members' price has its whole window: it ends
\* Window after the listing first shows (dropItem), written late or ahead.
TypeOK ==
  /\ sale \in Sale /\ posts \in Posts /\ listings \in [Items -> Listing]
  /\ \A i \in Items : listings[i].status = "members" => listings[i].windowEndsAt = listings[i].visibleAt + Window
  /\ notices \in [Members -> Times] /\ now \in 0..Horizon
  /\ at \in [Everyone -> Steps] /\ mem \in [Everyone -> Copy]
  /\ failures \in 0..MaxFailures /\ stopped \in BOOLEAN

\* A sale that ran to its end has posted every item, handed it over, and told
\* everybody of it or tried to, whichever of the passes that raced did which
\* part and whatever a reminder wrote back (step 4 of advancePowerSale).
DoneMeansPublic ==
  (sale.status = "done" /\ ~stopped) =>
    \A i \in Items : /\ posts.drop[i] # 0 /\ listings[i].status = "public"
                     /\ sale.items[i].publicPostAt # 0

\* What the saved sale says was done was done: the opening before any item, an
\* item's listing and its post, and its handover.  Passes write these first and
\* the sale last, so a pass that dies leaves the sale behind, never ahead.
LedgerIsTrue ==
  ~stopped => \A i \in Items :
    /\ sale.items[i].postedAt # 0 => posts.opening # 0 /\ posts.drop[i] # 0 /\ listings[i].status # "absent"
    /\ sale.items[i].lifted => listings[i].status = "public"

\* No item is left for good at the members' price after its window, in a sale
\* that is not over: refused writes, dead passes and copies written back are
\* made up for by the next pass (tickPowerSales).
WindowCloses ==
  \A i \in Items : []<>~(~over(sale) /\ inWindow(sale, i) /\ sale.items[i].windowEndsAt <= now)

=============================================================================
