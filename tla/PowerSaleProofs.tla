-------------------------- MODULE PowerSaleProofs ---------------------------
(***************************************************************************)
(* PowerSale, for any items, schedule, members and passes: until the seller*)
(* stops it, what the saved sale says was done was done, and a sale that   *)
(* is done has everything public.                                          *)
(*                                                                         *)
(* Whatever is written is written for good: posts are written once, a      *)
(* listing is there, then public (Grows).  So a copy of the sale, however  *)
(* old, is true of the board (Truth), and may be saved over another.  Once *)
(* the seller stops it that is no longer so, and nothing is said of it.    *)
(* Stopped or not, the types hold, and with them that a listing at the     *)
(* members' price has its whole window (TInv).                             *)
(***************************************************************************)
EXTENDS PowerSale, Sums

ItemT == [postedAt : Nat, windowEndsAt : Nat, listed : BOOLEAN, lifted : BOOLEAN, publicPostAt : Nat]

IsSale(s) ==
  /\ DOMAIN s = {"status", "openedAt", "closingAt", "remindedAt", "reminders", "items"}
  /\ s.openedAt \in Nat /\ s.items \in [Items -> ItemT]

IsListing(l) == DOMAIN l = {"status", "visibleAt", "windowEndsAt"}

IsBoard(p, l) ==
  /\ DOMAIN p = {"opening", "drop", "public", "closing"}
  /\ DOMAIN p.drop = Items /\ DOMAIN p.public = Items
  /\ DOMAIN l = Items /\ \A i \in Items : IsListing(l[i])

\* What a sale says was done, the posts p and the listings l show.
Truth(s, p, l) ==
  /\ s.openedAt # 0 => p.opening # 0
  /\ \A i \in Items :
       /\ s.items[i].postedAt # 0 =>
            p.opening # 0 /\ p.drop[i] # 0 /\ l[i].status # "absent" /\ s.items[i].windowEndsAt # 0
       /\ s.items[i].lifted => l[i].status = "public" /\ s.items[i].publicPostAt # 0
       /\ s.status = "done" => s.items[i].postedAt # 0 /\ s.items[i].lifted

\* What is on the board stays there.
Grows(p2, l2, p, l) ==
  /\ p.opening # 0 => p2.opening # 0
  /\ \A i \in Items :
       /\ p.drop[i] # 0 => p2.drop[i] # 0
       /\ l[i].status # "absent" => l2[i].status # "absent"
       /\ l[i].status = "public" => l2[i].status = "public"

IsCopy(m) ==
  /\ DOMAIN m = {"sale", "time", "caughtUp", "changed", "listing", "who"}
  /\ IsSale(m.sale) /\ m.time \in Nat
  /\ DOMAIN m.listing = Items /\ \A i \in Items : IsListing(m.listing[i])

AtStep(m, s, l) ==
  /\ s = "post" => \A i \in drops(m) : l[i].status # "absent"
  /\ s = "lift" => /\ toLift(m) \in Items
                   /\ m.listing[toLift(m)].status # "absent"
                   /\ m.sale.items[toLift(m)].publicPostAt # 0
  /\ s \notin {"callOff", "callOffListing", "pending", "release"}

Fits(m, s, p, l) == IsCopy(m) /\ Truth(m.sale, p, l) /\ AtStep(m, s, l)

Running ==
  /\ now \in Nat
  /\ IsBoard(posts, listings)
  /\ IsSale(sale) /\ Truth(sale, posts, listings)
  /\ DOMAIN at = Everyone /\ DOMAIN mem = Everyone
  /\ \A r \in Everyone : Fits(mem[r], at[r], posts, listings)

IInv == stopped \in BOOLEAN /\ (stopped \/ Running)

-----------------------------------------------------------------------------
(* Times and boards.                                                       *)

LEMMA MinIsLeast ==
  ASSUME NEW S, S \subseteq Nat, S # {}
  PROVE  Min(S) \in S /\ \A y \in S : Min(S) <= y
<1> DEFINE R == OpToRel(<, Nat)
<1>1. IsWellFoundedOn(R, Nat)
  BY NatLessThanWellFounded, Zenon
<1>2. \A x \in Nat, y \in Nat : y < x => <<y, x>> \in R
  BY DEF OpToRel
<1> HIDE DEF R
<1>3. PICK x \in S : \A y \in S : <<y, x>> \notin R
  BY <1>1, WFMin
<1>4. \A y \in S : x <= y
  <2> SUFFICES ASSUME NEW y \in S PROVE x <= y
    OBVIOUS
  <2>1. x \in Nat /\ y \in Nat /\ <<y, x>> \notin R
    BY <1>3
  <2>2. ~(y < x)
    BY <1>2, <2>1
  <2> QED BY <2>1, <2>2
<1> QED BY <1>4 DEF Min

LEMMA LaterIs ==
  ASSUME NEW a \in Int, NEW b \in Nat
  PROVE  later(a, b) \in Nat /\ later(a, b) >= b /\ (a \in Nat => later(a, b) >= a)
BY DEF later

LEMMA ShowAtIs ==
  ASSUME NEW m, IsCopy(m), NEW i \in Items, m.sale.openedAt # 0
  PROVE  showAt(m, i) \in Nat \ {0}
<1>1. dueAt(i) \in Int
  BY ScheduleAssumption DEF dueAt, Items
<1>2. m.sale.openedAt \in Nat \ {0} /\ m.time \in Nat
  BY DEF IsCopy, IsSale
<1>3. dueOf(m, i) \in Nat /\ dueOf(m, i) >= m.sale.openedAt
  BY <1>1, <1>2, LaterIs DEF dueOf
<1> DEFINE d == dueOf(m, i)
           t == later(d, m.time)
<1>4. showAt(m, i) = t
  BY DEF showAt
<1>5. d \in Nat /\ d \in Int /\ d >= m.sale.openedAt
  BY <1>3
<1> HIDE DEF d
<1>6. t \in Nat /\ t >= d
  BY <1>2, <1>5, LaterIs
<1> HIDE DEF t
<1>7. t # 0
  BY <1>2, <1>5, <1>6
<1> QED BY <1>4, <1>6, <1>7

LEMMA TruthLater ==
  ASSUME NEW s, NEW p, NEW l, Truth(s, p, l), NEW p2, NEW l2, Grows(p2, l2, p, l)
  PROVE  Truth(s, p2, l2)
BY DEF Truth, Grows

LEMMA SelfGrows == ASSUME NEW p, NEW l PROVE Grows(p, l, p, l)
BY DEF Grows

LEMMA FitsLater ==
  ASSUME NEW m, NEW s, NEW p, NEW l, Fits(m, s, p, l), NEW p2, NEW l2, Grows(p2, l2, p, l)
  PROVE  Fits(m, s, p2, l2)
<1>1. Truth(m.sale, p2, l2)
  BY TruthLater DEF Fits
<1>2. AtStep(m, s, l2)
  <2>1. \A i \in drops(m) : i \in Items
    BY DEF drops
  <2> QED BY <2>1 DEF Fits, AtStep, Grows
<1> QED BY <1>1, <1>2 DEF Fits

LEMMA Moves ==
  ASSUME Running, NEW r \in Everyone, NEW s, NEW m, goes(r, s, m), now' \in Nat,
         IsBoard(posts', listings'), Grows(posts', listings', posts, listings),
         IsSale(sale'), Truth(sale', posts', listings'), Fits(m, s, posts', listings')
  PROVE  Running'
<1>1. DOMAIN at = Everyone /\ DOMAIN mem = Everyone
  BY DEF Running
<1>2. DOMAIN at' = Everyone /\ DOMAIN mem' = Everyone
  BY <1>1 DEF goes
<1>3. ASSUME NEW q \in Everyone
      PROVE  Fits(mem'[q], at'[q], posts', listings')
  <2>1. CASE q = r
    <3>1. mem'[q] = m /\ at'[q] = s
      BY <1>1, <2>1 DEF goes
    <3> QED BY <3>1
  <2>2. CASE q # r
    <3>1. mem'[q] = mem[q] /\ at'[q] = at[q]
      BY <1>1, <2>2 DEF goes
    <3>2. Fits(mem[q], at[q], posts, listings)
      BY DEF Running
    <3>3. Fits(mem[q], at[q], posts', listings')
      BY <3>2, FitsLater
    <3> QED BY <3>1, <3>3
  <2> QED BY <2>1, <2>2
<1> QED BY <1>2, <1>3 DEF Running

\* Nothing is written.
LEMMA MovesAlone ==
  ASSUME Running, NEW r \in Everyone, NEW s, NEW m, goes(r, s, m), UNCHANGED <<sale, posts, listings, now>>,
         Fits(m, s, posts, listings)
  PROVE  Running'
<1>1. /\ now' \in Nat /\ IsBoard(posts', listings') /\ IsSale(sale') /\ Truth(sale', posts', listings')
      /\ Grows(posts', listings', posts, listings) /\ Fits(m, s, posts', listings')
  BY SelfGrows DEF Running
<1> QED BY <1>1, Moves

\* The board is written.
LEMMA MovesBoard ==
  ASSUME Running, NEW r \in Everyone, NEW s, NEW m, goes(r, s, m), UNCHANGED <<sale, now>>,
         IsBoard(posts', listings'), Grows(posts', listings', posts, listings), Fits(m, s, posts', listings')
  PROVE  Running'
<1>1. now' \in Nat /\ IsSale(sale')
  BY DEF Running
<1>2. Truth(sale', posts', listings')
  BY TruthLater DEF Running
<1> QED BY <1>1, <1>2, Moves

\* The sale is saved.
LEMMA MovesSale ==
  ASSUME Running, NEW r \in Everyone, NEW s, NEW m, goes(r, s, m), UNCHANGED <<posts, listings, now>>,
         IsSale(sale'), Truth(sale', posts, listings), Fits(m, s, posts, listings)
  PROVE  Running'
<1>1. /\ now' \in Nat /\ IsBoard(posts', listings') /\ Truth(sale', posts', listings')
      /\ Grows(posts', listings', posts, listings) /\ Fits(m, s, posts', listings')
  BY SelfGrows DEF Running
<1> QED BY <1>1, Moves

LEMMA Mine ==
  ASSUME Running, NEW r \in Everyone
  PROVE  /\ IsCopy(mem[r]) /\ Truth(mem[r].sale, posts, listings) /\ AtStep(mem[r], at[r], listings)
         /\ IsBoard(posts, listings) /\ now \in Nat /\ IsSale(sale) /\ Truth(sale, posts, listings)
BY DEF Running, Fits

LEMMA NewSaleIs == IsSale(NewSale) /\ \A p, l : Truth(NewSale, p, l)
BY DEF NewSale, NoItem, IsSale, ItemT, Truth

LEMMA NoCopyFits ==
  ASSUME NEW s \in {"idle", "done"}, NEW p, NEW l
  PROVE  IsCopy(NoCopy) /\ Fits(NoCopy, s, p, l)
<1>1. IsCopy(NoCopy) /\ NoCopy.sale = NewSale
  BY NewSaleIs DEF IsCopy, NoCopy, IsListing, Absent
<1> QED BY <1>1, NewSaleIs DEF Fits, AtStep

LEMMA Ends ==
  ASSUME NEW r, ends(r)
  PROVE  \E s, m : goes(r, s, m) /\ \A p, l : Fits(m, s, p, l)
<1> DEFINE s == IF r \in Passes THEN "idle" ELSE "done"
<1>1. goes(r, s, NoCopy) /\ s \in {"idle", "done"}
  BY DEF ends
<1> HIDE DEF s
<1> QED BY <1>1, NoCopyFits

-----------------------------------------------------------------------------
(* Every step of a pass and of a reminder keeps the invariant.             *)

LEMMA BeginKeeps ==
  ASSUME Running, NEW r \in Everyone, begin(r)
  PROVE  Running'
<1> DEFINE e == [NoCopy EXCEPT !.sale = sale, !.time = now]
<1>1. goes(r, "pass", e) /\ UNCHANGED <<sale, posts, listings, now>>
  BY DEF begin, others
<1>2. IsCopy(e) /\ e.sale = sale
  BY Mine, NoCopyFits DEF IsCopy
<1> HIDE DEF e
<1>3. Fits(e, "pass", posts, listings)
  BY <1>2, Mine DEF Fits, AtStep
<1> QED BY <1>1, <1>3, MovesAlone

LEMMA OpenSaleKeeps ==
  ASSUME Running, NEW r \in Everyone, openSale(r)
  PROVE  Running'
<1> DEFINE m == mem[r]
           t == later(Opening, m.time)
           p == once(posts.opening, t)
           s == [m.sale EXCEPT !.openedAt = t, !.status = "running"]
           e == [m EXCEPT !.sale = s, !.changed = TRUE]
<1>1. IsCopy(m) /\ Truth(m.sale, posts, listings) /\ IsBoard(posts, listings)
  BY Mine
<1>2. /\ posts' = [posts EXCEPT !.opening = p] /\ UNCHANGED <<sale, listings, now>>
      /\ goes(r, "pass", [m EXCEPT !.sale.openedAt = t, !.sale.status = "running", !.changed = TRUE])
  BY DEF openSale, others
<1>3. t \in Nat /\ t # 0
  <2>1. m.time \in Nat /\ Opening \in Nat /\ Opening \in Int /\ Opening >= 1
    BY <1>1, ScheduleAssumption DEF IsCopy
  <2> HIDE DEF m
  <2>2. t \in Nat /\ t >= Opening
    BY <2>1, LaterIs
  <2> HIDE DEF t
  <2> QED BY <2>1, <2>2
<1> HIDE DEF t
<1>4. p # 0
  BY <1>3 DEF once
<1> HIDE DEF p
<1>5. [m EXCEPT !.sale.openedAt = t, !.sale.status = "running", !.changed = TRUE] = e
  BY <1>1 DEF IsCopy, IsSale
<1> HIDE DEF m
<1>6. IsSale(s) /\ s.openedAt = t /\ s.status = "running" /\ s.items = m.sale.items
  BY <1>1, <1>3 DEF IsCopy, IsSale
<1>7. IsBoard(posts', listings') /\ Grows(posts', listings', posts, listings) /\ posts'.opening # 0
  BY <1>1, <1>2, <1>4 DEF IsBoard, Grows
<1> HIDE DEF s
<1>8. Truth(s, posts', listings')
  <2>1. Truth(m.sale, posts', listings')
    BY <1>1, <1>7, TruthLater
  <2> QED BY <1>6, <1>7, <2>1 DEF Truth
<1>9. IsCopy(e) /\ e.sale = s
  BY <1>1, <1>6 DEF IsCopy
<1>10. goes(r, "pass", e)
  BY <1>2, <1>5
<1> HIDE DEF e
<1>11. Fits(e, "pass", posts', listings')
  BY <1>8, <1>9 DEF Fits, AtStep
<1> QED BY <1>2, <1>7, <1>10, <1>11, MovesBoard

LEMMA DropItemKeeps ==
  ASSUME Running, NEW r \in Everyone, dropItem(r)
  PROVE  Running'
<1> DEFINE m == mem[r]
<1>1. PICK i \in drops(m) :
        listings' = IF listings[i].status # "absent" THEN listings
                    ELSE [listings EXCEPT ![i] = [status |-> "members", visibleAt |-> showAt(m, i),
                                                  windowEndsAt |-> showAt(m, i) + Window]]
  BY DEF dropItem
<1>2. goes(r, "post", m) /\ UNCHANGED <<sale, posts, now>>
  BY DEF dropItem, others
<1>3. i \in Items /\ \A j \in drops(m) : j = i
  BY DEF drops
<1> DEFINE x == [status |-> "members", visibleAt |-> showAt(m, i), windowEndsAt |-> showAt(m, i) + Window]
<1>4. IsListing(x) /\ x.status = "members"
  BY DEF IsListing
<1>5. listings' = IF listings[i].status # "absent" THEN listings ELSE [listings EXCEPT ![i] = x]
  BY <1>1
<1> HIDE DEF x
<1>6. IsBoard(posts', listings') /\ Grows(posts', listings', posts, listings) /\ listings'[i].status # "absent"
  BY <1>2, <1>3, <1>4, <1>5, Mine DEF IsBoard, Grows
<1>7. Fits(m, "post", posts', listings')
  <2>1. Truth(m.sale, posts', listings')
    BY <1>6, Mine, TruthLater
  <2>2. AtStep(m, "post", listings')
    BY <1>3, <1>6 DEF AtStep
  <2> QED BY <2>1, <2>2, Mine DEF Fits
<1> QED BY <1>2, <1>6, <1>7, MovesBoard

LEMMA PostItemKeeps ==
  ASSUME Running, NEW r \in Everyone, postItem(r)
  PROVE  Running'
<1> DEFINE m == mem[r]
<1>1. at[r] = "post" /\ UNCHANGED <<sale, listings, now>>
  BY DEF postItem, others
<1>2. IsCopy(m) /\ Truth(m.sale, posts, listings) /\ IsBoard(posts, listings) /\ AtStep(m, "post", listings)
  BY <1>1, Mine
<1> DEFINE t(i) == showAt(m, i)
           sold(i) == [m.sale EXCEPT !.items[i].postedAt = t(i), !.items[i].windowEndsAt = t(i) + Window,
                                     !.items[i].listed = TRUE]
           late(i) == m.caughtUp \/ dueOf(m, i) <= m.time
           e(i) == [m EXCEPT !.sale = sold(i), !.changed = TRUE, !.caughtUp = late(i)]
<1>3. PICK i \in drops(m) :
        /\ posts' = [posts EXCEPT !.drop[i] = once(posts.drop[i], t(i))]
        /\ goes(r, "pass", e(i)) \/ goes(r, "tell", e(i))
  BY DEF postItem
<1>4. i \in Items /\ m.sale.items[i].postedAt = 0 /\ m.sale.openedAt # 0
  BY DEF drops
<1> DEFINE p == once(posts.drop[i], t(i))
           w == t(i) + Window
<1>5. t(i) \in Nat /\ t(i) # 0 /\ p # 0 /\ w \in Nat /\ w # 0
  <2>1. t(i) \in Nat \ {0}
    BY <1>2, <1>4, ShowAtIs
  <2> HIDE DEF t
  <2> QED BY <2>1, ScheduleAssumption DEF once
<1> HIDE DEF t, p, late
<1> DEFINE row == [m.sale.items[i] EXCEPT !.postedAt = t(i), !.windowEndsAt = w, !.listed = TRUE]
           rows == [m.sale.items EXCEPT ![i] = row]
           s == [m.sale EXCEPT !.items = rows]
<1>6. sold(i) = s
  BY <1>2, <1>4 DEF IsCopy, IsSale, ItemT
<1> HIDE DEF m, w, sold
<1>7. row \in ItemT /\ row.postedAt = t(i) /\ row.windowEndsAt = w
      /\ row.publicPostAt = m.sale.items[i].publicPostAt /\ row.lifted = m.sale.items[i].lifted
  BY <1>2, <1>4, <1>5 DEF IsCopy, IsSale, ItemT
<1> HIDE DEF row
<1>8. rows \in [Items -> ItemT] /\ \A j \in Items : rows[j] = IF j = i THEN row ELSE m.sale.items[j]
  BY <1>2, <1>7 DEF IsCopy, IsSale
<1> HIDE DEF rows
<1>9. IsSale(s) /\ s.items = rows /\ s.openedAt = m.sale.openedAt /\ s.status = m.sale.status
  BY <1>2, <1>8 DEF IsCopy, IsSale
<1> HIDE DEF s
<1>10. IsBoard(posts', listings') /\ Grows(posts', listings', posts, listings) /\ posts'.drop[i] # 0
  <2> DEFINE d == [posts.drop EXCEPT ![i] = p]
  <2>1. posts' = [posts EXCEPT !.drop = d]
    BY <1>3 DEF p
  <2>2. DOMAIN d = Items /\ \A j \in Items : d[j] = IF j = i THEN p ELSE posts.drop[j]
    BY <1>2 DEF IsBoard
  <2> HIDE DEF d
  <2> QED BY <1>1, <1>2, <1>4, <1>5, <2>1, <2>2 DEF IsBoard, Grows
<1>11. Truth(s, posts', listings')
  <2>1. Truth(m.sale, posts', listings')
    BY <1>2, <1>10, TruthLater
  <2>2. posts'.opening # 0
    BY <1>4, <2>1 DEF Truth
  <2>3. listings'[i].status # "absent"
    BY <1>1, <1>2 DEF AtStep
  <2>4. m.sale.status # "done"
    BY <1>2, <1>4 DEF Truth
  <2> QED BY <1>4, <1>5, <1>7, <1>8, <1>9, <1>10, <2>1, <2>2, <2>3, <2>4 DEF Truth
<1>12. IsCopy(e(i)) /\ e(i).sale = s
  BY <1>2, <1>6, <1>9 DEF IsCopy
<1>13. goes(r, "pass", e(i)) \/ goes(r, "tell", e(i))
  BY <1>3
<1> HIDE DEF e
<1>14. Fits(e(i), "pass", posts', listings') /\ Fits(e(i), "tell", posts', listings')
  BY <1>11, <1>12 DEF Fits, AtStep
<1> QED BY <1>1, <1>10, <1>13, <1>14, MovesBoard

\* A copy that only remembers more goes on.
LEMMA TellAskedKeeps ==
  ASSUME Running, NEW r \in Everyone, tellAsked(r)
  PROVE  Running'
<1> DEFINE m == mem[r]
           t == m.sale.items[1].postedAt
           s == [m.sale EXCEPT !.remindedAt = t]
           e == [m EXCEPT !.sale = s]
<1>1. goes(r, "pass", [m EXCEPT !.sale.remindedAt = t]) /\ UNCHANGED <<sale, posts, listings, now>>
  BY DEF tellAsked, others
<1>2. IsCopy(m) /\ Truth(m.sale, posts, listings)
  BY Mine
<1>3. goes(r, "pass", e)
  BY <1>1
<1> HIDE DEF m, t
<1>4. IsSale(s) /\ s.items = m.sale.items /\ s.openedAt = m.sale.openedAt /\ s.status = m.sale.status
  BY <1>2 DEF IsCopy, IsSale
<1> HIDE DEF s
<1>5. IsCopy(e) /\ e.sale = s
  BY <1>2, <1>4 DEF IsCopy
<1> HIDE DEF e
<1>6. Fits(e, "pass", posts, listings)
  BY <1>2, <1>4, <1>5 DEF Fits, AtStep, Truth
<1> QED BY <1>1, <1>3, <1>6, MovesAlone

\* Announced, or recorded so though the post was lost.
LEMMA AnnounceKeeps ==
  ASSUME Running, NEW r \in Everyone, announce(r) \/ announceLost(r)
  PROVE  Running'
<1> DEFINE m == mem[r]
           t(i) == announcedAt(m, i)
           e(i) == [m EXCEPT !.sale.items[i].publicPostAt = t(i), !.changed = TRUE]
<1>1. PICK i \in Items :
        /\ i \in announces(m) /\ goes(r, "pass", e(i))
        /\ UNCHANGED posts \/ posts' = [posts EXCEPT !.public[i] = once(posts.public[i], t(i))]
  BY DEF announce, announceLost, announcing
<1>2. UNCHANGED <<sale, listings, now>>
  BY DEF announce, announceLost, announcing, others
<1>3. IsCopy(m) /\ Truth(m.sale, posts, listings) /\ IsBoard(posts, listings)
  BY Mine
<1>4. i \in Items /\ m.sale.items[i].postedAt # 0
  BY <1>1 DEF announces, inWindow
<1> DEFINE p == once(posts.public[i], t(i))
<1>5. t(i) \in Nat /\ t(i) # 0 /\ p # 0
  <2> DEFINE w == m.sale.items[i].windowEndsAt
  <2>1. w \in Nat /\ w # 0 /\ w \in Int /\ m.time \in Nat
    BY <1>3, <1>4 DEF IsCopy, IsSale, ItemT, Truth
  <2> HIDE DEF m, w
  <2> DEFINE u == later(w, m.time)
  <2>2. u \in Nat /\ u >= w
    BY <2>1, LaterIs
  <2>3. t(i) = u
    BY DEF w, announcedAt
  <2> HIDE DEF u
  <2>4. u # 0
    BY <2>1, <2>2
  <2> QED BY <2>2, <2>3, <2>4 DEF once
<1> HIDE DEF t, p
<1> DEFINE row == [m.sale.items[i] EXCEPT !.publicPostAt = t(i)]
           rows == [m.sale.items EXCEPT ![i] = row]
           s == [m.sale EXCEPT !.items = rows]
<1>6. e(i) = [m EXCEPT !.sale = s, !.changed = TRUE]
  BY <1>3, <1>4 DEF IsCopy, IsSale, ItemT
<1> HIDE DEF m, e
<1>7. row \in ItemT /\ row.publicPostAt = t(i) /\ row.windowEndsAt = m.sale.items[i].windowEndsAt
      /\ row.postedAt = m.sale.items[i].postedAt /\ row.lifted = m.sale.items[i].lifted
  BY <1>3, <1>4, <1>5 DEF IsCopy, IsSale, ItemT
<1> HIDE DEF row
<1>8. rows \in [Items -> ItemT] /\ \A j \in Items : rows[j] = IF j = i THEN row ELSE m.sale.items[j]
  BY <1>3, <1>7 DEF IsCopy, IsSale
<1> HIDE DEF rows
<1>9. IsSale(s) /\ s.items = rows /\ s.openedAt = m.sale.openedAt /\ s.status = m.sale.status
  BY <1>3, <1>8 DEF IsCopy, IsSale
<1> HIDE DEF s
<1>10. IsBoard(posts', listings') /\ Grows(posts', listings', posts, listings)
  <2> DEFINE d == [posts.public EXCEPT ![i] = p]
  <2>1. UNCHANGED posts \/ posts' = [posts EXCEPT !.public = d]
    BY <1>1 DEF p
  <2>2. DOMAIN d = Items
    BY <1>3 DEF IsBoard
  <2> HIDE DEF d
  <2> QED BY <1>2, <1>3, <2>1, <2>2 DEF IsBoard, Grows
<1>11. Truth(s, posts', listings')
  <2>1. Truth(m.sale, posts', listings')
    BY <1>3, <1>10, TruthLater
  <2> QED BY <1>5, <1>7, <1>8, <1>9, <1>10, <2>1 DEF Truth
<1>12. IsCopy(e(i)) /\ e(i).sale = s
  BY <1>3, <1>6, <1>9 DEF IsCopy
<1>13. Fits(e(i), "pass", posts', listings')
  BY <1>11, <1>12 DEF Fits, AtStep
<1> QED BY <1>1, <1>2, <1>10, <1>13, MovesBoard

\* The listing handed over next is in its window, and announced.
LEMMA ToLiftIs ==
  ASSUME NEW m, IsCopy(m), lifts(m) # {}, ~(\E i \in announces(m) : i <= toLift(m))
  PROVE  /\ toLift(m) \in Items
         /\ m.sale.items[toLift(m)].postedAt # 0 /\ m.sale.items[toLift(m)].publicPostAt # 0
<1> DEFINE k == toLift(m)
<1>1. lifts(m) \subseteq Nat
  BY DEF lifts, Items
<1>2. k \in lifts(m)
  BY <1>1, MinIsLeast DEF toLift
<1>3. k \in Items /\ inWindow(m.sale, k) /\ m.sale.items[k].windowEndsAt <= m.time /\ m.sale.items[k].postedAt # 0
  BY <1>2 DEF lifts, inWindow
<1>4. k <= k
  BY <1>3 DEF Items
<1>5. k \notin announces(m)
  BY <1>4
<1>6. ahead(m, m.sale.items[k].windowEndsAt)
  <2>1. m.sale.items[k].windowEndsAt \in Nat /\ m.time \in Nat /\ Lookahead \in Nat
    BY <1>3, ScheduleAssumption DEF IsCopy, IsSale, ItemT
  <2> HIDE DEF k
  <2> QED BY <1>3, <2>1 DEF ahead
<1>7. m.sale.items[k].publicPostAt # 0
  BY <1>3, <1>5, <1>6 DEF announces
<1> QED BY <1>3, <1>7

LEMMA ReadListingKeeps ==
  ASSUME Running, NEW r \in Everyone, readListing(r)
  PROVE  Running'
<1> DEFINE m == mem[r]
           k == toLift(m)
           seen == [m.listing EXCEPT ![k] = listings[k]]
           e == [m EXCEPT !.listing = seen]
<1>1. /\ goes(r, "lift", e) /\ UNCHANGED <<sale, posts, listings, now>>
      /\ lifts(m) # {} /\ ~(\E i \in announces(m) : i <= k)
  BY DEF readListing, others
<1>2. IsCopy(m) /\ Truth(m.sale, posts, listings) /\ IsBoard(posts, listings)
  BY Mine
<1>3. k \in Items /\ m.sale.items[k].postedAt # 0 /\ m.sale.items[k].publicPostAt # 0
  BY <1>1, <1>2, ToLiftIs
<1>4. k = toLift(m)
  OBVIOUS
<1> HIDE DEF m, k
<1>5. DOMAIN seen = Items /\ seen[k] = listings[k] /\ \A i \in Items : IsListing(seen[i])
  BY <1>2, <1>3 DEF IsCopy, IsBoard
<1> HIDE DEF seen
<1>6. IsCopy(e) /\ e.sale = m.sale /\ e.time = m.time /\ e.listing = seen
  BY <1>2, <1>5 DEF IsCopy
<1> HIDE DEF e
<1>7. toLift(e) = k
  BY <1>4, <1>6 DEF toLift, lifts
<1>8. AtStep(e, "lift", listings)
  BY <1>2, <1>3, <1>5, <1>6, <1>7 DEF AtStep, Truth
<1>9. Fits(e, "lift", posts, listings)
  BY <1>2, <1>6, <1>8 DEF Fits
<1> QED BY <1>1, <1>9, MovesAlone

LEMMA LiftKeeps ==
  ASSUME Running, NEW r \in Everyone, lift(r)
  PROVE  Running'
<1> DEFINE m == mem[r]
           k == toLift(m)
           e == [m EXCEPT !.sale.items[k].lifted = TRUE, !.changed = TRUE, !.listing[k] = Absent]
<1>1. /\ at[r] = "lift" /\ UNCHANGED <<sale, posts, now>>
      /\ IF m.listing[k].status = "absent" THEN goes(r, "pass", e) /\ UNCHANGED listings
         ELSE IF listings[k] = m.listing[k]
         THEN listings' = [listings EXCEPT ![k] = public(m.listing[k])] /\ goes(r, "pass", e)
         ELSE ends(r) /\ UNCHANGED listings
  BY DEF lift, others
<1>2. IsCopy(m) /\ Truth(m.sale, posts, listings) /\ IsBoard(posts, listings)
  BY Mine
<1>3. k \in Items /\ m.listing[k].status # "absent" /\ m.sale.items[k].publicPostAt # 0
  BY <1>1, Mine DEF AtStep
<1>4. CASE listings[k] = m.listing[k]
  <2> DEFINE l == public(m.listing[k])
             row == [m.sale.items[k] EXCEPT !.lifted = TRUE]
             rows == [m.sale.items EXCEPT ![k] = row]
             seen == [m.listing EXCEPT ![k] = Absent]
             s == [m.sale EXCEPT !.items = rows]
  <2>1. listings' = [listings EXCEPT ![k] = l] /\ goes(r, "pass", e)
    BY <1>1, <1>3, <1>4
  <2> HIDE DEF k
  <2>2. e = [m EXCEPT !.sale = s, !.changed = TRUE, !.listing = seen]
    BY <1>2, <1>3 DEF IsCopy, IsSale, ItemT
  <2>3. IsListing(l) /\ l.status = "public"
    BY <1>2, <1>3 DEF IsCopy, IsListing, public
  <2> HIDE DEF l, m, e
  <2>4. row \in ItemT /\ row.publicPostAt = m.sale.items[k].publicPostAt /\ row.lifted = TRUE
        /\ row.postedAt = m.sale.items[k].postedAt /\ row.windowEndsAt = m.sale.items[k].windowEndsAt
    BY <1>2, <1>3 DEF IsCopy, IsSale, ItemT
  <2> HIDE DEF row
  <2>5. rows \in [Items -> ItemT] /\ \A j \in Items : rows[j] = IF j = k THEN row ELSE m.sale.items[j]
    BY <1>2, <2>4 DEF IsCopy, IsSale
  <2> HIDE DEF rows
  <2>6. IsSale(s) /\ s.items = rows /\ s.openedAt = m.sale.openedAt /\ s.status = m.sale.status
    BY <1>2, <2>5 DEF IsCopy, IsSale
  <2> HIDE DEF s
  <2>7. IsBoard(posts', listings') /\ Grows(posts', listings', posts, listings) /\ listings'[k].status = "public"
    BY <1>1, <1>2, <1>3, <2>1, <2>3 DEF IsBoard, Grows
  <2>8. Truth(s, posts', listings')
    <3>1. Truth(m.sale, posts', listings')
      BY <1>2, <2>7, TruthLater
    <3> QED BY <1>3, <2>4, <2>5, <2>6, <2>7, <3>1 DEF Truth
  <2>9. DOMAIN seen = Items /\ \A i \in Items : IsListing(seen[i])
    BY <1>2 DEF IsCopy, IsListing, Absent
  <2> HIDE DEF seen
  <2>10. IsCopy(e) /\ e.sale = s
    BY <1>2, <2>2, <2>6, <2>9 DEF IsCopy
  <2>11. Fits(e, "pass", posts', listings')
    BY <2>8, <2>10 DEF Fits, AtStep
  <2> QED BY <1>1, <2>1, <2>7, <2>11, MovesBoard
<1>5. CASE listings[k] # m.listing[k]
  <2>1. ends(r) /\ UNCHANGED <<sale, posts, listings, now>>
    BY <1>1, <1>3, <1>5
  <2> QED BY <2>1, Ends, MovesAlone
<1> QED BY <1>4, <1>5

LEMMA CloseSaleKeeps ==
  ASSUME Running, NEW r \in Everyone, closeSale(r)
  PROVE  Running'
<1> DEFINE m == mem[r]
           t == later(lastWindow(m.sale), m.time)
           p == once(posts.closing, t)
           s == [m.sale EXCEPT !.closingAt = t]
           e == [m EXCEPT !.sale = s, !.changed = TRUE]
<1>1. /\ posts' = [posts EXCEPT !.closing = p] /\ UNCHANGED <<sale, listings, now>>
      /\ goes(r, "pass", [m EXCEPT !.sale.closingAt = t, !.changed = TRUE])
  BY DEF closeSale, others
<1>2. IsCopy(m) /\ Truth(m.sale, posts, listings) /\ IsBoard(posts, listings)
  BY Mine
<1> HIDE DEF t, p
<1>3. goes(r, "pass", e)
  BY <1>1, <1>2 DEF IsCopy, IsSale
<1> HIDE DEF m
<1>4. IsSale(s) /\ s.items = m.sale.items /\ s.openedAt = m.sale.openedAt /\ s.status = m.sale.status
  BY <1>2 DEF IsCopy, IsSale
<1> HIDE DEF s
<1>5. IsCopy(e) /\ e.sale = s
  BY <1>2, <1>4 DEF IsCopy
<1> HIDE DEF e
<1>6. IsBoard(posts', listings') /\ Grows(posts', listings', posts, listings)
  BY <1>1, <1>2 DEF IsBoard, Grows
<1>7. Truth(m.sale, posts', listings')
  BY <1>2, <1>6, TruthLater
<1>8. Fits(e, "pass", posts', listings')
  BY <1>4, <1>5, <1>7 DEF Fits, AtStep, Truth
<1> QED BY <1>1, <1>3, <1>6, <1>8, MovesBoard

LEMMA SaveKeeps ==
  ASSUME Running, NEW r \in Everyone, save(r)
  PROVE  Running'
<1> DEFINE s == mem[r].sale
           w == finishedOf(s)
<1>1. (sale' = w \/ sale' = sale) /\ ends(r) /\ UNCHANGED <<posts, listings, now>>
  BY DEF save, others
<1>2. IsSale(s) /\ Truth(s, posts, listings) /\ IsSale(sale) /\ Truth(sale, posts, listings)
  BY Mine DEF IsCopy
<1>3. IsSale(w) /\ Truth(w, posts, listings)
  <2>1. CASE \A i \in Items : s.items[i].postedAt # 0 /\ s.items[i].lifted
    <3> DEFINE d == [s EXCEPT !.status = "done"]
    <3>1. w = d
      BY <2>1 DEF finishedOf
    <3> HIDE DEF s, w
    <3>2. IsSale(d) /\ d.items = s.items /\ d.openedAt = s.openedAt
      BY <1>2 DEF IsSale
    <3> HIDE DEF d
    <3> QED BY <1>2, <2>1, <3>1, <3>2 DEF Truth
  <2>2. CASE ~(\A i \in Items : s.items[i].postedAt # 0 /\ s.items[i].lifted)
    <3>1. w = s
      BY <2>2 DEF finishedOf
    <3> QED BY <1>2, <3>1
  <2> QED BY <2>1, <2>2
<1> HIDE DEF w, s
<1>4. IsSale(sale') /\ Truth(sale', posts, listings)
  BY <1>1, <1>2, <1>3
<1> QED BY <1>1, <1>4, Ends, MovesSale

LEMMA BeginRemindKeeps ==
  ASSUME Running, NEW r \in Everyone, beginRemind(r)
  PROVE  Running'
<1> DEFINE e == [NoCopy EXCEPT !.sale = sale]
<1>1. (ends(r) \/ goes(r, "remind", e)) /\ UNCHANGED <<sale, posts, listings, now>>
  BY DEF beginRemind, others
<1>2. IsCopy(e) /\ e.sale = sale
  BY Mine, NoCopyFits DEF IsCopy
<1> HIDE DEF e
<1>3. Fits(e, "remind", posts, listings)
  BY <1>2, Mine DEF Fits, AtStep
<1> QED BY <1>1, <1>3, Ends, MovesAlone

\* The copy a member saves is older than what passes have written since, and true.
LEMMA RemindKeeps ==
  ASSUME Running, NEW r \in Everyone, remind(r)
  PROVE  Running'
<1> DEFINE m == mem[r]
           s == m.sale
           asked(p) == IF p \in s.reminders THEN s.reminders \ {p} ELSE s.reminders \cup {p}
           saved(p) == [s EXCEPT !.reminders = asked(p)]
           e(p) == [m EXCEPT !.who = {p}]
<1>1. PICK p \in Members :
        /\ sale' = saved(p)
        /\ goes(r, "done", NoCopy) \/ goes(r, "untell", e(p)) \/ goes(r, "tellOne", e(p))
  BY DEF remind
<1>2. UNCHANGED <<posts, listings, now>>
  BY DEF remind, others
<1>3. IsCopy(m) /\ IsSale(s) /\ Truth(s, posts, listings)
  BY Mine DEF IsCopy
<1> HIDE DEF asked
<1>4. IsSale(sale') /\ Truth(sale', posts, listings)
  <2> HIDE DEF s
  <2>1. IsSale(sale') /\ sale'.items = s.items /\ sale'.openedAt = s.openedAt /\ sale'.status = s.status
    BY <1>1, <1>3 DEF IsSale
  <2> QED BY <1>3, <2>1 DEF Truth
<1>5. IsCopy(e(p)) /\ e(p).sale = s
  BY <1>3 DEF IsCopy
<1> HIDE DEF e, saved
<1>6. Fits(e(p), "untell", posts, listings) /\ Fits(e(p), "tellOne", posts, listings)
  BY <1>3, <1>5 DEF Fits, AtStep
<1>7. Fits(NoCopy, "done", posts, listings)
  BY NoCopyFits
<1> QED BY <1>1, <1>2, <1>4, <1>6, <1>7, MovesSale

-----------------------------------------------------------------------------
LEMMA InitInv == Init => IInv
<1> SUFFICES ASSUME Init PROVE IInv
  OBVIOUS
<1>1. stopped = FALSE /\ now \in Nat
  BY ScheduleAssumption DEF Init
<1>2. /\ IsSale(sale) /\ sale.status # "done"
      /\ \A i \in Items : sale.items[i] = NoItem
  <2>1. NewSale.status = "scheduled" /\ \A i \in Items : NewSale.items[i] = NoItem
    BY DEF NewSale
  <2>2. IsSale(Asked) /\ Asked.status = "running" /\ Asked.items = NewSale.items
    <3>1. Opening \in Nat
      BY ScheduleAssumption
    <3> QED BY <3>1, NewSaleIs DEF IsSale, Asked
  <2>3. sale = NewSale \/ sale = Asked
    BY DEF Init
  <2> QED BY <2>1, <2>2, <2>3, NewSaleIs
<1>3. posts.opening = sale.openedAt
  BY DEF Init
<1>4. IsBoard(posts, listings)
  BY DEF Init, IsBoard, IsListing, Absent
<1>5. Truth(sale, posts, listings)
  BY <1>2, <1>3 DEF Truth, NoItem
<1>6. at = [r \in Everyone |-> "idle"] /\ mem = [r \in Everyone |-> NoCopy]
  BY DEF Init
<1>7. Fits(NoCopy, "idle", posts, listings)
  BY NoCopyFits
<1>8. Running
  BY <1>1, <1>2, <1>4, <1>5, <1>6, <1>7 DEF Running
<1> QED BY <1>1, <1>8 DEF IInv

LEMMA NextInv == IInv /\ [Next]_vars => IInv'
<1> SUFFICES ASSUME IInv, [Next]_vars PROVE IInv'
  OBVIOUS
<1>1. stopped' \in BOOLEAN /\ (stopped => stopped')
  <2>1. ASSUME NEW r \in Everyone, step(r) PROVE others
    <3>1. CASE openSale(r) \/ dropItem(r) \/ postItem(r) \/ tellAsked(r) \/ announce(r)
      BY <3>1 DEF openSale, dropItem, postItem, tellAsked, announce
    <3>2. CASE readListing(r) \/ lift(r) \/ closeSale(r) \/ save(r)
      BY <3>2 DEF readListing, lift, closeSale, save
    <3>3. CASE callOffOpening(r) \/ callOffNotices(r) \/ callOffItem(r) \/ callOffListing(r) \/ callOffClosing(r)
      BY <3>3 DEF callOffOpening, callOffNotices, callOffItem, callOffListing, callOffClosing
    <3>4. CASE readPending(r) \/ release(r) \/ cancel(r)
      BY <3>4 DEF readPending, release, cancel
    <3>5. CASE remind(r) \/ remindOne(r)
      BY <3>5 DEF remind, remindOne
    <3> QED BY <2>1, <3>1, <3>2, <3>3, <3>4, <3>5 DEF step
  <2>2. ASSUME NEW r \in Everyone, begin(r) \/ beginRemind(r) \/ announceLost(r) \/ die(r) PROVE UNCHANGED stopped
    BY <2>2 DEF begin, beginRemind, announceLost, die, others
  <2>3. tick \/ UNCHANGED vars => UNCHANGED stopped
    BY DEF tick, vars
  <2>4. UNCHANGED stopped \/ \E r \in Everyone : beginStop(r)
    BY <2>1, <2>2, <2>3 DEF Next, others
  <2> QED BY <2>4 DEF IInv, beginStop
<1>2. ASSUME ~stopped' PROVE Running'
  <2>1. Running
    BY <1>1, <1>2 DEF IInv
  <2>2. ASSUME NEW r \in Everyone, ends(r), UNCHANGED <<sale, posts, listings, now>>
        PROVE  Running'
    BY <2>1, <2>2, Ends, MovesAlone
  <2>3. ASSUME NEW r \in Everyone, beginStop(r) PROVE Running'
    <3>1. over(sale)
      BY <1>2, <2>3 DEF beginStop
    <3>2. ends(r) /\ UNCHANGED <<sale, posts, listings, now>>
      BY <2>3, <3>1 DEF beginStop
    <3> QED BY <2>2, <3>2
  <2>4. ASSUME NEW r \in Everyone, remindOne(r) \/ die(r) PROVE Running'
    BY <2>2, <2>4 DEF remindOne, die, others
  <2>5. ASSUME NEW r \in Everyone, step(r) PROVE Running'
    <3>1. at[r] \notin {"callOff", "callOffListing", "pending", "release"}
      BY <2>1, Mine DEF AtStep
    <3>2. \/ openSale(r) \/ dropItem(r) \/ postItem(r) \/ tellAsked(r) \/ announce(r)
          \/ readListing(r) \/ lift(r) \/ closeSale(r) \/ save(r) \/ remind(r) \/ remindOne(r)
      BY <2>5, <3>1 DEF step, callOffOpening, callOffNotices, callOffItem, callOffListing, callOffClosing,
                        readPending, release, cancel
    <3> QED BY <2>1, <2>4, <3>2, OpenSaleKeeps, DropItemKeeps, PostItemKeeps, TellAskedKeeps, AnnounceKeeps,
               ReadListingKeeps, LiftKeeps, CloseSaleKeeps, SaveKeeps, RemindKeeps
  <2>6. CASE tick
    <3>1. now' \in Nat /\ UNCHANGED <<sale, posts, listings, at, mem>>
      BY <2>1, <2>6 DEF tick, Running
    <3> QED BY <2>1, <3>1 DEF Running
  <2>7. CASE UNCHANGED vars
    BY <2>1, <2>7 DEF Running, vars
  <2> QED BY <2>1, <2>3, <2>4, <2>5, <2>6, <2>7, BeginKeeps, BeginRemindKeeps, AnnounceKeeps DEF Next
<1> QED BY <1>1, <1>2 DEF IInv

LEMMA AlwaysInv == Spec => []IInv
BY InitInv, NextInv, PTL DEF Spec

\* What the saved sale says was done was done, though passes, looks and reminders
\* save old copies over each other and may die between a write and the save.
THEOREM LedgerStaysTrue == Spec => []LedgerIsTrue
<1>1. IInv => LedgerIsTrue
  BY DEF IInv, Running, Truth, LedgerIsTrue
<1> QED BY <1>1, AlwaysInv, PTL

\* A sale that ran to its end has every item posted, everybody's, and announced
\* or tried to be (step 4 of advancePowerSale), whoever did which part of it.
THEOREM DoneIsPublic == Spec => []DoneMeansPublic
<1>1. IInv => DoneMeansPublic
  BY DEF IInv, Running, Truth, DoneMeansPublic
<1> QED BY <1>1, AlwaysInv, PTL

-----------------------------------------------------------------------------
(* Types, stopped or not.                                                  *)

\* A copy was taken at a tick that has been.
InTime(m) == m.time \in 0..Horizon

TInv == TypeOK /\ \A r \in Everyone : InTime(mem[r])

LEMMA BoundFacts ==
  /\ Horizon \in Nat /\ Lookahead \in Nat /\ Window \in Nat \ {0} /\ Last \in Nat \ {0} /\ Opening \in Nat \ {0}
  /\ Opening <= Horizon /\ MaxFailures \in Nat
  /\ 0 \in Times /\ 0 \in 0..Horizon /\ Opening \in Times /\ 1 \in Items /\ Times \subseteq Nat
  /\ \A i \in Items : dueAt(i) \in Int
  /\ \A t \in 0..Horizon : t \in Times
  /\ \A t \in 0..Horizon, x \in Nat : x <= t + Lookahead => x \in Times /\ x + Window \in Times
<1>1. /\ Horizon \in Nat /\ Lookahead \in Nat /\ Window \in Nat \ {0} /\ Last \in Nat \ {0} /\ Opening \in Nat \ {0}
      /\ Opening <= Horizon /\ MaxFailures \in Nat /\ Lead \in Nat /\ Every \in Nat
  BY ScheduleAssumption
<1>2. Every * Last \in Nat
  BY <1>1
<1> DEFINE k == Every * Last
<1>3. Times = 0..(Horizon + Lookahead + Lead + Window + k) /\ k \in Nat
  BY <1>2 DEF Times
<1> HIDE DEF k
<1>4. \A i \in Items : dueAt(i) \in Int
  BY <1>1 DEF dueAt, Items
<1>5. 0 \in Times /\ Opening \in Times /\ Times \subseteq Nat
  BY <1>1, <1>3
<1>6. \A t \in 0..Horizon, x \in Nat : x <= t + Lookahead => x \in Times /\ x + Window \in Times
  BY <1>1, <1>3
<1>7. \A t \in 0..Horizon : t \in Times
  BY <1>1, <1>3
<1>8. 1 \in Items /\ 0 \in 0..Horizon
  BY <1>1 DEF Items
<1> QED BY <1>1, <1>4, <1>5, <1>6, <1>7, <1>8

\* The later of two times is one of them.
LEMMA LaterOf == \A a, b : later(a, b) \in {a, b}
BY DEF later

\* What falls due within the lookahead shows within it.
LEMMA ShowAtTyped ==
  ASSUME NEW m \in Copy, InTime(m), NEW i \in drops(m)
  PROVE  i \in Items /\ showAt(m, i) \in Times /\ showAt(m, i) + Window \in Times
<1>1. i \in Items /\ dueOf(m, i) <= m.time + Lookahead
  BY DEF drops, ahead
<1>2. m.time \in Nat /\ m.sale.openedAt \in Nat /\ dueAt(i) \in Int /\ Lookahead \in Nat
  BY <1>1, BoundFacts DEF InTime, Copy, Sale
<1> DEFINE d == dueOf(m, i)
<1>3. d \in Nat
  BY <1>2, LaterIs DEF dueOf
<1>4. showAt(m, i) = later(d, m.time)
  BY DEF showAt
<1>5. d <= m.time + Lookahead
  BY <1>1
<1> HIDE DEF d
<1>6. showAt(m, i) \in Nat /\ showAt(m, i) <= m.time + Lookahead
  BY <1>2, <1>3, <1>4, <1>5, LaterOf
<1> QED BY <1>1, <1>6, BoundFacts DEF InTime

\* So does what waits for a time within it.
LEMMA AheadTyped ==
  ASSUME NEW m, InTime(m), NEW t \in Nat, ahead(m, t)
  PROVE  later(t, m.time) \in Times
<1>1. m.time \in Nat /\ Lookahead \in Nat /\ m.time <= m.time + Lookahead /\ t <= m.time + Lookahead
  BY BoundFacts DEF InTime, ahead
<1>2. later(t, m.time) \in Nat /\ later(t, m.time) <= m.time + Lookahead
  BY <1>1, LaterOf
<1> QED BY <1>2, BoundFacts DEF InTime

LEMMA LastWindowTyped ==
  ASSUME NEW s \in Sale
  PROVE  lastWindow(s) \in Nat
<1> DEFINE S == {s.items[i].windowEndsAt : i \in Items}
           top == Horizon + Lookahead + Lead + Window + Every * Last
           D == {top - x : x \in S}
<1>1. S # {} /\ S \subseteq Times
  BY BoundFacts DEF Sale, Item
<1>2. top \in Nat /\ Times = 0..top
  BY ScheduleAssumption DEF Times
<1>3. lastWindow(s) = Max(S)
  BY DEF lastWindow
<1> HIDE DEF top, S
<1>4. D \subseteq Nat /\ D # {}
  BY <1>1, <1>2
<1>5. PICK d \in D : \A e \in D : d <= e
  BY <1>4, LeastOf
<1>6. PICK x \in S : d = top - x
  BY <1>5
<1>7. \A y \in S : x >= y
  <2> SUFFICES ASSUME NEW y \in S PROVE x >= y
    OBVIOUS
  <2>1. top - y \in D
    OBVIOUS
  <2>2. x \in Nat /\ y \in Nat
    BY <1>1, <1>2
  <2> HIDE DEF D
  <2>3. top - x <= top - y
    BY <1>5, <1>6, <2>1
  <2> QED BY <1>2, <2>2, <2>3
<1>8. Max(S) \in S
  BY <1>7 DEF Max
<1> QED BY <1>1, <1>2, <1>3, <1>8

-----------------------------------------------------------------------------
LEMMA NewTyped == NewSale \in Sale /\ Asked \in Sale /\ Absent \in Listing /\ NoCopy \in Copy /\ InTime(NoCopy)
<1>1. NoItem \in Item /\ Absent \in Listing
  BY BoundFacts DEF NoItem, Item, Absent, Listing
<1>2. NewSale \in Sale
  BY <1>1, BoundFacts DEF NewSale, Sale
<1>3. Asked \in Sale
  BY <1>2, BoundFacts DEF Asked, Sale
<1>4. NoCopy \in Copy /\ NoCopy.time = 0
  BY <1>1, <1>2, BoundFacts DEF NoCopy, Copy
<1> QED BY <1>1, <1>2, <1>3, <1>4, BoundFacts DEF InTime

LEMMA SaleParts ==
  ASSUME NEW s \in Sale, NEW t \in Times, NEW i, NEW z \in BOOLEAN
  PROVE  /\ [s EXCEPT !.openedAt = t] \in Sale /\ [s EXCEPT !.closingAt = t] \in Sale
         /\ [s EXCEPT !.remindedAt = t] \in Sale
         /\ \A x \in {"scheduled", "running", "done", "cancelled"} : [s EXCEPT !.status = x] \in Sale
         /\ \A S \in SUBSET Members : [s EXCEPT !.reminders = S] \in Sale
         /\ \A rows \in [Items -> Item] : [s EXCEPT !.items = rows] \in Sale
BY DEF Sale

LEMMA ItemPart ==
  ASSUME NEW s \in Sale, NEW t \in Times, NEW z \in BOOLEAN, NEW i
  PROVE  /\ [s EXCEPT !.items[i].publicPostAt = t] \in Sale
         /\ [s EXCEPT !.items[i].lifted = z] \in Sale
         /\ [s EXCEPT !.items[i].postedAt = t] \in Sale
         /\ [s EXCEPT !.items[i].windowEndsAt = t] \in Sale
         /\ [s EXCEPT !.items[i].listed = z] \in Sale
<1>1. [s EXCEPT !.items[i].publicPostAt = t] \in Sale
  BY DEF Sale, Item
<1>2. [s EXCEPT !.items[i].lifted = z] \in Sale
  BY DEF Sale, Item
<1>3. [s EXCEPT !.items[i].postedAt = t] \in Sale
  BY DEF Sale, Item
<1>4. [s EXCEPT !.items[i].windowEndsAt = t] \in Sale
  BY DEF Sale, Item
<1>5. [s EXCEPT !.items[i].listed = z] \in Sale
  BY DEF Sale, Item
<1> QED BY <1>1, <1>2, <1>3, <1>4, <1>5

LEMMA ItemPosted ==
  ASSUME NEW s \in Sale, NEW t \in Times, NEW u \in Times, NEW z \in BOOLEAN, NEW i
  PROVE  [s EXCEPT !.items[i].postedAt = t, !.items[i].windowEndsAt = u, !.items[i].listed = z] \in Sale
<1> DEFINE s1 == [s EXCEPT !.items[i].postedAt = t]
           s2 == [s1 EXCEPT !.items[i].windowEndsAt = u]
           s3 == [s2 EXCEPT !.items[i].listed = z]
<1>1. s3 = [s EXCEPT !.items[i].postedAt = t, !.items[i].windowEndsAt = u, !.items[i].listed = z]
  OBVIOUS
<1>2. s1 \in Sale
  BY ItemPart
<1> HIDE DEF s1
<1>3. s2 \in Sale
  BY <1>2, ItemPart
<1> HIDE DEF s2
<1>4. s3 \in Sale
  BY <1>3, ItemPart
<1> QED BY <1>1, <1>4

LEMMA CopyParts ==
  ASSUME NEW m \in Copy, InTime(m), NEW s \in Sale, NEW z \in BOOLEAN, NEW seen \in [Items -> Listing]
  PROVE  /\ [m EXCEPT !.sale = s] \in Copy /\ InTime([m EXCEPT !.sale = s])
         /\ [m EXCEPT !.sale = s, !.changed = TRUE] \in Copy /\ InTime([m EXCEPT !.sale = s, !.changed = TRUE])
         /\ [m EXCEPT !.sale = s, !.changed = TRUE, !.caughtUp = z] \in Copy
         /\ InTime([m EXCEPT !.sale = s, !.changed = TRUE, !.caughtUp = z])
         /\ [m EXCEPT !.listing = seen] \in Copy /\ InTime([m EXCEPT !.listing = seen])
         /\ [m EXCEPT !.sale = s, !.listing = seen] \in Copy /\ InTime([m EXCEPT !.sale = s, !.listing = seen])
         /\ [m EXCEPT !.sale = s, !.changed = TRUE, !.listing = seen] \in Copy
         /\ InTime([m EXCEPT !.sale = s, !.changed = TRUE, !.listing = seen])
         /\ \A p \in Members : [m EXCEPT !.who = {p}] \in Copy /\ InTime([m EXCEPT !.who = {p}])
BY DEF Copy, InTime

LEMMA PostsParts ==
  ASSUME NEW p \in Posts, NEW t \in Times, NEW i
  PROVE  /\ [p EXCEPT !.opening = t] \in Posts /\ [p EXCEPT !.opening = once(@, t)] \in Posts
         /\ [p EXCEPT !.closing = t] \in Posts /\ [p EXCEPT !.closing = once(@, t)] \in Posts
         /\ [p EXCEPT !.drop[i] = t] \in Posts /\ [p EXCEPT !.drop[i] = once(@, t)] \in Posts
         /\ [p EXCEPT !.public[i] = t] \in Posts /\ [p EXCEPT !.public[i] = once(@, t)] \in Posts
<1>1. [p EXCEPT !.opening = t] \in Posts /\ [p EXCEPT !.opening = once(@, t)] \in Posts
  BY DEF Posts, once
<1>2. [p EXCEPT !.closing = t] \in Posts /\ [p EXCEPT !.closing = once(@, t)] \in Posts
  BY DEF Posts, once
<1>3. [p EXCEPT !.drop[i] = t] \in Posts /\ [p EXCEPT !.drop[i] = once(@, t)] \in Posts
  BY DEF Posts, once
<1>4. [p EXCEPT !.public[i] = t] \in Posts /\ [p EXCEPT !.public[i] = once(@, t)] \in Posts
  BY DEF Posts, once
<1> QED BY <1>1, <1>2, <1>3, <1>4

\* What a step makes of the requests and their copies.
MemTyped == at \in [Everyone -> Steps] /\ mem \in [Everyone -> Copy] /\ \A r \in Everyone : InTime(mem[r])

\* A listing at the members' price has its whole window.
WholeWindow(rows) ==
  \A i \in Items : rows[i].status = "members" => rows[i].windowEndsAt = rows[i].visibleAt + Window

LEMMA TGoes ==
  ASSUME MemTyped, NEW r \in Everyone, NEW s \in Steps, NEW m \in Copy, InTime(m), goes(r, s, m)
  PROVE  MemTyped'
BY DEF MemTyped, goes

LEMMA TEnds ==
  ASSUME MemTyped, NEW r \in Everyone, ends(r)
  PROVE  MemTyped'
<1>1. (IF r \in Passes THEN "idle" ELSE "done") \in Steps
  BY DEF Steps
<1> QED BY <1>1, NewTyped, TGoes DEF ends

LEMMA TParts ==
  ASSUME TInv
  PROVE  /\ MemTyped /\ sale \in Sale /\ posts \in Posts /\ listings \in [Items -> Listing] /\ WholeWindow(listings)
         /\ notices \in [Members -> Times] /\ now \in 0..Horizon /\ failures \in 0..MaxFailures /\ stopped \in BOOLEAN
         /\ \A r \in Everyone : mem[r] \in Copy /\ InTime(mem[r]) /\ mem[r].sale \in Sale
                                /\ mem[r].listing \in [Items -> Listing] /\ mem[r].who \in SUBSET Members
<1>1. /\ MemTyped /\ sale \in Sale /\ posts \in Posts /\ listings \in [Items -> Listing] /\ WholeWindow(listings)
      /\ notices \in [Members -> Times] /\ now \in 0..Horizon /\ failures \in 0..MaxFailures /\ stopped \in BOOLEAN
  BY DEF TInv, TypeOK, MemTyped, WholeWindow
<1>2. \A r \in Everyone : mem[r] \in Copy /\ InTime(mem[r])
  BY <1>1 DEF MemTyped
<1>3. \A m \in Copy : m.sale \in Sale /\ m.listing \in [Items -> Listing] /\ m.who \in SUBSET Members
  BY DEF Copy
<1> QED BY <1>1, <1>2, <1>3

LEMMA TWhole ==
  ASSUME MemTyped', (sale \in Sale)', (posts \in Posts)', (listings \in [Items -> Listing])', WholeWindow(listings)',
         (notices \in [Members -> Times])', (now \in 0..Horizon)', (failures \in 0..MaxFailures)', (stopped \in BOOLEAN)'
  PROVE  TInv'
BY DEF TInv, TypeOK, MemTyped, WholeWindow

LEMMA TOthers ==
  ASSUME TInv, others
  PROVE  (now \in 0..Horizon)' /\ (failures \in 0..MaxFailures)' /\ (stopped \in BOOLEAN)'
BY TParts DEF others

LEMMA TListings ==
  ASSUME TInv, UNCHANGED listings
  PROVE  (listings \in [Items -> Listing])' /\ WholeWindow(listings)'
BY TParts DEF WholeWindow

LEMMA TPublic ==
  ASSUME TInv, NEW i, NEW l, i \in Items => l \in Listing, listings' = [listings EXCEPT ![i] = public(l)]
  PROVE  (listings \in [Items -> Listing])' /\ WholeWindow(listings)'
<1>1. l \in Listing => public(l) \in Listing /\ public(l).status = "public"
  BY BoundFacts DEF public, Listing
<1>2. listings \in [Items -> Listing] /\ WholeWindow(listings)
  BY TParts
<1> HIDE DEF public
<1>3. (listings \in [Items -> Listing])'
  BY <1>1, <1>2
<1>4. \A j \in Items : listings'[j] = IF j = i THEN public(l) ELSE listings[j]
  BY <1>2
<1>5. WholeWindow(listings')
  BY <1>1, <1>2, <1>4 DEF WholeWindow
<1> QED BY <1>3, <1>5 DEF WholeWindow

-----------------------------------------------------------------------------
LEMMA TBegin ==
  ASSUME TInv, NEW r \in Everyone, begin(r)
  PROVE  TInv'
<1> DEFINE m == [NoCopy EXCEPT !.sale = sale, !.time = now]
<1>1. m \in Copy /\ InTime(m)
  BY TParts, NewTyped, BoundFacts DEF Copy, InTime
<1>2. goes(r, "pass", m) /\ "pass" \in Steps /\ UNCHANGED <<sale, posts, listings, notices>> /\ others
  BY DEF begin, Steps
<1> HIDE DEF m
<1>3. MemTyped'
  BY <1>1, <1>2, TParts, TGoes
<1> QED BY <1>2, <1>3, TParts, TOthers, TListings, TWhole

LEMMA TBeginStop ==
  ASSUME TInv, NEW r \in Everyone, beginStop(r)
  PROVE  TInv'
<1> DEFINE m == [NoCopy EXCEPT !.sale = sale, !.time = now]
<1>1. m \in Copy /\ InTime(m)
  BY TParts, NewTyped, BoundFacts DEF Copy, InTime
<1>2. /\ ends(r) \/ goes(r, "callOff", m)
      /\ "callOff" \in Steps /\ UNCHANGED <<sale, posts, listings, notices, now, failures>>
  BY DEF beginStop, Steps
<1>3. (stopped \in BOOLEAN)'
  BY TParts DEF beginStop, over
<1> HIDE DEF m
<1>4. MemTyped'
  BY <1>1, <1>2, TParts, TGoes, TEnds
<1> QED BY <1>2, <1>3, <1>4, TParts, TListings, TWhole

LEMMA TBeginRemind ==
  ASSUME TInv, NEW r \in Everyone, beginRemind(r)
  PROVE  TInv'
<1> DEFINE m == [NoCopy EXCEPT !.sale = sale]
<1>1. m \in Copy /\ InTime(m)
  BY TParts, NewTyped, CopyParts DEF Copy, InTime
<1>2. /\ ends(r) \/ goes(r, "remind", m)
      /\ "remind" \in Steps /\ UNCHANGED <<sale, posts, listings, notices>> /\ others
  BY DEF beginRemind, Steps
<1> HIDE DEF m
<1>4. MemTyped'
  BY <1>1, <1>2, TParts, TGoes, TEnds
<1> QED BY <1>2, <1>4, TParts, TOthers, TListings, TWhole

LEMMA TOpenSale ==
  ASSUME TInv, NEW r \in Everyone, openSale(r)
  PROVE  TInv'
<1> DEFINE m == mem[r]
           t == later(Opening, m.time)
           s1 == [m.sale EXCEPT !.openedAt = t]
           s2 == [s1 EXCEPT !.status = "running"]
           n == [m EXCEPT !.sale = s2, !.changed = TRUE]
<1>1. m \in Copy /\ InTime(m) /\ m.sale \in Sale /\ m.listing \in [Items -> Listing]
  BY TParts
<1>2. /\ ahead(m, Opening) /\ posts' = [posts EXCEPT !.opening = once(@, t)]
      /\ goes(r, "pass", [m EXCEPT !.sale.openedAt = t, !.sale.status = "running", !.changed = TRUE])
      /\ "pass" \in Steps /\ UNCHANGED <<sale, listings, notices>> /\ others
  BY DEF openSale, opens, Steps
<1> HIDE DEF m
<1>3. t \in Times
  BY <1>1, <1>2, BoundFacts, AheadTyped
<1> HIDE DEF t
<1>4. [m EXCEPT !.sale.openedAt = t, !.sale.status = "running", !.changed = TRUE] = n
  BY <1>1 DEF Copy
<1>5. s1 \in Sale
  BY <1>1, <1>3, SaleParts
<1> HIDE DEF s1
<1>6. s2 \in Sale
  BY <1>3, <1>5, SaleParts
<1> HIDE DEF s2
<1>7. n \in Copy /\ InTime(n)
  BY <1>1, <1>6, CopyParts
<1> HIDE DEF n
<1>8. MemTyped' /\ posts' \in Posts
  BY <1>2, <1>3, <1>4, <1>7, TParts, TGoes, PostsParts
<1> QED BY <1>2, <1>8, TParts, TOthers, TListings, TWhole

LEMMA TDropItem ==
  ASSUME TInv, NEW r \in Everyone, dropItem(r)
  PROVE  TInv'
<1> DEFINE m == mem[r]
<1>1. m \in Copy /\ InTime(m) /\ listings \in [Items -> Listing] /\ WholeWindow(listings)
  BY TParts
<1>2. PICK i \in drops(m) :
        listings' = IF listings[i].status # "absent" THEN listings
                    ELSE [listings EXCEPT ![i] = [status |-> "members", visibleAt |-> showAt(m, i),
                                                  windowEndsAt |-> showAt(m, i) + Window]]
  BY DEF dropItem
<1>3. goes(r, "post", m) /\ "post" \in Steps /\ UNCHANGED <<sale, posts, notices>> /\ others
  BY DEF dropItem, Steps
<1> HIDE DEF m
<1>4. i \in Items /\ showAt(m, i) \in Times /\ showAt(m, i) + Window \in Times
  BY <1>1, ShowAtTyped
<1> DEFINE l == [status |-> "members", visibleAt |-> showAt(m, i), windowEndsAt |-> showAt(m, i) + Window]
<1>5. l \in Listing /\ l.windowEndsAt = l.visibleAt + Window
  BY <1>4 DEF Listing
<1>6. listings' = listings \/ listings' = [listings EXCEPT ![i] = l]
  BY <1>2
<1> HIDE DEF l
<1>7. \A j \in Items : listings'[j] \in {l, listings[j]}
  BY <1>1, <1>6
<1>8. listings' \in [Items -> Listing]
  BY <1>1, <1>5, <1>6
<1>9. WholeWindow(listings')
  BY <1>1, <1>5, <1>7 DEF WholeWindow
<1>10. MemTyped' /\ WholeWindow(listings)'
  BY <1>1, <1>3, <1>9, TParts, TGoes DEF WholeWindow
<1> QED BY <1>3, <1>8, <1>10, TParts, TOthers, TWhole

LEMMA TPostItem ==
  ASSUME TInv, NEW r \in Everyone, postItem(r)
  PROVE  TInv'
<1> DEFINE m == mem[r]
<1>1. m \in Copy /\ InTime(m) /\ m.sale \in Sale
  BY TParts
<1> DEFINE Posted(i, t) ==
             [m.sale EXCEPT !.items[i].postedAt = t, !.items[i].windowEndsAt = t + Window, !.items[i].listed = TRUE]
           Next1(i, s) == [m EXCEPT !.sale = s, !.changed = TRUE, !.caughtUp = @ \/ dueOf(m, i) <= m.time]
<1>2. PICK i \in drops(m) :
        /\ posts' = [posts EXCEPT !.drop[i] = once(@, showAt(m, i))]
        /\ \E x \in {"tell", "pass"} : goes(r, x, Next1(i, Posted(i, showAt(m, i))))
  BY DEF postItem
<1>3. UNCHANGED <<sale, listings, notices>> /\ others /\ {"tell", "pass"} \subseteq Steps
  BY DEF postItem, Steps
<1> HIDE DEF m
<1>4. i \in Items /\ showAt(m, i) \in Times /\ showAt(m, i) + Window \in Times
  BY <1>1, ShowAtTyped
<1> DEFINE s == Posted(i, showAt(m, i))
           z == m.caughtUp \/ dueOf(m, i) <= m.time
<1>5. s \in Sale
  BY <1>1, <1>4, ItemPosted
<1>6. z \in BOOLEAN
  BY <1>1 DEF Copy
<1>7. Next1(i, s) = [m EXCEPT !.sale = s, !.changed = TRUE, !.caughtUp = z]
  OBVIOUS
<1> HIDE DEF s, z
<1>8. [m EXCEPT !.sale = s, !.changed = TRUE, !.caughtUp = z] \in Copy
      /\ InTime([m EXCEPT !.sale = s, !.changed = TRUE, !.caughtUp = z])
  BY <1>1, <1>5, <1>6, NewTyped, CopyParts, TParts
<1>9. \E x \in {"tell", "pass"} : goes(r, x, [m EXCEPT !.sale = s, !.changed = TRUE, !.caughtUp = z])
  BY <1>2, <1>7 DEF s
<1>10. MemTyped'
  BY <1>3, <1>8, <1>9, TParts, TGoes
<1>11. posts' \in Posts
  BY <1>2, <1>4, TParts, PostsParts
<1> QED BY <1>3, <1>10, <1>11, TParts, TOthers, TListings, TWhole

LEMMA TTellAsked ==
  ASSUME TInv, NEW r \in Everyone, tellAsked(r)
  PROVE  TInv'
<1> DEFINE m == mem[r]
           t == m.sale.items[1].postedAt
           s == [m.sale EXCEPT !.remindedAt = t]
<1>1. m \in Copy /\ InTime(m) /\ m.sale \in Sale /\ m.listing \in [Items -> Listing]
  BY TParts
<1>2. /\ notices' = [p \in Members |-> IF p \in m.sale.reminders THEN t ELSE notices[p]]
      /\ goes(r, "pass", [m EXCEPT !.sale.remindedAt = t])
      /\ "pass" \in Steps /\ UNCHANGED <<sale, posts, listings>> /\ others
  BY DEF tellAsked, Steps
<1> HIDE DEF m
<1>3. t \in Times
  BY <1>1, BoundFacts DEF Sale, Item
<1> HIDE DEF t
<1>4. [m EXCEPT !.sale.remindedAt = t] = [m EXCEPT !.sale = s]
  BY <1>1 DEF Copy
<1>5. s \in Sale
  BY <1>1, <1>3, SaleParts
<1> HIDE DEF s
<1>6. [m EXCEPT !.sale = s] \in Copy /\ InTime([m EXCEPT !.sale = s])
  BY <1>1, <1>5, CopyParts
<1>7. MemTyped' /\ notices' \in [Members -> Times]
  BY <1>2, <1>3, <1>4, <1>6, TParts, TGoes
<1> QED BY <1>2, <1>7, TParts, TOthers, TListings, TWhole

LEMMA TAnnounce ==
  ASSUME TInv, NEW r \in Everyone, announce(r) \/ announceLost(r)
  PROVE  TInv'
<1> DEFINE m == mem[r]
           T(i) == announcedAt(m, i)
<1>1. m \in Copy /\ InTime(m) /\ m.sale \in Sale /\ m.listing \in [Items -> Listing]
  BY TParts
<1>2. PICK i \in Items :
        /\ i \in announces(m)
        /\ (UNCHANGED posts \/ posts' = [posts EXCEPT !.public[i] = once(@, T(i))])
        /\ goes(r, "pass", [m EXCEPT !.sale.items[i].publicPostAt = T(i), !.changed = TRUE])
  BY DEF announce, announceLost, announcing
<1>3. UNCHANGED <<sale, listings, notices>> /\ "pass" \in Steps
  BY DEF announce, announceLost, announcing, Steps
<1> HIDE DEF m
<1>4. i \in Items /\ ahead(m, m.sale.items[i].windowEndsAt)
  BY <1>2 DEF announces
<1>5. m.sale.items[i].windowEndsAt \in Nat
  BY <1>1, <1>4, BoundFacts DEF Sale, Item
<1>6. T(i) \in Times
  BY <1>1, <1>4, <1>5, AheadTyped DEF announcedAt
<1> DEFINE t == T(i)
           s == [m.sale EXCEPT !.items[i].publicPostAt = t]
<1>7. goes(r, "pass", [m EXCEPT !.sale.items[i].publicPostAt = t, !.changed = TRUE]) /\ t \in Times
      /\ (UNCHANGED posts \/ posts' = [posts EXCEPT !.public[i] = once(@, t)])
  BY <1>2, <1>6
<1> HIDE DEF t, T
<1>8. [m EXCEPT !.sale.items[i].publicPostAt = t, !.changed = TRUE] = [m EXCEPT !.sale = s, !.changed = TRUE]
  BY <1>1 DEF Copy
<1>9. s \in Sale
  BY <1>1, <1>7, ItemPart
<1> HIDE DEF s
<1>10. [m EXCEPT !.sale = s, !.changed = TRUE] \in Copy /\ InTime([m EXCEPT !.sale = s, !.changed = TRUE])
  BY <1>1, <1>9, CopyParts
<1>11. MemTyped'
  BY <1>3, <1>7, <1>8, <1>10, TParts, TGoes
<1>12. posts' \in Posts
  <2>1. posts \in Posts /\ [posts EXCEPT !.public[i] = once(@, t)] \in Posts
    BY <1>7, TParts, PostsParts
  <2> QED BY <1>7, <2>1
<1>13. (now \in 0..Horizon)' /\ (failures \in 0..MaxFailures)' /\ (stopped \in BOOLEAN)'
  <2>1. CASE others
    BY <2>1, TOthers
  <2>2. CASE failures < MaxFailures /\ failures' = failures + 1 /\ UNCHANGED <<now, stopped>>
    BY <2>2, TParts, BoundFacts
  <2> QED BY <2>1, <2>2 DEF announce, announceLost
<1> QED BY <1>3, <1>11, <1>12, <1>13, TParts, TListings, TWhole

LEMMA TReadListing ==
  ASSUME TInv, NEW r \in Everyone, readListing(r)
  PROVE  TInv'
<1> DEFINE m == mem[r]
           i == toLift(m)
           seen == [m.listing EXCEPT ![i] = listings[i]]
<1>1. m \in Copy /\ InTime(m) /\ m.listing \in [Items -> Listing] /\ listings \in [Items -> Listing]
  BY TParts
<1>2. /\ goes(r, "lift", [m EXCEPT !.listing[i] = listings[i]])
      /\ "lift" \in Steps /\ UNCHANGED <<sale, posts, listings, notices>> /\ others
  BY DEF readListing, Steps
<1> HIDE DEF m, i
<1>3. [m EXCEPT !.listing[i] = listings[i]] = [m EXCEPT !.listing = seen]
  BY <1>1 DEF Copy
<1>4. seen \in [Items -> Listing]
  BY <1>1
<1> HIDE DEF seen
<1>5. [m EXCEPT !.listing = seen] \in Copy /\ InTime([m EXCEPT !.listing = seen])
  BY <1>1, <1>4, NewTyped, CopyParts, TParts
<1>6. MemTyped'
  BY <1>2, <1>3, <1>5, TParts, TGoes
<1> QED BY <1>2, <1>6, TParts, TOthers, TListings, TWhole

\* The copy of a request that has handed an item over.
LEMMA TLifted ==
  ASSUME NEW m \in Copy, InTime(m), NEW i
  PROVE  /\ [m EXCEPT !.sale.items[i].lifted = TRUE, !.changed = TRUE, !.listing[i] = Absent] \in Copy
         /\ InTime([m EXCEPT !.sale.items[i].lifted = TRUE, !.changed = TRUE, !.listing[i] = Absent])
         /\ [m EXCEPT !.sale.items[i].lifted = TRUE, !.listing[i] = Absent] \in Copy
         /\ InTime([m EXCEPT !.sale.items[i].lifted = TRUE, !.listing[i] = Absent])
<1> DEFINE s == [m.sale EXCEPT !.items[i].lifted = TRUE]
           seen == [m.listing EXCEPT ![i] = Absent]
<1>1. m.sale \in Sale /\ m.listing \in [Items -> Listing] /\ 0 \in Times
  BY BoundFacts DEF Copy
<1>2. s \in Sale /\ seen \in [Items -> Listing]
  BY <1>1, ItemPart, NewTyped
<1>3. [m EXCEPT !.sale.items[i].lifted = TRUE, !.changed = TRUE, !.listing[i] = Absent]
        = [m EXCEPT !.sale = s, !.changed = TRUE, !.listing = seen]
  OBVIOUS
<1>4. [m EXCEPT !.sale.items[i].lifted = TRUE, !.listing[i] = Absent] = [m EXCEPT !.sale = s, !.listing = seen]
  OBVIOUS
<1> HIDE DEF s, seen
<1>5. /\ [m EXCEPT !.sale = s, !.changed = TRUE, !.listing = seen] \in Copy
      /\ InTime([m EXCEPT !.sale = s, !.changed = TRUE, !.listing = seen])
      /\ [m EXCEPT !.sale = s, !.listing = seen] \in Copy /\ InTime([m EXCEPT !.sale = s, !.listing = seen])
  BY <1>2, CopyParts
<1> QED BY <1>3, <1>4, <1>5, Zenon

LEMMA TLift ==
  ASSUME TInv, NEW r \in Everyone, lift(r)
  PROVE  TInv'
<1> DEFINE m == mem[r]
           i == toLift(m)
           lifted == [m EXCEPT !.sale.items[i].lifted = TRUE, !.changed = TRUE, !.listing[i] = Absent]
<1>1. m \in Copy /\ InTime(m) /\ m.listing \in [Items -> Listing]
  BY TParts
<1>2. /\ goes(r, "pass", lifted) \/ ends(r)
      /\ listings' = listings \/ listings' = [listings EXCEPT ![i] = public(m.listing[i])]
      /\ "pass" \in Steps /\ UNCHANGED <<sale, posts, notices>> /\ others
  BY DEF lift, Steps
<1>3. lifted \in Copy /\ InTime(lifted)
  BY <1>1, TLifted
<1> HIDE DEF m, i, lifted
<1>4. MemTyped'
  BY <1>2, <1>3, TParts, TGoes, TEnds
<1>5. i \in Items => m.listing[i] \in Listing
  BY <1>1
<1>6. (listings \in [Items -> Listing])' /\ WholeWindow(listings)'
  BY <1>2, <1>5, TListings, TPublic
<1> QED BY <1>2, <1>4, <1>6, TParts, TOthers, TWhole

LEMMA TCloseSale ==
  ASSUME TInv, NEW r \in Everyone, closeSale(r)
  PROVE  TInv'
<1> DEFINE m == mem[r]
           t == later(lastWindow(m.sale), m.time)
           s == [m.sale EXCEPT !.closingAt = t]
<1>1. m \in Copy /\ InTime(m) /\ m.sale \in Sale /\ m.listing \in [Items -> Listing]
  BY TParts
<1>2. /\ ahead(m, lastWindow(m.sale)) /\ posts' = [posts EXCEPT !.closing = once(@, t)]
      /\ goes(r, "pass", [m EXCEPT !.sale.closingAt = t, !.changed = TRUE])
      /\ "pass" \in Steps /\ UNCHANGED <<sale, listings, notices>> /\ others
  BY DEF closeSale, closes, Steps
<1> HIDE DEF m
<1>3. t \in Times
  BY <1>1, <1>2, LastWindowTyped, AheadTyped
<1> HIDE DEF t
<1>4. [m EXCEPT !.sale.closingAt = t, !.changed = TRUE] = [m EXCEPT !.sale = s, !.changed = TRUE]
  BY <1>1 DEF Copy
<1>5. s \in Sale
  BY <1>1, <1>3, SaleParts
<1> HIDE DEF s
<1>6. [m EXCEPT !.sale = s, !.changed = TRUE] \in Copy /\ InTime([m EXCEPT !.sale = s, !.changed = TRUE])
  BY <1>1, <1>5, CopyParts
<1>7. MemTyped' /\ posts' \in Posts
  BY <1>2, <1>3, <1>4, <1>6, TParts, TGoes, PostsParts
<1> QED BY <1>2, <1>7, TParts, TOthers, TListings, TWhole

LEMMA TSave ==
  ASSUME TInv, NEW r \in Everyone, save(r)
  PROVE  TInv'
<1> DEFINE m == mem[r]
<1>1. m.sale \in Sale /\ sale \in Sale
  BY TParts
<1>2. sale' \in {sale, finishedOf(m.sale)} /\ ends(r) /\ UNCHANGED <<posts, listings, notices>> /\ others
  BY DEF save
<1> HIDE DEF m
<1>3. finishedOf(m.sale) \in Sale
  BY <1>1, BoundFacts, SaleParts DEF finishedOf
<1>4. sale' \in Sale /\ MemTyped'
  BY <1>1, <1>2, <1>3, TParts, TEnds
<1> QED BY <1>2, <1>4, TParts, TOthers, TListings, TWhole

-----------------------------------------------------------------------------
LEMMA TCallOffOpening ==
  ASSUME TInv, NEW r \in Everyone, callOffOpening(r)
  PROVE  TInv'
<1> DEFINE m == mem[r]
           s == [m.sale EXCEPT !.openedAt = 0]
<1>1. m \in Copy /\ InTime(m) /\ m.sale \in Sale /\ m.listing \in [Items -> Listing]
  BY TParts
<1>2. /\ posts' = [posts EXCEPT !.opening = 0] /\ goes(r, "callOff", [m EXCEPT !.sale.openedAt = 0])
      /\ "callOff" \in Steps /\ UNCHANGED <<sale, listings, notices>> /\ others
  BY DEF callOffOpening, Steps
<1> HIDE DEF m
<1>3. [m EXCEPT !.sale.openedAt = 0] = [m EXCEPT !.sale = s]
  BY <1>1 DEF Copy
<1>4. s \in Sale /\ 0 \in Times
  BY <1>1, BoundFacts, SaleParts
<1> HIDE DEF s
<1>5. [m EXCEPT !.sale = s] \in Copy /\ InTime([m EXCEPT !.sale = s])
  BY <1>1, <1>4, CopyParts
<1>6. MemTyped' /\ posts' \in Posts
  BY <1>2, <1>3, <1>4, <1>5, TParts, TGoes, PostsParts
<1> QED BY <1>2, <1>6, TParts, TOthers, TListings, TWhole

LEMMA TCallOffNotices ==
  ASSUME TInv, NEW r \in Everyone, callOffNotices(r)
  PROVE  TInv'
<1> DEFINE m == mem[r]
           s == [m.sale EXCEPT !.remindedAt = 0]
<1>1. m \in Copy /\ InTime(m) /\ m.sale \in Sale /\ m.listing \in [Items -> Listing]
  BY TParts
<1>2. /\ notices' = [p \in Members |-> IF p \in m.sale.reminders THEN 0 ELSE notices[p]]
      /\ goes(r, "callOff", [m EXCEPT !.sale.remindedAt = 0])
      /\ "callOff" \in Steps /\ UNCHANGED <<sale, posts, listings>> /\ others
  BY DEF callOffNotices, Steps
<1> HIDE DEF m
<1>3. [m EXCEPT !.sale.remindedAt = 0] = [m EXCEPT !.sale = s]
  BY <1>1 DEF Copy
<1>4. s \in Sale /\ 0 \in Times
  BY <1>1, BoundFacts, SaleParts
<1> HIDE DEF s
<1>5. [m EXCEPT !.sale = s] \in Copy /\ InTime([m EXCEPT !.sale = s])
  BY <1>1, <1>4, CopyParts
<1>6. MemTyped' /\ notices' \in [Members -> Times]
  BY <1>2, <1>3, <1>4, <1>5, TParts, TGoes
<1> QED BY <1>2, <1>6, TParts, TOthers, TListings, TWhole

LEMMA TCallOffItem ==
  ASSUME TInv, NEW r \in Everyone, callOffItem(r)
  PROVE  TInv'
<1> DEFINE m == mem[r]
           i == Min(hiddenItems(m))
           s == [m.sale EXCEPT !.items[i].publicPostAt = 0]
<1>1. m \in Copy /\ InTime(m) /\ m.sale \in Sale /\ m.listing \in [Items -> Listing]
  BY TParts
<1>2. /\ \/ posts' = [posts EXCEPT !.drop[i] = 0] /\ goes(r, "callOffListing", m)
         \/ posts' = [posts EXCEPT !.public[i] = 0] /\ goes(r, "callOff", [m EXCEPT !.sale.items[i].publicPostAt = 0])
      /\ {"callOff", "callOffListing"} \subseteq Steps /\ UNCHANGED <<sale, listings, notices>> /\ others
  BY DEF callOffItem, Steps
<1> HIDE DEF m, i
<1>3. [m EXCEPT !.sale.items[i].publicPostAt = 0] = [m EXCEPT !.sale = s]
  BY <1>1 DEF Copy
<1>4. s \in Sale /\ 0 \in Times
  BY <1>1, BoundFacts, ItemPart
<1> HIDE DEF s
<1>5. [m EXCEPT !.sale = s] \in Copy /\ InTime([m EXCEPT !.sale = s])
  BY <1>1, <1>4, CopyParts
<1>6. MemTyped'
  BY <1>1, <1>2, <1>3, <1>5, TParts, TGoes
<1>7. posts' \in {[posts EXCEPT !.drop[i] = 0], [posts EXCEPT !.public[i] = 0]}
  BY <1>2
<1>8. [posts EXCEPT !.drop[i] = 0] \in Posts /\ [posts EXCEPT !.public[i] = 0] \in Posts
  BY <1>4, TParts, PostsParts
<1>9. posts' \in Posts
  BY <1>7, <1>8, Zenon
<1> QED BY <1>2, <1>6, <1>9, TParts, TOthers, TListings, TWhole

LEMMA TCallOffListing ==
  ASSUME TInv, NEW r \in Everyone, callOffListing(r)
  PROVE  TInv'
<1> DEFINE m == mem[r]
           i == Min(hiddenItems(m))
           s == [m.sale EXCEPT !.items[i].postedAt = 0, !.items[i].windowEndsAt = 0, !.items[i].listed = FALSE]
           n == [m EXCEPT !.sale.items[i].postedAt = 0, !.sale.items[i].windowEndsAt = 0,
                          !.sale.items[i].listed = FALSE]
<1>1. m \in Copy /\ InTime(m) /\ m.sale \in Sale /\ m.listing \in [Items -> Listing] /\ 0 \in Times
  BY TParts, BoundFacts
<1>2. /\ listings' = [listings EXCEPT ![i] = Absent] /\ goes(r, "callOff", n)
      /\ "callOff" \in Steps /\ UNCHANGED <<sale, posts, notices>> /\ others
  BY DEF callOffListing, Steps
<1> HIDE DEF m, i
<1>3. n = [m EXCEPT !.sale = s]
  <2> DEFINE s1 == [m.sale EXCEPT !.items[i].postedAt = 0]
             s2 == [s1 EXCEPT !.items[i].windowEndsAt = 0]
             s3 == [s2 EXCEPT !.items[i].listed = FALSE]
  <2>1. [[[m EXCEPT !.sale.items[i].postedAt = 0] EXCEPT !.sale.items[i].windowEndsAt = 0]
            EXCEPT !.sale.items[i].listed = FALSE] = n
    OBVIOUS
  <2>2. [m EXCEPT !.sale.items[i].postedAt = 0] = [m EXCEPT !.sale = s1]
    OBVIOUS
  <2>3. [[m EXCEPT !.sale = s1] EXCEPT !.sale.items[i].windowEndsAt = 0] = [m EXCEPT !.sale = s2]
    <3> HIDE DEF s1
    <3> QED BY <1>1 DEF Copy
  <2>4. [[m EXCEPT !.sale = s2] EXCEPT !.sale.items[i].listed = FALSE] = [m EXCEPT !.sale = s3]
    <3> HIDE DEF s2
    <3> QED BY <1>1 DEF Copy
  <2>5. s3 = s
    OBVIOUS
  <2> HIDE DEF n, s, s1, s2, s3
  <2> QED BY <2>1, <2>2, <2>3, <2>4, <2>5, Zenon
<1>4. s \in Sale
  BY <1>1, ItemPosted
<1> HIDE DEF s, n
<1>5. [m EXCEPT !.sale = s] \in Copy /\ InTime([m EXCEPT !.sale = s])
  BY <1>1, <1>4, CopyParts
<1>6. MemTyped'
  BY <1>2, <1>3, <1>5, TParts, TGoes
<1>7. (listings \in [Items -> Listing])'
  BY <1>2, TParts, NewTyped
<1>8. WholeWindow(listings')
  BY <1>2, TParts DEF WholeWindow, Absent
<1> QED BY <1>2, <1>6, <1>7, <1>8, TParts, TOthers, TWhole DEF WholeWindow

LEMMA TCallOffClosing ==
  ASSUME TInv, NEW r \in Everyone, callOffClosing(r)
  PROVE  TInv'
<1> DEFINE m == mem[r]
           t == IF hidden(m, m.sale.closingAt) THEN 0 ELSE m.sale.closingAt
           s == [m.sale EXCEPT !.closingAt = t]
<1>1. m \in Copy /\ InTime(m) /\ m.sale \in Sale /\ m.listing \in [Items -> Listing] /\ 0 \in Times
  BY TParts, BoundFacts
<1>2. /\ posts' \in {posts, [posts EXCEPT !.closing = 0]}
      /\ goes(r, "pending", [m EXCEPT !.sale.closingAt = IF hidden(m, @) THEN 0 ELSE @])
      /\ "pending" \in Steps /\ UNCHANGED <<sale, listings, notices>> /\ others
  BY DEF callOffClosing, Steps
<1> HIDE DEF m
<1>3. t \in Times
  BY <1>1 DEF Sale
<1>4. [m EXCEPT !.sale.closingAt = IF hidden(m, @) THEN 0 ELSE @] = [m EXCEPT !.sale = s]
  OBVIOUS
<1> HIDE DEF t
<1>5. s \in Sale
  BY <1>1, <1>3, SaleParts
<1> HIDE DEF s
<1>6. [m EXCEPT !.sale = s] \in Copy /\ InTime([m EXCEPT !.sale = s])
  BY <1>1, <1>5, CopyParts
<1>7. MemTyped'
  BY <1>2, <1>4, <1>6, TParts, TGoes
<1>8. posts \in Posts /\ [posts EXCEPT !.closing = 0] \in Posts
  BY <1>1, TParts, PostsParts
<1>9. posts' \in Posts
  BY <1>2, <1>8, Zenon
<1> QED BY <1>2, <1>7, <1>9, TParts, TOthers, TListings, TWhole

LEMMA TReadPending ==
  ASSUME TInv, NEW r \in Everyone, readPending(r)
  PROVE  TInv'
<1> DEFINE m == mem[r]
           seen == [i \in Items |-> IF i \in pendingOf(m.sale) THEN listings[i] ELSE Absent]
<1>1. m \in Copy /\ InTime(m) /\ m.sale \in Sale /\ listings \in [Items -> Listing]
  BY TParts
<1>2. /\ goes(r, "release", [m EXCEPT !.listing = seen])
      /\ "release" \in Steps /\ UNCHANGED <<sale, posts, listings, notices>> /\ others
  BY DEF readPending, Steps
<1> HIDE DEF m
<1>3. seen \in [Items -> Listing]
  BY <1>1, NewTyped
<1> HIDE DEF seen
<1>4. [m EXCEPT !.listing = seen] \in Copy /\ InTime([m EXCEPT !.listing = seen])
  BY <1>1, <1>3, CopyParts
<1>5. MemTyped'
  BY <1>2, <1>4, TParts, TGoes
<1> QED BY <1>2, <1>5, TParts, TOthers, TListings, TWhole

LEMMA TRelease ==
  ASSUME TInv, NEW r \in Everyone, release(r)
  PROVE  TInv'
<1> DEFINE m == mem[r]
           i == Min(held(m))
           n == [m EXCEPT !.sale.items[i].lifted = TRUE, !.listing[i] = Absent]
<1>1. m \in Copy /\ InTime(m) /\ m.listing \in [Items -> Listing]
  BY TParts
<1>2. /\ goes(r, "release", n) \/ ends(r)
      /\ listings' = listings \/ listings' = [listings EXCEPT ![i] = public(m.listing[i])]
      /\ "release" \in Steps /\ UNCHANGED <<sale, posts, notices>> /\ others
  BY DEF release, Steps
<1>3. n \in Copy /\ InTime(n)
  BY <1>1, TLifted
<1> HIDE DEF m, i, n
<1>4. MemTyped'
  BY <1>2, <1>3, TParts, TGoes, TEnds
<1>5. i \in Items => m.listing[i] \in Listing
  BY <1>1
<1>6. (listings \in [Items -> Listing])' /\ WholeWindow(listings)'
  BY <1>2, <1>5, TListings, TPublic
<1> QED BY <1>2, <1>4, <1>6, TParts, TOthers, TWhole

LEMMA TCancel ==
  ASSUME TInv, NEW r \in Everyone, cancel(r)
  PROVE  TInv'
<1>1. sale' = [mem[r].sale EXCEPT !.status = "cancelled"] /\ ends(r) /\ UNCHANGED <<posts, listings, notices>> /\ others
  BY DEF cancel
<1>2. sale' \in Sale /\ MemTyped'
  BY <1>1, TParts, TEnds, BoundFacts, SaleParts
<1> QED BY <1>1, <1>2, TParts, TOthers, TListings, TWhole

-----------------------------------------------------------------------------
LEMMA TRemind ==
  ASSUME TInv, NEW r \in Everyone, remind(r)
  PROVE  TInv'
<1> DEFINE m == mem[r]
           S(p) == IF p \in m.sale.reminders THEN m.sale.reminders \ {p} ELSE m.sale.reminders \cup {p}
<1>1. m \in Copy /\ InTime(m) /\ m.sale \in Sale /\ m.listing \in [Items -> Listing]
  BY TParts
<1>2. /\ \E p \in Members :
           /\ sale' = [m.sale EXCEPT !.reminders = S(p)]
           /\ \E x \in {"done", "untell", "tellOne"}, n \in {NoCopy, [m EXCEPT !.who = {p}]} : goes(r, x, n)
      /\ {"done", "untell", "tellOne"} \subseteq Steps /\ UNCHANGED <<posts, listings, notices>> /\ others
  BY DEF remind, Steps
<1> HIDE DEF m
<1>3. PICK p \in Members :
        /\ sale' = [m.sale EXCEPT !.reminders = S(p)]
        /\ \E x \in {"done", "untell", "tellOne"}, n \in {NoCopy, [m EXCEPT !.who = {p}]} : goes(r, x, n)
  BY <1>2
<1>4. S(p) \in SUBSET Members
  BY <1>1 DEF Sale
<1> HIDE DEF S
<1>5. sale' \in Sale
  BY <1>1, <1>3, <1>4, BoundFacts, SaleParts
<1>6. [m EXCEPT !.who = {p}] \in Copy /\ InTime([m EXCEPT !.who = {p}])
  BY <1>1, CopyParts
<1>7. MemTyped'
  BY <1>2, <1>3, <1>6, NewTyped, TParts, TGoes
<1> QED BY <1>2, <1>5, <1>7, TParts, TOthers, TListings, TWhole

LEMMA TRemindOne ==
  ASSUME TInv, NEW r \in Everyone, remindOne(r)
  PROVE  TInv'
<1>1. /\ notices' = [p \in Members |-> IF p \notin mem[r].who THEN notices[p]
                                        ELSE IF at[r] = "untell" THEN 0 ELSE mem[r].sale.items[1].postedAt]
      /\ ends(r) /\ UNCHANGED <<sale, posts, listings>> /\ others
  BY DEF remindOne
<1>2. mem[r].sale.items[1].postedAt \in Times /\ 0 \in Times
  BY TParts, BoundFacts DEF Sale, Item
<1>3. MemTyped' /\ notices' \in [Members -> Times]
  BY <1>1, <1>2, TParts, TEnds
<1> QED BY <1>1, <1>3, TParts, TOthers, TListings, TWhole

LEMMA TDie ==
  ASSUME TInv, NEW r \in Everyone, die(r)
  PROVE  TInv'
<1>1. failures < MaxFailures /\ failures' = failures + 1 /\ ends(r) /\ UNCHANGED <<sale, posts, listings, notices, now, stopped>>
  BY DEF die
<1>2. (failures \in 0..MaxFailures)'
  BY <1>1, TParts, BoundFacts
<1> QED BY <1>1, <1>2, TParts, TEnds, TListings, TWhole

LEMMA TTick ==
  ASSUME TInv, tick
  PROVE  TInv'
<1>1. (now \in 0..Horizon)'
  BY TParts, BoundFacts DEF tick
<1>2. MemTyped'
  BY TParts DEF tick, MemTyped
<1> QED BY <1>1, <1>2, TParts, TListings, TWhole DEF tick

LEMMA TStutter ==
  ASSUME TInv, UNCHANGED vars
  PROVE  TInv'
<1>1. MemTyped'
  BY TParts DEF vars, MemTyped
<1> QED BY <1>1, TParts, TListings, TWhole DEF vars

-----------------------------------------------------------------------------
LEMMA TInit == Init => TInv
<1> SUFFICES ASSUME Init PROVE TInv
  OBVIOUS
<1>1. (sale = NewSale /\ now = 1) \/ (sale = Asked /\ now = Opening)
  BY DEF Init
<1>2. sale \in Sale /\ now \in 0..Horizon /\ sale.openedAt \in Times
  BY <1>1, NewTyped, BoundFacts DEF Sale
<1>3. posts \in Posts
  BY <1>2, BoundFacts DEF Init, Posts
<1>4. listings \in [Items -> Listing] /\ WholeWindow(listings)
  BY NewTyped DEF Init, WholeWindow, Absent
<1>5. MemTyped
  BY NewTyped DEF Init, MemTyped, Steps
<1>6. notices \in [Members -> Times] /\ stopped \in BOOLEAN
  BY BoundFacts DEF Init
<1>7. failures \in 0..MaxFailures
  BY BoundFacts DEF Init
<1> QED BY <1>2, <1>3, <1>4, <1>5, <1>6, <1>7 DEF TInv, TypeOK, MemTyped, WholeWindow

LEMMA TNext == TInv /\ [Next]_vars => TInv'
<1> SUFFICES ASSUME TInv, [Next]_vars PROVE TInv'
  OBVIOUS
<1>1. CASE UNCHANGED vars
  BY <1>1, TStutter
<1>2. CASE tick
  BY <1>2, TTick
<1>3. CASE \E r \in Everyone : begin(r) \/ beginStop(r) \/ beginRemind(r) \/ announceLost(r) \/ die(r)
  BY <1>3, TBegin, TBeginStop, TBeginRemind, TAnnounce, TDie
<1>4. ASSUME NEW r \in Everyone, step(r) PROVE TInv'
  <2>1. CASE openSale(r) \/ dropItem(r) \/ postItem(r) \/ tellAsked(r) \/ announce(r) \/ readListing(r)
             \/ lift(r) \/ closeSale(r) \/ save(r)
    BY <2>1, TOpenSale, TDropItem, TPostItem, TTellAsked, TAnnounce, TReadListing, TLift, TCloseSale, TSave
  <2>2. CASE callOffOpening(r) \/ callOffNotices(r) \/ callOffItem(r) \/ callOffListing(r) \/ callOffClosing(r)
    BY <2>2, TCallOffOpening, TCallOffNotices, TCallOffItem, TCallOffListing, TCallOffClosing
  <2>3. CASE readPending(r) \/ release(r) \/ cancel(r)
    BY <2>3, TReadPending, TRelease, TCancel
  <2>4. CASE remind(r) \/ remindOne(r)
    BY <2>4, TRemind, TRemindOne
  <2> QED BY <1>4, <2>1, <2>2, <2>3, <2>4 DEF step
<1> QED BY <1>1, <1>2, <1>3, <1>4 DEF Next

\* Whatever passes, stops, reminders and failures make of a sale, its times are
\* times the schedule and the lookahead reach, and a listing at the members'
\* price is one with its whole window: it ends Window after the listing first
\* shows, written late or ahead (dropItem of advancePowerSale, releaseItems).
THEOREM SalesStayTyped == Spec => []TypeOK
<1>1. TInv => TypeOK
  BY DEF TInv
<1> QED BY <1>1, TInit, TNext, PTL DEF Spec

=============================================================================
