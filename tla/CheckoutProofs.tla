--------------------------- MODULE CheckoutProofs ---------------------------
(***************************************************************************)
(* Checkout, for any number of checkouts, requests, units and prices: its  *)
(* types, that an order takes and gives back one unit at most, that a cart *)
(* holds none and a placed order has one, that one payment at most spends  *)
(* credit on a booking, that the shelf adds up, that no kept credit is     *)
(* spent twice, and that an order's credit was taken off one.              *)
(*                                                                         *)
(* A save either leaves everything but its request alone or merges one     *)
(* order (SaveCases).  Seen from placed, status and booking every step is  *)
(* then a load, a walk that moves none of them, a save, or one of the two  *)
(* that move a unit, and the invariant is kept by each kind.  Seen from    *)
(* credit it moves none (ReadsCredit) or writes what one kept credit pays  *)
(* of one order (MovesCredit); Sums has what that does to a sum.           *)
(***************************************************************************)
EXTENDS Checkout, Sums

\* What a request holds (TypeOK).
Memory == [mine : Order, base : Order, seen : [Sources -> Source],
           todo : SUBSET Sources, terms : Prices, shelf : Nat, found : BOOLEAN]

\* Fields of one order laid over another make an order, field by field.
LEMMA MergedOrder ==
  ASSUME NEW d \in Order, NEW base \in Order, NEW c \in Order, NEW stored,
         stored = [f \in DOMAIN d |-> IF f \in {g \in DOMAIN d : d[g] # base[g]} THEN d[f] ELSE c[f]]
  PROVE  /\ stored \in Order
         /\ stored.placed = IF d.placed # base.placed THEN d.placed ELSE c.placed
         /\ stored.status = IF d.status # base.status THEN d.status ELSE c.status
         /\ stored.booking = IF d.booking # base.booking THEN d.booking ELSE c.booking
         /\ stored.credit \in {d.credit, c.credit}
<1>1. DOMAIN d = {"live", "placed", "booking", "accepted", "status", "price", "credit", "paid", "key", "log"}
  BY DEF Order
<1>2. stored = [live |-> stored.live, placed |-> stored.placed, booking |-> stored.booking,
                accepted |-> stored.accepted, status |-> stored.status, price |-> stored.price,
                credit |-> stored.credit, paid |-> stored.paid, key |-> stored.key, log |-> stored.log]
  BY <1>1
<1>3. \A f \in DOMAIN d : stored[f] = IF d[f] # base[f] THEN d[f] ELSE c[f]
  OBVIOUS
<1>4. stored \in Order
  BY <1>1, <1>2, <1>3 DEF Order
<1> QED BY <1>1, <1>3, <1>4

(* What a save does.                                                       *)

Refused(r) == at' = [at EXCEPT ![r] = "refused"] /\ UNCHANGED <<orders, mem>>

\* d was merged as s: a field r changed is stored if nobody else changed it.
SavedAs(r, d, step, s) ==
  /\ s \in Order
  /\ orders' = [orders EXCEPT ![job[r].order] = s]
  /\ mem' = [mem EXCEPT ![r].mine = s, ![r].base = s]
  /\ at' = [at EXCEPT ![r] = step]
  /\ IF d.placed # mem[r].base.placed
     THEN s.placed = d.placed /\ orders[job[r].order].placed = mem[r].base.placed
     ELSE s.placed = orders[job[r].order].placed
  /\ IF d.status # mem[r].base.status
     THEN s.status = d.status /\ orders[job[r].order].status = mem[r].base.status
     ELSE s.status = orders[job[r].order].status
  /\ s.booking = IF d.booking # mem[r].base.booking THEN d.booking ELSE orders[job[r].order].booking
  /\ s.credit \in {d.credit, orders[job[r].order].credit}

\* A save is refused, or stores such a merge (writeChecked).
LEMMA SaveCases ==
  ASSUME TypeOK, NEW r \in Requests, NEW d \in Order, NEW step, save(r, d, step)
  PROVE  Refused(r) \/ \E s : SavedAs(r, d, step, s)
<1> DEFINE o == job[r].order
           base == mem[r].base
           touched == {f \in DOMAIN d : d[f] # base[f]}
           stored == [f \in DOMAIN d |-> IF f \in touched THEN d[f] ELSE orders[o][f]]
<1>1. o \in Checkouts /\ orders[o] \in Order /\ base \in Order
  BY DEF TypeOK, Jobs
<1>2. /\ stored \in Order
      /\ stored.placed = IF d.placed # base.placed THEN d.placed ELSE orders[o].placed
      /\ stored.status = IF d.status # base.status THEN d.status ELSE orders[o].status
      /\ stored.booking = IF d.booking # base.booking THEN d.booking ELSE orders[o].booking
      /\ stored.credit \in {d.credit, orders[o].credit}
  <2>1. stored = [f \in DOMAIN d |-> IF f \in {g \in DOMAIN d : d[g] # base[g]} THEN d[f] ELSE orders[o][f]]
    OBVIOUS
  <2> HIDE DEF stored, base, o
  <2> QED BY <1>1, <2>1, MergedOrder
<1>3. "placed" \in DOMAIN d /\ "status" \in DOMAIN d
  BY DEF Order
<1>4. CASE orders[o].live /\ \A f \in touched : orders[o][f] = base[f]
  <2>1. /\ orders' = [orders EXCEPT ![o] = stored]
        /\ mem' = [mem EXCEPT ![r].mine = stored, ![r].base = stored]
        /\ at' = [at EXCEPT ![r] = step]
    BY <1>4 DEF save, goes
  <2>2. d.placed # base.placed => orders[o].placed = base.placed
    BY <1>3, <1>4
  <2>3. d.status # base.status => orders[o].status = base.status
    BY <1>3, <1>4
  <2>4. SavedAs(r, d, step, stored)
    BY <1>2, <2>1, <2>2, <2>3 DEF SavedAs
  <2> QED BY <2>4
<1>5. CASE ~(orders[o].live /\ \A f \in touched : orders[o][f] = base[f])
  BY <1>5 DEF save, goes, Refused
<1> QED BY <1>4, <1>5

\* Either way types are kept.
LEMMA SaveTypes ==
  ASSUME TypeOK, NEW r \in Requests, NEW d \in Order, NEW step \in Steps, save(r, d, step)
  PROVE  /\ orders' \in [Checkouts -> Order]
         /\ at' \in [Requests -> Steps]
         /\ mem' \in [Requests -> Memory]
<1>1. /\ orders \in [Checkouts -> Order] /\ at \in [Requests -> Steps]
      /\ mem \in [Requests -> Memory] /\ job[r].order \in Checkouts
  BY DEF TypeOK, Memory, Jobs
<1>2. CASE Refused(r)
  BY <1>1, <1>2 DEF Refused, Steps, Ends
<1>3. CASE \E s : SavedAs(r, d, step, s)
  <2>1. PICK s : SavedAs(r, d, step, s)
    BY <1>3
  <2>2. orders' \in [Checkouts -> Order] /\ at' \in [Requests -> Steps]
    BY <1>1, <2>1 DEF SavedAs
  <2>3. mem' \in [Requests -> Memory]
    <3> DEFINE m1 == [mem EXCEPT ![r].mine = s]
    <3>1. m1 \in [Requests -> Memory] /\ s \in Order
      BY <1>1, <2>1 DEF SavedAs, Memory
    <3>2. mem' = [m1 EXCEPT ![r].base = s]
      BY <2>1 DEF SavedAs
    <3> HIDE DEF m1
    <3> QED BY <3>1, <3>2 DEF Memory
  <2> QED BY <2>2, <2>3
<1> QED BY <1>2, <1>3, SaveCases

\* The edits handlers make to their copy make orders.
LEMMA Edited ==
  ASSUME TypeOK, NEW r \in Requests, NEW o, o = mem[r].mine
  PROVE  /\ o \in Order /\ mem[r].terms \in Prices /\ job[r].key \in Keys \cup {NoKey}
         /\ \A b \in BOOLEAN : [o EXCEPT !.placed = b] \in Order
         /\ [o EXCEPT !.price = price] \in Order
         /\ [o EXCEPT !.log = @ + 1] \in Order
         /\ confirmed(r) \in Order
<1>1. mem \in [Requests -> Memory] /\ price \in Prices /\ job \in [Requests -> Jobs]
  BY DEF TypeOK, Memory
<1>2. o \in Order /\ mem[r].terms \in Prices /\ job[r].key \in Keys \cup {NoKey}
  BY <1>1 DEF Memory, Jobs
<1>3. \A b \in BOOLEAN : [o EXCEPT !.placed = b] \in Order
  BY <1>2 DEF Order
<1>4. [o EXCEPT !.price = price] \in Order
  BY <1>1, <1>2 DEF Order
<1>5. [o EXCEPT !.log = @ + 1] \in Order
  BY <1>2 DEF Order
<1>6. \A k \in Keys \cup {NoKey} :
        [o EXCEPT !.status = "confirmed", !.accepted = TRUE, !.key = k, !.log = @ + 1] \in Order
  <2> TAKE k \in Keys \cup {NoKey}
  <2> DEFINE c1 == [o EXCEPT !.status = "confirmed", !.accepted = TRUE]
             c2 == [c1 EXCEPT !.key = k]
             c3 == [c2 EXCEPT !.log = @ + 1]
  <2>1. c1 \in Order
    BY <1>2 DEF Order
  <2>2. c2 \in Order
    <3> HIDE DEF c1
    <3> QED BY <2>1 DEF Order
  <2>3. c3 \in Order
    <3> HIDE DEF c2
    <3> QED BY <2>2 DEF Order
  <2>4. c3 = [o EXCEPT !.status = "confirmed", !.accepted = TRUE, !.key = k, !.log = @ + 1]
    BY <1>2 DEF Order
  <2> QED BY <2>3, <2>4
<1>7. confirmed(r) \in Order
  BY <1>2, <1>6 DEF confirmed
<1> QED BY <1>2, <1>3, <1>4, <1>5, <1>7

\* What is owing, and what is left of a credit, are amounts.
LEMMA Amounts ==
  ASSUME TypeOK
  PROVE  /\ \A a, b \in Nat : minus(a, b) \in Nat /\ least(a, b) \in Nat
         /\ \A o \in Order : outstanding(o) \in Nat
         /\ \A s \in Sources : \A c \in Source : creditLeft(s, c) \in Nat
<1>1. \A a, b \in Nat : minus(a, b) \in Nat /\ least(a, b) \in Nat
  BY DEF minus, least
<1>2. ASSUME NEW o \in Order
      PROVE  o.price \in Nat /\ o.paid + o.credit \in Nat
  <2>1. o.price \in Prices /\ o.paid \in Nat /\ o.credit \in Nat
    BY DEF Order
  <2>2. o.price \in Nat
    BY <2>1, AmountsAssumption
  <2> QED BY <2>1, <2>2
<1>3. \A s \in Sources : \A c \in Source : Kept[s] \in Nat /\ c.applied \in Nat
  BY SourcesAssumption DEF Source
<1>4. \A o \in Order : outstanding(o) \in Nat
  BY <1>1, <1>2 DEF outstanding
<1>5. \A s \in Sources : \A c \in Source : creditLeft(s, c) \in Nat
  BY <1>1, <1>3 DEF creditLeft
<1> QED BY <1>1, <1>4, <1>5

\* So is what is spent of one, and spending it makes a source.
LEMMA Shares ==
  ASSUME TypeOK, NEW r \in Requests, NEW s \in Sources
  PROVE  /\ share(s, r) \in Nat
         /\ \A c \in Source : \A a \in Nat : spent(c, job[r].order, a) \in Source
         /\ \A c \in Source : [c EXCEPT !.log = @ + 1] \in Source
<1>1. /\ mem[r].mine \in Order /\ mem[r].seen[s] \in Source /\ job[r].order \in Checkouts
  BY DEF TypeOK, Jobs
<1>2. share(s, r) \in Nat
  BY <1>1, Amounts DEF share
<1>3. \A c \in Source : [c EXCEPT !.log = @ + 1] \in Source
  BY DEF Source
<1>4. ASSUME NEW c \in Source, NEW a \in Nat
      PROVE  spent(c, job[r].order, a) \in Source
  <2> DEFINE c1 == [c EXCEPT !.applied = @ + a]
             c2 == [c1 EXCEPT !.spends[job[r].order] = @ + a]
  <2>1. c1 \in Source
    BY DEF Source
  <2>2. c2 \in Source
    <3> HIDE DEF c1
    <3>1. [c1.spends EXCEPT ![job[r].order] = @ + a] \in [Checkouts -> Nat]
      BY <1>1, <2>1 DEF Source
    <3> QED BY <2>1, <3>1 DEF Source
  <2>3. spent(c, job[r].order, a) = c2
    BY DEF spent, Source
  <2> QED BY <2>2, <2>3
<1> QED BY <1>2, <1>3, <1>4

\* accept's edit of the order: its place and mark stay, its status is st.
LEMMA Accepting ==
  ASSUME NEW o \in Order, NEW st \in {"pending_payment", "confirmed", "rejected"}
  PROVE  LET d == [o EXCEPT !.accepted = TRUE, !.log = @ + 1, !.status = st]
         IN  d \in Order /\ d.placed = o.placed /\ d.booking = o.booking /\ d.status = st
<1> DEFINE c1 == [o EXCEPT !.accepted = TRUE]
           c2 == [c1 EXCEPT !.log = @ + 1]
           c3 == [c2 EXCEPT !.status = st]
<1>1. c1 \in Order
  BY DEF Order
<1>2. c2 \in Order
  <2> HIDE DEF c1
  <2> QED BY <1>1 DEF Order
<1>3. c3 \in Order
  <2> HIDE DEF c2
  <2> QED BY <1>2 DEF Order
<1>4. c3 = [o EXCEPT !.accepted = TRUE, !.log = @ + 1, !.status = st]
  BY DEF Order
<1>5. LET d == c3 IN d.placed = o.placed /\ d.booking = o.booking /\ d.status = st
  BY DEF Order
<1> QED BY <1>3, <1>4, <1>5

\* reject's edit.
LEMMA Rejecting ==
  ASSUME NEW o \in Order
  PROVE  LET d == [o EXCEPT !.status = "rejected", !.credit = 0, !.log = @ + 1]
         IN  d \in Order /\ d.placed = o.placed /\ d.booking = o.booking /\ d.status = "rejected"
<1> DEFINE c1 == [o EXCEPT !.status = "rejected"]
           c2 == [c1 EXCEPT !.credit = 0]
           c3 == [c2 EXCEPT !.log = @ + 1]
<1>1. c1 \in Order
  BY DEF Order
<1>2. c2 \in Order
  <2> HIDE DEF c1
  <2> QED BY <1>1 DEF Order
<1>3. c3 \in Order
  <2> HIDE DEF c2
  <2> QED BY <1>2 DEF Order
<1>4. c3 = [o EXCEPT !.status = "rejected", !.credit = 0, !.log = @ + 1]
  BY DEF Order
<1>5. LET d == c3 IN d.placed = o.placed /\ d.booking = o.booking /\ d.status = "rejected"
  BY DEF Order
<1> QED BY <1>3, <1>4, <1>5

\* applyHere's edit.
LEMMA Applying ==
  ASSUME NEW o \in Order, NEW b \in BOOLEAN
  PROVE  LET d == [o EXCEPT !.status = "confirmed", !.log = @ + 1, !.accepted = b]
         IN  d \in Order /\ d.placed = o.placed /\ d.booking = o.booking /\ d.status = "confirmed"
<1> DEFINE c1 == [o EXCEPT !.status = "confirmed"]
           c2 == [c1 EXCEPT !.log = @ + 1]
           c3 == [c2 EXCEPT !.accepted = b]
<1>1. c1 \in Order
  BY DEF Order
<1>2. c2 \in Order
  <2> HIDE DEF c1
  <2> QED BY <1>1 DEF Order
<1>3. c3 \in Order
  <2> HIDE DEF c2
  <2> QED BY <1>2 DEF Order
<1>4. c3 = [o EXCEPT !.status = "confirmed", !.log = @ + 1, !.accepted = b]
  BY DEF Order
<1>5. LET d == c3 IN d.placed = o.placed /\ d.booking = o.booking /\ d.status = "confirmed"
  BY DEF Order
<1> QED BY <1>3, <1>4, <1>5

\* What charge asks for is an amount.
LEMMA Dues ==
  ASSUME TypeOK, NEW r \in Requests
  PROVE  least(minus(mem[r].terms, mem[r].mine.credit), outstanding(mem[r].mine)) \in Nat
<1>1. mem[r].terms \in Prices /\ mem[r].mine.credit \in Nat /\ mem[r].mine \in Order
  BY DEF TypeOK, Order
<1>2. mem[r].terms \in Nat
  BY <1>1, AmountsAssumption
<1> QED BY <1>1, <1>2, Amounts

(* Types.                                                                  *)

\* A step that leaves the shelf alone keeps types if what it moves has them.
LEMMA TypesKept ==
  ASSUME TypeOK, elsewhere, orders' \in [Checkouts -> Order], sources' \in [Sources -> Source],
         at' \in [Requests -> Steps], mem' \in [Requests -> Memory]
  PROVE  TypeOK'
BY DEF TypeOK, elsewhere, Memory

\* A save keeps types.
LEMMA TypesSaved ==
  ASSUME TypeOK, NEW r \in Requests, NEW d \in Order, NEW step \in Steps, save(r, d, step),
         elsewhere, UNCHANGED sources
  PROVE  TypeOK'
BY SaveTypes, TypesKept DEF TypeOK

\* So does a step that moves its request alone...
LEMMA TypesMoved ==
  ASSUME TypeOK, NEW r \in Requests, NEW step \in Steps, goes(r, step),
         mem' \in [Requests -> Memory], sources' \in [Sources -> Source], UNCHANGED orders, elsewhere
  PROVE  TypeOK'
<1>1. at' \in [Requests -> Steps]
  BY DEF TypeOK, goes
<1> QED BY <1>1, TypesKept DEF TypeOK

\* ...and the load of an order.
LEMMA TypesLoaded ==
  ASSUME TypeOK, NEW r \in Requests, NEW step \in Steps, loaded(r, step),
         UNCHANGED <<orders, sources>>, elsewhere
  PROVE  TypeOK'
<1>1. /\ mem \in [Requests -> Memory] /\ orders[job[r].order] \in Order
      /\ orders[job[r].order].price \in Prices /\ orders[job[r].order].placed \in BOOLEAN
  BY DEF TypeOK, Memory, Jobs, Order
<1>2. mem' \in [Requests -> Memory]
  <2> DEFINE o == orders[job[r].order]
             m1 == [mem EXCEPT ![r].mine = o]
             m2 == [m1 EXCEPT ![r].base = o]
             m3 == [m2 EXCEPT ![r].terms = o.price]
             m4 == [m3 EXCEPT ![r].found = o.placed]
  <2>1. mem' = m4
    BY DEF loaded
  <2>2. m1 \in [Requests -> Memory]
    BY <1>1 DEF Memory
  <2>3. m2 \in [Requests -> Memory]
    <3> HIDE DEF m1
    <3> QED BY <1>1, <2>2 DEF Memory
  <2>4. m3 \in [Requests -> Memory]
    <3> HIDE DEF m2
    <3> QED BY <1>1, <2>3 DEF Memory
  <2>5. m4 \in [Requests -> Memory]
    <3> HIDE DEF m3
    <3> QED BY <1>1, <2>4 DEF Memory
  <2> QED BY <2>1, <2>5
<1> QED BY <1>2, TypesMoved DEF loaded, TypeOK

\* Types hold at first.
LEMMA TypesInit == Init => TypeOK
<1> SUFFICES ASSUME Init PROVE TypeOK
  OBVIOUS
<1>1. /\ price \in Prices /\ job \in [Requests -> Jobs]
      /\ at = [r \in Requests |-> "idle"] /\ returned = [o \in Checkouts |-> 0]
      /\ sources = [s \in Sources |-> [applied |-> 0, spends |-> [o \in Checkouts |-> 0], log |-> 0]]
      /\ mem = [r \in Requests |->
              [mine |-> orders[job[r].order], base |-> orders[job[r].order],
               seen |-> sources, todo |-> {}, terms |-> price, shelf |-> 0, found |-> FALSE]]
  BY DEF Init
<1>2. /\ orders \in [Checkouts -> Order] /\ shelf \in Nat /\ taken \in [Checkouts -> Nat]
  <2>1. PICK booked \in SUBSET Checkouts :
          /\ Cardinality(booked) <= Stock
          /\ shelf = Stock - Cardinality(booked)
          /\ taken = [o \in Checkouts |-> IF o \in booked THEN 1 ELSE 0]
          /\ orders = [o \in Checkouts |->
                      [live |-> TRUE, placed |-> o \in booked, booking |-> o \in booked,
                       accepted |-> o \in booked, status |-> "pending_payment", price |-> price,
                       credit |-> 0, paid |-> 0, key |-> NoKey, log |-> 0]]
    BY DEF Init
  <2>2. orders \in [Checkouts -> Order] /\ taken \in [Checkouts -> Nat]
    BY <1>1, <2>1 DEF Order
  <2>3. Cardinality(booked) \in Nat
    BY CheckoutsAssumption, FS_Subset, FS_CardinalityType
  <2> QED BY <2>1, <2>2, <2>3, AmountsAssumption
<1> QED BY <1>1, <1>2 DEF TypeOK, Steps, Ends, Jobs, Source

\* Every step keeps types.
LEMMA TypesStep == TypeOK /\ [Next]_vars => TypeOK'
<1> SUFFICES ASSUME TypeOK, [Next]_vars PROVE TypeOK'
  OBVIOUS
<1>1. CASE UNCHANGED vars
  BY <1>1 DEF TypeOK, vars
<1>2. CASE editPrice
  BY <1>2 DEF TypeOK, editPrice
<1>3. ASSUME NEW r \in Requests, buyerStep(r) \/ sellerStep(r) \/ die(r)
      PROVE  TypeOK'
  <2> DEFINE mine == mem[r].mine
  <2>a. /\ mem \in [Requests -> Memory] /\ sources \in [Sources -> Source]
        /\ job[r].order \in Checkouts /\ mine \in Order /\ shelf \in Nat /\ price \in Prices
        /\ orders \in [Checkouts -> Order] /\ at \in [Requests -> Steps]
    BY DEF TypeOK, Memory, Jobs
  <2>b. /\ \A b \in BOOLEAN : [mine EXCEPT !.placed = b] \in Order
        /\ [mine EXCEPT !.price = price] \in Order
        /\ [mine EXCEPT !.log = @ + 1] \in Order
        /\ confirmed(r) \in Order
    BY Edited
  <2>c. ASSUME NEW n \in Nat PROVE [mem EXCEPT ![r].mine.credit = @ + n] \in [Requests -> Memory]
    <3>1. [mine EXCEPT !.credit = @ + n] \in Order
      BY <2>a DEF Order
    <3>2. [mem EXCEPT ![r].mine = [mine EXCEPT !.credit = @ + n]] \in [Requests -> Memory]
      BY <2>a, <3>1 DEF Memory
    <3> QED BY <2>a, <3>2 DEF Memory
  <2>d. ASSUME NEW m \in [Requests -> Memory], NEW t \in SUBSET Sources
        PROVE  [m EXCEPT ![r].todo = t] \in [Requests -> Memory]
    BY DEF Memory
  <2> HIDE DEF mine
  <2>1. CASE pay(r)
    BY <2>1, TypesLoaded DEF pay, Steps, Ends
  <2>2. CASE bookOrder(r)
    <3> DEFINE o == orders[job[r].order]
               m1 == [mem EXCEPT ![r].mine = [o EXCEPT !.booking = TRUE]]
               m2 == [m1 EXCEPT ![r].base = o]
    <3>1. [o EXCEPT !.booking = TRUE] \in Order /\ o \in Order
      BY <2>a DEF Order
    <3>2. m1 \in [Requests -> Memory]
      BY <2>a, <3>1 DEF Memory
    <3>3. m2 \in [Requests -> Memory]
      <4> HIDE DEF m1
      <4> QED BY <3>1, <3>2 DEF Memory
    <3>4. mem' = m2
      BY <2>2 DEF bookOrder
    <3> QED BY <2>2, <2>a, <3>3, <3>4, TypesMoved DEF bookOrder, Steps
  <2>3. CASE discardCheckout(r)
    BY <2>3, TypesLoaded DEF discardCheckout, Steps
  <2>4. CASE deleteOrder(r)
    <3>1. orders' \in [Checkouts -> Order]
      <4>1. [orders[job[r].order] EXCEPT !.live = FALSE] \in Order
        BY <2>a DEF Order
      <4>2. orders' = [orders EXCEPT ![job[r].order] = [@ EXCEPT !.live = FALSE]]
        BY <2>4 DEF deleteOrder
      <4> QED BY <2>a, <4>1, <4>2
    <3>2. at' \in [Requests -> Steps]
      BY <2>4, <2>a DEF deleteOrder, goes, Steps, Ends
    <3> QED BY <2>4, <2>a, <3>1, <3>2, TypesKept DEF deleteOrder
  <2>5. CASE look(r)
    BY <2>5, <2>a, <2>b, TypesSaved, TypesMoved DEF look, Steps, Ends, mine
  <2>6. CASE claim(r)
    BY <2>6, <2>b, TypesSaved DEF claim, Steps, mine
  <2>7. CASE takeStock(r)
    <3>1. at' \in [Requests -> Steps]
      BY <2>7, <2>a DEF takeStock, goes, Steps
    <3> QED BY <2>7, <2>a, <3>1 DEF takeStock, TypeOK
  <2>8. CASE takeNothing(r)
    BY <2>8, <2>b, TypesSaved DEF takeNothing, Steps, Ends, mine
  <2>9. CASE listSources(r)
    <3>1. [mem EXCEPT ![r].seen = sources] \in [Requests -> Memory]
      BY <2>a DEF Memory
    <3>2. mem' \in [Requests -> Memory]
      BY <2>9, <2>d, <3>1 DEF listSources
    <3> QED BY <2>9, <2>a, <3>2, TypesMoved DEF listSources, Steps
  <2>10. CASE spend(r)
    <3>1. PICK s \in Sources :
            IF unseen(r, s) THEN goes(r, "refused") /\ UNCHANGED <<sources, mem>>
            ELSE /\ saveSource(s, spent(sources[s], job[r].order, share(s, r)))
                 /\ mem' = [mem EXCEPT ![r].mine.credit = @ + share(s, r), ![r].todo = @ \ {s}]
                 /\ UNCHANGED at
      BY <2>10 DEF spend
    <3>2. share(s, r) \in Nat /\ mem[r].todo \ {s} \in SUBSET Sources
      BY <2>a, Shares DEF Memory
    <3>3. CASE unseen(r, s)
      BY <2>10, <2>a, <3>1, <3>3, TypesMoved DEF spend, Steps, Ends
    <3>4. CASE ~unseen(r, s)
      <4>1. mem' \in [Requests -> Memory]
        <5> DEFINE m1 == [mem EXCEPT ![r].mine.credit = @ + share(s, r)]
        <5>1. m1 \in [Requests -> Memory]
          BY <2>c, <3>2
        <5>2. mem' = [m1 EXCEPT ![r].todo = mem[r].todo \ {s}]
          BY <2>a, <3>1, <3>4 DEF Memory
        <5> HIDE DEF m1
        <5> QED BY <2>d, <3>2, <5>1, <5>2
      <4>2. sources' \in [Sources -> Source]
        <5>1. spent(sources[s], job[r].order, share(s, r)) \in Source
          BY <2>a, <3>2, Shares
        <5> QED BY <2>a, <3>1, <3>4, <5>1, Shares DEF saveSource
      <4> QED BY <2>10, <2>a, <3>1, <3>4, <4>1, <4>2, TypesKept DEF spend
    <3> QED BY <3>3, <3>4
  <2>11. CASE spendEnds(r)
    BY <2>11, <2>a, TypesMoved DEF spendEnds, Steps
  <2>12. CASE recordPlaced(r)
    BY <2>12, <2>b, TypesSaved DEF recordPlaced, Steps, mine
  <2>13. CASE noteBooking(r)
    BY <2>13, <2>b, TypesSaved DEF noteBooking, Steps, Ends, mine
  <2>14. CASE commitBooking(r)
    BY <2>14, <2>b, TypesSaved DEF commitBooking, Steps
  <2>15. CASE charge(r)
    <3> DEFINE due == least(minus(mem[r].terms, mine.credit), outstanding(mine))
    <3>1. due \in Nat
      BY Dues DEF mine
    <3>2. save(r, [confirmed(r) EXCEPT !.paid = @ + due], "done") /\ elsewhere /\ UNCHANGED sources
      BY <2>15 DEF charge, mine
    <3> HIDE DEF due
    <3>3. [confirmed(r) EXCEPT !.paid = @ + due] \in Order
      BY <2>b, <3>1 DEF Order
    <3> QED BY <3>2, <3>3, TypesSaved DEF Steps, Ends
  <2>16. CASE acceptOrder(r)
    BY <2>16, TypesLoaded DEF acceptOrder, Steps
  <2>17. CASE accept(r)
    <3>1. PICK st \in {"pending_payment", "confirmed", "rejected"} :
            /\ save(r, [mine EXCEPT !.accepted = TRUE, !.log = @ + 1, !.status = st], "done")
            /\ elsewhere /\ UNCHANGED sources
      BY <2>17, <2>a DEF accept, mine, Order
    <3>2. [mine EXCEPT !.accepted = TRUE, !.log = @ + 1, !.status = st] \in Order
      BY <2>a, Accepting
    <3> QED BY <3>1, <3>2, TypesSaved DEF Steps, Ends
  <2>18. CASE rejectOrder(r)
    BY <2>18, TypesLoaded DEF rejectOrder, Steps
  <2>19. CASE giveBackList(r)
    <3>1. [mem EXCEPT ![r].seen = sources] \in [Requests -> Memory]
      BY <2>a DEF Memory
    <3>2. mem' \in [Requests -> Memory]
      BY <2>19, <2>d, <3>1 DEF giveBackList
    <3> QED BY <2>19, <2>a, <3>2, TypesMoved DEF giveBackList, Steps
  <2>20. CASE giveBack(r)
    <3> DEFINE o == job[r].order
               given(s) == [sources[s] EXCEPT !.applied = minus(@, sources[s].spends[o]), !.spends[o] = 0]
    <3>1. PICK s \in mem[r].todo :
            IF unseen(r, s) THEN goes(r, "refused") /\ UNCHANGED <<sources, mem>>
            ELSE /\ saveSource(s, given(s))
                 /\ mem' = [mem EXCEPT ![r].todo = @ \ {s}]
                 /\ UNCHANGED at
      BY <2>20 DEF giveBack
    <3>2. s \in Sources /\ mem[r].todo \ {s} \in SUBSET Sources /\ sources[s] \in Source
      BY <2>a DEF Memory
    <3>3. CASE unseen(r, s)
      BY <2>20, <2>a, <3>1, <3>3, TypesMoved DEF giveBack, Steps, Ends
    <3>4. CASE ~unseen(r, s)
      <4>1. mem' \in [Requests -> Memory]
        BY <2>a, <2>d, <3>1, <3>2, <3>4
      <4>2. given(s) \in Source
        <5> DEFINE left == minus(sources[s].applied, sources[s].spends[o])
                   c1 == [sources[s] EXCEPT !.applied = left]
                   c2 == [c1 EXCEPT !.spends[o] = 0]
        <5>1. left \in Nat
          BY <2>a, <3>2, Amounts DEF Source
        <5>2. c1 \in Source
          <6> HIDE DEF left
          <6> QED BY <3>2, <5>1 DEF Source
        <5>3. c2 \in Source
          <6> HIDE DEF c1
          <6>1. [c1.spends EXCEPT ![o] = 0] \in [Checkouts -> Nat]
            BY <2>a, <5>2 DEF Source
          <6> QED BY <5>2, <6>1 DEF Source
        <5>4. given(s) = c2
          BY <3>2 DEF Source
        <5> QED BY <5>3, <5>4
      <4>3. sources' \in [Sources -> Source]
        <5> HIDE DEF given
        <5> QED BY <2>a, <3>1, <3>2, <3>4, <4>2, Shares DEF saveSource
      <4> QED BY <2>20, <2>a, <3>1, <3>4, <4>1, <4>3, TypesKept DEF giveBack
    <3> QED BY <3>3, <3>4
  <2>21. CASE giveBackEnds(r)
    BY <2>21, <2>a, TypesMoved DEF giveBackEnds, Steps
  <2>22. CASE reject(r)
    <3>1. [mine EXCEPT !.status = "rejected", !.credit = 0, !.log = @ + 1] \in Order
      BY <2>a, Rejecting
    <3> QED BY <2>22, <3>1, TypesSaved DEF reject, Steps, mine
  <2>23. CASE restockRead(r) \/ assignRead(r)
    <3>1. mem' \in [Requests -> Memory]
      BY <2>23, <2>a, ZenonT(60) DEF restockRead, assignRead, readShelf, Memory
    <3> QED BY <2>23, <2>a, <3>1, TypesMoved DEF restockRead, assignRead, readShelf, Steps
  <2>24. CASE restock(r) \/ assignListingsToLot(r)
    <3>1. at' \in [Requests -> Steps] /\ mem[r].shelf \in Nat
      BY <2>24, <2>a DEF restock, assignListingsToLot, goes, Steps, Ends, Memory
    <3> QED BY <2>24, <3>1 DEF restock, assignListingsToLot, TypeOK
  <2>25. CASE applyCredit(r)
    <3> DEFINE o == orders[job[r].order]
    <3>1. PICK s \in Sources :
            mem' = [mem EXCEPT ![r].mine = o, ![r].base = o, ![r].seen = sources, ![r].todo = {s}]
      BY <2>25 DEF applyCredit
    <3> DEFINE m1 == [mem EXCEPT ![r].mine = o]
               m2 == [m1 EXCEPT ![r].base = o]
               m3 == [m2 EXCEPT ![r].seen = sources]
    <3>2. m1 \in [Requests -> Memory]
      BY <2>a DEF Memory
    <3>3. m2 \in [Requests -> Memory]
      <4> HIDE DEF m1
      <4> QED BY <2>a, <3>2, ZenonT(60) DEF Memory
    <3>4. m3 \in [Requests -> Memory]
      <4> HIDE DEF m2
      <4> QED BY <2>a, <3>3, ZenonT(60) DEF Memory
    <3>5. mem' = [m3 EXCEPT ![r].todo = {s}]
      BY <3>1
    <3>6. mem' \in [Requests -> Memory]
      <4> HIDE DEF m3
      <4> QED BY <2>d, <3>4, <3>5
    <3> QED BY <2>25, <2>a, <3>6, TypesMoved DEF applyCredit, Steps
  <2>26. CASE applyAway(r)
    <3>1. PICK s \in mem[r].todo :
            IF unseen(r, s) THEN goes(r, "refused") /\ UNCHANGED <<sources, mem>>
            ELSE /\ saveSource(s, spent(sources[s], job[r].order, share(s, r)))
                 /\ mem' = [mem EXCEPT ![r].mine.credit = @ + share(s, r)]
                 /\ goes(r, "applyHere")
      BY <2>26 DEF applyAway
    <3>2. s \in Sources
      BY <2>a DEF Memory
    <3>3. CASE unseen(r, s)
      BY <2>26, <2>a, <3>1, <3>3, TypesMoved DEF applyAway, Steps, Ends
    <3>4. CASE ~unseen(r, s)
      <4>1. share(s, r) \in Nat
        BY <3>2, Shares
      <4>2. mem' \in [Requests -> Memory]
        BY <2>c, <3>1, <3>4, <4>1
      <4>3. sources' \in [Sources -> Source]
        <5>1. spent(sources[s], job[r].order, share(s, r)) \in Source
          BY <2>a, <3>2, <4>1, Shares
        <5> QED BY <2>a, <3>1, <3>2, <3>4, <5>1, Shares DEF saveSource
      <4> QED BY <2>26, <3>1, <3>4, <4>2, <4>3, TypesMoved DEF applyAway, Steps
    <3> QED BY <3>3, <3>4
  <2>27. CASE applyHere(r)
    <3>1. PICK b \in BOOLEAN :
            /\ save(r, [mine EXCEPT !.status = "confirmed", !.log = @ + 1, !.accepted = b], "done")
            /\ elsewhere /\ UNCHANGED sources
      <4>1. (mine.accepted \/ mine.status = "pending_payment") \in BOOLEAN
        OBVIOUS
      <4> QED BY <2>27, <4>1 DEF applyHere, mine
    <3>2. [mine EXCEPT !.status = "confirmed", !.log = @ + 1, !.accepted = b] \in Order
      BY <2>a, Applying
    <3> QED BY <3>1, <3>2, TypesSaved DEF Steps, Ends
  <2>28. CASE die(r)
    BY <2>28, <2>a, TypesMoved DEF die, Steps, Ends
  <2> QED
    BY <1>3, <2>1, <2>2, <2>3, <2>4, <2>5, <2>6, <2>7, <2>8, <2>9, <2>10, <2>11, <2>12, <2>13, <2>14,
       <2>15, <2>16, <2>17, <2>18, <2>19, <2>20, <2>21, <2>22, <2>23, <2>24, <2>25, <2>26, <2>27, <2>28
       DEF buyerStep, sellerStep
<1> QED BY <1>1, <1>2, <1>3 DEF Next

-----------------------------------------------------------------------------
(* The inductive invariant.                                                *)

\* What r has of its order agrees with what it last saw of it, but for the
\* booking mark, which is only ever set; and no order becomes pending again.
CopiesAgree ==
  \A r \in Requests :
    /\ mem[r].mine.placed = mem[r].base.placed
    /\ mem[r].mine.status = mem[r].base.status
    /\ mem[r].base.booking => mem[r].mine.booking /\ orders[job[r].order].booking
    /\ mem[r].base.status # "pending_payment" => orders[job[r].order].status # "pending_payment"

\* A request about to claim found its order in the cart; one about to take a
\* unit has claimed an order that has none, and is the only one to.
ClaimsAreAlone ==
  /\ \A r \in Requests : at[r] \in {"look", "claim"} => ~mem[r].base.placed
  /\ \A r \in Requests : at[r] = "take" =>
       mem[r].base.placed /\ orders[job[r].order].placed /\ taken[job[r].order] = 0
  /\ \A r, q \in Requests :
       at[r] = "take" /\ at[q] = "take" /\ job[r].order = job[q].order => r = q

UnitsTaken == \A o \in Checkouts : taken[o] <= 1 /\ (~orders[o].placed => taken[o] = 0)

\* A rejection under way read a pending order; one that restocks made it
\* rejected, and no order becomes pending again.
restocking(r) == at[r] \in {"restockRead", "restock"}
ReturnsAreAlone ==
  /\ \A r \in Requests : at[r] \in {"giveBackList", "giveBack", "reject"} =>
       mem[r].base.status = "pending_payment"
  /\ \A r \in Requests : restocking(r) =>
       orders[job[r].order].status # "pending_payment" /\ returned[job[r].order] = 0
  /\ \A r, q \in Requests :
       restocking(r) /\ restocking(q) /\ job[r].order = job[q].order => r = q
  /\ \A o \in Checkouts :
       returned[o] <= 1 /\ (returned[o] > 0 => orders[o].status # "pending_payment")

\* A payment that found its order placed does not place it, commits it off a
\* pending one, and spends credit when that is done.
PaymentsOfBookings ==
  /\ \A r \in Requests : at[r] = "idle" => ~mem[r].found
  /\ \A r \in Requests : mem[r].found => at[r] \notin {"look", "claim", "take", "record"}
  /\ \A r \in Requests : mem[r].found /\ at[r] \in {"commit", "list", "spend"} => mem[r].base.booking
  /\ \A r \in Requests : mem[r].found /\ at[r] = "commit" => mem[r].base.status = "pending_payment"
  /\ \A r \in Requests : spendsOnBooking(r) => orders[job[r].order].status # "pending_payment"

\* The inductive invariant.
IInv == /\ TypeOK /\ CopiesAgree /\ ClaimsAreAlone /\ UnitsTaken
        /\ ReturnsAreAlone /\ PaymentsOfBookings /\ BookingSpentByOne

-----------------------------------------------------------------------------
(* Three kinds of step, and what each keeps.                               *)

Kept3(m, n) == m.placed = n.placed /\ m.status = n.status /\ m.booking = n.booking

\* r goes on, and no order and no copy of one is placed, marked or decided.
Walks(r, step) ==
  /\ at' = [at EXCEPT ![r] = step]
  /\ UNCHANGED <<job, taken, returned>>
  /\ \A o \in Checkouts : Kept3(orders'[o], orders[o])
  /\ \A q \in Requests : /\ Kept3(mem'[q].mine, mem[q].mine)
                         /\ mem'[q].base = mem[q].base
                         /\ mem'[q].found = mem[q].found

\* A walk keeps the invariant if it enters only steps it may enter from there.
LEMMA WalkKeeps ==
  ASSUME IInv, NEW r \in Requests, NEW step, Walks(r, step), TypeOK',
         step \notin {"idle", "take", "record"} \/ (step = "record" /\ ~mem[r].found),
         step \in {"look", "claim"} => ~mem[r].base.placed /\ ~mem[r].found,
         step \in {"giveBackList", "giveBack", "reject"} => mem[r].base.status = "pending_payment",
         step = "restock" => at[r] = "restockRead",
         step # "restockRead", step # "commit",
         step \in {"list", "spend"} => at[r] \in {"list", "spend"} \/ ~mem[r].found
  PROVE  IInv'
<1>1. /\ at \in [Requests -> Steps] /\ \A q \in Requests : job[q].order \in Checkouts
      /\ \A q \in Requests : at'[q] = IF q = r THEN step ELSE at[q]
  BY DEF IInv, TypeOK, Jobs, Walks
<1>2. CopiesAgree'
  BY <1>1 DEF IInv, CopiesAgree, Walks, Kept3
<1>3. ClaimsAreAlone'
  BY <1>1 DEF IInv, ClaimsAreAlone, Walks, Kept3
<1>4. UnitsTaken'
  BY <1>1 DEF IInv, UnitsTaken, Walks, Kept3
<1>5. ReturnsAreAlone'
  BY <1>1 DEF IInv, ReturnsAreAlone, restocking, Walks, Kept3
<1>6. PaymentsOfBookings'
  BY <1>1 DEF IInv, PaymentsOfBookings, spendsOnBooking, Walks, Kept3
<1>7. BookingSpentByOne'
  BY <1>1 DEF IInv, BookingSpentByOne, spendsOnBooking, Walks, Kept3
<1> QED BY <1>2, <1>3, <1>4, <1>5, <1>6, <1>7 DEF IInv

\* A handler loads its order.
Loads(r, step) ==
  LET o == orders[job[r].order] IN
  /\ at[r] = "idle"
  /\ at' = [at EXCEPT ![r] = step]
  /\ UNCHANGED <<orders, job, taken, returned>>
  /\ \A q \in Requests \ {r} : mem'[q] = mem[q]
  /\ mem'[r].mine.placed = o.placed /\ mem'[r].mine.status = o.status
  /\ o.booking => mem'[r].mine.booking
  /\ mem'[r].base = o
  /\ mem'[r].found => o.placed

\* A load keeps it if what it goes on to suits the order it found.
LEMMA LoadKeeps ==
  ASSUME IInv, NEW r \in Requests, NEW step, Loads(r, step), TypeOK',
         step \notin {"idle", "take", "record", "giveBack", "restockRead", "restock", "list", "spend"},
         step \in {"look", "claim"} => ~orders[job[r].order].placed,
         step \in {"giveBackList", "reject", "commit"} => orders[job[r].order].status = "pending_payment",
         step = "commit" => orders[job[r].order].booking
  PROVE  IInv'
<1>1. /\ at \in [Requests -> Steps] /\ \A q \in Requests : job[q].order \in Checkouts
      /\ \A q \in Requests : at'[q] = IF q = r THEN step ELSE at[q]
  BY DEF IInv, TypeOK, Jobs, Loads
<1>2. CopiesAgree'
  BY <1>1 DEF IInv, CopiesAgree, Loads
<1>3. ClaimsAreAlone'
  BY <1>1 DEF IInv, ClaimsAreAlone, Loads
<1>4. UnitsTaken'
  BY <1>1 DEF IInv, UnitsTaken, Loads
<1>5. ReturnsAreAlone'
  BY <1>1 DEF IInv, ReturnsAreAlone, restocking, Loads
<1>6. PaymentsOfBookings'
  BY <1>1 DEF IInv, PaymentsOfBookings, spendsOnBooking, Loads
<1>7. BookingSpentByOne'
  BY <1>1 DEF IInv, BookingSpentByOne, spendsOnBooking, Loads
<1> QED BY <1>2, <1>3, <1>4, <1>5, <1>6, <1>7 DEF IInv

\* A save keeps it if it claims from the cart, takes a claim back before a unit
\* is taken, or leaves the place alone, and makes no order pending.
LEMMA SaveKeeps ==
  ASSUME IInv, NEW r \in Requests, NEW d \in Order, NEW step \in Steps, save(r, d, step), TypeOK',
         UNCHANGED <<job, taken, returned>>,
         step \notin {"idle", "look", "claim", "record", "giveBackList", "giveBack", "reject", "restock", "spend"},
         d.booking = mem[r].mine.booking,
         d.status \in {mem[r].mine.status, "confirmed", "rejected"},
         \/ d.placed = mem[r].mine.placed /\ step # "take"
         \/ at[r] = "claim" /\ d.placed /\ step = "take"
         \/ at[r] = "take" /\ ~d.placed /\ step = "refused",
         step = "restockRead" => at[r] = "reject" /\ d.status = "rejected",
         step = "list" => at[r] = "commit" /\ d.status = "confirmed",
         step = "commit" => at[r] = "record"
  PROVE  IInv'
<1> DEFINE o == job[r].order
<1>1. /\ at \in [Requests -> Steps] /\ \A q \in Requests : job[q].order \in Checkouts
      /\ orders \in [Checkouts -> Order] /\ mem \in [Requests -> Memory]
  BY DEF IInv, TypeOK, Jobs, Memory
<1>2. CASE Refused(r)
  <2>1. Walks(r, "refused")
    BY <1>2 DEF Walks, Refused, Kept3
  <2> QED BY <2>1, WalkKeeps
<1>3. ASSUME NEW s, SavedAs(r, d, step, s)
      PROVE  IInv'
  <2>1. /\ \A q \in Requests : at'[q] = IF q = r THEN step ELSE at[q]
        /\ \A c \in Checkouts : orders'[c] = IF c = o THEN s ELSE orders[c]
        /\ \A q \in Requests : q # r => mem'[q] = mem[q]
        /\ mem'[r].mine = s /\ mem'[r].base = s /\ mem'[r].found = mem[r].found
    BY <1>1, <1>3 DEF SavedAs, Memory
  <2>a. /\ mem[r].mine.status = mem[r].base.status
        /\ mem[r].base.booking => mem[r].mine.booking /\ orders[o].booking
        /\ mem[r].base.status # "pending_payment" => orders[o].status # "pending_payment"
        /\ d.booking \in BOOLEAN /\ mem[r].base.booking \in BOOLEAN
    BY <1>1 DEF IInv, CopiesAgree, Memory, Order
  <2>2. /\ orders[o].status # "pending_payment" => s.status # "pending_payment"
        /\ d.status # "pending_payment" => s.status # "pending_payment"
        /\ d.status # mem[r].base.status => orders[o].status = mem[r].base.status
    <3>1. IF d.status # mem[r].base.status
          THEN s.status = d.status /\ orders[o].status = mem[r].base.status
          ELSE s.status = orders[o].status
      BY <1>3 DEF SavedAs
    <3> QED BY <2>a, <3>1
  <2>3. /\ orders[o].booking => s.booking
        /\ mem[r].base.booking => s.booking
    <3>1. s.booking = IF d.booking # mem[r].base.booking THEN d.booking ELSE orders[o].booking
      BY <1>3 DEF SavedAs
    <3> QED BY <2>a, <3>1
  <2>4. CopiesAgree'
    BY <1>1, <2>1, <2>2, <2>3 DEF IInv, CopiesAgree
  <2>5. ClaimsAreAlone' /\ UnitsTaken'
    <3>1. CASE d.placed = mem[r].mine.placed /\ step # "take"
      <4>1. s.placed = orders[o].placed
        BY <1>3, <3>1 DEF SavedAs, IInv, CopiesAgree
      <4>2. ClaimsAreAlone'
        BY <1>1, <2>1, <3>1, <4>1 DEF IInv, ClaimsAreAlone
      <4> QED BY <1>1, <2>1, <4>1, <4>2 DEF IInv, UnitsTaken
    <3>2. CASE at[r] = "claim" /\ d.placed /\ step = "take"
      <4>1. s.placed /\ ~orders[o].placed
        BY <1>1, <1>3, <3>2 DEF SavedAs, IInv, ClaimsAreAlone, Memory, Order
      <4>2. ClaimsAreAlone'
        BY <1>1, <2>1, <3>2, <4>1 DEF IInv, ClaimsAreAlone, UnitsTaken
      <4> QED BY <1>1, <2>1, <4>1, <4>2 DEF IInv, UnitsTaken
    <3>3. CASE at[r] = "take" /\ ~d.placed /\ step = "refused"
      <4>1. taken[o] = 0 /\ \A q \in Requests : at'[q] = "take" => job[q].order # o
        BY <1>1, <2>1, <3>3 DEF IInv, ClaimsAreAlone
      <4>2. ClaimsAreAlone'
        BY <1>1, <2>1, <3>3, <4>1 DEF IInv, ClaimsAreAlone
      <4> QED BY <1>1, <2>1, <4>1, <4>2 DEF IInv, UnitsTaken
    <3> QED BY <3>1, <3>2, <3>3
  <2>6. ReturnsAreAlone'
    <3>1. /\ \A q \in Requests : at'[q] \in {"giveBackList", "giveBack", "reject"} =>
               mem'[q].base.status = "pending_payment"
          /\ \A c \in Checkouts :
               returned'[c] <= 1 /\ (returned'[c] > 0 => orders'[c].status # "pending_payment")
      BY <1>1, <2>1, <2>2 DEF IInv, ReturnsAreAlone
    <3>2. step = "restockRead" =>
            /\ orders[o].status = "pending_payment" /\ s.status # "pending_payment"
            /\ returned[o] = 0
            /\ \A q \in Requests : restocking(q) => job[q].order # o
      <4> SUFFICES ASSUME step = "restockRead"
                   PROVE  /\ orders[o].status = "pending_payment" /\ s.status # "pending_payment"
                          /\ returned[o] = 0
                          /\ \A q \in Requests : restocking(q) => job[q].order # o
        OBVIOUS
      <4>1. at[r] = "reject" /\ d.status = "rejected" /\ mem[r].base.status = "pending_payment"
        BY DEF IInv, ReturnsAreAlone
      <4>2. orders[o].status = "pending_payment" /\ s.status # "pending_payment"
        BY <2>2, <4>1
      <4>3. returned[o] \in Nat
        BY <1>1 DEF IInv, TypeOK
      <4> QED BY <1>1, <4>2, <4>3 DEF IInv, ReturnsAreAlone
    <3>3. /\ \A q \in Requests : restocking(q)' =>
               orders'[job'[q].order].status # "pending_payment" /\ returned'[job'[q].order] = 0
          /\ \A q, p \in Requests :
               restocking(q)' /\ restocking(p)' /\ job'[q].order = job'[p].order => q = p
      BY <1>1, <2>1, <2>2, <3>2 DEF IInv, ReturnsAreAlone, restocking
    <3> QED BY <3>1, <3>3 DEF ReturnsAreAlone
  <2>7. PaymentsOfBookings'
    BY <1>1, <2>1, <2>2, <2>3 DEF IInv, PaymentsOfBookings, spendsOnBooking
  <2>8. BookingSpentByOne'
    BY <1>1, <2>1, <2>2 DEF IInv, BookingSpentByOne, PaymentsOfBookings, CopiesAgree, spendsOnBooking
  <2> QED BY <2>4, <2>5, <2>6, <2>7, <2>8 DEF IInv
<1> QED BY <1>2, <1>3, SaveCases DEF IInv

-----------------------------------------------------------------------------
\* The invariant holds at first.
LEMMA InvInit == Init => IInv
<1> SUFFICES ASSUME Init PROVE IInv
  OBVIOUS
<1>1. TypeOK /\ \A r \in Requests : job[r].order \in Checkouts
  BY TypesInit DEF TypeOK, Jobs
<1>2. /\ at = [r \in Requests |-> "idle"] /\ returned = [o \in Checkouts |-> 0]
      /\ mem = [r \in Requests |->
              [mine |-> orders[job[r].order], base |-> orders[job[r].order],
               seen |-> sources, todo |-> {}, terms |-> price, shelf |-> 0, found |-> FALSE]]
  BY DEF Init
<1>3. CopiesAgree /\ ClaimsAreAlone /\ ReturnsAreAlone /\ PaymentsOfBookings /\ BookingSpentByOne
  BY <1>1, <1>2
     DEF CopiesAgree, ClaimsAreAlone, ReturnsAreAlone, PaymentsOfBookings, BookingSpentByOne,
         restocking, spendsOnBooking
<1>4. UnitsTaken
  <2>1. PICK booked \in SUBSET Checkouts :
          /\ taken = [o \in Checkouts |-> IF o \in booked THEN 1 ELSE 0]
          /\ orders = [o \in Checkouts |->
                      [live |-> TRUE, placed |-> o \in booked, booking |-> o \in booked,
                       accepted |-> o \in booked, status |-> "pending_payment", price |-> price,
                       credit |-> 0, paid |-> 0, key |-> NoKey, log |-> 0]]
    BY DEF Init
  <2>2. ASSUME NEW o \in Checkouts
        PROVE  taken[o] <= 1 /\ (~orders[o].placed => taken[o] = 0)
    <3>1. CASE o \in booked
      <4>1. taken[o] = 1
        BY <2>1, <3>1
      <4>2. orders[o].placed = (o \in booked)
        BY <2>1, Zenon
      <4>3. orders[o].placed
        BY <3>1, <4>2, Zenon
      <4>4. taken[o] <= 1
        BY <4>1
      <4> QED BY <4>3, <4>4, Zenon
    <3>2. CASE o \notin booked
      BY <2>1, <3>2
    <3> QED BY <3>1, <3>2
  <2> QED BY <2>2 DEF UnitsTaken
<1> QED BY <1>1, <1>3, <1>4 DEF IInv

\* Every step keeps it.
LEMMA InvStep == IInv /\ [Next]_vars => IInv'
<1> SUFFICES ASSUME IInv, [Next]_vars PROVE IInv'
  OBVIOUS
<1>0. TypeOK /\ TypeOK'
  BY TypesStep DEF IInv
<1>1. CASE UNCHANGED vars
  BY <1>0, <1>1 DEF IInv, CopiesAgree, ClaimsAreAlone, UnitsTaken, ReturnsAreAlone, PaymentsOfBookings,
                    BookingSpentByOne, restocking, spendsOnBooking, vars
<1>2. CASE editPrice
  BY <1>0, <1>2 DEF IInv, CopiesAgree, ClaimsAreAlone, UnitsTaken, ReturnsAreAlone, PaymentsOfBookings,
                    BookingSpentByOne, restocking, spendsOnBooking, editPrice
<1>3. ASSUME NEW r \in Requests, buyerStep(r) \/ sellerStep(r) \/ die(r)
      PROVE  IInv'
  <2> DEFINE mine == mem[r].mine
             o == orders[job[r].order]
  <2>a. /\ mem \in [Requests -> Memory] /\ job[r].order \in Checkouts /\ mine \in Order
        /\ orders \in [Checkouts -> Order] /\ at \in [Requests -> Steps]
    BY <1>0 DEF TypeOK, Memory, Jobs
  <2>b. /\ \A b \in BOOLEAN : [mine EXCEPT !.placed = b] \in Order
        /\ [mine EXCEPT !.price = price] \in Order
        /\ [mine EXCEPT !.log = @ + 1] \in Order
        /\ confirmed(r) \in Order
    BY <1>0, Edited
  <2>l. ASSUME NEW step, loaded(r, step), UNCHANGED <<orders, sources>>, elsewhere, at[r] = "idle"
        PROVE  Loads(r, step)
    <3>1. /\ mem'[r].mine = o /\ mem'[r].base = o /\ mem'[r].found = o.placed
          /\ \A q \in Requests \ {r} : mem'[q] = mem[q]
      BY <2>l, <2>a DEF loaded, Memory
    <3> QED BY <2>l, <2>a, <3>1 DEF loaded, goes, elsewhere, Loads, Order
  <2>1. CASE pay(r)
    BY <2>1, <2>l, <1>0, <2>a, LoadKeeps DEF pay, begins, canPay
  <2>2. CASE bookOrder(r)
    <3>1. /\ mem'[r].mine = [o EXCEPT !.booking = TRUE] /\ mem'[r].base = o /\ mem'[r].found = mem[r].found
          /\ \A q \in Requests \ {r} : mem'[q] = mem[q]
      BY <2>2, <2>a DEF bookOrder, Memory
    <3>2. ~mem[r].found /\ o \in Order
      BY <2>2, <2>a DEF bookOrder, begins, IInv, PaymentsOfBookings
    <3>3. /\ mem'[r].mine.placed = o.placed /\ mem'[r].mine.status = o.status /\ mem'[r].mine.booking
          /\ at[r] = "idle" /\ UNCHANGED <<orders, job, taken, returned>>
      BY <2>2, <3>1, <3>2 DEF bookOrder, begins, elsewhere, Order
    <3>4. PICK step \in {"note", "look"} : goes(r, step) /\ (step = "look" => ~o.placed)
      BY <2>2 DEF bookOrder
    <3>5. Loads(r, step)
      BY <3>1, <3>2, <3>3, <3>4 DEF goes, Loads
    <3> QED BY <3>4, <3>5, <1>0, LoadKeeps
  <2>3. CASE discardCheckout(r)
    BY <2>3, <2>l, <1>0, LoadKeeps DEF discardCheckout, begins
  <2>4. CASE deleteOrder(r)
    <3>1. Walks(r, "done")
      BY <2>4, <2>a DEF deleteOrder, goes, elsewhere, Walks, Kept3, Order
    <3> QED BY <3>1, <1>0, WalkKeeps
  <2>5. CASE look(r)
    <3>1. ~mem[r].base.placed /\ ~mem[r].found
      BY <2>5 DEF look, IInv, ClaimsAreAlone, PaymentsOfBookings
    <3>2. CASE UNCHANGED <<orders, mem>> /\ (goes(r, "refused") \/ goes(r, "claim"))
      <4>1. Walks(r, "refused") \/ Walks(r, "claim")
        BY <2>5, <3>2 DEF look, goes, elsewhere, Walks, Kept3
      <4> QED BY <4>1, <3>1, <1>0, WalkKeeps
    <3>3. CASE save(r, [mine EXCEPT !.price = price], "refused")
      <4> DEFINE d == [mine EXCEPT !.price = price]
      <4>1. d \in Order /\ Kept3(d, mine)
        BY <2>a, <2>b DEF Order, Kept3
      <4>2. UNCHANGED <<job, taken, returned>> /\ save(r, d, "refused")
        BY <2>5, <3>3 DEF look, elsewhere
      <4> HIDE DEF d
      <4> QED BY <4>1, <4>2, <1>0, SaveKeeps DEF Steps, Ends, Kept3
    <3> QED BY <2>5, <3>2, <3>3 DEF look
  <2>6. CASE claim(r)
    <3> DEFINE d == [mine EXCEPT !.placed = TRUE]
    <3>1. d \in Order /\ d.placed /\ d.booking = mine.booking /\ d.status = mine.status
      BY <2>a, <2>b DEF Order
    <3>2. UNCHANGED <<job, taken, returned>> /\ save(r, d, "take") /\ at[r] = "claim"
      BY <2>6 DEF claim, elsewhere
    <3> HIDE DEF d
    <3> QED BY <3>1, <3>2, <1>0, SaveKeeps DEF Steps
  <2>7. CASE takeStock(r)
    <3> DEFINE step == IF mine.booking THEN "record" ELSE "list"
    <3>1. /\ at[r] = "take" /\ at' = [at EXCEPT ![r] = step]
          /\ UNCHANGED <<orders, mem, job, returned>>
          /\ taken' = [taken EXCEPT ![job[r].order] = @ + 1]
      BY <2>7 DEF takeStock, goes
    <3>2. /\ step \in {"record", "list"} /\ ~mem[r].found
          /\ o.placed /\ taken[job[r].order] = 0 /\ taken \in [Checkouts -> Nat]
          /\ \A q \in Requests : at[q] = "take" /\ q # r => job[q].order # job[r].order
          /\ \A q \in Requests : job[q].order \in Checkouts
      BY <1>0, <3>1 DEF IInv, ClaimsAreAlone, PaymentsOfBookings, TypeOK, Jobs
    <3> HIDE DEF step
    <3>3. \A q \in Requests : at'[q] = IF q = r THEN step ELSE at[q]
      BY <2>a, <3>1
    <3>4. CopiesAgree'
      BY <3>1 DEF IInv, CopiesAgree
    <3>5. ClaimsAreAlone'
      BY <3>1, <3>2, <3>3 DEF IInv, ClaimsAreAlone
    <3>6. UnitsTaken'
      BY <3>1, <3>2 DEF IInv, UnitsTaken
    <3>7. ReturnsAreAlone'
      BY <3>1, <3>2, <3>3 DEF IInv, ReturnsAreAlone, restocking
    <3>8. PaymentsOfBookings' /\ BookingSpentByOne'
      BY <3>1, <3>2, <3>3 DEF IInv, PaymentsOfBookings, BookingSpentByOne, spendsOnBooking
    <3> QED BY <1>0, <3>4, <3>5, <3>6, <3>7, <3>8 DEF IInv
  <2>8. CASE takeNothing(r)
    <3> DEFINE d == [mine EXCEPT !.placed = FALSE]
    <3>1. d \in Order /\ ~d.placed /\ d.booking = mine.booking /\ d.status = mine.status
      BY <2>a, <2>b DEF Order
    <3>2. UNCHANGED <<job, taken, returned>> /\ save(r, d, "refused") /\ at[r] = "take"
      BY <2>8 DEF takeNothing, elsewhere
    <3> HIDE DEF d
    <3> QED BY <3>1, <3>2, <1>0, SaveKeeps DEF Steps, Ends
  <2>9. CASE listSources(r)
    <3>1. Walks(r, "spend")
      BY <2>9, <2>a DEF listSources, goes, elsewhere, Walks, Kept3, Memory
    <3>2. at[r] = "list"
      BY <2>9 DEF listSources
    <3> QED BY <3>1, <3>2, <1>0, WalkKeeps
  <2>10. CASE spend(r)
    <3>1. Walks(r, "spend") \/ Walks(r, "refused")
      <4>1. CASE goes(r, "refused") /\ UNCHANGED mem
        BY <2>10, <4>1 DEF spend, goes, elsewhere, Walks, Kept3
      <4>2. ASSUME NEW s \in Sources, UNCHANGED at,
                   mem' = [mem EXCEPT ![r].mine.credit = @ + share(s, r), ![r].todo = @ \ {s}]
            PROVE  Walks(r, "spend")
        <5>1. /\ mem'[r].base = mem[r].base /\ mem'[r].found = mem[r].found
              /\ mem'[r].mine = [mine EXCEPT !.credit = @ + share(s, r)]
              /\ \A q \in Requests \ {r} : mem'[q] = mem[q]
          BY <4>2, <2>a DEF Memory
        <5>2. Kept3(mem'[r].mine, mine)
          BY <5>1, <2>a DEF Order, Kept3
        <5>3. at' = [at EXCEPT ![r] = "spend"]
          BY <2>10, <4>2, <2>a DEF spend
        <5> QED BY <2>10, <5>1, <5>2, <5>3 DEF spend, elsewhere, Walks, Kept3
      <4> QED BY <2>10, <4>1, <4>2 DEF spend
    <3>2. at[r] = "spend"
      BY <2>10 DEF spend
    <3> QED BY <3>1, <3>2, <1>0, WalkKeeps
  <2>11. CASE spendEnds(r)
    <3>1. Walks(r, IF mine.booking THEN "charge" ELSE "record") /\ at[r] = "spend"
      BY <2>11 DEF spendEnds, goes, elsewhere, Walks, Kept3
    <3>2. mem[r].found => mine.booking
      BY <3>1 DEF IInv, PaymentsOfBookings, CopiesAgree
    <3> QED BY <3>1, <3>2, <1>0, WalkKeeps
  <2>12. CASE recordPlaced(r)
    <3> DEFINE d == [mine EXCEPT !.log = @ + 1]
               step == IF job[r].op = "book" THEN "note" ELSE IF mine.booking THEN "commit" ELSE "charge"
    <3>1. d \in Order /\ Kept3(d, mine)
      BY <2>a, <2>b DEF Order, Kept3
    <3>2. UNCHANGED <<job, taken, returned>> /\ save(r, d, step) /\ at[r] = "record"
      BY <2>12 DEF recordPlaced, elsewhere
    <3>3. step \in {"note", "commit", "charge"}
      OBVIOUS
    <3> HIDE DEF d, step
    <3> QED BY <3>1, <3>2, <3>3, <1>0, SaveKeeps DEF Steps, Kept3
  <2>13. CASE noteBooking(r)
    <3> DEFINE d == [mine EXCEPT !.log = @ + 1]
    <3>1. d \in Order /\ Kept3(d, mine)
      BY <2>a, <2>b DEF Order, Kept3
    <3>2. UNCHANGED <<job, taken, returned>> /\ save(r, d, "done")
      BY <2>13 DEF noteBooking, elsewhere
    <3> HIDE DEF d
    <3> QED BY <3>1, <3>2, <1>0, SaveKeeps DEF Steps, Ends, Kept3
  <2>14. CASE commitBooking(r)
    <3>1. /\ confirmed(r).status = "confirmed" /\ confirmed(r).placed = mine.placed
          /\ confirmed(r).booking = mine.booking
      BY <2>a DEF confirmed, Order
    <3>2. UNCHANGED <<job, taken, returned>> /\ save(r, confirmed(r), "list") /\ at[r] = "commit"
      BY <2>14 DEF commitBooking, elsewhere
    <3> QED BY <2>b, <3>1, <3>2, <1>0, SaveKeeps DEF Steps
  <2>15. CASE charge(r)
    <3> DEFINE due == least(minus(mem[r].terms, mine.credit), outstanding(mine))
               d == [confirmed(r) EXCEPT !.paid = @ + due]
    <3>1. UNCHANGED <<job, taken, returned>> /\ save(r, d, "done")
      BY <2>15 DEF charge, elsewhere
    <3>2. due \in Nat
      BY <1>0, Dues
    <3> HIDE DEF due
    <3>3. d \in Order
      BY <2>b, <3>2 DEF Order
    <3>4. d.placed = mine.placed /\ d.booking = mine.booking /\ d.status = "confirmed"
      <4>1. /\ confirmed(r).status = "confirmed" /\ confirmed(r).placed = mine.placed
            /\ confirmed(r).booking = mine.booking
        BY <2>a DEF confirmed, Order
      <4> QED BY <2>b, <4>1 DEF Order
    <3> HIDE DEF d
    <3> QED BY <3>1, <3>3, <3>4, <1>0, SaveKeeps DEF Steps, Ends
  <2>16. CASE acceptOrder(r)
    BY <2>16, <2>l, <1>0, LoadKeeps DEF acceptOrder, begins
  <2>17. CASE accept(r)
    <3> DEFINE st == IF ~unpaid(mine) /\ outstanding(mine) = 0 THEN "confirmed" ELSE mine.status
               d == [mine EXCEPT !.accepted = TRUE, !.log = @ + 1, !.status = st]
    <3>1. st \in {mine.status, "confirmed"}
      OBVIOUS
    <3>2. UNCHANGED <<job, taken, returned>> /\ save(r, d, "done")
      BY <2>17 DEF accept, elsewhere
    <3> HIDE DEF st
    <3>3. d \in Order /\ d.placed = mine.placed /\ d.booking = mine.booking /\ d.status = st
      <4>1. st \in {"pending_payment", "confirmed", "rejected"}
        BY <2>a, <3>1 DEF Order
      <4>2. mine \in Order
        BY <2>a
      <4> HIDE DEF mine
      <4> QED BY <4>1, <4>2, Accepting
    <3> HIDE DEF d
    <3> QED BY <3>1, <3>2, <3>3, <1>0, SaveKeeps DEF Steps, Ends
  <2>18. CASE rejectOrder(r)
    BY <2>18, <2>l, <1>0, LoadKeeps DEF rejectOrder, begins, fresh
  <2>19. CASE giveBackList(r)
    <3>1. Walks(r, "giveBack") /\ at[r] = "giveBackList"
      BY <2>19, <2>a DEF giveBackList, goes, elsewhere, Walks, Kept3, Memory
    <3> QED BY <3>1, <1>0, WalkKeeps DEF IInv, ReturnsAreAlone
  <2>20. CASE giveBack(r)
    <3>1. (Walks(r, "giveBack") \/ Walks(r, "refused")) /\ at[r] = "giveBack"
      <4>1. CASE goes(r, "refused") /\ UNCHANGED mem
        BY <2>20, <4>1 DEF giveBack, goes, elsewhere, Walks, Kept3
      <4>2. ASSUME NEW s, UNCHANGED at, mem' = [mem EXCEPT ![r].todo = @ \ {s}]
            PROVE  Walks(r, "giveBack")
        <5>1. /\ mem'[r].base = mem[r].base /\ mem'[r].found = mem[r].found /\ mem'[r].mine = mine
              /\ \A q \in Requests \ {r} : mem'[q] = mem[q]
          BY <4>2, <2>a DEF Memory
        <5>2. at' = [at EXCEPT ![r] = "giveBack"]
          BY <2>20, <4>2, <2>a DEF giveBack
        <5> QED BY <2>20, <5>1, <5>2 DEF giveBack, elsewhere, Walks, Kept3
      <4> QED BY <2>20, <4>1, <4>2 DEF giveBack
    <3> QED BY <3>1, <1>0, WalkKeeps DEF IInv, ReturnsAreAlone
  <2>21. CASE giveBackEnds(r)
    <3>1. Walks(r, "reject") /\ at[r] = "giveBack"
      BY <2>21 DEF giveBackEnds, goes, elsewhere, Walks, Kept3
    <3> QED BY <3>1, <1>0, WalkKeeps DEF IInv, ReturnsAreAlone
  <2>22. CASE reject(r)
    <3> DEFINE d == [mine EXCEPT !.status = "rejected", !.credit = 0, !.log = @ + 1]
    <3>1. UNCHANGED <<job, taken, returned>> /\ save(r, d, "restockRead") /\ at[r] = "reject"
      BY <2>22 DEF reject, elsewhere
    <3>2. d \in Order /\ d.placed = mine.placed /\ d.booking = mine.booking /\ d.status = "rejected"
      BY <2>a, Rejecting
    <3> HIDE DEF d
    <3> QED BY <3>1, <3>2, <1>0, SaveKeeps DEF Steps
  <2>23. CASE restockRead(r)
    <3>1. Walks(r, "restock") /\ at[r] = "restockRead"
      BY <2>23, <2>a DEF restockRead, readShelf, goes, elsewhere, Walks, Kept3, Memory
    <3> QED BY <3>1, <1>0, WalkKeeps
  <2>24. CASE restock(r)
    <3>1. CASE goes(r, "refused") /\ UNCHANGED <<orders, mem, job, taken, returned>>
      <4>1. Walks(r, "refused")
        BY <3>1 DEF goes, Walks, Kept3
      <4> QED BY <4>1, <1>0, WalkKeeps
    <3>2. CASE /\ goes(r, "done") /\ UNCHANGED <<orders, mem, job, taken>> /\ at[r] = "restock"
               /\ returned' = [returned EXCEPT ![job[r].order] = @ + 1]
      <4>1. /\ o.status # "pending_payment" /\ returned[job[r].order] = 0
            /\ returned \in [Checkouts -> Nat]
            /\ \A q \in Requests : restocking(q) /\ q # r => job[q].order # job[r].order
            /\ \A q \in Requests : job[q].order \in Checkouts
        BY <1>0, <3>2 DEF IInv, ReturnsAreAlone, restocking, TypeOK, Jobs
      <4>2. \A q \in Requests : at'[q] = IF q = r THEN "done" ELSE at[q]
        BY <2>a, <3>2 DEF goes
      <4>3. CopiesAgree' /\ UnitsTaken'
        BY <3>2 DEF IInv, CopiesAgree, UnitsTaken
      <4>4. ClaimsAreAlone'
        BY <3>2, <4>1, <4>2 DEF IInv, ClaimsAreAlone
      <4>5. ReturnsAreAlone'
        BY <3>2, <4>1, <4>2 DEF IInv, ReturnsAreAlone, restocking
      <4>6. PaymentsOfBookings' /\ BookingSpentByOne'
        BY <3>2, <4>1, <4>2 DEF IInv, PaymentsOfBookings, BookingSpentByOne, spendsOnBooking
      <4> QED BY <1>0, <4>3, <4>4, <4>5, <4>6 DEF IInv
    <3> QED BY <2>24, <3>1, <3>2 DEF restock
  <2>25. CASE applyCredit(r)
    <3>1. /\ mem'[r].mine = o /\ mem'[r].base = o /\ mem'[r].found = mem[r].found
          /\ \A q \in Requests \ {r} : mem'[q] = mem[q]
      BY <2>25, <2>a DEF applyCredit, Memory
    <3>2. ~mem[r].found /\ o \in Order
      BY <2>25, <2>a DEF applyCredit, begins, IInv, PaymentsOfBookings
    <3>3. Loads(r, "applyAway")
      BY <2>25, <3>1, <3>2 DEF applyCredit, begins, goes, elsewhere, Loads
    <3> QED BY <3>3, <1>0, LoadKeeps
  <2>26. CASE applyAway(r)
    <3>1. Walks(r, "applyHere") \/ Walks(r, "refused")
      <4>1. CASE goes(r, "refused") /\ UNCHANGED mem
        BY <2>26, <4>1 DEF applyAway, goes, elsewhere, Walks, Kept3
      <4>2. ASSUME NEW s, goes(r, "applyHere"), mem' = [mem EXCEPT ![r].mine.credit = @ + share(s, r)]
            PROVE  Walks(r, "applyHere")
        <5>1. /\ mem'[r].base = mem[r].base /\ mem'[r].found = mem[r].found
              /\ mem'[r].mine = [mine EXCEPT !.credit = @ + share(s, r)]
              /\ \A q \in Requests \ {r} : mem'[q] = mem[q]
          BY <4>2, <2>a DEF Memory
        <5>2. Kept3(mem'[r].mine, mine)
          BY <5>1, <2>a DEF Order, Kept3
        <5> QED BY <2>26, <4>2, <5>1, <5>2 DEF applyAway, goes, elsewhere, Walks, Kept3
      <4> QED BY <2>26, <4>1, <4>2 DEF applyAway
    <3> QED BY <3>1, <1>0, WalkKeeps
  <2>27. CASE applyHere(r)
    <3> DEFINE b == mine.accepted \/ mine.status = "pending_payment"
               d == [mine EXCEPT !.status = "confirmed", !.log = @ + 1, !.accepted = b]
    <3>1. UNCHANGED <<job, taken, returned>> /\ save(r, d, "done")
      BY <2>27 DEF applyHere, elsewhere
    <3>2. b \in BOOLEAN
      OBVIOUS
    <3> HIDE DEF b
    <3>3. d \in Order /\ d.placed = mine.placed /\ d.booking = mine.booking /\ d.status = "confirmed"
      BY <2>a, <3>2, Applying
    <3> HIDE DEF d
    <3> QED BY <3>1, <3>3, <1>0, SaveKeeps DEF Steps, Ends
  <2>28. CASE assignRead(r) \/ assignListingsToLot(r)
    <3>1. Walks(r, "assign") \/ Walks(r, "done")
      <4>1. assignRead(r) => Walks(r, "assign")
        BY <2>a DEF assignRead, readShelf, goes, elsewhere, Walks, Kept3, Memory
      <4>2. assignListingsToLot(r) => Walks(r, "done")
        BY DEF assignListingsToLot, goes, Walks, Kept3
      <4> QED BY <2>28, <4>1, <4>2
    <3> QED BY <3>1, <1>0, WalkKeeps
  <2>29. CASE die(r)
    <3>1. Walks(r, "lost")
      BY <2>29 DEF die, goes, elsewhere, Walks, Kept3
    <3> QED BY <3>1, <1>0, WalkKeeps
  <2> QED
    BY <1>3, <2>1, <2>2, <2>3, <2>4, <2>5, <2>6, <2>7, <2>8, <2>9, <2>10, <2>11, <2>12, <2>13, <2>14,
       <2>15, <2>16, <2>17, <2>18, <2>19, <2>20, <2>21, <2>22, <2>23, <2>24, <2>25, <2>26, <2>27, <2>28, <2>29
       DEF buyerStep, sellerStep
<1> QED BY <1>1, <1>2, <1>3 DEF Next

-----------------------------------------------------------------------------
\* So it holds throughout.
THEOREM Inductive == Spec => []IInv
BY InvInit, InvStep, PTL DEF Spec

\* Whatever the seller and the buyer press, and whichever requests die, every
\* field of every order, source and request has its type.
THEOREM TypeCorrect == Spec => []TypeOK
BY Inductive, PTL DEF IInv

\* An order takes one unit at most and gives one back at most, for any number
\* of checkouts, requests, units and prices.
THEOREM UnitsMoveOnce == Spec => []TakenOnce
<1>1. IInv => TakenOnce
  BY DEF IInv, UnitsTaken, ReturnsAreAlone, TakenOnce
<1> QED BY <1>1, Inductive, PTL

\* A checkout in the cart holds no unit.
THEOREM CartsHoldNothing == Spec => []CartHoldsNoStock
<1>1. IInv => CartHoldsNoStock
  BY DEF IInv, UnitsTaken, CartHoldsNoStock
<1> QED BY <1>1, Inductive, PTL

\* Of two payments that found a booking placed, one at most gets to spend the
\* buyer's kept credit on it.
THEOREM BookingsSpentOnce == Spec => []BookingSpentByOne
BY Inductive, PTL DEF IInv

-----------------------------------------------------------------------------
(* A placed order and its unit.                                            *)

\* Who has claimed o and not come to its unit: at it, or dead.
Claimed(o) == \E r \in Requests : at[r] \in {"take", "lost"} /\ job[r].order = o

\* A placed order has its unit, or somebody who took the claim has not come
\* back; and whoever has just claimed has a copy they have not touched since.
UnitOrClaim ==
  /\ \A o \in Checkouts : orders[o].live /\ orders[o].placed => taken[o] # 0 \/ Claimed(o)
  /\ \A r \in Requests : at[r] = "take" => mem[r].mine = mem[r].base

\* r goes on from somewhere else than taking a unit, and places nothing.
PlacesNone(r) ==
  /\ at[r] \notin {"take", "lost"}
  /\ \E step \in Steps \ {"take"} : at' = [at EXCEPT ![r] = step]
  /\ \A q \in Requests \ {r} : mem'[q] = mem[q]
  /\ UNCHANGED <<job, taken>>
  /\ \A o \in Checkouts : orders'[o].live /\ orders'[o].placed => orders[o].live /\ orders[o].placed

LEMMA PlacesNoneKeeps ==
  ASSUME TypeOK, UnitOrClaim, NEW r \in Requests, PlacesNone(r)
  PROVE  UnitOrClaim'
<1>1. /\ at \in [Requests -> Steps] /\ \A q \in Requests : q # r => at'[q] = at[q]
      /\ at'[r] # "take"
  BY DEF TypeOK, PlacesNone
<1>2. ASSUME NEW o \in Checkouts, Claimed(o) PROVE Claimed(o)'
  BY <1>1, <1>2 DEF Claimed, PlacesNone
<1> QED BY <1>1, <1>2 DEF UnitOrClaim, PlacesNone

\* Neither does a save of an order that leaves its place alone.
LEMMA SavePlacesNone ==
  ASSUME TypeOK, NEW r \in Requests, NEW d \in Order, NEW step \in Steps \ {"take"}, save(r, d, step),
         d.placed = mem[r].base.placed, at[r] \notin {"take", "lost"}, UNCHANGED <<job, taken>>
  PROVE  PlacesNone(r)
<1> DEFINE o == job[r].order
           base == mem[r].base
           touched == {f \in DOMAIN d : d[f] # base[f]}
           stored == [f \in DOMAIN d |-> IF f \in touched THEN d[f] ELSE orders[o][f]]
<1>1. /\ orders \in [Checkouts -> Order] /\ o \in Checkouts /\ mem \in [Requests -> Memory]
      /\ "placed" \in DOMAIN d /\ "refused" \in Steps \ {"take"}
  BY DEF TypeOK, Jobs, Order, Steps, Ends, Memory
<1>0. \A q \in Requests \ {r} : mem'[q] = mem[q]
  BY <1>1 DEF save
<1>2. CASE orders[o].live /\ \A f \in touched : orders[o][f] = base[f]
  <2>1. orders' = [orders EXCEPT ![o] = stored] /\ at' = [at EXCEPT ![r] = step]
    BY <1>2 DEF save, goes
  <2>2. stored.placed = orders[o].placed
    BY <1>1
  <2> HIDE DEF stored
  <2> QED BY <1>0, <1>1, <1>2, <2>1, <2>2 DEF PlacesNone
<1>3. CASE ~(orders[o].live /\ \A f \in touched : orders[o][f] = base[f])
  <2>1. at' = [at EXCEPT ![r] = "refused"] /\ orders' = orders
    BY <1>3 DEF save, goes
  <2> QED BY <1>0, <1>1, <2>1 DEF PlacesNone
<1> QED BY <1>2, <1>3

\* A claim is saved by somebody who then takes the unit.
LEMMA ClaimKeeps ==
  ASSUME IInv, UnitOrClaim, NEW r \in Requests, claim(r)
  PROVE  UnitOrClaim'
<1> DEFINE d == [mem[r].mine EXCEPT !.placed = TRUE]
<1>1. /\ at[r] = "claim" /\ save(r, d, "take") /\ UNCHANGED <<job, taken>>
      /\ d \in Order /\ job[r].order \in Checkouts
      /\ orders \in [Checkouts -> Order] /\ at \in [Requests -> Steps] /\ mem \in [Requests -> Memory]
  BY Edited DEF Memory, claim, elsewhere, IInv, TypeOK, Jobs
<1> HIDE DEF d
<1>2. CASE Refused(r)
  <2>1. PlacesNone(r)
    BY <1>1, <1>2 DEF Refused, PlacesNone, Steps, Ends
  <2> QED BY <2>1, PlacesNoneKeeps DEF IInv
<1>3. ASSUME NEW s, SavedAs(r, d, "take", s) PROVE UnitOrClaim'
  <2>1. /\ at'[r] = "take" /\ \A q \in Requests : q # r => at'[q] = at[q]
        /\ \A o \in Checkouts : o # job[r].order => orders'[o] = orders[o]
        /\ mem'[r].mine = s /\ mem'[r].base = s /\ \A q \in Requests : q # r => mem'[q] = mem[q]
    BY <1>1, <1>3 DEF SavedAs, Memory
  <2>2. \A o \in Checkouts : Claimed(o) => Claimed(o)'
    BY <1>1, <2>1 DEF Claimed
  <2>3. ASSUME NEW o \in Checkouts, o = job[r].order PROVE Claimed(o)'
    BY <1>1, <2>1, <2>3 DEF Claimed
  <2>4. ASSUME NEW o \in Checkouts, orders'[o].live, orders'[o].placed
        PROVE  taken'[o] # 0 \/ Claimed(o)'
    <3>1. CASE o = job[r].order
      BY <2>3, <3>1
    <3>2. CASE o # job[r].order
      BY <1>1, <2>1, <2>2, <2>4, <3>2 DEF UnitOrClaim
    <3> QED BY <3>1, <3>2
  <2> QED BY <2>1, <2>4 DEF UnitOrClaim
<1> QED BY <1>1, <1>2, <1>3, SaveCases DEF IInv

\* Whoever takes the unit is done with the claim.
LEMMA TakeKeeps ==
  ASSUME IInv, UnitOrClaim, NEW r \in Requests, takeStock(r)
  PROVE  UnitOrClaim'
<1> DEFINE o == job[r].order
<1>1. /\ o \in Checkouts /\ taken \in [Checkouts -> Nat] /\ at \in [Requests -> Steps]
      /\ taken' = [taken EXCEPT ![o] = @ + 1] /\ UNCHANGED <<orders, job, mem>>
      /\ at'[r] # "take" /\ \A q \in Requests : q # r => at'[q] = at[q]
  BY DEF takeStock, goes, IInv, TypeOK, Jobs
<1>2. taken'[o] # 0 /\ \A c \in Checkouts : c # o => taken'[c] = taken[c]
  BY <1>1
<1>3. \A c \in Checkouts : c # o /\ Claimed(c) => Claimed(c)'
  BY <1>1 DEF Claimed
<1> HIDE DEF o
<1> QED BY <1>1, <1>2, <1>3 DEF UnitOrClaim

\* Whoever finds none takes the claim back: nobody else can have, so the save is
\* refused only if the order is gone.
LEMMA TakeNothingKeeps ==
  ASSUME IInv, UnitOrClaim, NEW r \in Requests, takeNothing(r)
  PROVE  UnitOrClaim'
<1> DEFINE o == job[r].order
           base == mem[r].base
           d == [mem[r].mine EXCEPT !.placed = FALSE]
           touched == {f \in DOMAIN d : d[f] # base[f]}
           stored == [f \in DOMAIN d |-> IF f \in touched THEN d[f] ELSE orders[o][f]]
<1>1. /\ at[r] = "take" /\ save(r, d, "refused") /\ UNCHANGED <<job, taken>>
      /\ o \in Checkouts /\ mem[r].mine \in Order /\ mem \in [Requests -> Memory]
      /\ orders \in [Checkouts -> Order] /\ at \in [Requests -> Steps]
      /\ base.placed /\ orders[o].placed /\ mem[r].mine = base
  BY DEF takeNothing, elsewhere, IInv, TypeOK, Jobs, ClaimsAreAlone, UnitOrClaim, Memory
<1>2. /\ at'[r] = "refused" /\ \A q \in Requests : q # r => at'[q] = at[q]
      /\ \A q \in Requests : q # r => mem'[q] = mem[q]
  BY <1>1 DEF save, goes
<1>3. \A c \in Checkouts : c # o /\ Claimed(c) => Claimed(c)'
  BY <1>1, <1>2 DEF Claimed
<1>4. /\ "placed" \in DOMAIN d /\ d.placed = FALSE /\ touched = {"placed"}
  BY <1>1 DEF Order
<1>5. /\ ~(orders'[o].live /\ orders'[o].placed)
      /\ \A c \in Checkouts : c # o => orders'[c] = orders[c]
  <2>1. CASE orders[o].live
    <3>1. \A f \in touched : orders[o][f] = base[f]
      <4>1. orders[o].placed \in BOOLEAN /\ base.placed \in BOOLEAN
        BY <1>1 DEF Order
      <4>2. orders[o].placed = base.placed
        BY <1>1, <4>1
      <4> QED BY <1>4, <4>2
    <3>2. orders' = [orders EXCEPT ![o] = stored]
      BY <1>1, <2>1, <3>1 DEF save
    <3>3. stored.placed = FALSE
      BY <1>4
    <3> HIDE DEF stored
    <3> QED BY <1>1, <3>2, <3>3
  <2>2. CASE ~orders[o].live
    BY <1>1, <2>2 DEF save
  <2> QED BY <2>1, <2>2
<1>6. \A c \in Checkouts : orders'[c].live /\ orders'[c].placed => taken'[c] # 0 \/ Claimed(c)'
  <2> TAKE c \in Checkouts
  <2>1. CASE c = o
    BY <1>5, <2>1
  <2>2. CASE c # o
    BY <1>1, <1>3, <1>5, <2>2 DEF UnitOrClaim
  <2> QED BY <2>1, <2>2
<1> QED BY <1>1, <1>2, <1>6 DEF UnitOrClaim

\* A load, or a step that moves no order.
LEMMA NoOrderPlacesNone ==
  ASSUME IInv, NEW r \in Requests, NEW step \in Steps \ {"take"},
         at[r] \notin {"take", "lost"}, goes(r, step), UNCHANGED <<orders, job, taken>>,
         \A q \in Requests \ {r} : mem'[q] = mem[q]
  PROVE  PlacesNone(r)
BY DEF PlacesNone, goes

\* Whatever the other requests do, and whichever die, a claim is not forgotten.
LEMMA UnitOrClaimStep == IInv /\ UnitOrClaim /\ [Next]_vars => UnitOrClaim'
<1> SUFFICES ASSUME IInv, UnitOrClaim, [Next]_vars PROVE UnitOrClaim'
  OBVIOUS
<1>0. TypeOK
  BY DEF IInv
<1>1. CASE UNCHANGED vars \/ editPrice
  BY <1>1 DEF UnitOrClaim, Claimed, vars, editPrice
<1>2. ASSUME NEW r \in Requests, buyerStep(r) \/ sellerStep(r) \/ die(r)
      PROVE  UnitOrClaim'
  <2> DEFINE mine == mem[r].mine
             o == orders[job[r].order]
  <2>a. /\ mem \in [Requests -> Memory] /\ job[r].order \in Checkouts /\ mine \in Order
        /\ orders \in [Checkouts -> Order] /\ at \in [Requests -> Steps]
        /\ mine.placed = mem[r].base.placed
    BY <1>0 DEF TypeOK, Memory, Jobs, IInv, CopiesAgree
  <2>b. /\ [mine EXCEPT !.price = price] \in Order
        /\ [mine EXCEPT !.log = @ + 1] \in Order
        /\ confirmed(r) \in Order
    BY <1>0, Edited
  <2>s. ASSUME NEW d \in Order, NEW step \in Steps \ {"take"}, save(r, d, step),
               d.placed = mine.placed, at[r] \notin {"take", "lost"}, elsewhere
        PROVE  UnitOrClaim'
    BY <2>s, <2>a, <1>0, SavePlacesNone, PlacesNoneKeeps DEF elsewhere
  <2>w. ASSUME NEW step \in Steps \ {"take"}, goes(r, step), at[r] \notin {"take", "lost"},
               UNCHANGED <<orders, job, taken>>, \A q \in Requests \ {r} : mem'[q] = mem[q]
        PROVE  UnitOrClaim'
    BY <2>w, <1>0, NoOrderPlacesNone, PlacesNoneKeeps
  <2>1. CASE claim(r) \/ takeStock(r) \/ takeNothing(r)
    BY <2>1, ClaimKeeps, TakeKeeps, TakeNothingKeeps
  <2>2. CASE pay(r) \/ discardCheckout(r) \/ acceptOrder(r) \/ rejectOrder(r)
    <3>1. PICK step \in Steps \ {"take"} : loaded(r, step)
      BY <2>2 DEF pay, discardCheckout, acceptOrder, rejectOrder, Steps, Ends
    <3>2. at[r] = "idle" /\ UNCHANGED <<orders, job, taken>>
      BY <2>2 DEF pay, discardCheckout, acceptOrder, rejectOrder, begins, elsewhere
    <3> QED BY <3>1, <3>2, <2>w, <2>a DEF loaded
  <2>3. CASE bookOrder(r)
    <3>1. PICK step \in {"note", "look"} : goes(r, step)
      BY <2>3 DEF bookOrder
    <3> QED BY <2>3, <3>1, <2>w, <2>a DEF bookOrder, begins, elsewhere, Steps
  <2>4. CASE deleteOrder(r)
    <3>1. PlacesNone(r)
      BY <2>4, <2>a DEF deleteOrder, goes, elsewhere, PlacesNone, Order, Steps, Ends
    <3> QED BY <3>1, <1>0, PlacesNoneKeeps
  <2>5. CASE look(r)
    <3>1. at[r] = "look" /\ elsewhere
      BY <2>5 DEF look
    <3>2. CASE UNCHANGED <<orders, mem>> /\ (goes(r, "refused") \/ goes(r, "claim"))
      BY <3>1, <3>2, <2>w DEF elsewhere, Steps, Ends
    <3>3. CASE save(r, [mine EXCEPT !.price = price], "refused")
      <4> DEFINE d == [mine EXCEPT !.price = price]
      <4>1. d \in Order /\ d.placed = mine.placed
        BY <2>a, <2>b DEF Order
      <4> HIDE DEF d
      <4>2. save(r, d, "refused")
        BY <3>3 DEF d
      <4> QED BY <3>1, <4>1, <4>2, <2>s DEF Steps, Ends
    <3> QED BY <2>5, <3>2, <3>3 DEF look
  <2>6. CASE listSources(r) \/ giveBackList(r) \/ restockRead(r) \/ assignRead(r) \/ applyCredit(r)
    <3>1. /\ at[r] \notin {"take", "lost"} /\ UNCHANGED <<orders, job, taken>>
          /\ \A q \in Requests \ {r} : mem'[q] = mem[q]
      BY <2>6, <2>a DEF listSources, giveBackList, restockRead, assignRead, applyCredit, readShelf, begins, elsewhere
    <3>2. PICK step \in Steps \ {"take"} : goes(r, step)
      BY <2>6 DEF listSources, giveBackList, restockRead, assignRead, applyCredit, readShelf, Steps
    <3> QED BY <3>1, <3>2, <2>w
  <2>7. CASE spend(r) \/ giveBack(r) \/ applyAway(r)
    <3>1. /\ at[r] \in {"spend", "giveBack", "applyAway"} /\ UNCHANGED <<orders, job, taken>>
      BY <2>7 DEF spend, giveBack, applyAway, elsewhere
    <3>2. \A q \in Requests \ {r} : mem'[q] = mem[q]
      BY <2>7, <2>a DEF spend, giveBack, applyAway
    <3>3. PICK step \in Steps \ {"take"} : goes(r, step)
      <4>1. UNCHANGED at => goes(r, at[r])
        BY <2>a DEF goes
      <4> QED BY <2>7, <3>1, <4>1 DEF spend, giveBack, applyAway, Steps, Ends
    <3> QED BY <3>1, <3>2, <3>3, <2>w
  <2>8. CASE spendEnds(r) \/ giveBackEnds(r)
    <3>1. PICK step \in {"charge", "record", "reject"} : goes(r, step)
      BY <2>8 DEF spendEnds, giveBackEnds
    <3> QED BY <2>8, <3>1, <2>w DEF spendEnds, giveBackEnds, elsewhere, Steps
  <2>9. CASE recordPlaced(r) \/ noteBooking(r)
    <3> DEFINE d == [mine EXCEPT !.log = @ + 1]
    <3>1. d \in Order /\ d.placed = mine.placed
      BY <2>a, <2>b DEF Order
    <3> HIDE DEF d
    <3>2. PICK step \in {"note", "commit", "charge", "done"} : save(r, d, step)
      BY <2>9 DEF recordPlaced, noteBooking, d
    <3>3. at[r] \in {"record", "note"} /\ elsewhere
      BY <2>9 DEF recordPlaced, noteBooking
    <3> QED BY <3>1, <3>2, <3>3, <2>s DEF Steps, Ends
  <2>10. CASE commitBooking(r)
    <3>1. confirmed(r).placed = mine.placed
      BY <2>a DEF confirmed, Order
    <3> QED BY <2>10, <3>1, <2>b, <2>s DEF commitBooking, Steps
  <2>11. CASE charge(r)
    <3> DEFINE due == least(minus(mem[r].terms, mine.credit), outstanding(mine))
               d == [confirmed(r) EXCEPT !.paid = @ + due]
    <3>1. at[r] = "charge" /\ save(r, d, "done") /\ elsewhere
      BY <2>11 DEF charge
    <3>2. due \in Nat
      BY <1>0, Dues
    <3> HIDE DEF due
    <3>3. confirmed(r).placed = mine.placed
      BY <2>a DEF confirmed, Order
    <3>4. d \in Order /\ d.placed = mine.placed
      BY <2>b, <3>2, <3>3 DEF Order
    <3> HIDE DEF d
    <3> QED BY <3>1, <3>4, <2>s DEF Steps, Ends
  <2>12. CASE accept(r)
    <3> DEFINE st == IF ~unpaid(mine) /\ outstanding(mine) = 0 THEN "confirmed" ELSE mine.status
               d == [mine EXCEPT !.accepted = TRUE, !.log = @ + 1, !.status = st]
    <3>1. at[r] = "accept" /\ save(r, d, "done") /\ elsewhere
      BY <2>12 DEF accept
    <3>2. st \in {"pending_payment", "confirmed", "rejected"}
      BY <2>a DEF Order
    <3> HIDE DEF st
    <3>3. d \in Order /\ d.placed = mine.placed
      <4>1. mine \in Order
        BY <2>a
      <4> HIDE DEF mine
      <4> QED BY <3>2, <4>1, Accepting
    <3> HIDE DEF d
    <3> QED BY <3>1, <3>3, <2>s DEF Steps, Ends
  <2>13. CASE reject(r)
    <3> DEFINE d == [mine EXCEPT !.status = "rejected", !.credit = 0, !.log = @ + 1]
    <3>1. at[r] = "reject" /\ save(r, d, "restockRead") /\ elsewhere
      BY <2>13 DEF reject
    <3>2. d \in Order /\ d.placed = mine.placed
      BY <2>a, Rejecting
    <3> HIDE DEF d
    <3> QED BY <3>1, <3>2, <2>s DEF Steps
  <2>14. CASE applyHere(r)
    <3> DEFINE b == mine.accepted \/ mine.status = "pending_payment"
               d == [mine EXCEPT !.status = "confirmed", !.log = @ + 1, !.accepted = b]
    <3>1. at[r] = "applyHere" /\ save(r, d, "done") /\ elsewhere
      BY <2>14 DEF applyHere
    <3>2. b \in BOOLEAN
      OBVIOUS
    <3> HIDE DEF b
    <3>3. d \in Order /\ d.placed = mine.placed
      BY <2>a, <3>2, Applying
    <3> HIDE DEF d
    <3> QED BY <3>1, <3>3, <2>s DEF Steps, Ends
  <2>15. CASE restock(r) \/ assignListingsToLot(r)
    <3>1. PICK step \in {"done", "refused"} : goes(r, step)
      BY <2>15 DEF restock, assignListingsToLot
    <3> QED BY <2>15, <3>1, <2>w DEF restock, assignListingsToLot, Steps, Ends
  <2>16. CASE die(r)
    <3>1. /\ \A q \in Requests : q # r => at'[q] = at[q]
          /\ at'[r] = "lost" /\ UNCHANGED <<orders, mem, job, taken>>
      BY <2>16, <2>a DEF die, goes, elsewhere
    <3>2. \A c \in Checkouts : Claimed(c) => Claimed(c)'
      BY <3>1 DEF Claimed
    <3> QED BY <3>1, <3>2 DEF UnitOrClaim
  <2> QED
    BY <1>2, <2>1, <2>2, <2>3, <2>4, <2>5, <2>6, <2>7, <2>8, <2>9, <2>10, <2>11, <2>12, <2>13, <2>14,
       <2>15, <2>16 DEF buyerStep, sellerStep
<1> QED BY <1>1, <1>2 DEF Next

LEMMA UnitOrClaimInit == Init => UnitOrClaim
<1> SUFFICES ASSUME Init PROVE UnitOrClaim
  OBVIOUS
<1>1. PICK booked \in SUBSET Checkouts :
        /\ taken = [o \in Checkouts |-> IF o \in booked THEN 1 ELSE 0]
        /\ orders = [o \in Checkouts |->
                    [live |-> TRUE, placed |-> o \in booked, booking |-> o \in booked,
                     accepted |-> o \in booked, status |-> "pending_payment", price |-> price,
                     credit |-> 0, paid |-> 0, key |-> NoKey, log |-> 0]]
  BY DEF Init
<1>2. ASSUME NEW o \in Checkouts, orders[o].placed PROVE taken[o] # 0
  <2>1. orders[o].placed = (o \in booked)
    BY <1>1, Zenon
  <2>2. o \in booked
    BY <1>2, <2>1, Zenon
  <2> QED BY <1>1, <2>2
<1>3. \A r \in Requests : at[r] = "idle"
  BY DEF Init
<1> QED BY <1>2, <1>3 DEF UnitOrClaim

\* A placed order nobody is working on has its unit, or a request died over it:
\* the claim comes first, and whoever finds no unit takes it back.
THEOREM PlacedHaveUnits == Spec => []PlacedHoldsUnit
<1>1. IInv /\ UnitOrClaim => PlacedHoldsUnit
  <2> SUFFICES ASSUME IInv, UnitOrClaim, NEW o \in Checkouts,
                      orders[o].live, orders[o].placed, ~Working(o)
               PROVE  taken[o] = 1 \/ \E r \in Requests : at[r] = "lost" /\ job[r].order = o
    BY DEF PlacedHoldsUnit
  <2>1. taken[o] \in Nat /\ taken[o] <= 1
    BY DEF IInv, TypeOK, UnitsTaken
  <2>2. ASSUME NEW r \in Requests, at[r] = "take", job[r].order = o PROVE FALSE
    BY <2>2 DEF Working, InFlight, Ends
  <2> QED BY <2>1, <2>2 DEF UnitOrClaim, Claimed
<1>2. Spec => []UnitOrClaim
  BY UnitOrClaimInit, UnitOrClaimStep, Inductive, PTL DEF Spec
<1> QED BY <1>1, <1>2, Inductive, PTL

-----------------------------------------------------------------------------
(* The shelf.                                                              *)

\* Where a request may go: nowhere back to the start, to hand a unit over to a
\* lot only if that is its job, to give credit back only if it rejects.
Goes(r, step) ==
  /\ goes(r, step)
  /\ step \in Steps \ {"idle"}
  /\ step = "assign" => job[r].op = "assign"
  /\ step \in {"giveBackList", "giveBack"} =>
       at[r] \in {"giveBackList", "giveBack"} \/ job[r].op = "reject"

LEMMA RequestGoes ==
  ASSUME TypeOK, NEW r \in Requests, buyerStep(r) \/ sellerStep(r) \/ die(r)
  PROVE  UNCHANGED job /\ \E step : Goes(r, step)
<1>0. at \in [Requests -> Steps] /\ (UNCHANGED at => goes(r, at[r]))
  BY DEF TypeOK, goes
<1>1. ASSUME NEW d, NEW step, save(r, d, step)
      PROVE  goes(r, step) \/ goes(r, "refused")
  BY <1>1 DEF save
<1>2. CASE pay(r) \/ bookOrder(r) \/ discardCheckout(r) \/ deleteOrder(r)
  <2>1. UNCHANGED job
    BY <1>2 DEF pay, bookOrder, discardCheckout, deleteOrder, elsewhere
  <2>2. PICK step \in {"replayed", "refused", "look", "commit", "charge", "note", "delete", "done"} : goes(r, step)
    BY <1>2 DEF pay, bookOrder, discardCheckout, deleteOrder, loaded
  <2>3. Goes(r, step)
    BY <2>2 DEF Goes, Steps, Ends
  <2> QED BY <2>1, <2>3
<1>g. ASSUME UNCHANGED job,
             \E step \in {"claim", "take", "note", "commit", "charge", "list", "spend", "record",
                         "restockRead", "applyHere", "applyAway", "done", "refused"} : goes(r, step)
      PROVE  UNCHANGED job /\ \E step : Goes(r, step)
  <2>1. PICK step \in {"claim", "take", "note", "commit", "charge", "list", "spend", "record",
                      "restockRead", "applyHere", "applyAway", "done", "refused"} : goes(r, step)
    BY <1>g
  <2>2. Goes(r, step)
    BY <2>1 DEF Goes, Steps, Ends
  <2> QED BY <1>g, <2>2
<1>s. ASSUME UNCHANGED job, NEW d,
             NEW step \in {"claim", "take", "note", "commit", "charge", "list", "restockRead", "done", "refused"},
             save(r, d, step)
      PROVE  UNCHANGED job /\ \E t : Goes(r, t)
  BY <1>g, <1>1, <1>s
<1>3. CASE look(r)
  BY <1>g, <1>1, <1>3 DEF look, elsewhere
<1>4. CASE takeStock(r) \/ listSources(r) \/ spendEnds(r)
  BY <1>4 DEF takeStock, listSources, spendEnds, elsewhere, Goes, Steps, Ends
<1>5. CASE spend(r) \/ giveBack(r) \/ applyAway(r)
  <2>1. UNCHANGED job /\ at[r] \in {"spend", "giveBack", "applyAway"}
    BY <1>5 DEF spend, giveBack, applyAway, elsewhere
  <2>2. (UNCHANGED at /\ at[r] \in {"spend", "giveBack"}) \/ goes(r, "refused") \/ goes(r, "applyHere")
    BY <1>5 DEF spend, giveBack, applyAway
  <2>3. CASE UNCHANGED at /\ at[r] \in {"spend", "giveBack"}
    <3>1. Goes(r, at[r])
      BY <1>0, <2>3 DEF Goes, Steps
    <3> QED BY <2>1, <3>1
  <2> QED BY <1>g, <2>1, <2>2, <2>3
<1>6a. CASE claim(r) \/ takeNothing(r)
  BY <1>s, <1>6a DEF claim, takeNothing, elsewhere
<1>6b. CASE recordPlaced(r) \/ noteBooking(r)
  <2>1. UNCHANGED job
    BY <1>6b DEF recordPlaced, noteBooking, elsewhere
  <2>2. PICK step \in {"note", "commit", "charge", "done"} : save(r, [mem[r].mine EXCEPT !.log = @ + 1], step)
    BY <1>6b DEF recordPlaced, noteBooking
  <2> QED BY <1>s, <2>1, <2>2
<1>6. CASE commitBooking(r) \/ charge(r) \/ accept(r) \/ reject(r) \/ applyHere(r)
  <2>1. UNCHANGED job
    BY <1>6 DEF commitBooking, charge, accept, reject, applyHere, elsewhere
  <2>2. \E step \in {"list", "done", "restockRead"} : \E d : save(r, d, step)
    BY <1>6 DEF commitBooking, charge, accept, reject, applyHere
  <2> QED BY <1>s, <2>1, <2>2
<1>7. CASE acceptOrder(r) \/ rejectOrder(r)
  <2>1. UNCHANGED job /\ at[r] = "idle"
    BY <1>7 DEF acceptOrder, rejectOrder, begins, elsewhere
  <2>2. \/ goes(r, "accept")
        \/ job[r].op = "reject" /\ (goes(r, "giveBackList") \/ goes(r, "reject"))
    BY <1>7 DEF acceptOrder, rejectOrder, begins, loaded
  <2>3. CASE goes(r, "accept")
    <3>1. Goes(r, "accept")
      BY <2>3 DEF Goes, Steps
    <3> QED BY <2>1, <3>1
  <2>4. CASE job[r].op = "reject" /\ (goes(r, "giveBackList") \/ goes(r, "reject"))
    <3>1. Goes(r, "giveBackList") \/ Goes(r, "reject")
      BY <2>4 DEF Goes, Steps
    <3> QED BY <2>1, <3>1
  <2> QED BY <2>2, <2>3, <2>4
<1>7a. CASE giveBackList(r) \/ giveBackEnds(r) \/ applyCredit(r)
  BY <1>7a DEF giveBackList, giveBackEnds, applyCredit, elsewhere, Goes, Steps, Ends
<1>8. CASE restockRead(r) \/ restock(r) \/ assignRead(r) \/ assignListingsToLot(r) \/ die(r)
  BY <1>8 DEF restockRead, restock, assignRead, assignListingsToLot, die, readShelf, begins,
              elsewhere, Goes, Steps, Ends
<1> QED BY <1>2, <1>3, <1>4, <1>5, <1>6a, <1>6b, <1>6, <1>7, <1>7a, <1>8 DEF buyerStep, sellerStep

\* The count, and that nobody writes a listing back as it was read.
ShelfInv == ShelfCounts /\ \A r \in Requests : at[r] # "assign"

\* A function on the checkouts that goes up by one at o.
LEMMA OneMore ==
  ASSUME NEW f \in [Checkouts -> Nat], NEW o \in Checkouts
  PROVE  SumFunction([f EXCEPT ![o] = @ + 1]) = SumFunction(f) + 1 /\ SumFunction(f) \in Nat
<1> DEFINE g == [f EXCEPT ![o] = @ + 1]
<1>1. /\ DOMAIN f = Checkouts /\ DOMAIN g = Checkouts
      /\ \A c \in Checkouts : f[c] \in Int /\ g[c] \in Int
      /\ \A c \in Checkouts \ {o} : f[c] = g[c]
      /\ g[o] = f[o] + 1
  OBVIOUS
<1>2. SumFunctionOnSet(f, Checkouts) \in Nat
  BY CheckoutsAssumption, SumNat
<1> HIDE DEF g
<1>3. SumFunctionOnSet(g, Checkouts) = SumFunctionOnSet(f, Checkouts) - f[o] + g[o]
  BY <1>1, CheckoutsAssumption, SumChange
<1>4. SumFunction(f) = SumFunctionOnSet(f, Checkouts) /\ SumFunction(g) = SumFunctionOnSet(g, Checkouts)
  BY <1>1, SumWhole
<1>5. f[o] \in Nat
  OBVIOUS
<1> QED BY <1>1, <1>2, <1>3, <1>4, <1>5 DEF g

LEMMA ShelfInit == Init => ShelfInv
<1> SUFFICES ASSUME Init PROVE ShelfInv
  OBVIOUS
<1>1. PICK booked \in SUBSET Checkouts :
        /\ shelf = Stock - Cardinality(booked)
        /\ taken = [o \in Checkouts |-> IF o \in booked THEN 1 ELSE 0]
  BY DEF Init
<1>2. SumFunction(taken) = Cardinality(booked)
  <2>1. DOMAIN taken = Checkouts /\ \A o \in Checkouts : taken[o] = IF o \in booked THEN 1 ELSE 0
    BY <1>1
  <2>2. SumFunctionOnSet(taken, Checkouts) = Cardinality(booked)
    BY <2>1, CheckoutsAssumption, SumCounts
  <2> QED BY <2>1, <2>2, SumWhole
<1>3. SumFunction(returned) = 0
  <2>1. DOMAIN returned = Checkouts /\ \A o \in Checkouts : returned[o] = 0
    BY DEF Init
  <2>2. SumFunctionOnSet(returned, Checkouts) = 0
    BY <2>1, CheckoutsAssumption, SumZero
  <2> QED BY <2>1, <2>2, SumWhole
<1>4. Cardinality(booked) \in Nat /\ Stock \in Nat
  BY CheckoutsAssumption, AmountsAssumption, FS_Subset, FS_CardinalityType
<1>5. ShelfCounts
  BY <1>1, <1>2, <1>3, <1>4 DEF ShelfCounts
<1>6. \A r \in Requests : at[r] # "assign"
  BY DEF Init
<1> QED BY <1>5, <1>6 DEF ShelfInv

LEMMA ShelfStep ==
  ASSUME "assign" \notin Handlers, TypeOK, ShelfInv, [Next]_vars
  PROVE  ShelfInv'
<1>1. CASE UNCHANGED vars
  BY <1>1 DEF ShelfInv, ShelfCounts, vars
<1>2. CASE editPrice
  BY <1>2 DEF ShelfInv, ShelfCounts, editPrice
<1>3. ASSUME NEW r \in Requests, buyerStep(r) \/ sellerStep(r) \/ die(r)
      PROVE  ShelfInv'
  <2>1. \A q \in Requests : at'[q] # "assign"
    <3>1. PICK step : Goes(r, step)
      BY <1>3, RequestGoes
    <3>2. job[r].op # "assign"
      BY DEF TypeOK, Jobs
    <3>3. step # "assign" /\ at' = [at EXCEPT ![r] = step] /\ at \in [Requests -> Steps]
      BY <3>1, <3>2 DEF Goes, goes, TypeOK
    <3> QED BY <3>3 DEF ShelfInv
  <2>2. /\ job[r].order \in Checkouts /\ shelf \in Nat /\ Stock \in Nat
        /\ taken \in [Checkouts -> Nat] /\ returned \in [Checkouts -> Nat]
    BY AmountsAssumption DEF TypeOK, Jobs
  <2>3. CASE takeStock(r)
    <3>1. shelf' = shelf - 1 /\ taken' = [taken EXCEPT ![job[r].order] = @ + 1] /\ UNCHANGED returned
      BY <2>3 DEF takeStock
    <3>2. SumFunction(taken') = SumFunction(taken) + 1 /\ SumFunction(taken) \in Nat
      BY <2>2, <3>1, OneMore
    <3>3. SumFunction(returned) \in Nat
      BY <2>2, OneMore
    <3> QED BY <2>1, <2>2, <3>1, <3>2, <3>3 DEF ShelfInv, ShelfCounts
  <2>4. CASE restock(r) /\ shelf = mem[r].shelf
    <3>1. shelf' = shelf + 1 /\ returned' = [returned EXCEPT ![job[r].order] = @ + 1] /\ UNCHANGED taken
      BY <2>4 DEF restock
    <3>2. SumFunction(returned') = SumFunction(returned) + 1 /\ SumFunction(returned) \in Nat
      BY <2>2, <3>1, OneMore
    <3>3. SumFunction(taken) \in Nat
      BY <2>2, OneMore
    <3> QED BY <2>1, <2>2, <3>1, <3>2, <3>3 DEF ShelfInv, ShelfCounts
  <2>5. CASE UNCHANGED <<shelf, taken, returned>>
    BY <2>1, <2>5 DEF ShelfInv, ShelfCounts
  <2>6. CASE restock(r) /\ shelf # mem[r].shelf
    BY <2>5, <2>6 DEF restock
  <2>7. ~assignListingsToLot(r)
    BY DEF assignListingsToLot, ShelfInv
  <2>8. CASE \/ pay(r) \/ bookOrder(r) \/ discardCheckout(r) \/ deleteOrder(r)
             \/ look(r) \/ claim(r) \/ takeNothing(r)
             \/ listSources(r) \/ spend(r) \/ spendEnds(r) \/ recordPlaced(r) \/ noteBooking(r)
             \/ commitBooking(r) \/ charge(r)
    BY <2>5, <2>8 DEF pay, bookOrder, discardCheckout, deleteOrder, look, claim, takeNothing,
         listSources, spend, spendEnds, recordPlaced, noteBooking, commitBooking, charge, elsewhere
  <2>9. CASE \/ acceptOrder(r) \/ accept(r)
             \/ rejectOrder(r) \/ giveBackList(r) \/ giveBack(r) \/ giveBackEnds(r) \/ reject(r)
             \/ restockRead(r) \/ applyCredit(r) \/ applyAway(r) \/ applyHere(r)
             \/ assignRead(r) \/ die(r)
    BY <2>5, <2>9 DEF acceptOrder, accept, rejectOrder, giveBackList, giveBack, giveBackEnds, reject,
         restockRead, applyCredit, applyAway, applyHere, assignRead, die, elsewhere
  <2> QED BY <1>3, <2>3, <2>4, <2>6, <2>7, <2>8, <2>9 DEF buyerStep, sellerStep
<1> QED BY <1>1, <1>2, <1>3 DEF Next

\* The shelf is what it was less what was taken plus what came back, as long as
\* no lot is put together: that writes a listing back as it was read.
THEOREM ShelfAddsUp ==
  ASSUME "assign" \notin Handlers
  PROVE  Spec => []ShelfCounts
<1>1. TypeOK /\ ShelfInv /\ [Next]_vars => ShelfInv'
  BY ShelfStep
<1>2. ShelfInv => ShelfCounts
  BY DEF ShelfInv
<1> QED BY <1>1, <1>2, ShelfInit, TypeCorrect, PTL DEF Spec

-----------------------------------------------------------------------------
(* Kept credit.                                                            *)

\* What a request saw of a kept credit is what it was then, and as long as its
\* log is the same, what it still is.
SeenBefore ==
  \A r \in Requests, s \in Sources :
    /\ mem[r].seen[s].log <= sources[s].log
    /\ mem[r].seen[s].log = sources[s].log => mem[r].seen[s] = sources[s]

\* Only a rejection gives credit back.
OnlyRejectionsGiveBack ==
  \A r \in Requests : at[r] \in {"giveBackList", "giveBack"} => job[r].op = "reject"

\* Nor does a request's copy of an order say more than was spent on it.
CopiesWithinSpent ==
  \A r \in Requests : ~turnedDown(job[r].order) => mem[r].mine.credit <= spentOn(job[r].order)

CreditInv ==
  /\ SeenBefore /\ CreditWithinKept /\ OnlyRejectionsGiveBack
  /\ NoCreditFromNowhere /\ CopiesWithinSpent

LEMMA SpentOnIs ==
  ASSUME TypeOK, NEW o \in Checkouts
  PROVE  /\ spentOn(o) = SumFunctionOnSet([s \in Sources |-> sources[s].spends[o]], Sources)
         /\ spentOn(o) \in Nat
<1> DEFINE f == [s \in Sources |-> sources[s].spends[o]]
<1>1. DOMAIN f = Sources /\ \A s \in Sources : f[s] \in Nat
  BY DEF TypeOK, Source
<1> HIDE DEF f
<1>2. SumFunction(f) = SumFunctionOnSet(f, Sources) /\ SumFunctionOnSet(f, Sources) \in Nat
  BY <1>1, SourcesAssumption, SumNat, SumWhole
<1> QED BY <1>2 DEF f, spentOn

\* One credit spent for o, or given back, is as much more or less for it.
LEMMA SpentOnMoves ==
  ASSUME TypeOK, TypeOK', NEW o \in Checkouts, NEW s \in Sources,
         \A t \in Sources \ {s} : sources'[t] = sources[t]
  PROVE  spentOn(o)' = spentOn(o) - sources[s].spends[o] + sources'[s].spends[o]
<1> DEFINE f == [t \in Sources |-> sources[t].spends[o]]
           g == [t \in Sources |-> sources'[t].spends[o]]
<1>1. /\ (\A t \in Sources : f[t] \in Int /\ g[t] \in Int)
      /\ \A t \in Sources \ {s} : f[t] = g[t]
      /\ f[s] = sources[s].spends[o] /\ g[s] = sources'[s].spends[o]
  BY DEF TypeOK, Source
<1>2. spentOn(o) = SumFunctionOnSet(f, Sources)
  BY SpentOnIs
<1>3. spentOn(o)' = SumFunctionOnSet(g, Sources)
  <2>1. DOMAIN g = Sources /\ spentOn(o)' = SumFunction(g)
    BY DEF spentOn
  <2> HIDE DEF g
  <2> QED BY <2>1, SumWhole
<1> HIDE DEF f, g
<1>4. SumFunctionOnSet(g, Sources) = SumFunctionOnSet(f, Sources) - f[s] + g[s]
  <2>1. IsFiniteSet(Sources)
    BY SourcesAssumption
  <2> QED BY <1>1, <2>1, SumChange
<1> QED BY <1>1, <1>2, <1>3, <1>4

\* The applications of a credit sum to what it says was applied, still.
LEMMA AppliedMoves ==
  ASSUME NEW c \in Source, NEW e \in Source, NEW o \in Checkouts, NEW v \in Nat,
         c.applied = SumFunction(c.spends),
         e.spends = [c.spends EXCEPT ![o] = v], e.applied = c.applied - c.spends[o] + v
  PROVE  e.applied = SumFunction(e.spends)
<1> DEFINE f == c.spends
           g == e.spends
<1>1. /\ DOMAIN f = Checkouts /\ DOMAIN g = Checkouts
      /\ \A b \in Checkouts : f[b] \in Int /\ g[b] \in Int
      /\ \A b \in Checkouts \ {o} : f[b] = g[b]
      /\ g[o] = v
  BY DEF Source
<1> HIDE DEF f, g
<1>2. SumFunctionOnSet(g, Checkouts) = SumFunctionOnSet(f, Checkouts) - f[o] + g[o]
  BY <1>1, CheckoutsAssumption, SumChange
<1>3. SumFunction(f) = SumFunctionOnSet(f, Checkouts) /\ SumFunction(g) = SumFunctionOnSet(g, Checkouts)
  BY <1>1, SumWhole
<1> QED BY <1>1, <1>2, <1>3 DEF f, g

LEMMA SpendsWithinApplied ==
  ASSUME NEW c \in Source, NEW o \in Checkouts, c.applied = SumFunction(c.spends)
  PROVE  c.spends[o] <= c.applied
<1> DEFINE f == c.spends
<1>1. DOMAIN f = Checkouts /\ \A b \in Checkouts : f[b] \in Nat
  BY DEF Source
<1> HIDE DEF f
<1>2. f[o] <= SumFunction(f)
  BY <1>1, CheckoutsAssumption, SumCovers, SumWhole
<1> QED BY <1>2 DEF f

\* Who has turned an order down stays that way.
LEMMA TurnedDownStays ==
  ASSUME TypeOK, NEW r \in Requests, NEW step, Goes(r, step), UNCHANGED job, NEW o \in Checkouts
  PROVE  turnedDown(o) => turnedDown(o)'
BY DEF TypeOK, Goes, goes, turnedDown

LEMMA GoesOn ==
  ASSUME TypeOK, OnlyRejectionsGiveBack, NEW r \in Requests, NEW step, Goes(r, step), UNCHANGED job
  PROVE  OnlyRejectionsGiveBack'
BY DEF TypeOK, Goes, goes, OnlyRejectionsGiveBack

\* A step that moves no kept credit: its request may list them again, and read
\* or save its order.
ReadsCredit(r) ==
  LET o == job[r].order IN
  /\ UNCHANGED sources
  /\ \A q \in Requests \ {r} : mem'[q] = mem[q]
  /\ mem'[r].seen \in {mem[r].seen, sources}
  /\ mem'[r].mine.credit \in {mem[r].mine.credit, orders[o].credit, 0}
  /\ \A c \in Checkouts :
       orders'[c].credit # orders[c].credit => c = o /\ orders'[c].credit \in {mem[r].mine.credit, 0}

LEMMA ReadKeeps ==
  ASSUME TypeOK, TypeOK', CreditInv, NEW r \in Requests, NEW step, Goes(r, step), UNCHANGED job,
         ReadsCredit(r)
  PROVE  CreditInv'
<1> DEFINE o == job[r].order
<1>1. o \in Checkouts /\ \A q \in Requests : job[q].order \in Checkouts
  BY DEF TypeOK, Jobs
<1>2. \A c \in Checkouts : spentOn(c)' = spentOn(c) /\ spentOn(c) \in Nat
  BY SpentOnIs DEF spentOn, ReadsCredit
<1>3. \A c \in Checkouts : ~turnedDown(c)' => ~turnedDown(c)
  BY TurnedDownStays
<1>4. SeenBefore'
  <2> SUFFICES ASSUME NEW q \in Requests, NEW s \in Sources
               PROVE  /\ mem'[q].seen[s].log <= sources'[s].log
                      /\ mem'[q].seen[s].log = sources'[s].log => mem'[q].seen[s] = sources'[s]
    BY DEF SeenBefore
  <2>1. UNCHANGED sources /\ mem'[q].seen \in {mem[q].seen, sources}
    BY DEF ReadsCredit
  <2>2. sources[s].log \in Nat
    BY DEF TypeOK, Source
  <2> QED BY <2>1, <2>2 DEF CreditInv, SeenBefore
<1>5. CreditWithinKept'
  BY DEF CreditInv, CreditWithinKept, ReadsCredit
<1>6. OnlyRejectionsGiveBack'
  BY GoesOn DEF CreditInv
<1>7. NoCreditFromNowhere'
  <2> SUFFICES ASSUME NEW c \in Checkouts, ~turnedDown(c)' PROVE orders'[c].credit <= spentOn(c)'
    BY DEF NoCreditFromNowhere
  <2>1. ~turnedDown(c) /\ spentOn(c)' = spentOn(c) /\ spentOn(c) \in Nat
    BY <1>2, <1>3
  <2>2. orders[c].credit <= spentOn(c)
    BY <2>1 DEF CreditInv, NoCreditFromNowhere
  <2>3. c = o => mem[r].mine.credit <= spentOn(c)
    BY <2>1 DEF CreditInv, CopiesWithinSpent
  <2>4. orders'[c].credit # orders[c].credit => c = o /\ orders'[c].credit \in {mem[r].mine.credit, 0}
    BY DEF ReadsCredit
  <2> HIDE DEF o
  <2> QED BY <2>1, <2>2, <2>3, <2>4
<1>8. CopiesWithinSpent'
  <2> SUFFICES ASSUME NEW q \in Requests, ~turnedDown(job[q].order)'
               PROVE  mem'[q].mine.credit <= spentOn(job[q].order)'
    BY DEF CopiesWithinSpent
  <2> DEFINE c == job[q].order
  <2>1. c \in Checkouts /\ ~turnedDown(c) /\ spentOn(job[q].order)' = spentOn(c) /\ spentOn(c) \in Nat
    <3>1. c \in Checkouts /\ job'[q].order = c
      BY <1>1
    <3> QED BY <1>2, <1>3, <3>1 DEF spentOn, turnedDown, ReadsCredit
  <2>2. mem[q].mine.credit <= spentOn(c) /\ orders[c].credit <= spentOn(c)
    BY <2>1 DEF CreditInv, CopiesWithinSpent, NoCreditFromNowhere
  <2>3. mem'[q].mine.credit \in {mem[q].mine.credit, orders[c].credit, 0}
    BY DEF ReadsCredit
  <2> HIDE DEF c
  <2> QED BY <2>1, <2>2, <2>3
<1> QED BY <1>4, <1>5, <1>6, <1>7, <1>8 DEF CreditInv

\* A step that writes v as what credit s pays of its order.
MovesCredit(r, s, v) ==
  LET o == job[r].order IN
  /\ UNCHANGED orders
  /\ \A q \in Requests \ {r} : mem'[q] = mem[q]
  /\ mem'[r].seen = mem[r].seen
  /\ \A t \in Sources \ {s} : sources'[t] = sources[t]
  /\ sources'[s].log = sources[s].log + 1
  /\ sources'[s].spends = [sources[s].spends EXCEPT ![o] = v]
  /\ sources'[s].applied = sources[s].applied - sources[s].spends[o] + v
  /\ sources'[s].applied <= Kept[s]
  /\ \/ turnedDown(o)
     \/ /\ v >= sources[s].spends[o]
        /\ mem'[r].mine.credit = mem[r].mine.credit + (v - sources[s].spends[o])

LEMMA MoveKeeps ==
  ASSUME TypeOK, TypeOK', CreditInv, NEW r \in Requests, NEW step, Goes(r, step), UNCHANGED job,
         NEW s \in Sources, NEW v \in Nat, MovesCredit(r, s, v)
  PROVE  CreditInv'
<1> DEFINE o == job[r].order
           a == sources[s].spends[o]
<1>1. /\ o \in Checkouts /\ \A q \in Requests : job[q].order \in Checkouts
      /\ sources[s] \in Source /\ sources'[s] \in Source /\ a \in Nat
      /\ sources'[s].spends[o] = v
      /\ \A c \in Checkouts \ {o} : sources'[s].spends[c] = sources[s].spends[c]
      /\ \A c \in Checkouts : sources[s].spends[c] \in Nat
  BY DEF TypeOK, Jobs, Source, MovesCredit
<1>2. \A c \in Checkouts : /\ spentOn(c) \in Nat
                           /\ c # o => spentOn(c)' = spentOn(c)
                           /\ spentOn(o)' = spentOn(o) - a + v
  <2> TAKE c \in Checkouts
  <2>1. \A t \in Sources \ {s} : sources'[t] = sources[t]
    BY DEF MovesCredit
  <2>2. spentOn(c)' = spentOn(c) - sources[s].spends[c] + sources'[s].spends[c] /\ spentOn(c) \in Nat
    BY <2>1, SpentOnMoves, SpentOnIs
  <2>3. spentOn(o)' = spentOn(o) - a + v
    BY <1>1, <2>1, SpentOnMoves
  <2>4. CASE c = o
    BY <2>2, <2>3, <2>4
  <2>5. CASE c # o
    <3>1. sources'[s].spends[c] = sources[s].spends[c] /\ sources[s].spends[c] \in Nat
      BY <1>1, <2>5
    <3> QED BY <2>2, <2>3, <3>1, <2>5
  <2> QED BY <2>4, <2>5
<1>3. \A c \in Checkouts : ~turnedDown(c)' => ~turnedDown(c)
  BY TurnedDownStays
<1>4. SeenBefore'
  <2> SUFFICES ASSUME NEW q \in Requests, NEW t \in Sources
               PROVE  /\ mem'[q].seen[t].log <= sources'[t].log
                      /\ mem'[q].seen[t].log = sources'[t].log => mem'[q].seen[t] = sources'[t]
    BY DEF SeenBefore
  <2>1. mem'[q].seen = mem[q].seen /\ (t # s => sources'[t] = sources[t])
        /\ sources'[s].log = sources[s].log + 1
    BY DEF MovesCredit
  <2>2. sources[t].log \in Nat /\ mem[q].seen[t].log \in Nat
    BY DEF TypeOK, Source
  <2>3. /\ mem[q].seen[t].log <= sources[t].log
        /\ mem[q].seen[t].log = sources[t].log => mem[q].seen[t] = sources[t]
    BY DEF CreditInv, SeenBefore
  <2> QED BY <2>1, <2>2, <2>3
<1>5. CreditWithinKept'
  <2> SUFFICES ASSUME NEW t \in Sources
               PROVE  sources'[t].applied <= Kept[t] /\ sources'[t].applied = SumFunction(sources'[t].spends)
    BY DEF CreditWithinKept
  <2>1. CASE t # s
    BY <2>1 DEF CreditInv, CreditWithinKept, MovesCredit
  <2>2. CASE t = s
    <3>1. /\ sources[s].applied = SumFunction(sources[s].spends)
          /\ sources'[s].spends = [sources[s].spends EXCEPT ![o] = v]
          /\ sources'[s].applied = sources[s].applied - sources[s].spends[o] + v
          /\ sources'[s].applied <= Kept[s]
      BY DEF CreditInv, CreditWithinKept, MovesCredit
    <3>2. sources'[s].applied = SumFunction(sources'[s].spends)
      <4> HIDE DEF o
      <4> QED BY <1>1, <3>1, AppliedMoves
    <3> QED BY <2>2, <3>1, <3>2
  <2> QED BY <2>1, <2>2
<1>6. OnlyRejectionsGiveBack'
  BY GoesOn DEF CreditInv
<1>7. \A c \in Checkouts : ~turnedDown(c)' => ~turnedDown(c) /\ spentOn(c)' >= spentOn(c)
  <2> SUFFICES ASSUME NEW c \in Checkouts, ~turnedDown(c)' PROVE ~turnedDown(c) /\ spentOn(c)' >= spentOn(c)
    OBVIOUS
  <2>1. ~turnedDown(c) /\ spentOn(c) \in Nat /\ spentOn(o) \in Nat
    BY <1>1, <1>2, <1>3
  <2>2. c = o => v >= a
    BY <2>1 DEF MovesCredit
  <2>3. /\ c # o => spentOn(c)' = spentOn(c)
        /\ spentOn(o)' = spentOn(o) - a + v
        /\ a \in Nat
    BY <1>1, <1>2
  <2>4. CASE c = o
    <3>1. spentOn(c)' = spentOn(o)'
      BY <2>4 DEF spentOn
    <3> HIDE DEF o, a
    <3> QED BY <2>1, <2>2, <2>3, <2>4, <3>1
  <2>5. CASE c # o
    BY <2>1, <2>3, <2>5
  <2> QED BY <2>4, <2>5
<1>8. NoCreditFromNowhere'
  <2> SUFFICES ASSUME NEW c \in Checkouts, ~turnedDown(c)' PROVE orders'[c].credit <= spentOn(c)'
    BY DEF NoCreditFromNowhere
  <2>1. ~turnedDown(c) /\ spentOn(c)' >= spentOn(c) /\ spentOn(c) \in Nat /\ spentOn(c)' \in Int
    <3>1. spentOn(c)' \in Nat
      <4>1. \A t \in Sources : sources'[t].spends[c] \in Nat
        BY DEF TypeOK, Source
      <4> DEFINE g == [t \in Sources |-> sources'[t].spends[c]]
      <4>2. DOMAIN g = Sources /\ (\A t \in Sources : g[t] \in Nat) /\ spentOn(c)' = SumFunction(g)
        BY <4>1 DEF spentOn
      <4> HIDE DEF g
      <4> QED BY <4>2, SourcesAssumption, SumNat, SumWhole
    <3> QED BY <1>2, <1>7, <3>1
  <2>2. orders[c].credit <= spentOn(c) /\ orders'[c] = orders[c] /\ orders[c].credit \in Nat
    BY <2>1 DEF CreditInv, NoCreditFromNowhere, MovesCredit, TypeOK, Order
  <2> QED BY <2>1, <2>2
<1>9. CopiesWithinSpent'
  <2> SUFFICES ASSUME NEW q \in Requests, ~turnedDown(job[q].order)'
               PROVE  mem'[q].mine.credit <= spentOn(job[q].order)'
    BY DEF CopiesWithinSpent
  <2> DEFINE c == job[q].order
             n == SumFunction([t \in Sources |-> sources'[t].spends[c]])
  <2>1. c \in Checkouts /\ ~turnedDown(c)' /\ spentOn(job[q].order)' = n /\ spentOn(c)' = n
    <3>1. c \in Checkouts /\ job'[q].order = c
      BY <1>1
    <3> QED BY <3>1 DEF spentOn, turnedDown
  <2>2. ~turnedDown(c) /\ n >= spentOn(c) /\ spentOn(c) \in Nat
    BY <1>2, <1>7, <2>1
  <2>3. mem[q].mine.credit <= spentOn(c) /\ mem[q].mine.credit \in Nat
    BY <2>2 DEF CreditInv, CopiesWithinSpent, TypeOK, Order
  <2>4. n \in Int
    <3>1. c # o => n = spentOn(c)
      BY <1>2, <2>1
    <3>2. c = o => n = spentOn(o) - a + v
      BY <1>1, <1>2, <2>1
    <3>3. spentOn(o) \in Int /\ a \in Int /\ v \in Int
      BY <1>1, <1>2
    <3> HIDE DEF n, a, o, c
    <3> QED BY <2>2, <3>1, <3>2, <3>3
  <2>5. CASE q # r
    <3>1. mem'[q] = mem[q]
      BY <2>5 DEF MovesCredit
    <3> HIDE DEF n, c
    <3> QED BY <2>1, <2>2, <2>3, <2>4, <3>1
  <2>6. CASE q = r
    <3>1. c = o /\ mem'[q].mine.credit = mem[q].mine.credit + (v - a)
      BY <2>2, <2>6 DEF MovesCredit
    <3>2. n = spentOn(c) - a + v
      BY <1>1, <1>2, <2>1, <3>1
    <3>3. a \in Nat
      BY <1>1
    <3> HIDE DEF n, c, o, a
    <3> QED BY <2>1, <2>2, <2>3, <2>4, <3>1, <3>2, <3>3
  <2> QED BY <2>5, <2>6
<1> QED BY <1>4, <1>5, <1>6, <1>8, <1>9 DEF CreditInv

LEMMA CreditInit == Init => CreditInv
<1> SUFFICES ASSUME Init PROVE CreditInv
  OBVIOUS
<1>1. /\ TypeOK /\ \A r \in Requests : job[r].order \in Checkouts
      /\ at = [r \in Requests |-> "idle"]
      /\ sources = [s \in Sources |-> [applied |-> 0, spends |-> [o \in Checkouts |-> 0], log |-> 0]]
      /\ mem = [r \in Requests |->
              [mine |-> orders[job[r].order], base |-> orders[job[r].order],
               seen |-> sources, todo |-> {}, terms |-> price, shelf |-> 0, found |-> FALSE]]
  BY TypesInit DEF Init, TypeOK, Jobs
<1>2. \A o \in Checkouts : orders[o].credit = 0
  BY DEF Init
<1>3. SeenBefore /\ OnlyRejectionsGiveBack
  BY <1>1 DEF SeenBefore, OnlyRejectionsGiveBack
<1>4. CreditWithinKept
  <2> SUFFICES ASSUME NEW s \in Sources
               PROVE  sources[s].applied <= Kept[s] /\ sources[s].applied = SumFunction(sources[s].spends)
    BY DEF CreditWithinKept
  <2> DEFINE f == sources[s].spends
  <2>1. DOMAIN f = Checkouts /\ \A o \in Checkouts : f[o] = 0
    BY <1>1
  <2>2. sources[s].applied = 0 /\ Kept[s] \in Nat
    BY <1>1, SourcesAssumption
  <2> HIDE DEF f
  <2>3. SumFunction(f) = 0
    BY <2>1, CheckoutsAssumption, SumZero, SumWhole
  <2> QED BY <2>2, <2>3 DEF f
<1>5. NoCreditFromNowhere /\ CopiesWithinSpent
  <2>1. \A o \in Checkouts : spentOn(o) \in Nat
    BY <1>1, SpentOnIs
  <2>2. \A r \in Requests : mem[r].mine.credit = 0
    BY <1>1, <1>2
  <2> QED BY <1>1, <1>2, <2>1, <2>2 DEF NoCreditFromNowhere, CopiesWithinSpent
<1> QED BY <1>3, <1>4, <1>5 DEF CreditInv

\* A save leaves the credit of its order, or writes that of the copy.
LEMMA SaveReadsCredit ==
  ASSUME TypeOK, NEW r \in Requests, NEW d \in Order, NEW step, save(r, d, step), UNCHANGED sources,
         d.credit \in {mem[r].mine.credit, 0}
  PROVE  ReadsCredit(r)
<1> DEFINE o == job[r].order
<1>1. /\ o \in Checkouts /\ orders \in [Checkouts -> Order] /\ mem \in [Requests -> Memory]
  BY DEF TypeOK, Jobs, Memory
<1>2. CASE Refused(r)
  BY <1>2 DEF Refused, ReadsCredit
<1>3. ASSUME NEW s, SavedAs(r, d, step, s)
      PROVE  ReadsCredit(r)
  <2>1. /\ \A c \in Checkouts : orders'[c] = IF c = o THEN s ELSE orders[c]
        /\ s.credit \in {d.credit, orders[o].credit}
    BY <1>1, <1>3 DEF SavedAs
  <2>2. /\ \A q \in Requests \ {r} : mem'[q] = mem[q]
        /\ mem'[r].seen = mem[r].seen /\ mem'[r].mine = s
    BY <1>1, <1>3 DEF SavedAs, Memory
  <2>3. s.credit \in {mem[r].mine.credit, orders[o].credit, 0}
    BY <2>1
  <2>4. \A c \in Checkouts : orders'[c].credit # orders[c].credit =>
                               c = o /\ orders'[c].credit \in {mem[r].mine.credit, 0}
    BY <2>1
  <2> QED BY <2>2, <2>3, <2>4 DEF ReadsCredit
<1> QED BY <1>2, <1>3, SaveCases

\* A request that spends a share of a credit it listed writes what it saw.
LEMMA SpendMoves ==
  ASSUME TypeOK, CreditInv, NEW r \in Requests, NEW s \in Sources, ~unseen(r, s),
         saveSource(s, spent(sources[s], job[r].order, share(s, r))),
         UNCHANGED orders, \A q \in Requests \ {r} : mem'[q] = mem[q],
         mem'[r].seen = mem[r].seen,
         mem'[r].mine.credit = mem[r].mine.credit + share(s, r)
  PROVE  \E v \in Nat : MovesCredit(r, s, v)
<1> DEFINE o == job[r].order
           n == share(s, r)
           c == sources[s]
           v == c.spends[o] + n
<1>1. o \in Checkouts /\ c \in Source /\ n \in Nat /\ c.spends[o] \in Nat /\ c.applied \in Nat
  <2>1. o \in Checkouts /\ c \in Source
    BY DEF TypeOK, Jobs
  <2> QED BY <2>1, Shares DEF Source
<1>2. mem[r].seen[s] = c
  BY DEF CreditInv, SeenBefore, unseen
<1>3. c.applied + n <= Kept[s]
  <2>1. n <= minus(Kept[s], c.applied)
    <3>1. n = least(minus(Kept[s], c.applied), outstanding(mem[r].mine))
      BY <1>2 DEF share, creditLeft
    <3>2. minus(Kept[s], c.applied) \in Nat /\ outstanding(mem[r].mine) \in Nat
      <4>1. mem[r].mine \in Order /\ Kept[s] \in Nat
        BY SourcesAssumption DEF TypeOK
      <4> QED BY <1>1, <4>1, Amounts
    <3> HIDE DEF n, c
    <3> QED BY <3>1, <3>2 DEF least
  <2>2. c.applied <= Kept[s] /\ Kept[s] \in Nat
    BY SourcesAssumption DEF CreditInv, CreditWithinKept
  <2> HIDE DEF n, c
  <2> QED BY <1>1, <2>1, <2>2 DEF minus
<1>4. LET e == spent(c, o, n)
      IN  e.applied = c.applied + n /\ e.spends = [c.spends EXCEPT ![o] = v] /\ e.log = c.log
          /\ DOMAIN e = {"applied", "spends", "log"}
  <2> HIDE DEF n, o
  <2> QED BY <1>1 DEF spent, Source
<1>5. /\ sources'[s].log = c.log + 1 /\ sources'[s].spends = [c.spends EXCEPT ![o] = v]
      /\ sources'[s].applied = c.applied + n
      /\ \A t \in Sources \ {s} : sources'[t] = sources[t]
  <2>1. sources' = [sources EXCEPT ![s] = [spent(c, o, n) EXCEPT !.log = @ + 1]] /\ sources \in [Sources -> Source]
    BY DEF saveSource, TypeOK
  <2> HIDE DEF n, o, v
  <2> QED BY <1>4, <2>1
<1>6. v \in Nat /\ v >= c.spends[o] /\ v - c.spends[o] = n
  <2> HIDE DEF n, c, o
  <2> QED BY <1>1
<1>7. c.applied - c.spends[o] + v = c.applied + n
  <2> HIDE DEF n, c, o
  <2> QED BY <1>1
<1>8. MovesCredit(r, s, v)
  <2>1. /\ sources'[s].applied = sources[s].applied - sources[s].spends[o] + v
        /\ sources'[s].applied <= Kept[s]
    <3> HIDE DEF v, n
    <3> QED BY <1>3, <1>5, <1>7
  <2>2. mem'[r].mine.credit = mem[r].mine.credit + (v - sources[s].spends[o])
    <3> HIDE DEF v
    <3> QED BY <1>6
  <2> HIDE DEF v, n
  <2> QED BY <1>5, <1>6, <2>1, <2>2 DEF MovesCredit
<1> QED BY <1>6, <1>8

\* Giving back what a credit paid of the order takes it off the credit.
LEMMA GiveBackMoves ==
  ASSUME TypeOK, CreditInv, NEW r \in Requests, giveBack(r), NEW s \in mem[r].todo,
         saveSource(s, [sources[s] EXCEPT !.applied = minus(@, sources[s].spends[job[r].order]),
                                          !.spends[job[r].order] = 0]),
         mem' = [mem EXCEPT ![r].todo = @ \ {s}]
  PROVE  MovesCredit(r, s, 0)
<1> DEFINE o == job[r].order
           c == sources[s]
           e == [c EXCEPT !.applied = minus(@, c.spends[o]), !.spends[o] = 0]
<1>1. /\ s \in Sources /\ o \in Checkouts /\ c \in Source /\ c.spends[o] \in Nat /\ c.applied \in Nat
      /\ mem \in [Requests -> Memory] /\ sources \in [Sources -> Source]
  <2>1. s \in Sources /\ o \in Checkouts /\ mem \in [Requests -> Memory] /\ sources \in [Sources -> Source]
    BY DEF TypeOK, Jobs, Memory
  <2>2. c \in Source
    BY <2>1
  <2> QED BY <2>1, <2>2 DEF Source
<1>2. c.applied = SumFunction(c.spends) /\ c.applied <= Kept[s] /\ Kept[s] \in Nat
  BY <1>1, SourcesAssumption DEF CreditInv, CreditWithinKept
<1>3. c.spends[o] <= c.applied
  <2> HIDE DEF c, o
  <2> QED BY <1>1, <1>2, SpendsWithinApplied
<1>4. minus(c.applied, c.spends[o]) = c.applied - c.spends[o]
  <2> HIDE DEF c, o
  <2> QED BY <1>1, <1>3 DEF minus
<1>5. /\ e.applied = c.applied - c.spends[o] /\ e.spends = [c.spends EXCEPT ![o] = 0] /\ e.log = c.log
      /\ DOMAIN e = {"applied", "spends", "log"}
  <2> HIDE DEF o
  <2> QED BY <1>1, <1>4 DEF Source
<1>6. /\ sources'[s].log = c.log + 1 /\ sources'[s].spends = [c.spends EXCEPT ![o] = 0]
      /\ sources'[s].applied = c.applied - c.spends[o]
      /\ \A t \in Sources \ {s} : sources'[t] = sources[t]
  <2>1. sources' = [sources EXCEPT ![s] = [e EXCEPT !.log = @ + 1]]
    BY DEF saveSource
  <2> HIDE DEF o, e
  <2> QED BY <1>1, <1>5, <2>1
<1>7. turnedDown(o)
  BY <1>1 DEF giveBack, CreditInv, OnlyRejectionsGiveBack, turnedDown
<1>8. /\ UNCHANGED orders /\ mem'[r].seen = mem[r].seen
      /\ \A q \in Requests \ {r} : mem'[q] = mem[q]
  BY <1>1 DEF giveBack, elsewhere, Memory
<1>9. /\ sources'[s].applied = sources[s].applied - sources[s].spends[o] + 0
      /\ sources'[s].applied <= Kept[s]
  <2>1. c.applied \in Int /\ c.spends[o] \in Nat /\ Kept[s] \in Nat /\ c.applied <= Kept[s]
        /\ sources'[s].applied = c.applied - c.spends[o]
    BY <1>1, <1>2, <1>6
  <2> QED BY <2>1
<1> QED BY <1>6, <1>7, <1>8, <1>9 DEF MovesCredit

\* Every step keeps it.
LEMMA CreditStep == TypeOK /\ CreditInv /\ [Next]_vars => CreditInv'
<1> SUFFICES ASSUME TypeOK, CreditInv, [Next]_vars PROVE CreditInv'
  OBVIOUS
<1>0. TypeOK'
  BY TypesStep
<1>1. CASE UNCHANGED vars
  BY <1>1 DEF CreditInv, SeenBefore, CreditWithinKept, OnlyRejectionsGiveBack, NoCreditFromNowhere,
              CopiesWithinSpent, turnedDown, spentOn, vars
<1>2. CASE editPrice
  BY <1>2 DEF CreditInv, SeenBefore, CreditWithinKept, OnlyRejectionsGiveBack, NoCreditFromNowhere,
              CopiesWithinSpent, turnedDown, spentOn, editPrice
<1>3. ASSUME NEW r \in Requests, buyerStep(r) \/ sellerStep(r) \/ die(r)
      PROVE  CreditInv'
  <2> DEFINE mine == mem[r].mine
  <2>a. /\ mem \in [Requests -> Memory] /\ job[r].order \in Checkouts /\ mine \in Order
        /\ orders \in [Checkouts -> Order] /\ sources \in [Sources -> Source] /\ mem[r].todo \subseteq Sources
    BY DEF TypeOK, Memory, Jobs
  <2>b. /\ \A b \in BOOLEAN : [mine EXCEPT !.placed = b] \in Order
        /\ [mine EXCEPT !.price = price] \in Order
        /\ [mine EXCEPT !.log = @ + 1] \in Order
        /\ confirmed(r) \in Order
    BY Edited
  <2>c. confirmed(r).credit = mine.credit
    BY <2>a DEF confirmed, Order
  <2>k. PICK t : Goes(r, t) /\ UNCHANGED job
    BY <1>3, RequestGoes
  <2>r. ASSUME ReadsCredit(r) PROVE CreditInv'
    BY <1>0, <2>k, <2>r, ReadKeeps
  <2>s. ASSUME NEW d \in Order, NEW step, save(r, d, step), UNCHANGED sources, d.credit \in {mine.credit, 0}
        PROVE  CreditInv'
    BY <2>r, <2>s, SaveReadsCredit
  <2>m. ASSUME NEW s \in Sources, NEW v \in Nat, MovesCredit(r, s, v)
        PROVE  CreditInv'
    BY <1>0, <2>k, <2>m, MoveKeeps
  <2>l. ASSUME NEW step, loaded(r, step), UNCHANGED <<orders, sources>>
        PROVE  ReadsCredit(r)
    BY <2>a, <2>l DEF loaded, ReadsCredit, Memory
  <2>u. ASSUME UNCHANGED <<orders, sources, mem>>
        PROVE  ReadsCredit(r)
    BY <2>u DEF ReadsCredit
  <2>1. CASE pay(r) \/ discardCheckout(r) \/ acceptOrder(r) \/ rejectOrder(r)
    <3>1. UNCHANGED <<orders, sources>> /\ \E step : loaded(r, step)
      BY <2>1 DEF pay, discardCheckout, acceptOrder, rejectOrder
    <3> QED BY <3>1, <2>l, <2>r
  <2>2. CASE bookOrder(r)
    <3> DEFINE o == orders[job[r].order]
    <3>1. UNCHANGED <<orders, sources>> /\ mem' = [mem EXCEPT ![r].mine = [o EXCEPT !.booking = TRUE], ![r].base = o]
      BY <2>2 DEF bookOrder
    <3>2. o \in Order /\ [o EXCEPT !.booking = TRUE].credit = o.credit
      BY <2>a DEF Order
    <3>3. /\ mem'[r].mine.credit = o.credit /\ mem'[r].seen = mem[r].seen
          /\ \A q \in Requests \ {r} : mem'[q] = mem[q]
      <4> HIDE DEF o
      <4> QED BY <2>a, <3>1, <3>2 DEF Memory
    <3> QED BY <3>1, <3>3, <2>r DEF ReadsCredit
  <2>3. CASE deleteOrder(r)
    <3>1. UNCHANGED <<sources, mem>> /\ \A c \in Checkouts : orders'[c].credit = orders[c].credit
      BY <2>3, <2>a DEF deleteOrder, Order
    <3> QED BY <3>1, <2>r DEF ReadsCredit
  <2>4. CASE look(r)
    <3> DEFINE d == [mine EXCEPT !.price = price]
    <3>1. d \in Order /\ d.credit = mine.credit
      BY <2>a, <2>b DEF Order
    <3>2. UNCHANGED sources /\ (UNCHANGED <<orders, mem>> \/ save(r, d, "refused"))
      BY <2>4 DEF look
    <3> HIDE DEF d
    <3> QED BY <3>1, <3>2, <2>s, <2>u, <2>r
  <2>5. CASE claim(r) \/ takeNothing(r)
    <3>1. PICK b \in BOOLEAN : \E step : save(r, [mine EXCEPT !.placed = b], step) /\ UNCHANGED sources
      BY <2>5 DEF claim, takeNothing
    <3> DEFINE d == [mine EXCEPT !.placed = b]
    <3>2. d \in Order /\ d.credit = mine.credit
      BY <2>a, <2>b DEF Order
    <3>3. UNCHANGED sources /\ \E step : save(r, d, step)
      BY <3>1
    <3> HIDE DEF d
    <3> QED BY <3>2, <3>3, <2>s
  <2>6. CASE \/ takeStock(r) \/ spendEnds(r) \/ giveBackEnds(r) \/ restock(r) \/ assignListingsToLot(r) \/ die(r)
    BY <2>6, <2>u, <2>r DEF takeStock, spendEnds, giveBackEnds, restock, assignListingsToLot, die
  <2>7. CASE listSources(r) \/ giveBackList(r)
    <3>1. UNCHANGED <<orders, sources>> /\ \E todo : mem' = [mem EXCEPT ![r].seen = sources, ![r].todo = todo]
      BY <2>7 DEF listSources, giveBackList
    <3>2. /\ mem'[r].mine = mem[r].mine /\ mem'[r].seen = sources
          /\ \A q \in Requests \ {r} : mem'[q] = mem[q]
      BY <2>a, <3>1 DEF Memory
    <3> QED BY <3>1, <3>2, <2>r DEF ReadsCredit
  <2>8. CASE restockRead(r) \/ assignRead(r)
    <3>1. UNCHANGED <<orders, sources>> /\ mem' = [mem EXCEPT ![r].shelf = shelf]
      BY <2>8 DEF restockRead, assignRead, readShelf
    <3>2. /\ mem'[r].mine = mem[r].mine /\ mem'[r].seen = mem[r].seen
          /\ \A q \in Requests \ {r} : mem'[q] = mem[q]
      BY <2>a, <3>1 DEF Memory
    <3> QED BY <3>1, <3>2, <2>r DEF ReadsCredit
  <2>9. CASE applyCredit(r)
    <3>1. /\ UNCHANGED <<orders, sources>>
          /\ \E s \in Sources : mem' = [mem EXCEPT ![r].mine = orders[job[r].order], ![r].base = orders[job[r].order],
                                                  ![r].seen = sources, ![r].todo = {s}]
      BY <2>9 DEF applyCredit
    <3>2. /\ mem'[r].mine = orders[job[r].order] /\ mem'[r].seen = sources
          /\ \A q \in Requests \ {r} : mem'[q] = mem[q]
      BY <2>a, <3>1 DEF Memory
    <3> QED BY <3>1, <3>2, <2>r DEF ReadsCredit
  <2>10. CASE spend(r)
    <3>1. PICK s \in Sources :
            IF unseen(r, s) THEN goes(r, "refused") /\ UNCHANGED <<sources, mem>>
            ELSE /\ saveSource(s, spent(sources[s], job[r].order, share(s, r)))
                 /\ mem' = [mem EXCEPT ![r].mine.credit = @ + share(s, r), ![r].todo = @ \ {s}]
                 /\ UNCHANGED at
      BY <2>10 DEF spend
    <3>2. UNCHANGED orders
      BY <2>10 DEF spend
    <3>3. CASE unseen(r, s)
      BY <3>1, <3>2, <3>3, <2>u, <2>r
    <3>4. CASE ~unseen(r, s)
      <4>1. /\ mem'[r].mine.credit = mem[r].mine.credit + share(s, r) /\ mem'[r].seen = mem[r].seen
            /\ \A q \in Requests \ {r} : mem'[q] = mem[q]
        BY <2>a, <3>1, <3>4 DEF Memory, Order
      <4> QED BY <3>1, <3>2, <3>4, <4>1, SpendMoves, <2>m
    <3> QED BY <3>3, <3>4
  <2>11. CASE applyAway(r)
    <3>1. PICK s \in mem[r].todo :
            IF unseen(r, s) THEN goes(r, "refused") /\ UNCHANGED <<sources, mem>>
            ELSE /\ saveSource(s, spent(sources[s], job[r].order, share(s, r)))
                 /\ mem' = [mem EXCEPT ![r].mine.credit = @ + share(s, r)]
                 /\ goes(r, "applyHere")
      BY <2>11 DEF applyAway
    <3>2. UNCHANGED orders /\ s \in Sources
      BY <2>11, <2>a DEF applyAway
    <3>3. CASE unseen(r, s)
      BY <3>1, <3>2, <3>3, <2>u, <2>r
    <3>4. CASE ~unseen(r, s)
      <4>1. /\ mem'[r].mine.credit = mem[r].mine.credit + share(s, r) /\ mem'[r].seen = mem[r].seen
            /\ \A q \in Requests \ {r} : mem'[q] = mem[q]
        BY <2>a, <3>1, <3>4 DEF Memory, Order
      <4> QED BY <3>1, <3>2, <3>4, <4>1, SpendMoves, <2>m
    <3> QED BY <3>3, <3>4
  <2>12. CASE giveBack(r)
    <3>1. PICK s \in mem[r].todo :
            IF unseen(r, s) THEN goes(r, "refused") /\ UNCHANGED <<sources, mem>>
            ELSE /\ saveSource(s, [sources[s] EXCEPT !.applied = minus(@, sources[s].spends[job[r].order]),
                                                    !.spends[job[r].order] = 0])
                 /\ mem' = [mem EXCEPT ![r].todo = @ \ {s}]
                 /\ UNCHANGED at
      BY <2>12 DEF giveBack
    <3>2. UNCHANGED orders /\ s \in Sources
      BY <2>12, <2>a DEF giveBack
    <3>3. CASE unseen(r, s)
      BY <3>1, <3>2, <3>3, <2>u, <2>r
    <3>4. CASE ~unseen(r, s)
      BY <2>12, <3>1, <3>2, <3>4, GiveBackMoves, <2>m
    <3> QED BY <3>3, <3>4
  <2>13. CASE recordPlaced(r) \/ noteBooking(r)
    <3> DEFINE d == [mine EXCEPT !.log = @ + 1]
    <3>1. d \in Order /\ d.credit = mine.credit
      BY <2>a, <2>b DEF Order
    <3>2. UNCHANGED sources /\ \E step : save(r, d, step)
      BY <2>13 DEF recordPlaced, noteBooking
    <3> HIDE DEF d
    <3> QED BY <3>1, <3>2, <2>s
  <2>14. CASE commitBooking(r)
    BY <2>14, <2>b, <2>c, <2>s DEF commitBooking
  <2>15. CASE charge(r)
    <3> DEFINE due == least(minus(mem[r].terms, mine.credit), outstanding(mine))
               d == [confirmed(r) EXCEPT !.paid = @ + due]
    <3>1. UNCHANGED sources /\ save(r, d, "done")
      BY <2>15 DEF charge
    <3>2. due \in Nat
      BY Dues
    <3> HIDE DEF due
    <3>3. d \in Order /\ d.credit = mine.credit
      BY <2>b, <2>c, <3>2 DEF Order
    <3> HIDE DEF d
    <3> QED BY <3>1, <3>3, <2>s
  <2>16. CASE accept(r)
    <3> DEFINE st == IF ~unpaid(mine) /\ outstanding(mine) = 0 THEN "confirmed" ELSE mine.status
               d == [mine EXCEPT !.accepted = TRUE, !.log = @ + 1, !.status = st]
    <3>1. save(r, d, "done") /\ UNCHANGED sources
      BY <2>16 DEF accept
    <3>2. st \in {"pending_payment", "confirmed", "rejected"}
      BY <2>a DEF Order
    <3> HIDE DEF st
    <3>3. d \in Order /\ d.credit = mine.credit
      <4>1. mine \in Order
        BY <2>a
      <4> HIDE DEF mine
      <4>2. d.credit = mine.credit
        BY <4>1 DEF Order
      <4> QED BY <3>2, <4>1, <4>2, Accepting
    <3> HIDE DEF d
    <3> QED BY <3>1, <3>3, <2>s
  <2>17. CASE reject(r)
    <3> DEFINE d == [mine EXCEPT !.status = "rejected", !.credit = 0, !.log = @ + 1]
    <3>1. save(r, d, "restockRead") /\ UNCHANGED sources
      BY <2>17 DEF reject
    <3>2. d \in Order /\ d.credit = 0
      <4>1. mine \in Order
        BY <2>a
      <4> HIDE DEF mine
      <4>2. d.credit = 0
        BY <4>1 DEF Order
      <4> QED BY <4>1, <4>2, Rejecting
    <3> HIDE DEF d
    <3> QED BY <3>1, <3>2, <2>s
  <2>18. CASE applyHere(r)
    <3> DEFINE b == mine.accepted \/ mine.status = "pending_payment"
               d == [mine EXCEPT !.status = "confirmed", !.log = @ + 1, !.accepted = b]
    <3>1. save(r, d, "done") /\ UNCHANGED sources
      BY <2>18 DEF applyHere
    <3>2. b \in BOOLEAN
      OBVIOUS
    <3> HIDE DEF b
    <3>3. d \in Order /\ d.credit = mine.credit
      <4>1. mine \in Order
        BY <2>a
      <4> HIDE DEF mine
      <4>2. d.credit = mine.credit
        BY <4>1 DEF Order
      <4> QED BY <3>2, <4>1, <4>2, Applying
    <3> HIDE DEF d
    <3> QED BY <3>1, <3>3, <2>s
  <2> QED
    BY <1>3, <2>1, <2>2, <2>3, <2>4, <2>5, <2>6, <2>7, <2>8, <2>9, <2>10, <2>11, <2>12, <2>13, <2>14,
       <2>15, <2>16, <2>17, <2>18 DEF buyerStep, sellerStep
<1> QED BY <1>1, <1>2, <1>3 DEF Next

\* No kept credit is spent beyond what was kept, and its applications add up to
\* what it says was applied, for any number of credits, orders and requests.
THEOREM KeptCreditAddsUp == Spec => []CreditWithinKept
<1>1. CreditInv => CreditWithinKept
  BY DEF CreditInv
<1> QED BY <1>1, CreditInit, CreditStep, TypeCorrect, PTL DEF Spec

\* What an order says credit paid of it was taken off kept credits for it, as
\* long as no rejection has begun to give it back.
THEOREM CreditWasSpent == Spec => []NoCreditFromNowhere
<1>1. CreditInv => NoCreditFromNowhere
  BY DEF CreditInv
<1> QED BY <1>1, CreditInit, CreditStep, TypeCorrect, PTL DEF Spec
=============================================================================
