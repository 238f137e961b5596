---------------------------- MODULE HeldDispute ----------------------------
(***************************************************************************)
(* The money held on one protected order while disputes about it are       *)
(* opened, settled, withdrawn and released: the order, the disputes and    *)
(* the trades counted for its two people, written one after another        *)
(* (api/src/functions/dispute-routes.ts, releaseHeld and countCompleted of *)
(* api/src/delivery.ts, bringReleaseUpToDate of api/src/community.ts).     *)
(*                                                                         *)
(* How a dispute comes to a result is Dispute; here it has one, a split.   *)
(* Everybody who writes the order adds to its history, so that a copy      *)
(* somebody wrote after it was read is refused (AtomicFields).  A dispute  *)
(* is committed by its version, except by a reply.                         *)
(***************************************************************************)
EXTENDS Naturals, FiniteSets

CONSTANTS Disputes,   \* what may be opened, by identifier
          NoDispute,
          Requests,
          Handlers,   \* what requests ask for
          Held,       \* the money on hold
          Splits,     \* how much of it may go back to the buyer
          Failures    \* requests may die

ASSUME IdentifiersAssumption == NoDispute \notin Disputes
ASSUME HandlersAssumption ==
  Handlers \subseteq {"open", "settle", "withdraw", "release", "receive", "reply"}
ASSUME AmountsAssumption == Held \in Nat \ {0} /\ Splits \subseteq 0..Held
ASSUME FailuresAssumption == Failures \in BOOLEAN

VARIABLES order, disputes,
          at,         \* at[r]: the step r takes next, or how it ended
          mem,        \* mem[r]: the copies it works on
          completed,  \* the trades on the records of the buyer and the seller
          agreed,     \* history: the splits each dispute was ever resolved with
          claimed     \* history: the splits its release was ever claimed with

vars == <<order, disputes, at, mem, completed, agreed, claimed>>

Sides == {"buyer", "seller"}
Order == [hold : {"held", "disputed", "released", "refunded"}, disputeId : Disputes \cup {NoDispute},
          paymentStatus : {"paid", "partially_paid", "refunded"}, trustCounted : BOOLEAN, log : Nat]
Document == [status : {"absent", "open", "resolved", "withdrawn"}, split : 0..Held,
             duty : BOOLEAN, release : BOOLEAN, version : Nat]
Absent == [status |-> "absent", split |-> 0, duty |-> FALSE, release |-> FALSE, version |-> 0]
Opened == [Absent EXCEPT !.status = "open"]

Ends == {"done", "refused", "lost"}
NoCopy == [order |-> [hold |-> "held", disputeId |-> NoDispute, paymentStatus |-> "paid",
                      trustCounted |-> FALSE, log |-> 0],
           doc |-> Absent, of |-> NoDispute]

paymentOf(s) == IF s >= Held THEN "refunded" ELSE IF s > 0 THEN "partially_paid" ELSE "paid"

-----------------------------------------------------------------------------
(* Steps of a request.                                                     *)

goes(r, step, copy) ==
  /\ at' = [at EXCEPT ![r] = step]
  /\ mem' = [mem EXCEPT ![r] = IF step \in Ends THEN NoCopy ELSE copy]

saveBlind(r, o, step) ==   \* slip: the write is not checked
  order' = [o EXCEPT !.log = @ + 1] /\ goes(r, step, [mem[r] EXCEPT !.order = order'])

\* updateOrder.
save(r, o, step) ==
  IF order.log = o.log
  THEN order' = [o EXCEPT !.log = @ + 1] /\ goes(r, step, [mem[r] EXCEPT !.order = order'])
  ELSE goes(r, "refused", NoCopy) /\ UNCHANGED order

\* commit of community.ts: c, if nobody has since it was read.
commit(r, c, step) ==
  LET d == mem[r].of
      new == [c EXCEPT !.version = @ + 1]
  IN  IF disputes[d].version = c.version
      THEN disputes' = [disputes EXCEPT ![d] = new] /\ goes(r, step, [mem[r] EXCEPT !.doc = new])
      ELSE goes(r, "refused", NoCopy) /\ UNCHANGED disputes

committed(r) == disputes' # disputes
histories == UNCHANGED <<completed, agreed, claimed>>

-----------------------------------------------------------------------------
\* The parcel has come and the auto-release window runs; a dispute may be open.
Init ==
  /\ \/ /\ order = NoCopy.order
        /\ disputes = [d \in Disputes |-> Absent]
     \/ \E d \in Disputes :
          /\ order = [NoCopy.order EXCEPT !.hold = "disputed", !.disputeId = d]
          /\ disputes = [e \in Disputes |-> IF e = d THEN Opened ELSE Absent]
  /\ at = [r \in Requests |-> "idle"]
  /\ mem = [r \in Requests |-> NoCopy]
  /\ completed = [p \in Sides |-> 0]
  /\ agreed = [d \in Disputes |-> {}]
  /\ claimed = [d \in Disputes |-> {}]

begins(r, op) == at[r] = "idle" /\ op \in Handlers

(* open: one matter, one dispute.                                          *)

open(r) ==
  /\ begins(r, "open")
  /\ order.hold = "held" /\ order.disputeId = NoDispute
  /\ goes(r, "list", [NoCopy EXCEPT !.order = order])
  /\ UNCHANGED <<order, disputes>> /\ histories

list(r) ==
  /\ at[r] = "list"
  /\ goes(r, IF \E d \in Disputes : disputes[d].status = "open" THEN "refused" ELSE "create", mem[r])
  /\ UNCHANGED <<order, disputes>> /\ histories

create(r) ==
  /\ at[r] = "create"
  /\ \E d \in Disputes :
       /\ disputes[d].status = "absent"
       /\ disputes' = [disputes EXCEPT ![d] = Opened]
       /\ goes(r, "freeze", [mem[r] EXCEPT !.doc = Opened, !.of = d])
  /\ UNCHANGED order /\ histories

freeze(r) ==
  /\ at[r] = "freeze"
  /\ save(r, [mem[r].order EXCEPT !.hold = "disputed", !.disputeId = mem[r].of], "done")
  /\ UNCHANGED disputes /\ histories

(* loadDispute: read, brought up to date, and its order read.              *)

load(r) ==
  /\ at[r] = "idle"
  /\ \E d \in Disputes :
       /\ disputes[d].status # "absent"
       /\ goes(r, "duty", [NoCopy EXCEPT !.doc = disputes[d], !.of = d])
  /\ UNCHANGED <<order, disputes>> /\ histories

dutyDue(c, d) ==
  /\ c.status = "resolved" /\ ~c.release /\ ~c.duty
  /\ order.hold = "disputed" /\ order.disputeId = d

\* bringReleaseUpToDate, of a dispute and, at the end, of a settled one: a
\* manager is given the release, or what another made of it is taken.
assignRelease(r) ==
  LET c == mem[r].doc
      d == mem[r].of
      step == IF at[r] = "duty" THEN "order" ELSE "done"
  IN  /\ at[r] \in {"duty", "assign"}
      /\ IF ~dutyDue(c, d) THEN goes(r, step, mem[r]) /\ UNCHANGED disputes
         ELSE IF disputes[d].version = c.version THEN commit(r, [c EXCEPT !.duty = TRUE], step)
         ELSE goes(r, step, [mem[r] EXCEPT !.doc = disputes[d]]) /\ UNCHANGED disputes
      /\ UNCHANGED order /\ histories

readOrder(r) ==
  /\ at[r] = "order"
  /\ goes(r, "act", [mem[r] EXCEPT !.order = order])
  /\ UNCHANGED <<order, disputes>> /\ histories

acts(r, op) == at[r] = "act" /\ op \in Handlers

(* accept, and whatever else makes a result final: the split it settles.   *)

settle(r) ==
  LET c == mem[r].doc IN
  /\ acts(r, "settle") /\ c.status = "open"
  /\ \E s \in Splits :
       /\ commit(r, [c EXCEPT !.status = "resolved", !.split = s], "assign")
       /\ agreed' = IF committed(r) THEN [agreed EXCEPT ![mem[r].of] = @ \cup {s}] ELSE agreed
  /\ UNCHANGED <<order, completed, claimed>>

(* withdraw, with backOnHold.                                              *)

withdraw(r) ==
  LET c == mem[r].doc IN
  /\ acts(r, "withdraw") /\ c.status = "open"
  /\ commit(r, [c EXCEPT !.status = "withdrawn"], IF mem[r].order.hold = "disputed" THEN "unfreeze" ELSE "done")
  /\ UNCHANGED order /\ histories

unfreezeKeeps(r) ==   \* slip: the order still names the dispute
  /\ at[r] = "unfreeze"
  /\ save(r, [mem[r].order EXCEPT !.hold = "held"], "done")
  /\ UNCHANGED disputes /\ histories

unfreeze(r) ==
  /\ at[r] = "unfreeze"
  /\ save(r, [mem[r].order EXCEPT !.hold = "held", !.disputeId = NoDispute], "done")
  /\ UNCHANGED disputes /\ histories

(* release, with moveHeld.  A refund is not a trade.                       *)

release(r) ==
  LET c == mem[r].doc
      o == mem[r].order
  IN  /\ acts(r, "release") /\ c.status = "resolved" /\ c.duty /\ ~c.release
      /\ o.hold = "disputed"
      /\ goes(r, IF c.split >= Held \/ o.trustCounted THEN "claim" ELSE "countBuyer", mem[r])
      /\ UNCHANGED <<order, disputes>> /\ histories

(* releaseHeld: the buyer has the parcel, or a read finds the window over. *)

receive(r) ==
  /\ begins(r, "receive")
  /\ order.hold = "held"
  /\ goes(r, IF order.trustCounted THEN "letGo" ELSE "countBuyer", [NoCopy EXCEPT !.order = order])
  /\ UNCHANGED <<order, disputes>> /\ histories

countAfter(r) ==   \* slip: the mark goes on the order, and the trade is counted after the save
  /\ at[r] = "countBuyer"
  /\ goes(r, IF mem[r].of = NoDispute THEN "letGo" ELSE "claim", [mem[r] EXCEPT !.order.trustCounted = TRUE])
  /\ UNCHANGED <<order, disputes>> /\ histories

\* countCompleted: the mark on the copy, then one record after the other.
countBuyer(r) ==
  /\ at[r] = "countBuyer"
  /\ completed' = [completed EXCEPT !["buyer"] = @ + 1]
  /\ goes(r, "countSeller", [mem[r] EXCEPT !.order.trustCounted = TRUE])
  /\ UNCHANGED <<order, disputes, agreed, claimed>>

countSeller(r) ==
  /\ at[r] = "countSeller"
  /\ completed' = [completed EXCEPT !["seller"] = @ + 1]
  /\ goes(r, IF mem[r].of = NoDispute THEN "letGo" ELSE "claim", mem[r])
  /\ UNCHANGED <<order, disputes, agreed, claimed>>

letGo(r) ==
  /\ at[r] = "letGo"
  /\ save(r, [mem[r].order EXCEPT !.hold = "released"], "done")
  /\ UNCHANGED disputes /\ histories

claimNothing(r) ==   \* slip: the order is paid out without claiming the dispute
  /\ at[r] = "claim"
  /\ goes(r, "payOut", mem[r])
  /\ UNCHANGED <<order, disputes>> /\ histories

claim(r) ==
  LET c == mem[r].doc IN
  /\ at[r] = "claim"
  /\ commit(r, [c EXCEPT !.release = TRUE], "payOut")
  /\ claimed' = IF committed(r) THEN [claimed EXCEPT ![mem[r].of] = @ \cup {c.split}] ELSE claimed
  /\ UNCHANGED <<order, completed, agreed>>

payOut(r) ==
  LET s == mem[r].doc.split IN
  /\ at[r] = "payOut"
  /\ save(r, [mem[r].order EXCEPT !.hold = IF s >= Held THEN "refunded" ELSE "released",
                                  !.disputeId = mem[r].of, !.paymentStatus = paymentOf(s)], "done")
  /\ UNCHANGED disputes /\ histories

(* reply: the copy goes back as it was read.                               *)

reply(r) ==
  LET c == mem[r].doc IN
  /\ acts(r, "reply") /\ c.status = "open"
  /\ disputes' = [disputes EXCEPT ![mem[r].of] = c]
  /\ goes(r, "done", NoCopy)
  /\ UNCHANGED order /\ histories

die(r) ==
  /\ Failures
  /\ at[r] \notin Ends \cup {"idle"}
  /\ goes(r, "lost", NoCopy)
  /\ UNCHANGED <<order, disputes>> /\ histories

Step(r) ==
  \/ open(r) \/ list(r) \/ create(r) \/ freeze(r)
  \/ load(r) \/ assignRelease(r) \/ readOrder(r)
  \/ settle(r) \/ withdraw(r) \/ unfreeze(r)
  \/ release(r) \/ receive(r) \/ countBuyer(r) \/ countSeller(r)
  \/ letGo(r) \/ claim(r) \/ payOut(r) \/ reply(r) \/ die(r)

Next == \E r \in Requests : Step(r)

Spec == Init /\ [][Next]_vars

-----------------------------------------------------------------------------
(* Properties.                                                             *)

Copy == [order : Order, doc : Document, of : Disputes \cup {NoDispute}]
Steps == {"idle", "list", "create", "freeze", "duty", "assign", "order", "act", "unfreeze",
          "countBuyer", "countSeller", "letGo", "claim", "payOut"} \cup Ends

\* The shapes of the documents and of the copies.  An order on hold names a
\* dispute exactly if one has frozen it: with a name left, none could be opened.
TypeOK ==
  /\ order \in Order
  /\ order.hold = "held" => order.disputeId = NoDispute
  /\ order.hold = "disputed" => order.disputeId \in Disputes
  /\ disputes \in [Disputes -> Document]
  /\ at \in [Requests -> Steps]
  /\ mem \in [Requests -> Copy]
  /\ completed \in [Sides -> Nat]
  /\ agreed \in [Disputes -> SUBSET Splits]
  /\ claimed \in [Disputes -> SUBSET Splits]

\* Money that a dispute let go went as a result of that dispute said, and was
\* claimed on the dispute before: never on an offer, a stale copy or twice.
PaidAsAgreed ==
  order.hold \in {"released", "refunded"} /\ order.disputeId # NoDispute =>
    \E s \in agreed[order.disputeId] \cap claimed[order.disputeId] :
      /\ order.paymentStatus = paymentOf(s)
      /\ order.hold = IF s >= Held THEN "refunded" ELSE "released"

\* Money on hold leaves once: after that no handler writes the order again,
\* whatever it had read before.
HoldLeavesOnce == [][order.hold \in {"held", "disputed"}]_order

\* A trade that is done is on both records, whatever was lost on the way.
ReleasedIsCounted ==
  order.hold = "released" => order.trustCounted /\ \A p \in Sides : completed[p] >= 1
=============================================================================
