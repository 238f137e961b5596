------------------------- MODULE HeldDisputeProofs -------------------------
(***************************************************************************)
(* HeldDispute, for any number of disputes and requests, any amount and    *)
(* any splits: its types, that the money on hold leaves once, that what a  *)
(* dispute let go went as it had been agreed and claimed, and that a trade *)
(* that is done is on both records.                                        *)
(*                                                                         *)
(* A request that works on a copy of the order either knows the order as   *)
(* it is or has its save refused (OrderCopy).  A step moves the memory of  *)
(* one request, adds to the records and histories, and writes the order    *)
(* with one more entry in its history or not at all (Moves): what the      *)
(* other requests know still holds (OthersKeep), and what is left is the   *)
(* request that took the step.                                             *)
(***************************************************************************)
EXTENDS HeldDispute, TLAPS

\* Steps at which a request has read the order.
WithOrder == {"list", "create", "freeze", "act", "unfreeze", "countBuyer", "countSeller",
              "letGo", "claim", "payOut"}

\* The copy is the order but for the mark countCompleted puts on it, or it is old.
OrderCopy(r) ==
  /\ mem[r].order.log <= order.log
  /\ at[r] \in WithOrder /\ mem[r].order.log = order.log =>
       /\ mem[r].order.hold = order.hold
       /\ mem[r].order.disputeId = order.disputeId

\* Each step is taken over an order that was held, or disputed, when it was read...
OnHold(r) == mem[r].order.hold = "held" /\ mem[r].order.disputeId = NoDispute
HoldCopy(r) ==
  /\ at[r] \in {"list", "create", "freeze", "letGo"} => OnHold(r)
  /\ at[r] \in {"unfreeze", "claim", "payOut"} => mem[r].order.hold = "disputed"
  /\ at[r] \in {"countBuyer", "countSeller"} =>
       IF mem[r].of = NoDispute THEN OnHold(r) ELSE mem[r].order.hold = "disputed"

\* ...and with or without a dispute at hand...
OfCopy(r) ==
  /\ at[r] \in {"list", "create", "letGo"} => mem[r].of = NoDispute
  /\ at[r] \in {"freeze", "duty", "assign", "order", "act", "unfreeze", "claim", "payOut"} =>
       mem[r].of \in Disputes

\* ...which by then is resolved, and claimed before anything is paid out.
DocCopy(r) ==
  /\ mem[r].of # NoDispute /\ mem[r].doc.status = "resolved" => mem[r].doc.split \in agreed[mem[r].of]
  /\ at[r] \in {"claim", "payOut"} => mem[r].doc.status = "resolved"
  /\ at[r] \in {"countBuyer", "countSeller"} /\ mem[r].of # NoDispute => mem[r].doc.status = "resolved"
  /\ at[r] = "payOut" => mem[r].doc.split \in claimed[mem[r].of]

\* The mark is on the copy before the trade is on both records, and on the
\* order after.
CountCopy(r) ==
  /\ mem[r].order.trustCounted => completed["buyer"] >= 1
  /\ mem[r].order.trustCounted /\ at[r] # "countSeller" => completed["seller"] >= 1
  /\ at[r] \in {"countSeller", "letGo"} => mem[r].order.trustCounted
  /\ at[r] \in {"claim", "payOut"} /\ mem[r].doc.split < Held => mem[r].order.trustCounted

Knows(r) == OrderCopy(r) /\ HoldCopy(r) /\ OfCopy(r) /\ DocCopy(r) /\ CountCopy(r)

DisputesAgreed == \A d \in Disputes : disputes[d].status = "resolved" => disputes[d].split \in agreed[d]
MarkIsCounted == order.trustCounted => \A p \in Sides : completed[p] >= 1

IInv ==
  /\ TypeOK
  /\ DisputesAgreed /\ MarkIsCounted
  /\ PaidAsAgreed /\ ReleasedIsCounted
  /\ \A r \in Requests : Knows(r)

(* Types of a step.                                                        *)

\* The memory of one request moves.
LEMMA GoesTypes ==
  ASSUME TypeOK, NEW r \in Requests, NEW step \in Steps, NEW copy \in Copy, goes(r, step, copy)
  PROVE  /\ at' \in [Requests -> Steps] /\ mem' \in [Requests -> Copy]
         /\ at'[r] = step /\ mem'[r] = IF step \in Ends THEN NoCopy ELSE copy
         /\ \A q \in Requests \ {r} : at'[q] = at[q] /\ mem'[q] = mem[q]
<1>1. NoCopy \in Copy
  BY IdentifiersAssumption, AmountsAssumption DEF NoCopy, Copy, Order, Document, Absent
<1> QED BY <1>1 DEF goes, TypeOK

\* What no step does to the rest.
Frame(r) == \A q \in Requests \ {r} : at'[q] = at[q] /\ mem'[q] = mem[q]

\* Records and histories grow, the history of an order that is written too.
Moves(r) ==
  /\ Frame(r)
  /\ order' = order \/ order'.log = order.log + 1
  /\ \A p \in Sides : completed'[p] >= completed[p]
  /\ \A d \in Disputes : agreed[d] \subseteq agreed'[d] /\ claimed[d] \subseteq claimed'[d]

\* What the other requests know is still true.
LEMMA OthersKeep ==
  ASSUME IInv, TypeOK', NEW r \in Requests, Moves(r), NEW q \in Requests \ {r}
  PROVE  Knows(q)'
<1>1. at'[q] = at[q] /\ mem'[q] = mem[q] /\ Knows(q)
  BY DEF Moves, Frame, IInv
<1>2. mem[q] \in Copy /\ order \in Order /\ order' \in Order
  BY DEF IInv, TypeOK
<1>3. mem[q].order.log \in Nat /\ order.log \in Nat /\ order'.log \in Nat /\ mem[q].of \in Disputes \cup {NoDispute}
  BY <1>2 DEF Copy, Order
<1>4. OrderCopy(q)'
  BY <1>1, <1>3 DEF Knows, OrderCopy, Moves
<1>5. HoldCopy(q)' /\ OfCopy(q)'
  BY <1>1 DEF Knows, HoldCopy, OnHold, OfCopy
<1>6. DocCopy(q)'
  <2>1. mem[q].of # NoDispute =>
          agreed[mem[q].of] \subseteq agreed'[mem[q].of] /\ claimed[mem[q].of] \subseteq claimed'[mem[q].of]
    BY <1>3 DEF Moves
  <2>2. at[q] = "payOut" => mem[q].of # NoDispute
    BY <1>1, IdentifiersAssumption DEF Knows, OfCopy
  <2> QED BY <1>1, <2>1, <2>2 DEF Knows, DocCopy
<1>7. CountCopy(q)'
  <2>1. /\ completed["buyer"] \in Nat /\ completed'["buyer"] \in Nat /\ completed'["buyer"] >= completed["buyer"]
        /\ completed["seller"] \in Nat /\ completed'["seller"] \in Nat /\ completed'["seller"] >= completed["seller"]
    BY DEF IInv, TypeOK, Sides, Moves
  <2> QED BY <1>1, <2>1 DEF Knows, CountCopy
<1> QED BY <1>4, <1>5, <1>6, <1>7 DEF Knows

\* A request that has ended, or begun nothing, knows nothing.
LEMMA EndedKnows ==
  ASSUME TypeOK, NEW r \in Requests, at[r] \in Ends \cup {"idle"}, mem[r] = NoCopy
  PROVE  Knows(r)
<1>1. order.log \in Nat
  BY DEF TypeOK, Order
<1> QED BY <1>1 DEF Knows, OrderCopy, HoldCopy, OfCopy, DocCopy, CountCopy, NoCopy, Absent, Ends, WithOrder

\* A request that ends here knows nothing after.
LEMMA EndsKnows ==
  ASSUME TypeOK, TypeOK', NEW r \in Requests, NEW step \in Ends, NEW copy \in Copy, goes(r, step, copy)
  PROVE  Knows(r)'
<1>1. (at[r] \in Ends \cup {"idle"} /\ mem[r] = NoCopy)'
  BY GoesTypes DEF Steps
<1> QED BY <1>1, EndedKnows, PTL

\* A step that leaves the order alone.
LEMMA StepKeeps ==
  ASSUME IInv, TypeOK', NEW r \in Requests, Moves(r), Knows(r)', UNCHANGED order, DisputesAgreed'
  PROVE  IInv'
<1>1. \A q \in Requests : Knows(q)'
  BY OthersKeep
<1>2. \A p \in Sides : completed[p] \in Nat /\ completed'[p] \in Nat /\ completed'[p] >= completed[p]
  BY DEF IInv, TypeOK, Moves
<1>3. (MarkIsCounted /\ ReleasedIsCounted)'
  BY <1>2 DEF IInv, MarkIsCounted, ReleasedIsCounted
<1>4. PaidAsAgreed'
  <2>1. order.disputeId # NoDispute =>
          /\ agreed[order.disputeId] \subseteq agreed'[order.disputeId]
          /\ claimed[order.disputeId] \subseteq claimed'[order.disputeId]
    BY DEF IInv, TypeOK, Order, Moves
  <2> QED BY <2>1 DEF IInv, PaidAsAgreed
<1> QED BY <1>1, <1>3, <1>4 DEF IInv

\* One that only moves what its request knows.
LEMMA WalkKeeps ==
  ASSUME IInv, NEW r \in Requests, NEW step \in Steps, NEW copy \in Copy, goes(r, step, copy),
         UNCHANGED <<order, disputes, completed, agreed, claimed>>,
         step \notin Ends => Knows(r)'
  PROVE  IInv'
<1>1. TypeOK'
  BY GoesTypes DEF IInv, TypeOK
<1>2. Moves(r)
  BY GoesTypes DEF Moves, Frame, IInv, TypeOK, Sides
<1>3. Knows(r)'
  BY <1>1, EndsKnows DEF IInv
<1>4. DisputesAgreed'
  BY DEF IInv, DisputesAgreed
<1> QED BY <1>1, <1>2, <1>3, <1>4, StepKeeps

\* The order as it may be stored.
Fits(o) ==
  /\ o.hold = "held" => o.disputeId = NoDispute
  /\ o.hold = "disputed" => o.disputeId \in Disputes
  /\ o.trustCounted => \A p \in Sides : completed[p] >= 1
  /\ o.hold = "released" => o.trustCounted
  /\ o.hold \in {"released", "refunded"} /\ o.disputeId # NoDispute =>
       \E s \in agreed[o.disputeId] \cap claimed[o.disputeId] :
         /\ o.paymentStatus = paymentOf(s)
         /\ o.hold = IF s >= Held THEN "refunded" ELSE "released"

\* A save of the order, the last thing its request does.
LEMMA SaveKeeps ==
  ASSUME IInv, NEW r \in Requests, NEW o \in Order, save(r, o, "done"), Fits(o),
         UNCHANGED <<disputes, completed, agreed, claimed>>
  PROVE  IInv'
<1>1. "refused" \in Ends /\ "done" \in Ends /\ Ends \subseteq Steps
  BY DEF Ends, Steps
<1>2. NoCopy \in Copy /\ mem[r] \in Copy
  BY IdentifiersAssumption, AmountsAssumption DEF IInv, TypeOK, NoCopy, Copy, Order, Document, Absent
<1>3. CASE order.log # o.log
  BY <1>1, <1>2, <1>3, WalkKeeps DEF save
<1>4. CASE order.log = o.log
  <2>1. order' = [o EXCEPT !.log = @ + 1] /\ goes(r, "done", [mem[r] EXCEPT !.order = order'])
    BY <1>4 DEF save
  <2>2. /\ order' \in Order /\ order'.log = o.log + 1
        /\ order'.hold = o.hold /\ order'.disputeId = o.disputeId
        /\ order'.trustCounted = o.trustCounted /\ order'.paymentStatus = o.paymentStatus
    BY <2>1 DEF Order
  <2>3. [mem[r] EXCEPT !.order = order'] \in Copy
    BY <1>2, <2>2 DEF Copy
  <2>4. TypeOK'
    BY <1>1, <2>1, <2>2, <2>3, GoesTypes DEF IInv, TypeOK, Fits
  <2>5. Moves(r)
    BY <1>1, <1>4, <2>1, <2>2, <2>3, GoesTypes DEF Moves, Frame, IInv, TypeOK, Sides
  <2>6. Knows(r)'
    BY <1>1, <2>1, <2>3, <2>4, EndsKnows DEF IInv
  <2>7. \A q \in Requests : Knows(q)'
    BY <2>4, <2>5, <2>6, OthersKeep
  <2>8. (DisputesAgreed /\ MarkIsCounted /\ ReleasedIsCounted)'
    BY <2>2 DEF IInv, DisputesAgreed, MarkIsCounted, ReleasedIsCounted, Fits
  <2>9. PaidAsAgreed'
    BY <2>2 DEF PaidAsAgreed, Fits
  <2> QED BY <2>4, <2>7, <2>8, <2>9 DEF IInv
<1> QED BY <1>3, <1>4

\* A commit of what the dispute is to become.
LEMMA CommitKeeps ==
  ASSUME IInv, NEW r \in Requests, NEW c \in Document, NEW step \in Steps,
         mem[r].of \in Disputes, commit(r, c, step),
         UNCHANGED <<order, completed>>,
         agreed' \in [Disputes -> SUBSET Splits], claimed' \in [Disputes -> SUBSET Splits],
         \A d \in Disputes : agreed[d] \subseteq agreed'[d] /\ claimed[d] \subseteq claimed'[d],
         committed(r) /\ c.status = "resolved" => c.split \in agreed'[mem[r].of],
         committed(r) /\ step \notin Ends => Knows(r)'
  PROVE  IInv'
<1> DEFINE d == mem[r].of
           new == [c EXCEPT !.version = @ + 1]
           copy == [mem[r] EXCEPT !.doc = new]
<1>1. "refused" \in Ends /\ Ends \subseteq Steps
  BY DEF Ends, Steps
<1>2. NoCopy \in Copy /\ mem[r] \in Copy
  BY IdentifiersAssumption, AmountsAssumption DEF IInv, TypeOK, NoCopy, Copy, Order, Document, Absent
<1>3. /\ new \in Document /\ new.version = c.version + 1
      /\ new.status = c.status /\ new.split = c.split /\ c.version \in Nat
  BY DEF Document
<1>4. copy \in Copy
  BY <1>2, <1>3 DEF Copy
<1> HIDE DEF new
<1>5. CASE disputes[d].version # c.version
  <2>1. goes(r, "refused", NoCopy) /\ UNCHANGED disputes
    BY <1>5 DEF commit
  <2>2. TypeOK'
    BY <1>1, <1>2, <2>1, GoesTypes DEF IInv, TypeOK
  <2>3. Moves(r)
    BY <1>1, <1>2, <2>1, GoesTypes DEF Moves, Frame, IInv, TypeOK, Sides
  <2>4. Knows(r)'
    BY <1>1, <1>2, <2>1, <2>2, EndsKnows DEF IInv
  <2>5. DisputesAgreed'
    BY <2>1 DEF IInv, DisputesAgreed
  <2> QED BY <2>2, <2>3, <2>4, <2>5, StepKeeps
<1>6. CASE disputes[d].version = c.version
  <2>1. disputes' = [disputes EXCEPT ![d] = new] /\ goes(r, step, copy)
    BY <1>6 DEF commit, new
  <2>2. committed(r)
    <3>1. disputes'[d].version # disputes[d].version
      BY <1>3, <1>6, <2>1 DEF IInv, TypeOK
    <3> QED BY <3>1 DEF committed
  <2>3. TypeOK'
    BY <1>3, <1>4, <2>1, GoesTypes DEF IInv, TypeOK
  <2>4. Moves(r)
    BY <1>4, <2>1, GoesTypes DEF Moves, Frame, IInv, TypeOK, Sides
  <2>5. Knows(r)'
    BY <1>4, <2>1, <2>2, <2>3, EndsKnows DEF IInv
  <2>6. DisputesAgreed'
    BY <1>3, <2>1, <2>2 DEF IInv, TypeOK, DisputesAgreed
  <2> QED BY <2>3, <2>4, <2>5, <2>6, StepKeeps
<1> QED BY <1>5, <1>6
-----------------------------------------------------------------------------
(* The actions.                                                            *)

LEMMA Copies ==
  ASSUME TypeOK, NEW r \in Requests
  PROVE  /\ NoCopy \in Copy /\ mem[r] \in Copy /\ mem[r].order \in Order /\ mem[r].doc \in Document
         /\ NoCopy.of = NoDispute /\ NoCopy.order.log = 0 /\ ~NoCopy.order.trustCounted
         /\ order \in Order /\ order.log \in Nat
         /\ Ends \subseteq Steps /\ NoDispute \notin Disputes
BY IdentifiersAssumption, AmountsAssumption
   DEF TypeOK, NoCopy, Copy, Order, Document, Absent, Ends, Steps

\* A copy of the order as it is now.
LEMMA OpenKeeps == ASSUME IInv, NEW r \in Requests, open(r) PROVE IInv'
<1> DEFINE copy == [NoCopy EXCEPT !.order = order]
<1>1. copy \in Copy /\ copy.order = order /\ copy.of = NoDispute
  BY Copies DEF IInv, Copy
<1>2. goes(r, "list", copy) /\ UNCHANGED <<order, disputes, completed, agreed, claimed>>
  BY DEF open, histories
<1> HIDE DEF copy
<1>3. "list" \in Steps /\ "list" \notin Ends
  BY DEF Steps, Ends
<1>4. at'[r] = "list" /\ mem'[r] = copy
  BY <1>1, <1>2, <1>3, GoesTypes DEF IInv
<1>5. order.hold = "held" /\ order.disputeId = NoDispute
  BY DEF open
<1>6. Knows(r)'
  BY <1>1, <1>2, <1>4, <1>5, Copies
     DEF Knows, OrderCopy, HoldCopy, OnHold, OfCopy, DocCopy, CountCopy, IInv, MarkIsCounted, Sides
<1> QED BY <1>1, <1>2, <1>3, <1>6, WalkKeeps

LEMMA ReceiveKeeps == ASSUME IInv, NEW r \in Requests, receive(r) PROVE IInv'
<1> DEFINE copy == [NoCopy EXCEPT !.order = order]
           step == IF order.trustCounted THEN "letGo" ELSE "countBuyer"
<1>1. copy \in Copy /\ copy.order = order /\ copy.of = NoDispute
  BY Copies DEF IInv, Copy
<1>2. goes(r, step, copy) /\ UNCHANGED <<order, disputes, completed, agreed, claimed>>
  BY DEF receive, histories
<1>3. order.hold = "held" /\ order.disputeId = NoDispute
  BY DEF receive, IInv, TypeOK
<1> HIDE DEF copy
<1>4. step \in Steps /\ step \notin Ends
  BY DEF Steps, Ends
<1>5. at'[r] = step /\ mem'[r] = copy
  BY <1>1, <1>2, <1>4, GoesTypes DEF IInv
<1>6. Knows(r)'
  BY <1>1, <1>2, <1>3, <1>5, Copies
     DEF Knows, OrderCopy, HoldCopy, OnHold, OfCopy, DocCopy, CountCopy, IInv, MarkIsCounted, Sides
<1> QED BY <1>1, <1>2, <1>4, <1>6, WalkKeeps

LEMMA ListKeeps == ASSUME IInv, NEW r \in Requests, list(r) PROVE IInv'
<1> DEFINE step == IF \E d \in Disputes : disputes[d].status = "open" THEN "refused" ELSE "create"
<1>1. goes(r, step, mem[r]) /\ at[r] = "list" /\ UNCHANGED <<order, disputes, completed, agreed, claimed>>
  BY DEF list, histories
<1>2. step \in {"refused", "create"}
  OBVIOUS
<1> HIDE DEF step
<1>3. step \in Steps /\ (step \notin Ends => step = "create")
  BY <1>2 DEF Steps, Ends
<1>4. step \notin Ends => at'[r] = "create" /\ mem'[r] = mem[r]
  BY <1>1, <1>3, Copies, GoesTypes DEF IInv
<1>5. step \notin Ends => Knows(r)'
  BY <1>1, <1>4 DEF IInv, Knows, OrderCopy, HoldCopy, OnHold, OfCopy, DocCopy, CountCopy, WithOrder
<1> QED BY <1>1, <1>3, <1>5, Copies, WalkKeeps DEF IInv

LEMMA OpenedDocument == Opened \in Document /\ Opened.status = "open"
<1>1. Absent \in Document
  BY AmountsAssumption DEF Absent, Document
<1>2. \A c \in Document : [c EXCEPT !.status = "open"] \in Document /\ [c EXCEPT !.status = "open"].status = "open"
  BY DEF Document
<1> QED BY <1>1, <1>2 DEF Opened

LEMMA Versioned ==
  ASSUME NEW c \in Document
  PROVE  LET new == [c EXCEPT !.version = @ + 1]
         IN  new \in Document /\ new.status = c.status /\ new.split = c.split
BY DEF Document

\* The dispute there is to be, and the copy of the order it will freeze.
LEMMA CreateKeeps == ASSUME IInv, NEW r \in Requests, create(r) PROVE IInv'
<1>1. PICK d \in Disputes :
        /\ disputes' = [disputes EXCEPT ![d] = Opened]
        /\ goes(r, "freeze", [mem[r] EXCEPT !.doc = Opened, !.of = d])
  BY DEF create
<1> DEFINE copy == [mem[r] EXCEPT !.doc = Opened, !.of = d]
<1>2. Opened \in Document /\ Opened.status = "open"
  BY OpenedDocument
<1>3. copy \in Copy /\ copy.order = mem[r].order /\ copy.of = d /\ copy.doc = Opened
  BY <1>2, Copies DEF IInv, Copy
<1>4. at[r] = "create" /\ UNCHANGED <<order, completed, agreed, claimed>> /\ goes(r, "freeze", copy)
  BY <1>1 DEF create, histories
<1> HIDE DEF copy
<1>5. "freeze" \in Steps /\ "freeze" \notin Ends
  BY DEF Steps, Ends
<1>6. TypeOK'
  BY <1>1, <1>2, <1>3, <1>4, <1>5, GoesTypes DEF IInv, TypeOK
<1>7. Moves(r)
  BY <1>3, <1>4, <1>5, GoesTypes DEF Moves, Frame, IInv, TypeOK, Sides
<1>8. at'[r] = "freeze" /\ mem'[r] = copy
  BY <1>3, <1>4, <1>5, GoesTypes DEF IInv
<1>9. Knows(r)'
  BY <1>2, <1>3, <1>4, <1>8, Copies
     DEF IInv, Knows, OrderCopy, HoldCopy, OnHold, OfCopy, DocCopy, CountCopy, WithOrder
<1>10. DisputesAgreed'
  BY <1>1, <1>2, <1>4 DEF IInv, TypeOK, DisputesAgreed
<1> QED BY <1>4, <1>6, <1>7, <1>9, <1>10, StepKeeps

LEMMA LoadKeeps == ASSUME IInv, NEW r \in Requests, load(r) PROVE IInv'
<1>1. PICK d \in Disputes : goes(r, "duty", [NoCopy EXCEPT !.doc = disputes[d], !.of = d])
  BY DEF load
<1> DEFINE copy == [NoCopy EXCEPT !.doc = disputes[d], !.of = d]
<1>2. copy \in Copy /\ copy.order = NoCopy.order /\ copy.of = d /\ copy.doc = disputes[d]
  BY Copies DEF IInv, TypeOK, Copy
<1>3. goes(r, "duty", copy) /\ UNCHANGED <<order, disputes, completed, agreed, claimed>>
  BY <1>1 DEF load, histories
<1> HIDE DEF copy
<1>4. "duty" \in Steps /\ "duty" \notin Ends
  BY DEF Steps, Ends
<1>5. at'[r] = "duty" /\ mem'[r] = copy
  BY <1>2, <1>3, <1>4, GoesTypes DEF IInv
<1>6. Knows(r)'
  BY <1>2, <1>3, <1>5, Copies
     DEF Knows, OrderCopy, HoldCopy, OfCopy, DocCopy, CountCopy, IInv, DisputesAgreed, WithOrder
<1> QED BY <1>2, <1>3, <1>4, <1>6, WalkKeeps

\* The duty is noted, or what somebody else made of the dispute is taken.
LEMMA AssignReleaseKeeps == ASSUME IInv, NEW r \in Requests, assignRelease(r) PROVE IInv'
<1> DEFINE c == mem[r].doc
           d == mem[r].of
           step == IF at[r] = "duty" THEN "order" ELSE "done"
           given == [c EXCEPT !.duty = TRUE]
           taken == [mem[r] EXCEPT !.doc = disputes[d]]
<1>1. at[r] \in {"duty", "assign"} /\ UNCHANGED <<order, completed, agreed, claimed>> /\ d \in Disputes
  BY DEF assignRelease, histories, IInv, Knows, OfCopy
<1>2. step \in Steps /\ (step \notin Ends => step = "order")
  BY DEF Steps, Ends
<1>3. step = "order" /\ at'[r] = "order" /\ mem'[r].order = mem[r].order /\ mem'[r].of = d
        /\ (mem'[r].doc.status = "resolved" => mem'[r].doc.split \in agreed[d]) => Knows(r)'
  BY <1>1 DEF IInv, Knows, OrderCopy, HoldCopy, OfCopy, DocCopy, CountCopy, WithOrder
<1>4. c.status = "resolved" => c.split \in agreed[d]
  BY <1>1, Copies DEF IInv, Knows, DocCopy
<1> HIDE DEF step
<1>5. CASE goes(r, step, mem[r]) /\ UNCHANGED disputes
  <2>1. step \notin Ends => at'[r] = "order" /\ mem'[r] = mem[r]
    BY <1>2, <1>5, Copies, GoesTypes DEF IInv
  <2> QED BY <1>1, <1>2, <1>3, <1>4, <1>5, <2>1, Copies, WalkKeeps DEF IInv
<1>6. CASE commit(r, given, step)
  <2> DEFINE new == [given EXCEPT !.version = @ + 1]
             copy == [mem[r] EXCEPT !.doc = new]
  <2>1. given \in Document /\ given.status = c.status /\ given.split = c.split
    BY Copies DEF IInv, Document
  <2>2. new \in Document /\ new.status = c.status /\ new.split = c.split
    <3> HIDE DEF given
    <3> QED BY <2>1, Versioned
  <2>3. copy \in Copy /\ copy.order = mem[r].order /\ copy.of = d /\ copy.doc = new
    BY <2>2, Copies DEF IInv, Copy
  <2>4. committed(r) => goes(r, step, copy)
    BY <1>6 DEF commit, committed
  <2> HIDE DEF new, copy, given
  <2>5. committed(r) /\ step \notin Ends => at'[r] = "order" /\ mem'[r] = copy
    BY <1>2, <2>3, <2>4, GoesTypes DEF IInv
  <2>6. committed(r) /\ step \notin Ends => Knows(r)'
    BY <1>2, <1>3, <1>4, <2>2, <2>3, <2>5
  <2>7. agreed' \in [Disputes -> SUBSET Splits] /\ claimed' \in [Disputes -> SUBSET Splits]
    BY <1>1 DEF IInv, TypeOK
  <2> QED BY <1>1, <1>2, <1>4, <1>6, <2>1, <2>6, <2>7, CommitKeeps
<1>7. CASE goes(r, step, taken) /\ UNCHANGED disputes
  <2>1. taken \in Copy /\ taken.order = mem[r].order /\ taken.of = d /\ taken.doc = disputes[d]
    BY <1>1, Copies DEF IInv, TypeOK, Copy
  <2> HIDE DEF taken
  <2>2. step \notin Ends => at'[r] = "order" /\ mem'[r] = taken
    BY <1>2, <1>7, <2>1, GoesTypes DEF IInv
  <2>3. step \notin Ends => Knows(r)'
    BY <1>1, <1>2, <1>3, <2>1, <2>2 DEF IInv, DisputesAgreed
  <2> QED BY <1>1, <1>2, <1>7, <2>1, <2>3, WalkKeeps
<1> QED BY <1>5, <1>6, <1>7 DEF assignRelease, step

LEMMA ReadOrderKeeps == ASSUME IInv, NEW r \in Requests, readOrder(r) PROVE IInv'
<1> DEFINE copy == [mem[r] EXCEPT !.order = order]
<1>1. copy \in Copy /\ copy.order = order /\ copy.of = mem[r].of /\ copy.doc = mem[r].doc
  BY Copies DEF IInv, Copy
<1>2. /\ at[r] = "order" /\ goes(r, "act", copy)
      /\ UNCHANGED <<order, disputes, completed, agreed, claimed>>
  BY DEF readOrder, histories
<1> HIDE DEF copy
<1>3. "act" \in Steps /\ "act" \notin Ends
  BY DEF Steps, Ends
<1>4. at'[r] = "act" /\ mem'[r] = copy
  BY <1>1, <1>2, <1>3, GoesTypes DEF IInv
<1>5. Knows(r)'
  BY <1>1, <1>2, <1>4, Copies
     DEF Knows, OrderCopy, HoldCopy, OfCopy, DocCopy, CountCopy, IInv, MarkIsCounted, Sides
<1> QED BY <1>1, <1>2, <1>3, <1>5, WalkKeeps

LEMMA ReleaseKeeps == ASSUME IInv, NEW r \in Requests, release(r) PROVE IInv'
<1> DEFINE step == IF mem[r].doc.split >= Held \/ mem[r].order.trustCounted THEN "claim" ELSE "countBuyer"
<1>1. /\ at[r] = "act" /\ goes(r, step, mem[r])
      /\ mem[r].doc.status = "resolved" /\ mem[r].order.hold = "disputed"
      /\ UNCHANGED <<order, disputes, completed, agreed, claimed>>
  BY DEF release, acts, histories
<1>2. step \in Steps /\ step \notin Ends
  BY DEF Steps, Ends
<1>3. at'[r] = step /\ mem'[r] = mem[r]
  BY <1>1, <1>2, Copies, GoesTypes DEF IInv
<1>4. mem[r].doc.split \in Nat
  BY Copies, AmountsAssumption DEF IInv, Document
<1>5. mem[r].of \in Disputes
  BY <1>1 DEF IInv, Knows, OfCopy
<1>6. Knows(r)'
  BY <1>1, <1>3, <1>4, <1>5, AmountsAssumption, IdentifiersAssumption
     DEF IInv, Knows, OrderCopy, HoldCopy, OfCopy, DocCopy, CountCopy, WithOrder
<1> QED BY <1>1, <1>2, <1>6, Copies, WalkKeeps DEF IInv

LEMMA DieKeeps == ASSUME IInv, NEW r \in Requests, die(r) PROVE IInv'
<1>1. goes(r, "lost", NoCopy) /\ UNCHANGED <<order, disputes, completed, agreed, claimed>>
  BY DEF die, histories
<1>2. "lost" \in Ends /\ "lost" \in Steps
  BY DEF Ends, Steps
<1> QED BY <1>1, <1>2, Copies, WalkKeeps DEF IInv

(* Saves of the order.                                                     *)

LEMMA FreezeKeeps == ASSUME IInv, NEW r \in Requests, freeze(r) PROVE IInv'
<1> DEFINE o == [mem[r].order EXCEPT !.hold = "disputed", !.disputeId = mem[r].of]
<1>1. at[r] = "freeze" /\ save(r, o, "done") /\ UNCHANGED <<disputes, completed, agreed, claimed>>
  BY DEF freeze, histories
<1>2. mem[r].of \in Disputes
  BY <1>1 DEF IInv, Knows, OfCopy
<1>3. /\ o \in Order /\ o.hold = "disputed" /\ o.disputeId = mem[r].of
      /\ o.trustCounted = mem[r].order.trustCounted
  BY <1>2, Copies DEF IInv, Order
<1> HIDE DEF o
<1>4. Fits(o)
  BY <1>1, <1>2, <1>3 DEF Fits, IInv, Knows, CountCopy, Sides
<1> QED BY <1>1, <1>3, <1>4, SaveKeeps

LEMMA UnfreezeKeeps == ASSUME IInv, NEW r \in Requests, unfreeze(r) PROVE IInv'
<1> DEFINE o == [mem[r].order EXCEPT !.hold = "held", !.disputeId = NoDispute]
<1>1. at[r] = "unfreeze" /\ save(r, o, "done") /\ UNCHANGED <<disputes, completed, agreed, claimed>>
  BY DEF unfreeze, histories
<1>2. /\ o \in Order /\ o.hold = "held" /\ o.disputeId = NoDispute
      /\ o.trustCounted = mem[r].order.trustCounted
  BY Copies DEF IInv, Order
<1> HIDE DEF o
<1>3. Fits(o)
  BY <1>1, <1>2 DEF Fits, IInv, Knows, CountCopy, Sides
<1> QED BY <1>1, <1>2, <1>3, SaveKeeps

LEMMA LetGoKeeps == ASSUME IInv, NEW r \in Requests, letGo(r) PROVE IInv'
<1> DEFINE o == [mem[r].order EXCEPT !.hold = "released"]
<1>1. at[r] = "letGo" /\ save(r, o, "done") /\ UNCHANGED <<disputes, completed, agreed, claimed>>
  BY DEF letGo, histories
<1>2. /\ o \in Order /\ o.hold = "released" /\ o.disputeId = mem[r].order.disputeId
      /\ o.trustCounted = mem[r].order.trustCounted
  BY Copies DEF IInv, Order
<1> HIDE DEF o
<1>3. Fits(o)
  BY <1>1, <1>2 DEF Fits, IInv, Knows, HoldCopy, OnHold, CountCopy, Sides
<1> QED BY <1>1, <1>2, <1>3, SaveKeeps

LEMMA PayOutKeeps == ASSUME IInv, NEW r \in Requests, payOut(r) PROVE IInv'
<1> DEFINE s == mem[r].doc.split
           o == [mem[r].order EXCEPT !.hold = IF s >= Held THEN "refunded" ELSE "released",
                                     !.disputeId = mem[r].of, !.paymentStatus = paymentOf(s)]
<1>1. at[r] = "payOut" /\ save(r, o, "done") /\ UNCHANGED <<disputes, completed, agreed, claimed>>
  BY DEF payOut, histories
<1>2. mem[r].of \in Disputes /\ mem[r].of # NoDispute
  BY <1>1, IdentifiersAssumption DEF IInv, Knows, OfCopy
<1>3. s \in agreed[mem[r].of] /\ s \in claimed[mem[r].of] /\ s \in Nat
  <2>1. s \in agreed[mem[r].of] /\ s \in claimed[mem[r].of]
    BY <1>1, <1>2 DEF IInv, Knows, DocCopy
  <2>2. s \in 0..Held
    BY Copies DEF IInv, Document
  <2> QED BY <2>1, <2>2, AmountsAssumption
<1>4. s < Held => mem[r].order.trustCounted
  BY <1>1 DEF IInv, Knows, CountCopy
<1> HIDE DEF s
<1>5. paymentOf(s) \in {"paid", "partially_paid", "refunded"}
  BY DEF paymentOf
<1>6. /\ o \in Order /\ o.hold = IF s >= Held THEN "refunded" ELSE "released"
      /\ o.disputeId = mem[r].of /\ o.paymentStatus = paymentOf(s)
      /\ o.trustCounted = mem[r].order.trustCounted
  BY <1>2, <1>5, Copies DEF IInv, Order
<1> HIDE DEF o
<1>7. Fits(o)
  <2>1. \A p \in Sides : o.trustCounted => completed[p] >= 1
    BY <1>1, <1>6 DEF IInv, Knows, CountCopy, Sides
  <2>2. o.hold = "released" => o.trustCounted
    BY <1>3, <1>4, <1>6, AmountsAssumption
  <2> QED BY <1>3, <1>6, <2>1, <2>2 DEF Fits
<1> QED BY <1>1, <1>6, <1>7, SaveKeeps

(* Commits of the dispute.                                                 *)

LEMMA SettleKeeps == ASSUME IInv, NEW r \in Requests, settle(r) PROVE IInv'
<1>1. PICK s \in Splits :
        /\ commit(r, [mem[r].doc EXCEPT !.status = "resolved", !.split = s], "assign")
        /\ agreed' = IF committed(r) THEN [agreed EXCEPT ![mem[r].of] = @ \cup {s}] ELSE agreed
  BY DEF settle
<1> DEFINE c == [mem[r].doc EXCEPT !.status = "resolved", !.split = s]
           new == [c EXCEPT !.version = @ + 1]
           copy == [mem[r] EXCEPT !.doc = new]
<1>2. at[r] = "act" /\ UNCHANGED <<order, completed, claimed>> /\ mem[r].of \in Disputes
  BY DEF settle, acts, IInv, Knows, OfCopy
<1>3. c \in Document /\ c.status = "resolved" /\ c.split = s
  BY Copies, AmountsAssumption DEF IInv, Document
<1>4. commit(r, c, "assign")
  BY <1>1
<1> HIDE DEF c
<1>5. new \in Document /\ new.status = "resolved" /\ new.split = s
  BY <1>3, Versioned
<1>6. committed(r) => goes(r, "assign", copy)
  BY <1>4 DEF commit, committed
<1> HIDE DEF new
<1>7. copy \in Copy /\ copy.order = mem[r].order /\ copy.of = mem[r].of /\ copy.doc = new
  BY <1>5, Copies DEF IInv, Copy
<1> HIDE DEF copy
<1>8. "assign" \in Steps
  BY DEF Steps
<1>9. committed(r) => at'[r] = "assign" /\ mem'[r] = copy
  BY <1>6, <1>7, <1>8, GoesTypes DEF IInv, Ends
<1>10. /\ agreed' \in [Disputes -> SUBSET Splits] /\ claimed' \in [Disputes -> SUBSET Splits]
       /\ \A d \in Disputes : agreed[d] \subseteq agreed'[d] /\ claimed[d] \subseteq claimed'[d]
       /\ committed(r) => s \in agreed'[mem[r].of]
  BY <1>1, <1>2 DEF IInv, TypeOK
<1>11. committed(r) => Knows(r)'
  BY <1>2, <1>5, <1>7, <1>9, <1>10 DEF IInv, Knows, OrderCopy, HoldCopy, OfCopy, DocCopy, CountCopy, WithOrder
<1> QED BY <1>2, <1>3, <1>4, <1>8, <1>10, <1>11, CommitKeeps

LEMMA WithdrawKeeps == ASSUME IInv, NEW r \in Requests, withdraw(r) PROVE IInv'
<1> DEFINE c == [mem[r].doc EXCEPT !.status = "withdrawn"]
           new == [c EXCEPT !.version = @ + 1]
           copy == [mem[r] EXCEPT !.doc = new]
           step == IF mem[r].order.hold = "disputed" THEN "unfreeze" ELSE "done"
<1>1. /\ at[r] = "act" /\ commit(r, c, step)
      /\ UNCHANGED <<order, completed, agreed, claimed>> /\ mem[r].of \in Disputes
  BY DEF withdraw, acts, histories, IInv, Knows, OfCopy
<1>2. c \in Document /\ c.status = "withdrawn"
  BY Copies DEF IInv, Document
<1> HIDE DEF c
<1>3. new \in Document /\ new.status = "withdrawn"
  BY <1>2, Versioned
<1>4. committed(r) => goes(r, step, copy)
  BY <1>1 DEF commit, committed
<1> HIDE DEF new
<1>5. copy \in Copy /\ copy.order = mem[r].order /\ copy.of = mem[r].of /\ copy.doc = new
  BY <1>3, Copies DEF IInv, Copy
<1> HIDE DEF copy
<1>6. step \in Steps /\ (step \notin Ends => step = "unfreeze" /\ mem[r].order.hold = "disputed")
  BY DEF Steps, Ends
<1> HIDE DEF step
<1>7. committed(r) /\ step \notin Ends => at'[r] = "unfreeze" /\ mem'[r] = copy
  BY <1>4, <1>5, <1>6, GoesTypes DEF IInv
<1>8. committed(r) /\ step \notin Ends => Knows(r)'
  BY <1>1, <1>3, <1>5, <1>6, <1>7
     DEF IInv, Knows, OrderCopy, HoldCopy, OfCopy, DocCopy, CountCopy, WithOrder
<1>9. agreed' \in [Disputes -> SUBSET Splits] /\ claimed' \in [Disputes -> SUBSET Splits]
  BY <1>1 DEF IInv, TypeOK
<1> QED BY <1>1, <1>2, <1>6, <1>8, <1>9, CommitKeeps

LEMMA ClaimKeeps == ASSUME IInv, NEW r \in Requests, claim(r) PROVE IInv'
<1> DEFINE c == [mem[r].doc EXCEPT !.release = TRUE]
           new == [c EXCEPT !.version = @ + 1]
           copy == [mem[r] EXCEPT !.doc = new]
           s == mem[r].doc.split
<1>1. /\ at[r] = "claim" /\ commit(r, c, "payOut") /\ UNCHANGED <<order, completed, agreed>>
      /\ claimed' = IF committed(r) THEN [claimed EXCEPT ![mem[r].of] = @ \cup {s}] ELSE claimed
  BY DEF claim
<1>2. /\ mem[r].of \in Disputes /\ mem[r].of # NoDispute
      /\ mem[r].doc.status = "resolved" /\ mem[r].order.hold = "disputed"
      /\ s < Held => mem[r].order.trustCounted
  BY <1>1, IdentifiersAssumption DEF IInv, Knows, OfCopy, DocCopy, HoldCopy, CountCopy
<1>3. s \in agreed[mem[r].of] /\ s \in Splits
  <2>1. s \in agreed[mem[r].of]
    BY <1>2 DEF IInv, Knows, DocCopy
  <2> QED BY <1>2, <2>1 DEF IInv, TypeOK
<1>4. c \in Document /\ c.status = "resolved" /\ c.split = s
  BY <1>2, Copies DEF IInv, Document
<1> HIDE DEF c
<1>5. new \in Document /\ new.status = "resolved" /\ new.split = s
  BY <1>4, Versioned
<1>6. committed(r) => goes(r, "payOut", copy)
  BY <1>1 DEF commit, committed
<1> HIDE DEF new
<1>7. copy \in Copy /\ copy.order = mem[r].order /\ copy.of = mem[r].of /\ copy.doc = new
  BY <1>5, Copies DEF IInv, Copy
<1> HIDE DEF copy
<1>8. "payOut" \in Steps /\ "payOut" \notin Ends
  BY DEF Steps, Ends
<1>9. committed(r) => at'[r] = "payOut" /\ mem'[r] = copy
  BY <1>6, <1>7, <1>8, GoesTypes DEF IInv
<1> HIDE DEF s
<1>10. /\ agreed' \in [Disputes -> SUBSET Splits] /\ claimed' \in [Disputes -> SUBSET Splits]
       /\ \A d \in Disputes : agreed[d] \subseteq agreed'[d] /\ claimed[d] \subseteq claimed'[d]
       /\ committed(r) => s \in claimed'[mem[r].of]
  BY <1>1, <1>2, <1>3 DEF IInv, TypeOK
<1>11. committed(r) => Knows(r)'
  BY <1>1, <1>2, <1>3, <1>5, <1>7, <1>9, <1>10
     DEF IInv, Knows, OrderCopy, HoldCopy, OfCopy, DocCopy, CountCopy, WithOrder
<1> QED BY <1>1, <1>2, <1>3, <1>4, <1>8, <1>10, <1>11, CommitKeeps

\* Unchecked: but what is written back was open.
LEMMA ReplyKeeps == ASSUME IInv, NEW r \in Requests, reply(r) PROVE IInv'
<1>1. /\ at[r] = "act" /\ mem[r].doc.status = "open"
      /\ disputes' = [disputes EXCEPT ![mem[r].of] = mem[r].doc]
      /\ goes(r, "done", NoCopy) /\ UNCHANGED <<order, completed, agreed, claimed>>
  BY DEF reply, acts, histories
<1>2. "done" \in Ends /\ "done" \in Steps
  BY DEF Ends, Steps
<1>3. TypeOK'
  BY <1>1, <1>2, Copies, GoesTypes DEF IInv, TypeOK
<1>4. Moves(r)
  BY <1>1, <1>2, Copies, GoesTypes DEF Moves, Frame, IInv, TypeOK, Sides
<1>5. Knows(r)'
  BY <1>1, <1>2, <1>3, Copies, EndsKnows DEF IInv
<1>6. DisputesAgreed'
  BY <1>1 DEF IInv, TypeOK, DisputesAgreed
<1> QED BY <1>1, <1>3, <1>4, <1>5, <1>6, StepKeeps

(* The two records.                                                        *)

LEMMA CountBuyerKeeps == ASSUME IInv, NEW r \in Requests, countBuyer(r) PROVE IInv'
<1> DEFINE o == [mem[r].order EXCEPT !.trustCounted = TRUE]
           copy == [mem[r] EXCEPT !.order = o]
<1>1. /\ at[r] = "countBuyer" /\ completed' = [completed EXCEPT !["buyer"] = @ + 1]
      /\ UNCHANGED <<order, disputes, agreed, claimed>>
  BY DEF countBuyer
<1>2. goes(r, "countSeller", copy)
  BY DEF countBuyer
<1>3. /\ o \in Order /\ o.hold = mem[r].order.hold /\ o.disputeId = mem[r].order.disputeId
      /\ o.log = mem[r].order.log /\ o.trustCounted
  BY Copies DEF IInv, Order
<1> HIDE DEF o
<1>4. copy \in Copy /\ copy.order = o /\ copy.of = mem[r].of /\ copy.doc = mem[r].doc
  BY <1>3, Copies DEF IInv, Copy
<1> HIDE DEF copy
<1>5. "countSeller" \in Steps /\ "countSeller" \notin Ends
  BY DEF Steps, Ends
<1>6. /\ completed["buyer"] \in Nat /\ completed'["buyer"] = completed["buyer"] + 1
      /\ completed["seller"] \in Nat /\ completed'["seller"] = completed["seller"]
      /\ completed' \in [Sides -> Nat]
  BY <1>1 DEF IInv, TypeOK, Sides
<1>7. TypeOK'
  BY <1>1, <1>2, <1>4, <1>5, <1>6, GoesTypes DEF IInv, TypeOK
<1>8. Moves(r)
  BY <1>1, <1>2, <1>4, <1>5, <1>6, GoesTypes DEF Moves, Frame, IInv, TypeOK, Sides
<1>9. at'[r] = "countSeller" /\ mem'[r] = copy
  BY <1>2, <1>4, <1>5, GoesTypes DEF IInv
<1>10. Knows(r)'
  BY <1>1, <1>3, <1>4, <1>6, <1>9
     DEF IInv, Knows, OrderCopy, HoldCopy, OnHold, OfCopy, DocCopy, CountCopy, WithOrder
<1>11. DisputesAgreed'
  BY <1>1 DEF IInv, DisputesAgreed
<1> QED BY <1>1, <1>7, <1>8, <1>10, <1>11, StepKeeps

LEMMA CountSellerKeeps == ASSUME IInv, NEW r \in Requests, countSeller(r) PROVE IInv'
<1> DEFINE step == IF mem[r].of = NoDispute THEN "letGo" ELSE "claim"
<1>1. /\ at[r] = "countSeller" /\ completed' = [completed EXCEPT !["seller"] = @ + 1]
      /\ goes(r, step, mem[r]) /\ UNCHANGED <<order, disputes, agreed, claimed>>
  BY DEF countSeller
<1>2. step \in Steps /\ step \notin Ends
  BY DEF Steps, Ends
<1>3. /\ completed["buyer"] \in Nat /\ completed'["buyer"] = completed["buyer"]
      /\ completed["seller"] \in Nat /\ completed'["seller"] = completed["seller"] + 1
      /\ completed' \in [Sides -> Nat]
  BY <1>1 DEF IInv, TypeOK, Sides
<1>4. TypeOK'
  BY <1>1, <1>2, <1>3, Copies, GoesTypes DEF IInv, TypeOK
<1>5. Moves(r)
  BY <1>1, <1>2, <1>3, Copies, GoesTypes DEF Moves, Frame, IInv, TypeOK, Sides
<1>6. at'[r] = step /\ mem'[r] = mem[r]
  BY <1>1, <1>2, Copies, GoesTypes DEF IInv
<1>7. mem[r].of \in Disputes \cup {NoDispute}
  BY Copies DEF IInv, Copy
<1>8. Knows(r)'
  BY <1>1, <1>3, <1>6, <1>7
     DEF IInv, Knows, OrderCopy, HoldCopy, OnHold, OfCopy, DocCopy, CountCopy, WithOrder
<1>9. DisputesAgreed'
  BY <1>1 DEF IInv, DisputesAgreed
<1> QED BY <1>1, <1>4, <1>5, <1>8, <1>9, StepKeeps

-----------------------------------------------------------------------------
(* The theorems.                                                           *)

LEMMA InitInv == Init => IInv
<1> SUFFICES ASSUME Init PROVE IInv
  OBVIOUS
<1>1. NoCopy \in Copy /\ Absent \in Document /\ NoCopy.order \in Order
  BY IdentifiersAssumption, AmountsAssumption DEF NoCopy, Copy, Order, Document, Absent
<1>2. /\ NoCopy.order.hold = "held" /\ NoCopy.order.disputeId = NoDispute
      /\ NoCopy.order.log = 0 /\ ~NoCopy.order.trustCounted
  BY DEF NoCopy
<1>3. \A d \in Disputes : disputes[d] \in Document /\ disputes[d].status # "resolved"
  <2>1. Absent.status # "resolved" /\ Opened.status # "resolved"
    BY OpenedDocument DEF Absent
  <2>2. \A d \in Disputes : disputes[d] \in {Absent, Opened}
    BY DEF Init
  <2> QED BY <1>1, <2>1, <2>2, OpenedDocument
<1>4. disputes \in [Disputes -> Document]
  BY <1>1, OpenedDocument DEF Init
<1>5. /\ order \in Order /\ order.hold \in {"held", "disputed"} /\ ~order.trustCounted
      /\ order.hold = "held" => order.disputeId = NoDispute
      /\ order.hold = "disputed" => order.disputeId \in Disputes
  <2>1. CASE order = NoCopy.order
    BY <1>1, <1>2, <2>1
  <2>2. CASE \E d \in Disputes : order = [NoCopy.order EXCEPT !.hold = "disputed", !.disputeId = d]
    BY <1>1, <1>2, <2>2 DEF Order
  <2> QED BY <2>1, <2>2 DEF Init
<1>6. TypeOK
  BY <1>1, <1>4, <1>5 DEF Init, TypeOK, Steps
<1>7. \A r \in Requests : Knows(r)
  BY <1>6, EndedKnows DEF Init
<1> QED BY <1>3, <1>5, <1>6, <1>7
        DEF IInv, DisputesAgreed, MarkIsCounted, PaidAsAgreed, ReleasedIsCounted

LEMMA NextInv == IInv /\ [Next]_vars => IInv'
<1> SUFFICES ASSUME IInv, [Next]_vars PROVE IInv'
  OBVIOUS
<1>1. CASE UNCHANGED vars
  BY <1>1 DEF vars, IInv, TypeOK, DisputesAgreed, MarkIsCounted, PaidAsAgreed, ReleasedIsCounted,
              Knows, OrderCopy, HoldCopy, OnHold, OfCopy, DocCopy, CountCopy
<1>2. ASSUME NEW r \in Requests, Step(r) PROVE IInv'
  BY <1>2, OpenKeeps, ListKeeps, CreateKeeps, FreezeKeeps, LoadKeeps, AssignReleaseKeeps,
     ReadOrderKeeps, SettleKeeps, WithdrawKeeps, UnfreezeKeeps, ReleaseKeeps, ReceiveKeeps,
     CountBuyerKeeps, CountSellerKeeps, LetGoKeeps, ClaimKeeps, PayOutKeeps, ReplyKeeps, DieKeeps
     DEF Step
<1> QED BY <1>1, <1>2 DEF Next

LEMMA InvHolds == Spec => []IInv
BY InitInv, NextInv, PTL DEF Spec

\* Orders, disputes and the copies of them have their types, and an order on
\* hold names a dispute exactly if one has frozen it.
THEOREM TypeCorrect == Spec => []TypeOK
<1>1. IInv => TypeOK
  BY DEF IInv
<1> QED BY <1>1, InvHolds, PTL

\* Whatever is settled, replied to, reopened or lost: held money that a dispute
\* let go went as one of its results said, and was claimed on it (moveHeld).
THEOREM PaidOutAsAgreed == Spec => []PaidAsAgreed
<1>1. IInv => PaidAsAgreed
  BY DEF IInv
<1> QED BY <1>1, InvHolds, PTL

\* A trade that is done is on the records of both (countCompleted).
THEOREM DoneIsCounted == Spec => []ReleasedIsCounted
<1>1. IInv => ReleasedIsCounted
  BY DEF IInv
<1> QED BY <1>1, InvHolds, PTL

\* Who writes the order read it on hold, and nobody has written it since.
LEMMA WritesOnHold ==
  ASSUME IInv, NEW r \in Requests, Step(r), order' # order
  PROVE  order.hold \in {"held", "disputed"}
<1>1. at[r] \in {"freeze", "unfreeze", "letGo", "payOut"} /\ order.log = mem[r].order.log
  <2>1. ASSUME NEW o, save(r, o, "done"), o.log = mem[r].order.log PROVE order.log = mem[r].order.log
    BY <2>1 DEF save
  <2>2. freeze(r) \/ unfreeze(r) \/ letGo(r) \/ payOut(r)
    BY DEF Step, open, list, create, load, assignRelease, readOrder, settle, withdraw, release,
           receive, countBuyer, countSeller, claim, reply, die
  <2>3. mem[r].order \in Order
    BY Copies DEF IInv
  <2>4. CASE freeze(r)
    <3> DEFINE o == [mem[r].order EXCEPT !.hold = "disputed", !.disputeId = mem[r].of]
    <3>1. at[r] = "freeze" /\ save(r, o, "done")
      BY <2>4 DEF freeze
    <3>2. o.log = mem[r].order.log
      BY <2>3 DEF Order
    <3> HIDE DEF o
    <3> QED BY <2>1, <3>1, <3>2
  <2>5. CASE unfreeze(r)
    <3> DEFINE o == [mem[r].order EXCEPT !.hold = "held", !.disputeId = NoDispute]
    <3>1. at[r] = "unfreeze" /\ save(r, o, "done")
      BY <2>5 DEF unfreeze
    <3>2. o.log = mem[r].order.log
      BY <2>3 DEF Order
    <3> HIDE DEF o
    <3> QED BY <2>1, <3>1, <3>2
  <2>6. CASE letGo(r)
    <3> DEFINE o == [mem[r].order EXCEPT !.hold = "released"]
    <3>1. at[r] = "letGo" /\ save(r, o, "done")
      BY <2>6 DEF letGo
    <3>2. o.log = mem[r].order.log
      BY <2>3 DEF Order
    <3> HIDE DEF o
    <3> QED BY <2>1, <3>1, <3>2
  <2>7. CASE payOut(r)
    <3> DEFINE s == mem[r].doc.split
               o == [mem[r].order EXCEPT !.hold = IF s >= Held THEN "refunded" ELSE "released",
                                         !.disputeId = mem[r].of, !.paymentStatus = paymentOf(s)]
    <3>1. at[r] = "payOut" /\ save(r, o, "done")
      BY <2>7 DEF payOut
    <3>2. o.log = mem[r].order.log
      BY <2>3 DEF Order
    <3> HIDE DEF o
    <3> QED BY <2>1, <3>1, <3>2
  <2> QED BY <2>2, <2>4, <2>5, <2>6, <2>7
<1>2. mem[r].order.hold \in {"held", "disputed"}
  BY <1>1 DEF IInv, Knows, HoldCopy, OnHold
<1>3. mem[r].order.hold = order.hold
  BY <1>1 DEF IInv, Knows, OrderCopy, WithOrder
<1> QED BY <1>2, <1>3

\* However confirmations, windows, settlements and releases cross, the money on
\* hold leaves once: an order it has left is not written again.
THEOREM MoneyLeavesOnce == Spec => HoldLeavesOnce
<1>1. IInv /\ [Next]_vars => [order.hold \in {"held", "disputed"}]_order
  BY WritesOnHold DEF Next, vars
<1> QED BY <1>1, InvHolds, PTL DEF Spec, HoldLeavesOnce
=============================================================================
