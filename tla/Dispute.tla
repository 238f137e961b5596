------------------------------ MODULE Dispute ------------------------------
(***************************************************************************)
(* One dispute before community managers: its rounds and decisions, the    *)
(* settlement the parties may reach instead, its result and the two        *)
(* records it counts on (api/src/community.ts and                          *)
(* api/src/functions/dispute-routes.ts, by the rules of                    *)
(* shared/disputes.ts).                                                    *)
(*                                                                         *)
(* A request reads the document, brings it up to date with the clock, acts *)
(* on its copy and commits that if the document's version has not moved.   *)
(* A reply alone is not committed: DisputeReply has it.  HeldDispute has   *)
(* the money a dispute may be about.                                       *)
(***************************************************************************)
EXTENDS Naturals, Sequences, FiniteSets, FiniteSetsExt, Functions

CONSTANTS Raiser, Respondent,
          People,        \* everybody appointed a manager at first, maybe a party too
          Rank,          \* how busy, and then how new, each of them is: the least is picked
          First,         \* who has the first round: the purchase's, or the one the raiser chose
          Requests,
          Handlers,      \* what requests may ask for
          MaxDecisions,  \* bounds: decisions given and offers made
          MaxOffers

MAX_ROUNDS == 3
Parties == {Raiser, Respondent}

ASSUME PartiesAssumption == Raiser # Respondent
ASSUME PeopleAssumption == Rank \in [People -> Nat] /\ First \in People \ Parties
ASSUME HandlersAssumption ==
  Handlers \subseteq {"offer", "accept", "withdraw", "decide", "escalate", "agree", "dismiss", "late"}
ASSUME BoundsAssumption == MaxDecisions \in Nat /\ MaxOffers \in Nat

VARIABLES dispute,    \* the document
          appointed,  \* who is a community manager now
          lapsed,     \* deadlines that have passed: 0 to answer, n after the n-th decision
          at, mem,    \* of each request: its next step, and its copy of the document
          decisions,  \* history: decisions given
          offers,     \* history: who made each offer
          finals,     \* history: times a result was made final
          record      \* what the parties' profiles count

vars == <<dispute, appointed, lapsed, at, mem, decisions, offers, finals, record>>

Favours == {"raiser", "respondent"}
Managers == People \cup Parties
NoRequest == [doc |-> <<>>, todo |-> <<>>]

Round == [managerId : Managers, reassigned : SUBSET Managers,
          decision : Favours \cup {"none"}, payment : BOOLEAN]
Status == {"awaiting_response", "in_discussion", "decided", "resolved", "withdrawn"}
Result == [how : {"none", "settled", "decided", "withdrawn"},
           favour : Favours \cup {"none"}, round : 0..MAX_ROUNDS, terms : Nat]
NoResult == [how |-> "none", favour |-> "none", round |-> 0, terms |-> 0]

-----------------------------------------------------------------------------
(* shared/disputes.ts                                                      *)

isClosed(d) == d.status \in {"resolved", "withdrawn"}
currentRound(d) == d.rounds[Len(d.rounds)]
managing(d) == currentRound(d).managerId
decided(d) == currentRound(d).decision # "none"

decisionsOf(d) == {n \in DOMAIN d.rounds : d.rounds[n].decision # "none"}
inFavour(d, f) == {n \in decisionsOf(d) : d.rounds[n].decision = f}

earliestDecision(d) ==   \* slip: of two that agree, the first is carried out
  IF \E f \in Favours : Cardinality(inFavour(d, f)) >= 2
  THEN LET f == CHOOSE f \in Favours : Cardinality(inFavour(d, f)) >= 2
       IN  [favour |-> f, round |-> Min(inFavour(d, f))]
  ELSE LET n == Max(decisionsOf(d)) IN [favour |-> d.rounds[n].decision, round |-> n]

\* Two that agree, or else the latest.
standingDecision(d) ==
  IF \E f \in Favours : Cardinality(inFavour(d, f)) >= 2
  THEN LET f == CHOOSE f \in Favours : Cardinality(inFavour(d, f)) >= 2
       IN  [favour |-> f, round |-> Max(inFavour(d, f))]
  ELSE LET n == Max(decisionsOf(d)) IN [favour |-> d.rounds[n].decision, round |-> n]

majorityReached(d) == \E f \in Favours : Cardinality(inFavour(d, f)) >= 2
other(p) == IF p = Raiser THEN Respondent ELSE Raiser
sideOf(f) == IF f = "raiser" THEN Raiser ELSE Respondent
losingPartyOfLatest(d) == other(sideOf(d.rounds[Max(decisionsOf(d))].decision))

escalationTimeless(d) ==   \* slip: the window has no end
  d.status = "decided" /\ Len(d.rounds) < MAX_ROUNDS /\ ~majorityReached(d) /\ d.escalateBy # 0

escalationOpen(d) ==
  /\ d.status = "decided"
  /\ Len(d.rounds) < MAX_ROUNDS
  /\ ~majorityReached(d)
  /\ d.escalateBy # 0 /\ d.escalateBy \notin lapsed

bothAgreed(d) == decided(d) /\ Parties \subseteq d.agreements
finalDue(d) == d.status = "decided" /\ (bothAgreed(d) \/ ~escalationOpen(d))

\* Round one waits for the other side's answer, or for their days to pass.
heard(d) == ~(Len(d.rounds) = 1 /\ d.status = "awaiting_response" /\ 0 \notin lapsed)

-----------------------------------------------------------------------------
(* community.ts: who may be given a round, and the final result.           *)

heldRound(d) == UNION {{d.rounds[n].managerId} \cup d.rounds[n].reassigned : n \in DOMAIN d.rounds}
excludedFrom(d) == Parties \cup heldRound(d)
deciders(d) == {d.rounds[n].managerId : n \in decisionsOf(d)}

foremost(S) == {m \in S : \A n \in S : Rank[m] <= Rank[n]}

pickAgain(d) == foremost(appointed \ (Parties \cup {managing(d)}))   \* slip: one who decided may be picked

\* Whoever has not touched it; failing that, one it was only taken away from.
pickManagerFor(d) ==
  IF appointed \ excludedFrom(d) # {} THEN foremost(appointed \ excludedFrom(d))
  ELSE foremost(appointed \ (Parties \cup deciders(d) \cup {managing(d)}))

newRound(m) == [managerId |-> m, reassigned |-> {}, decision |-> "none", payment |-> FALSE]

reassignRound(d, m) ==
  LET r == currentRound(d) IN
  [d EXCEPT !.rounds[Len(d.rounds)] =
     [r EXCEPT !.managerId = m, !.reassigned = r.reassigned \cup {r.managerId}]]

finalized(d) ==
  LET s == standingDecision(d) IN
  [d EXCEPT !.status = "resolved", !.escalateBy = 0, !.offer = 0,
            !.result = [how |-> "decided", favour |-> s.favour, round |-> s.round, terms |-> 0]]

\* Who is counted: a win only if the other side took part.
countsOf(d) ==
  LET winner == sideOf(standingDecision(d).favour) IN
  <<<<other(winner), "lost">>>> \o (IF d.answered THEN <<<<winner, "won">>>> ELSE <<>>)

-----------------------------------------------------------------------------
(* Steps of a request.                                                     *)

goes(r, step) == at' = [at EXCEPT ![r] = step]
ends(r) == goes(r, "idle") /\ mem' = [mem EXCEPT ![r] = NoRequest]

saved(r, d, step, todo) ==
  /\ dispute' = d
  /\ IF step = "idle" THEN ends(r)
     ELSE goes(r, step) /\ mem' = [mem EXCEPT ![r] = [doc |-> d, todo |-> todo]]
  /\ finals' = IF todo # <<>> THEN finals + 1 ELSE finals

commitBlind(r, d, step, todo) ==   \* slip: written whatever the version is by now
  saved(r, [d EXCEPT !.version = @ + 1], step, todo)

\* Saved only if nobody committed since d was read; otherwise "reload".  What a
\* request still has to count (todo) comes with a result it has made final.
commit(r, d, step, todo) ==
  IF dispute.version = d.version
  THEN saved(r, [d EXCEPT !.version = @ + 1], step, todo)
  ELSE ends(r) /\ UNCHANGED <<dispute, finals>>

finalizeCounted(r, d) ==   \* slip: counted by whoever finds it due
  \/ commit(r, finalized(d), "count", countsOf(d)) /\ dispute' # dispute
  \/ /\ dispute.version # d.version
     /\ goes(r, "count") /\ mem' = [mem EXCEPT ![r].todo = countsOf(d)]
     /\ UNCHANGED <<dispute, finals>>

\* finalizeDecided: the result is claimed, and then counted.
finalizeDecided(r, d) == commit(r, finalized(d), "count", countsOf(d))

elsewhere == UNCHANGED <<appointed, lapsed>>
histories == UNCHANGED <<decisions, offers, record>>

-----------------------------------------------------------------------------
Init ==
  /\ dispute = [status |-> "awaiting_response", rounds |-> <<newRound(First)>>, agreements |-> {},
                escalateBy |-> 0, offer |-> 0, answered |-> FALSE, result |-> NoResult, version |-> 0]
  /\ appointed = People
  /\ lapsed = {}
  /\ at = [r \in Requests |-> "idle"]
  /\ mem = [r \in Requests |-> NoRequest]
  /\ decisions = 0
  /\ offers = <<>>
  /\ finals = 0
  /\ record = [p \in Parties |-> [lost |-> 0, won |-> 0, settled |-> 0]]

(* loadDispute, or one turn of the clock's loop: the copy is brought up to *)
(* date first.  Who is beaten to that takes what the other made of it.     *)

\* A manager who is gone loses the round, and so does one who is two days late
\* (which may be any time), or whom an operator takes it from.
\* Bound: a round is moved once.
movable(d) == ~isClosed(d) /\ ~decided(d) /\ currentRound(d).reassigned = {} /\ pickManagerFor(d) # {}
gone(d) == movable(d) /\ managing(d) \notin appointed

load(r) ==
  /\ at[r] = "idle"
  /\ ~isClosed(dispute)
  /\ mem' = [mem EXCEPT ![r].doc = dispute]
  /\ \/ finalDue(dispute) /\ goes(r, "final")
     \/ (gone(dispute) \/ (movable(dispute) /\ "late" \in Handlers)) /\ goes(r, "move")
     \/ ~finalDue(dispute) /\ ~gone(dispute) /\ goes(r, "ready")
  /\ histories /\ elsewhere /\ UNCHANGED <<dispute, finals>>

takesTheirs(r) ==
  /\ IF isClosed(dispute) THEN ends(r) ELSE goes(r, "ready") /\ mem' = [mem EXCEPT ![r].doc = dispute]
  /\ UNCHANGED <<dispute, finals>>

bringFinal(r) ==
  LET d == mem[r].doc IN
  /\ at[r] = "final"
  /\ \/ finalizeDecided(r, d) /\ dispute.version = d.version
     \/ takesTheirs(r) /\ dispute.version # d.version
  /\ histories /\ elsewhere

moveRound(r) ==
  LET d == mem[r].doc IN
  /\ at[r] = "move"
  /\ \E m \in pickManagerFor(d) :
       IF dispute.version = d.version THEN commit(r, reassignRound(d, m), "ready", <<>>) ELSE takesTheirs(r)
  /\ histories /\ elsewhere

\* bump, on one profile after the other.
bump(r) ==
  LET c == Head(mem[r].todo) IN
  /\ at[r] = "count"
  /\ record' = [record EXCEPT ![c[1]][c[2]] = @ + 1]
  /\ IF Len(mem[r].todo) = 1 THEN ends(r)
     ELSE mem' = [mem EXCEPT ![r].todo = Tail(@)] /\ UNCHANGED at
  /\ elsewhere /\ UNCHANGED <<dispute, decisions, offers, finals>>

\* The clock goes on to the next dispute, a reader has what they asked for, or
\* the request is refused or lost.
leave(r) ==
  /\ at[r] \notin {"idle", "final"}
  /\ ends(r)
  /\ histories /\ elsewhere /\ UNCHANGED <<dispute, finals>>

-----------------------------------------------------------------------------
(* The routes.                                                             *)

acts(r, op) == at[r] = "ready" /\ op \in Handlers

\* Only the other side's word is an answer.
spoken(d, p) ==
  IF p # Respondent THEN d
  ELSE [d EXCEPT !.answered = TRUE,
                 !.status = IF @ = "awaiting_response" THEN "in_discussion" ELSE @]
said(d, p) == [d EXCEPT !.answered = @ \/ p = Respondent]

offer(r) ==
  LET d == mem[r].doc IN
  /\ acts(r, "offer")
  /\ Len(offers) < MaxOffers
  /\ \E p \in Parties :
       /\ commit(r, [spoken(d, p) EXCEPT !.offer = Len(offers) + 1], "idle", <<>>)
       /\ offers' = IF dispute' # dispute THEN Append(offers, p) ELSE offers
  /\ elsewhere /\ UNCHANGED <<decisions, record>>

settled(d, p) ==
  [said(d, p) EXCEPT !.status = "resolved", !.escalateBy = 0, !.offer = 0,
                     !.result = [NoResult EXCEPT !.how = "settled", !.terms = d.offer]]

\* The other side's offer.  Bound: whoever was shown another one than this is
\* refused, and does not come here.
accept(r) ==
  LET d == mem[r].doc IN
  /\ acts(r, "accept")
  /\ d.offer # 0
  /\ \E p \in Parties \ {offers[d.offer]} :
       commit(r, settled(d, p), "count", <<<<Raiser, "settled">>, <<Respondent, "settled">>>>)
  /\ histories /\ elsewhere

\* By the raiser, before anybody has decided anything.
withdraw(r) ==
  LET d == mem[r].doc IN
  /\ acts(r, "withdraw")
  /\ decisionsOf(d) = {}
  /\ commit(r, [d EXCEPT !.status = "withdrawn", !.offer = 0, !.result = [NoResult EXCEPT !.how = "withdrawn"]],
            "idle", <<>>)
  /\ histories /\ elsewhere

\* By the manager on the round, if still a manager.
decide(r) ==
  LET d == mem[r].doc IN
  /\ acts(r, "decide")
  /\ managing(d) \in appointed /\ ~decided(d) /\ heard(d)
  /\ decisions < MaxDecisions
  /\ \E f \in Favours :
       LET e == [d EXCEPT !.rounds[Len(d.rounds)].decision = f, !.agreements = {},
                          !.status = "decided", !.escalateBy = decisions + 1]
       IN  IF escalationOpen(e) THEN commit(r, e, "idle", <<>>) ELSE finalizeDecided(r, e)
  /\ decisions' = IF dispute' # dispute THEN decisions + 1 ELSE decisions
  /\ elsewhere /\ UNCHANGED <<offers, record>>

agree(r) ==
  LET d == mem[r].doc IN
  /\ acts(r, "agree")
  /\ d.status = "decided"
  /\ \E p \in Parties \ d.agreements :
       LET e == [said(d, p) EXCEPT !.agreements = @ \cup {p}]
       IN  IF bothAgreed(e) THEN finalizeDecided(r, e) ELSE commit(r, e, "idle", <<>>)
  /\ histories /\ elsewhere

escalateOpen(r) ==   \* slip: the window of the decision before is left open
  LET d == mem[r].doc IN
  /\ acts(r, "escalate")
  /\ escalationOpen(d)
  /\ \E m \in pickManagerFor(d) :
       commit(r, [said(d, losingPartyOfLatest(d)) EXCEPT
                    !.rounds = Append(@, newRound(m)), !.status = "in_discussion", !.offer = 0],
              "charge", <<>>)
  /\ histories /\ elsewhere

\* By the side the latest decision went against: the round is claimed...
escalate(r) ==
  LET d == mem[r].doc IN
  /\ acts(r, "escalate")
  /\ escalationOpen(d)
  /\ \E m \in pickManagerFor(d) :
       commit(r, [said(d, losingPartyOfLatest(d)) EXCEPT
                    !.rounds = Append(@, newRound(m)), !.status = "in_discussion",
                    !.escalateBy = 0, !.offer = 0],
              "charge", <<>>)
  /\ histories /\ elsewhere

\* ...its fee is taken...
charge(r) ==
  /\ at[r] = "charge"
  /\ goes(r, "receipt")
  /\ elsewhere /\ UNCHANGED <<dispute, mem, decisions, offers, finals, record>>

\* ...and noted on the round.
receipt(r) ==
  LET d == mem[r].doc IN
  /\ at[r] = "receipt"
  /\ commit(r, [d EXCEPT !.rounds[Len(d.rounds)].payment = TRUE], "idle", <<>>)
  /\ histories /\ elsewhere

-----------------------------------------------------------------------------
(* Around them.                                                            *)

\* An operator takes an appointment away.  Bound: once, from who is deciding.
dismiss(m) ==
  /\ "dismiss" \in Handlers
  /\ appointed = People
  /\ m = managing(dispute) /\ ~isClosed(dispute) /\ ~decided(dispute)
  /\ appointed' = appointed \ {m}
  /\ histories /\ UNCHANGED <<dispute, lapsed, at, mem, finals>>

lapse(n) ==
  /\ n = dispute.escalateBy
  /\ n # 0 \/ dispute.status = "awaiting_response"
  /\ n \notin lapsed
  /\ lapsed' = lapsed \cup {n}
  /\ histories /\ UNCHANGED <<dispute, appointed, at, mem, finals>>

Step(r) ==
  \/ load(r) \/ moveRound(r) \/ bringFinal(r) \/ bump(r) \/ leave(r)
  \/ offer(r) \/ accept(r) \/ withdraw(r)
  \/ decide(r) \/ agree(r) \/ escalate(r) \/ charge(r) \/ receipt(r)

Next ==
  \/ \E r \in Requests : Step(r)
  \/ \E m \in People : dismiss(m)
  \/ \E n \in 0..MaxDecisions : lapse(n)

Spec == Init /\ [][Next]_vars

\* The hourly job comes round again and again, in whichever slot is free,
\* requests are carried through or end, and time passes.
Fairness ==
  /\ \A r \in Requests : WF_vars(load(r)) /\ WF_vars(at[r] # "idle" /\ Step(r))
  /\ \A n \in 0..MaxDecisions : WF_vars(lapse(n))

FairSpec == Spec /\ Fairness

-----------------------------------------------------------------------------
(* Properties.                                                             *)

IsDoc(d) ==
  /\ DOMAIN d = {"status", "rounds", "agreements", "escalateBy", "offer", "answered", "result", "version"}
  /\ d.status \in Status
  /\ Len(d.rounds) \in 1..MAX_ROUNDS
  /\ \A n \in DOMAIN d.rounds : d.rounds[n] \in Round
  /\ d.agreements \subseteq Parties
  /\ d.escalateBy \in 0..MaxDecisions /\ d.offer \in 0..Len(offers)
  /\ d.escalateBy # 0 <=> d.status = "decided"
  /\ d.answered \in BOOLEAN /\ d.result \in Result /\ d.version \in Nat

\* The shapes of the document, of the copies requests hold and of the records.
TypeOK ==
  /\ IsDoc(dispute)
  /\ \A r \in Requests : at[r] # "idle" => IsDoc(mem[r].doc)
  /\ at \in [Requests -> {"idle", "final", "move", "ready", "count", "charge", "receipt"}]
  /\ lapsed \subseteq 0..MaxDecisions
  /\ finals \in Nat /\ decisions \in 0..MaxDecisions

\* A result is made final once, however many readers, parties and managers
\* arrive at the same moment (finalizeDecided, accept).
FinalOnce == finals <= 1

\* Nothing counts on anybody's record but a result that was made final: at
\* most one defeat a result, won by the other side, and one settlement each.
CountsAreFinal ==
  /\ record[Raiser].lost + record[Respondent].lost + record[Raiser].settled <= finals
  /\ record[Raiser].settled >= record[Respondent].settled
  /\ \A p \in Parties : record[p].won <= record[other(p)].lost

\* The final result is the one most decisions favour or, if they are even, the
\* last; the round it names is the last that decided so, and none is open.
ResultIsBestOfRounds ==
  LET f == dispute.result.favour
      against == {n \in DOMAIN dispute.rounds : dispute.rounds[n].decision \notin {f, "none"}}
      for == inFavour(dispute, f)
  IN  dispute.result.how = "decided" =>
        /\ \A n \in DOMAIN dispute.rounds : dispute.rounds[n].decision # "none"
        /\ Cardinality(against) <= Cardinality(for)
        /\ Cardinality(against) = Cardinality(for) => Len(dispute.rounds) \in for
        /\ dispute.result.round \in for
        /\ \A n \in for : n <= dispute.result.round

\* No round is ever with a party, nor with a manager who has decided another.
ManagersAreFresh ==
  \A n \in DOMAIN dispute.rounds :
    /\ dispute.rounds[n].managerId \notin Parties
    /\ \A k \in decisionsOf(dispute) : k # n => dispute.rounds[k].managerId # dispute.rounds[n].managerId

\* A decision becomes final or is escalated: nobody has to remember to.
DecisionIsAnswered == dispute.status = "decided" ~> dispute.status # "decided"
=============================================================================
