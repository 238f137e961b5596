--------------------------- MODULE DisputeProofs ---------------------------
(***************************************************************************)
(* Dispute, for any two parties, any managers, requests and bounds: its    *)
(* types, that a result is made final once, that it is what most decisions *)
(* favour, that records are of that result, and that no round is with a    *)
(* party or with a manager who has decided another.                        *)
(*                                                                         *)
(* A request acts on a copy that was not closed when it was read.  If its  *)
(* commit is accepted nobody has committed since, so the dispute is not    *)
(* closed either, and nothing has been made final (CopyOpen, FinalsTold).  *)
(* Rounds are given to somebody who has not decided one, and all but the   *)
(* last are decided, so no two are with one manager (Fresh).  Of three     *)
(* rounds the two that agree outnumber the third (StandingIsBest).  One    *)
(* request counts a result, and the records and what it has left to count  *)
(* are always those of one (CountInv).                                     *)
(***************************************************************************)
EXTENDS Dispute, FiniteSetTheorems, SequenceTheorems, TLAPS

Doc == [status : Status, rounds : Seq(Round), agreements : SUBSET Parties, escalateBy : Nat,
        offer : Nat, answered : BOOLEAN, result : Result, version : Nat]
Counts == Seq(Parties \X {"lost", "won", "settled"})
Working == {"idle", "final", "move", "ready", "count", "charge", "receipt"}

\* Rounds are decided one after another, each by somebody else.
Fresh(rounds) ==
  /\ Len(rounds) \in 1..MAX_ROUNDS
  /\ \A n \in 1..Len(rounds) : rounds[n].managerId \notin Parties
  /\ \A n \in 1..Len(rounds), k \in 1..Len(rounds) : n # k => rounds[n].managerId # rounds[k].managerId
  /\ \A n \in 1..Len(rounds) : n < Len(rounds) => rounds[n].decision # "none"

\* A document of a dispute in which so many offers were made.
Sound(d, made) ==
  /\ d \in Doc
  /\ Fresh(d.rounds)
  /\ d.escalateBy <= MaxDecisions
  /\ d.offer <= made
  /\ d.escalateBy # 0 <=> d.status = "decided"
  /\ d.status = "decided" => d.rounds[Len(d.rounds)].decision # "none"

\* What a request has read was open, and still is if nobody has committed since.
CopyOpen(r) ==
  at[r] \in {"final", "move", "ready", "charge", "receipt"} =>
    /\ ~isClosed(mem[r].doc)
    /\ mem[r].doc.version <= dispute.version
    /\ mem[r].doc.version = dispute.version => ~isClosed(dispute)

Holds(r) ==
  /\ at[r] # "idle" => Sound(mem[r].doc, Len(offers))
  /\ at[r] = "final" => mem[r].doc.status = "decided"
  /\ at[r] = "count" => mem[r].todo # <<>>
  /\ CopyOpen(r)

\* Made final once if the dispute is resolved, and else not yet.
FinalsTold == finals = IF dispute.status = "resolved" THEN 1 ELSE 0

IInv ==
  /\ at \in [Requests -> Working]
  /\ mem \in [Requests -> [doc : Doc \cup {<<>>}, todo : Counts]]
  /\ appointed \subseteq People /\ lapsed \subseteq 0..MaxDecisions
  /\ decisions \in 0..MaxDecisions /\ offers \in Seq(Parties)
  /\ Sound(dispute, Len(offers))
  /\ FinalsTold
  /\ \A r \in Requests : Holds(r)

-----------------------------------------------------------------------------
(* Documents and their rounds.                                             *)

LEMMA OfParties == Raiser \in Parties /\ Respondent \in Parties /\ Parties \subseteq Managers
BY DEF Parties, Managers

\* Which of a few rounds is the last there always is.
LEMMA MaxOfRounds ==
  ASSUME NEW S, S \subseteq 1..MAX_ROUNDS, S # {}
  PROVE  Max(S) \in S /\ \A k \in S : Max(S) >= k
<1>1. \E n \in S : \A k \in S : n >= k
  <2>1. S \subseteq {1, 2, 3}
    BY DEF MAX_ROUNDS
  <2>2. CASE 3 \in S
    BY <2>1, <2>2
  <2>3. CASE 3 \notin S /\ 2 \in S
    BY <2>1, <2>3
  <2>4. CASE 3 \notin S /\ 2 \notin S
    <3>1. S = {1}
      BY <2>1, <2>4
    <3> QED BY <3>1
  <2> QED BY <2>2, <2>3, <2>4
<1> QED BY <1>1 DEF Max

LEMMA RoundsOf ==
  ASSUME NEW d, NEW made, Sound(d, made)
  PROVE  /\ DOMAIN d.rounds = 1..Len(d.rounds)
         /\ Len(d.rounds) \in DOMAIN d.rounds /\ DOMAIN d.rounds \subseteq 1..MAX_ROUNDS
         /\ \A n \in DOMAIN d.rounds : d.rounds[n] \in Round
         /\ d.rounds \in Seq(Round)
<1>1. d.rounds \in Seq(Round) /\ Len(d.rounds) \in 1..MAX_ROUNDS
  BY DEF Sound, Doc, Fresh
<1>2. DOMAIN d.rounds = 1..Len(d.rounds) /\ \A n \in 1..Len(d.rounds) : d.rounds[n] \in Round
  BY <1>1, LenProperties, ElementOfSeq
<1>3. Len(d.rounds) \in 1..Len(d.rounds) /\ 1..Len(d.rounds) \subseteq 1..MAX_ROUNDS
  <2>1. \A n \in 1..MAX_ROUNDS : n \in 1..n /\ 1..n \subseteq 1..MAX_ROUNDS
    BY DEF MAX_ROUNDS
  <2> QED BY <1>1, <2>1
<1> QED BY <1>1, <1>2, <1>3

\* Some round that was decided is the one that stands.
LEMMA Standing ==
  ASSUME NEW d, NEW made, Sound(d, made), d.rounds[Len(d.rounds)].decision # "none"
  PROVE  standingDecision(d).favour \in Favours /\ standingDecision(d).round \in 0..MAX_ROUNDS
<1> DEFINE all == DOMAIN d.rounds
<1>1. all \subseteq 1..MAX_ROUNDS /\ \A n \in all : d.rounds[n].decision \in Favours \cup {"none"}
  BY RoundsOf DEF Round
<1>2. decisionsOf(d) \subseteq all /\ decisionsOf(d) # {}
  BY RoundsOf DEF decisionsOf
<1>3. CASE \E f \in Favours : Cardinality(inFavour(d, f)) >= 2
  <2> DEFINE f == CHOOSE f \in Favours : Cardinality(inFavour(d, f)) >= 2
  <2>1. f \in Favours /\ Cardinality(inFavour(d, f)) >= 2
    BY <1>3
  <2> HIDE DEF f
  <2>2. inFavour(d, f) # {}
    <3>1. SUFFICES ASSUME inFavour(d, f) = {} PROVE FALSE
      OBVIOUS
    <3>2. Cardinality(inFavour(d, f)) = 0
      BY <3>1, FS_EmptySet, Zenon
    <3> QED BY <2>1, <3>2
  <2>3. inFavour(d, f) \subseteq 1..MAX_ROUNDS
    BY <1>1, <1>2 DEF inFavour
  <2>4. Max(inFavour(d, f)) \in 1..MAX_ROUNDS
    BY <2>2, <2>3, MaxOfRounds
  <2>5. standingDecision(d) = [favour |-> f, round |-> Max(inFavour(d, f))]
    BY <1>3 DEF standingDecision, f
  <2> QED BY <2>1, <2>4, <2>5 DEF MAX_ROUNDS
<1>4. CASE ~\E f \in Favours : Cardinality(inFavour(d, f)) >= 2
  <2> DEFINE n == Max(decisionsOf(d))
  <2>1. n \in decisionsOf(d) /\ n \in 1..MAX_ROUNDS
    BY <1>1, <1>2, MaxOfRounds
  <2>2. d.rounds[n].decision \in Favours
    BY <1>1, <1>2, <2>1 DEF decisionsOf
  <2>3. standingDecision(d) = [favour |-> d.rounds[n].decision, round |-> n]
    BY <1>4 DEF standingDecision
  <2> QED BY <2>1, <2>2, <2>3 DEF MAX_ROUNDS
<1> QED BY <1>3, <1>4

LEMMA Finalized ==
  ASSUME NEW d, NEW made \in Nat, Sound(d, made), d.rounds[Len(d.rounds)].decision # "none"
  PROVE  /\ Sound(finalized(d), made) /\ finalized(d).status = "resolved"
         /\ finalized(d).version = d.version
<1> DEFINE s == standingDecision(d)
           result == [how |-> "decided", favour |-> s.favour, round |-> s.round, terms |-> 0]
           e == [d EXCEPT !.status = "resolved", !.escalateBy = 0, !.offer = 0, !.result = result]
<1>1. result \in Result
  BY Standing DEF Result
<1>2. d \in Doc
  BY DEF Sound
<1> HIDE DEF result
<1>3. /\ e \in Doc /\ e.status = "resolved" /\ e.escalateBy = 0 /\ e.offer = 0
      /\ e.rounds = d.rounds /\ e.version = d.version
  BY <1>1, <1>2 DEF Doc, Status
<1>4. finalized(d) = e
  BY DEF finalized, result
<1> HIDE DEF e
<1>5. Sound(e, made)
  BY <1>3, BoundsAssumption DEF Sound
<1> QED BY <1>3, <1>4, <1>5

\* Whoever is picked has not decided a round and is no party.
LEMMA Picked ==
  ASSUME NEW d, appointed \subseteq People, NEW m \in pickManagerFor(d)
  PROVE  /\ m \in Managers /\ m \notin Parties
         /\ m \notin deciders(d)
<1>1. deciders(d) \subseteq heldRound(d)
  BY DEF deciders, heldRound, decisionsOf
<1>2. m \in appointed /\ m \notin Parties /\ m \notin deciders(d)
  BY <1>1 DEF pickManagerFor, foremost, excludedFrom
<1> QED BY <1>2 DEF Managers

-----------------------------------------------------------------------------
(* Kinds of steps.                                                         *)

Memory == [doc : Doc \cup {<<>>}, todo : Counts]

\* A step of r is no other request's.
Frame(r) ==
  /\ at' \in [Requests -> Working] /\ mem' \in [Requests -> Memory]
  /\ \A q \in Requests \ {r} : at'[q] = at[q] /\ mem'[q] = mem[q]

LEMMA SoundGrows ==
  ASSUME NEW d, NEW n \in Nat, NEW m \in Nat, n <= m, Sound(d, n)
  PROVE  Sound(d, m)
BY DEF Sound, Doc

\* What another request has read stays as sound, and is old if anything changed.
LEMMA OthersHold ==
  ASSUME IInv, NEW r \in Requests, Frame(r), NEW q \in Requests \ {r},
         offers' \in Seq(Parties), Len(offers') >= Len(offers),
         dispute' = dispute \/ (dispute'.version = dispute.version + 1)
  PROVE  Holds(q)'
<1>1. at'[q] = at[q] /\ mem'[q] = mem[q] /\ Holds(q)
  BY DEF Frame, IInv
<1>2. Len(offers) \in Nat /\ Len(offers') \in Nat
  BY LenProperties DEF IInv
<1>3. at[q] # "idle" => Sound(mem[q].doc, Len(offers'))
  BY <1>1, <1>2, SoundGrows DEF Holds
<1>4. dispute.version \in Nat /\ (at[q] # "idle" => mem[q].doc.version \in Nat)
  BY <1>1 DEF IInv, Holds, Sound, Doc
<1>5. CopyOpen(q)'
  BY <1>1, <1>4 DEF Holds, CopyOpen, isClosed
<1> QED BY <1>1, <1>3, <1>5 DEF Holds

LEMMA EndsFrame ==
  ASSUME IInv, NEW r \in Requests, ends(r)
  PROVE  Frame(r) /\ Holds(r)'
<1>1. NoRequest \in Memory
  BY EmptySeq DEF NoRequest, Memory, Counts
<1>2. "idle" \in Working
  BY DEF Working
<1>3. Frame(r) /\ at'[r] = "idle"
  BY <1>1, <1>2 DEF ends, goes, Frame, IInv, Memory
<1> QED BY <1>3 DEF Holds, CopyOpen

\* The dispute is left alone.
LEMMA WalkKeeps ==
  ASSUME IInv, NEW r \in Requests, Frame(r), Holds(r)',
         UNCHANGED <<dispute, finals, decisions, offers, appointed, lapsed>>
  PROVE  IInv'
<1>1. Len(offers) \in Nat
  BY LenProperties DEF IInv
<1>2. \A q \in Requests : Holds(q)'
  BY <1>1, OthersHold DEF IInv
<1> QED BY <1>2 DEF IInv, Frame, Memory, FinalsTold

\* d is committed, if nobody has since it was read.
LEMMA CommitKeeps ==
  ASSUME IInv, NEW r \in Requests, NEW d \in Doc, NEW step \in {"idle", "ready", "count", "charge"},
         NEW todo \in Counts, commit(r, d, step, todo),
         at[r] \in {"final", "move", "ready", "receipt"}, d.version = mem[r].doc.version,
         UNCHANGED <<appointed, lapsed>>, decisions' \in 0..MaxDecisions,
         offers' \in Seq(Parties), Len(offers') >= Len(offers),
         dispute' # dispute => Sound(d, Len(offers')),
         todo # <<>> <=> d.status = "resolved",
         step \in {"ready", "charge"} => ~isClosed(d),
         step = "count" => todo # <<>>
  PROVE  IInv'
<1>1. Len(offers) \in Nat /\ Len(offers') \in Nat
  BY LenProperties DEF IInv
<1>2. CASE dispute.version # d.version
  <2>1. ends(r) /\ UNCHANGED <<dispute, finals>>
    BY <1>2 DEF commit
  <2>2. Frame(r) /\ Holds(r)'
    BY <2>1, EndsFrame
  <2>3. \A q \in Requests : Holds(q)'
    BY <2>1, <2>2, OthersHold
  <2>4. Sound(dispute, Len(offers'))
    BY <1>1, SoundGrows DEF IInv
  <2> QED BY <2>1, <2>2, <2>3, <2>4 DEF IInv, Frame, Memory, FinalsTold
<1>3. CASE dispute.version = d.version
  <2> DEFINE new == [d EXCEPT !.version = @ + 1]
  <2>1. /\ new \in Doc /\ new.version = d.version + 1 /\ new.status = d.status
        /\ new.rounds = d.rounds /\ new.escalateBy = d.escalateBy /\ new.offer = d.offer
        /\ d.version \in Nat
    BY DEF Doc
  <2>2. saved(r, new, step, todo)
    BY <1>3 DEF commit
  <2> HIDE DEF new
  <2>3. dispute' = new /\ dispute'.version = dispute.version + 1
    BY <1>3, <2>1, <2>2 DEF saved
  <2>4. Sound(new, Len(offers'))
    <3>1. dispute' # dispute
      BY <1>3, <2>1, <2>3
    <3> QED BY <2>1, <3>1 DEF Sound
  <2>5. dispute.status # "resolved"
    BY <1>3 DEF IInv, Holds, CopyOpen, isClosed
  <2>6. finals = 0 /\ finals' = IF d.status = "resolved" THEN 1 ELSE 0
    <3>1. finals = 0
      BY <2>5 DEF IInv, FinalsTold
    <3>2. finals' = IF todo # <<>> THEN finals + 1 ELSE finals
      BY <2>2 DEF saved
    <3> QED BY <3>1, <3>2
  <2>7. FinalsTold'
    BY <2>1, <2>3, <2>6 DEF FinalsTold
  <2>8. Frame(r) /\ Holds(r)'
    <3>1. CASE step = "idle"
      BY <2>2, <3>1, EndsFrame DEF saved
    <3>2. CASE step # "idle"
      <4> DEFINE copy == [doc |-> new, todo |-> todo]
      <4>1. at' = [at EXCEPT ![r] = step] /\ mem' = [mem EXCEPT ![r] = copy]
        BY <2>2, <3>2 DEF saved, goes
      <4>2. copy \in Memory /\ copy.doc = new /\ copy.todo = todo
        BY <2>1 DEF Memory
      <4> HIDE DEF copy
      <4>3. step \in Working
        BY DEF Working
      <4>4. Frame(r) /\ at'[r] = step /\ mem'[r] = copy
        BY <4>1, <4>2, <4>3 DEF Frame, IInv, Memory
      <4>5. CopyOpen(r)'
        BY <2>1, <2>3, <4>2, <4>4 DEF CopyOpen, isClosed
      <4> QED BY <2>4, <4>2, <4>4, <4>5 DEF Holds
    <3> QED BY <3>1, <3>2
  <2>9. \A q \in Requests : Holds(q)'
    BY <2>3, <2>8, OthersHold
  <2> QED BY <2>3, <2>4, <2>7, <2>8, <2>9 DEF IInv, Frame, Memory
<1> QED BY <1>2, <1>3

-----------------------------------------------------------------------------
(* Edits of a document, each of a field or two.                            *)

LEMMA Edited ==
  ASSUME NEW d \in Doc
  PROVE  /\ \A s \in Status : LET e == [d EXCEPT !.status = s]
                              IN  e \in Doc /\ e = [d EXCEPT !.status = s] /\ e.status = s
                                  /\ e.rounds = d.rounds /\ e.escalateBy = d.escalateBy
                                  /\ e.offer = d.offer /\ e.version = d.version
         /\ \A b \in BOOLEAN : LET e == [d EXCEPT !.answered = b]
                               IN  e \in Doc /\ e.status = d.status
                                   /\ e.rounds = d.rounds /\ e.escalateBy = d.escalateBy
                                   /\ e.offer = d.offer /\ e.version = d.version
BY DEF Doc

Alike(e, d) ==
  /\ e.rounds = d.rounds /\ e.escalateBy = d.escalateBy /\ e.offer = d.offer /\ e.version = d.version

LEMMA Said ==
  ASSUME NEW d \in Doc, NEW p \in Parties
  PROVE  said(d, p) \in Doc /\ said(d, p).status = d.status /\ Alike(said(d, p), d)
<1> DEFINE b == d.answered \/ p = Respondent
<1>1. b \in BOOLEAN
  OBVIOUS
<1>2. said(d, p) = [d EXCEPT !.answered = b]
  BY DEF said
<1> HIDE DEF b
<1> QED BY <1>1, <1>2, Edited DEF Alike

LEMMA Spoken ==
  ASSUME NEW d \in Doc, NEW p \in Parties
  PROVE  /\ spoken(d, p) \in Doc /\ Alike(spoken(d, p), d)
         /\ spoken(d, p).status = d.status \/ (spoken(d, p).status = "in_discussion" /\ d.status = "awaiting_response")
<1>1. CASE p # Respondent
  BY <1>1 DEF spoken, Alike
<1>2. CASE p = Respondent
  <2> DEFINE s == IF d.status = "awaiting_response" THEN "in_discussion" ELSE d.status
             e == [d EXCEPT !.answered = TRUE]
  <2>1. s \in Status
    BY DEF Doc, Status
  <2>2. spoken(d, p) = [e EXCEPT !.status = s]
    BY <1>2 DEF spoken, Doc
  <2>3. e \in Doc /\ e.status = d.status /\ Alike(e, d)
    BY Edited DEF Alike
  <2> HIDE DEF e
  <2>4. spoken(d, p) \in Doc /\ spoken(d, p).status = s /\ Alike(spoken(d, p), e)
    BY <2>1, <2>2, <2>3, Edited DEF Alike
  <2> QED BY <2>3, <2>4 DEF Alike
<1> QED BY <1>1, <1>2

-----------------------------------------------------------------------------
(* The actions.                                                            *)

LEMMA LoadKeeps == ASSUME IInv, NEW r \in Requests, load(r) PROVE IInv'
<1>1. /\ at[r] = "idle" /\ ~isClosed(dispute) /\ mem' = [mem EXCEPT ![r].doc = dispute]
      /\ UNCHANGED <<dispute, finals, decisions, offers, appointed, lapsed>>
  BY DEF load, histories, elsewhere
<1>2. dispute \in Doc /\ dispute.version \in Nat
  BY DEF IInv, Sound, Doc
<1>3. mem' \in [Requests -> Memory] /\ mem'[r].doc = dispute
      /\ \A q \in Requests \ {r} : mem'[q] = mem[q]
  BY <1>1, <1>2 DEF IInv, Memory
<1>4. PICK step \in {"final", "move", "ready"} :
        goes(r, step) /\ (step = "final" => finalDue(dispute))
  BY DEF load
<1>5. Frame(r) /\ at'[r] = step
  BY <1>3, <1>4 DEF Frame, IInv, goes, Working
<1>6. Holds(r)'
  BY <1>1, <1>2, <1>3, <1>4, <1>5 DEF Holds, CopyOpen, IInv, isClosed, finalDue
<1> QED BY <1>1, <1>5, <1>6, WalkKeeps

LEMMA TakesTheirs ==
  ASSUME IInv, NEW r \in Requests, takesTheirs(r), UNCHANGED <<decisions, offers, appointed, lapsed>>
  PROVE  IInv'
<1>1. CASE isClosed(dispute)
  BY <1>1, EndsFrame, WalkKeeps DEF takesTheirs
<1>2. CASE ~isClosed(dispute)
  <2>1. goes(r, "ready") /\ mem' = [mem EXCEPT ![r].doc = dispute] /\ UNCHANGED <<dispute, finals>>
    BY <1>2 DEF takesTheirs
  <2>2. dispute \in Doc /\ dispute.version \in Nat
    BY DEF IInv, Sound, Doc
  <2>3. mem' \in [Requests -> Memory] /\ mem'[r].doc = dispute
        /\ \A q \in Requests \ {r} : mem'[q] = mem[q]
    BY <2>1, <2>2 DEF IInv, Memory
  <2>4. Frame(r) /\ at'[r] = "ready"
    BY <2>1, <2>3 DEF Frame, IInv, goes, Working
  <2>5. Holds(r)'
    BY <1>2, <2>1, <2>2, <2>3, <2>4 DEF Holds, CopyOpen, IInv, isClosed
  <2> QED BY <2>1, <2>4, <2>5, WalkKeeps
<1> QED BY <1>1, <1>2

LEMMA LeaveKeeps == ASSUME IInv, NEW r \in Requests, leave(r) PROVE IInv'
BY EndsFrame, WalkKeeps DEF leave, histories, elsewhere

LEMMA BumpKeeps == ASSUME IInv, NEW r \in Requests, bump(r) PROVE IInv'
<1>1. at[r] = "count" /\ UNCHANGED <<dispute, finals, decisions, offers, appointed, lapsed>>
  BY DEF bump, elsewhere
<1>2. CASE Len(mem[r].todo) = 1
  BY <1>1, <1>2, EndsFrame, WalkKeeps DEF bump
<1>3. CASE Len(mem[r].todo) # 1
  <2> DEFINE t == Tail(mem[r].todo)
  <2>1. mem' = [mem EXCEPT ![r].todo = t] /\ UNCHANGED at
    BY <1>3 DEF bump
  <2>2. mem[r].todo \in Counts /\ mem[r].todo # <<>>
    BY <1>1 DEF IInv, Holds
  <2>3. t \in Counts /\ Len(t) = Len(mem[r].todo) - 1 /\ Len(mem[r].todo) \in Nat \ {0}
    BY <2>2, HeadTailProperties, EmptySeq DEF Counts
  <2>4. t # <<>>
    <3>1. Len(t) # 0
      BY <1>3, <2>3
    <3>2. t \in Seq(Parties \X {"lost", "won", "settled"})
      BY <2>3 DEF Counts
    <3> HIDE DEF t
    <3> QED BY <3>1, <3>2, EmptySeq
  <2> HIDE DEF t
  <2>5. Frame(r) /\ mem'[r].doc = mem[r].doc /\ mem'[r].todo = t
    BY <2>1, <2>3 DEF Frame, IInv, Memory
  <2>6. Holds(r)'
    BY <1>1, <2>1, <2>4, <2>5 DEF Holds, CopyOpen, IInv
  <2> QED BY <1>1, <2>5, <2>6, WalkKeeps
<1> QED BY <1>2, <1>3

LEMMA ChargeKeeps == ASSUME IInv, NEW r \in Requests, charge(r) PROVE IInv'
<1>1. /\ at[r] = "charge" /\ goes(r, "receipt")
      /\ UNCHANGED <<mem, dispute, finals, decisions, offers, appointed, lapsed>>
  BY DEF charge, elsewhere
<1>2. Frame(r) /\ at'[r] = "receipt"
  BY <1>1 DEF Frame, IInv, goes, Working, Memory
<1>3. Holds(r)'
  BY <1>1, <1>2 DEF Holds, CopyOpen, IInv, isClosed
<1> QED BY <1>1, <1>2, <1>3, WalkKeeps

LEMMA DismissKeeps == ASSUME IInv, NEW m, dismiss(m) PROVE IInv'
BY DEF dismiss, histories, IInv, Holds, CopyOpen, FinalsTold

LEMMA LapseKeeps == ASSUME IInv, NEW n \in 0..MaxDecisions, lapse(n) PROVE IInv'
BY DEF lapse, histories, IInv, Holds, CopyOpen, FinalsTold

\* Its last round rewritten, for somebody who has none of the others.
LEMMA LastRound ==
  ASSUME NEW rounds \in Seq(Round), Fresh(rounds), NEW x \in Round, x.managerId \notin Parties,
         \A n \in 1..Len(rounds) : n < Len(rounds) => rounds[n].managerId # x.managerId
  PROVE  LET new == [rounds EXCEPT ![Len(rounds)] = x]
         IN  /\ new \in Seq(Round) /\ Fresh(new) /\ Len(new) = Len(rounds)
             /\ new[Len(new)] = x
<1> DEFINE new == [rounds EXCEPT ![Len(rounds)] = x]
           last == Len(rounds)
<1>1. last \in 1..last /\ last \in Nat /\ last \in 1..MAX_ROUNDS
  BY LenProperties DEF Fresh, MAX_ROUNDS
<1>2. /\ new \in Seq(Round) /\ Len(new) = last /\ new[last] = x
      /\ \A n \in 1..last : n # last => new[n] = rounds[n]
  BY <1>1, ExceptSeq
<1> HIDE DEF new
<1>3. Fresh(new)
  BY <1>1, <1>2 DEF Fresh
<1> QED BY <1>2, <1>3 DEF new

LEMMA LastsManager ==
  ASSUME NEW d, NEW made, Sound(d, made)
  PROVE  \A n \in 1..Len(d.rounds) : n < Len(d.rounds) => d.rounds[n].managerId # d.rounds[Len(d.rounds)].managerId
<1>1. Len(d.rounds) \in 1..Len(d.rounds) /\ Len(d.rounds) \in 1..MAX_ROUNDS
  BY RoundsOf DEF Sound, Fresh
<1>2. \A n \in 1..Len(d.rounds) : n < Len(d.rounds) => n # Len(d.rounds)
  BY <1>1 DEF MAX_ROUNDS
<1> QED BY <1>1, <1>2 DEF Sound, Fresh

\* A dispute whose last round is rewritten so.
LEMMA Rewritten ==
  ASSUME NEW d, NEW made, Sound(d, made), NEW x \in Round, x.managerId \notin Parties,
         \A n \in 1..Len(d.rounds) : n < Len(d.rounds) => d.rounds[n].managerId # x.managerId
  PROVE  LET e == [d EXCEPT !.rounds = [d.rounds EXCEPT ![Len(d.rounds)] = x]]
         IN  /\ e \in Doc /\ Fresh(e.rounds) /\ e.rounds[Len(e.rounds)] = x
             /\ e.status = d.status /\ e.escalateBy = d.escalateBy
             /\ e.offer = d.offer /\ e.version = d.version
<1> DEFINE new == [d.rounds EXCEPT ![Len(d.rounds)] = x]
           e == [d EXCEPT !.rounds = new]
<1>1. d \in Doc /\ d.rounds \in Seq(Round) /\ Fresh(d.rounds)
  BY DEF Sound, Doc
<1>2. new \in Seq(Round) /\ Fresh(new) /\ new[Len(new)] = x
  BY <1>1, LastRound
<1> HIDE DEF new
<1>3. e \in Doc /\ e.rounds = new /\ e.status = d.status /\ e.escalateBy = d.escalateBy
      /\ e.offer = d.offer /\ e.version = d.version
  BY <1>1, <1>2 DEF Doc
<1> HIDE DEF e
<1> QED BY <1>2, <1>3 DEF e, new

LEMMA CountsOf ==
  ASSUME NEW d, NEW made, Sound(d, made), d.rounds[Len(d.rounds)].decision # "none"
  PROVE  countsOf(d) \in Counts /\ countsOf(d) # <<>>
<1> DEFINE C == Parties \X {"lost", "won", "settled"}
           winner == sideOf(standingDecision(d).favour)
           first == <<<<other(winner), "lost">>>>
           rest == IF d.answered THEN <<<<winner, "won">>>> ELSE <<>>
<1>1. winner \in Parties /\ other(winner) \in Parties
  BY OfParties DEF sideOf, other
<1>2. <<other(winner), "lost">> \in C /\ <<winner, "won">> \in C
  BY <1>1
<1> HIDE DEF winner, C
<1>3. first \in Seq(C) /\ Len(first) = 1
  BY <1>2
<1>4. rest \in Seq(C)
  BY <1>2
<1> HIDE DEF first, rest
<1>5. first \o rest \in Seq(C) /\ Len(first \o rest) = Len(first) + Len(rest)
  BY <1>3, <1>4, ConcatProperties
<1>6. Len(rest) \in Nat
  BY <1>4, LenProperties
<1>7. first \o rest # <<>>
  <2>1. Len(first \o rest) # 0
    BY <1>3, <1>5, <1>6
  <2> QED BY <1>5, <2>1, EmptySeq
<1>8. countsOf(d) = first \o rest
  BY DEF countsOf, first, rest, winner
<1> QED BY <1>5, <1>7, <1>8 DEF Counts, C

\* A result is made final by whoever commits it.
LEMMA FinalKeeps ==
  ASSUME IInv, NEW r \in Requests, NEW d, Sound(d, Len(offers)),
         d.rounds[Len(d.rounds)].decision # "none", d.version = mem[r].doc.version,
         at[r] \in {"final", "ready"}, finalizeDecided(r, d),
         UNCHANGED <<appointed, lapsed, offers>>, decisions' \in 0..MaxDecisions
  PROVE  IInv'
<1> DEFINE e == finalized(d)
           todo == countsOf(d)
<1>1. Len(offers) \in Nat /\ offers \in Seq(Parties)
  BY LenProperties DEF IInv
<1>2. Sound(e, Len(offers)) /\ e.status = "resolved" /\ e.version = d.version
  BY <1>1, Finalized
<1>3. todo \in Counts /\ todo # <<>>
  BY CountsOf
<1>4. commit(r, e, "count", todo)
  BY DEF finalizeDecided
<1> HIDE DEF e, todo
<1>5. e \in Doc
  BY <1>2 DEF Sound
<1>6. Sound(e, Len(offers')) /\ offers' \in Seq(Parties) /\ Len(offers') >= Len(offers)
  BY <1>1, <1>2
<1> QED BY <1>2, <1>3, <1>4, <1>5, <1>6, CommitKeeps

\* What a request that is ready, or about to bring its copy up to date, knows.
LEMMA CopyIs ==
  ASSUME IInv, NEW r \in Requests, at[r] \in {"final", "move", "ready", "receipt"}
  PROVE  /\ Sound(mem[r].doc, Len(offers)) /\ ~isClosed(mem[r].doc) /\ mem[r].doc \in Doc
         /\ mem[r].doc.rounds \in Seq(Round) /\ Fresh(mem[r].doc.rounds)
         /\ Len(offers) \in Nat /\ offers \in Seq(Parties)
         /\ decisions \in 0..MaxDecisions
BY LenProperties DEF IInv, Holds, CopyOpen, Sound, Doc

\* Something short of a result is committed.
LEMMA PlainKeeps ==
  ASSUME IInv, NEW r \in Requests, NEW d, Sound(d, Len(offers)), NEW step \in {"idle", "ready", "charge"},
         commit(r, d, step, <<>>),
         at[r] \in {"final", "move", "ready", "receipt"}, d.version = mem[r].doc.version,
         UNCHANGED <<appointed, lapsed, offers>>, decisions' \in 0..MaxDecisions,
         d.status # "resolved", step = "idle" \/ ~isClosed(d)
  PROVE  IInv'
<1>1. <<>> \in Counts
  BY EmptySeq DEF Counts
<1>2. d \in Doc /\ Sound(d, Len(offers')) /\ offers' \in Seq(Parties) /\ Len(offers') >= Len(offers)
  BY CopyIs DEF Sound
<1> QED BY <1>1, <1>2, CommitKeeps

LEMMA BringFinalKeeps == ASSUME IInv, NEW r \in Requests, bringFinal(r) PROVE IInv'
<1> DEFINE d == mem[r].doc
<1>1. at[r] = "final" /\ UNCHANGED <<decisions, offers, appointed, lapsed>>
  BY DEF bringFinal, histories, elsewhere
<1>2. CASE finalizeDecided(r, d)
  <2>1. Sound(d, Len(offers)) /\ d.status = "decided" /\ decisions' \in 0..MaxDecisions
    BY <1>1 DEF IInv, Holds
  <2>2. d.rounds[Len(d.rounds)].decision # "none"
    BY <2>1 DEF Sound
  <2> QED BY <1>1, <1>2, <2>1, <2>2, FinalKeeps
<1>3. CASE takesTheirs(r)
  BY <1>1, <1>3, TakesTheirs
<1> QED BY <1>2, <1>3 DEF bringFinal

LEMMA MoveRoundKeeps == ASSUME IInv, NEW r \in Requests, moveRound(r) PROVE IInv'
<1> DEFINE d == mem[r].doc
<1>1. at[r] = "move" /\ UNCHANGED <<decisions, offers, appointed, lapsed>>
  BY DEF moveRound, histories, elsewhere
<1>2. PICK m \in pickManagerFor(d) :
        IF dispute.version = d.version THEN commit(r, reassignRound(d, m), "ready", <<>>) ELSE takesTheirs(r)
  BY DEF moveRound
<1>3. CASE dispute.version # d.version
  BY <1>1, <1>2, <1>3, TakesTheirs
<1>4. CASE dispute.version = d.version
  <2> DEFINE last == d.rounds[Len(d.rounds)]
             x == [last EXCEPT !.managerId = m, !.reassigned = last.reassigned \cup {managing(d)}]
             e == [d EXCEPT !.rounds = [d.rounds EXCEPT ![Len(d.rounds)] = x]]
  <2>1. Sound(d, Len(offers)) /\ ~isClosed(d) /\ d \in Doc
    BY <1>1, CopyIs
  <2>2. last \in Round
    BY <2>1, RoundsOf
  <2>3. m \in Managers /\ m \notin Parties /\ m \notin deciders(d)
    BY <1>2, Picked DEF IInv
  <2>4. x \in Round /\ x.managerId = m /\ x.decision = last.decision
    BY <2>2, <2>3 DEF Round, managing, currentRound
  <2>5. \A n \in 1..Len(d.rounds) : n < Len(d.rounds) => d.rounds[n].managerId # m
    BY <2>1, <2>3, RoundsOf DEF deciders, decisionsOf, Sound, Fresh
  <2>6. reassignRound(d, m) = e
    BY DEF reassignRound, currentRound, managing
  <2> HIDE DEF x, last
  <2>7. /\ e \in Doc /\ Fresh(e.rounds) /\ e.rounds[Len(e.rounds)] = x
        /\ e.status = d.status /\ e.escalateBy = d.escalateBy
        /\ e.offer = d.offer /\ e.version = d.version
    BY <2>1, <2>3, <2>4, <2>5, Rewritten
  <2> HIDE DEF e
  <2>8. Sound(e, Len(offers))
    BY <2>1, <2>4, <2>7 DEF Sound, last
  <2>9. commit(r, e, "ready", <<>>)
    BY <1>2, <1>4, <2>6
  <2>10. ~isClosed(e) /\ e.status # "resolved"
    BY <2>1, <2>7 DEF isClosed
  <2>11. decisions' \in 0..MaxDecisions
    BY <1>1 DEF IInv
  <2> QED BY <1>1, <2>7, <2>8, <2>9, <2>10, <2>11, PlainKeeps
<1> QED BY <1>3, <1>4

LEMMA OfferKeeps == ASSUME IInv, NEW r \in Requests, offer(r) PROVE IInv'
<1> DEFINE d == mem[r].doc
<1>1. at[r] = "ready" /\ UNCHANGED <<decisions, appointed, lapsed>>
  BY DEF offer, acts, elsewhere
<1>2. PICK p \in Parties :
        /\ commit(r, [spoken(d, p) EXCEPT !.offer = Len(offers) + 1], "idle", <<>>)
        /\ offers' = IF dispute' # dispute THEN Append(offers, p) ELSE offers
  BY DEF offer
<1> DEFINE n == Len(offers) + 1
           s == spoken(d, p)
           e == [s EXCEPT !.offer = n]
<1>3. /\ Sound(d, Len(offers)) /\ ~isClosed(d) /\ d \in Doc
      /\ Len(offers) \in Nat /\ offers \in Seq(Parties) /\ decisions \in 0..MaxDecisions
  BY <1>1, CopyIs
<1>4. Append(offers, p) \in Seq(Parties) /\ Len(Append(offers, p)) = n
  BY <1>3, AppendProperties
<1>5. offers' \in Seq(Parties) /\ Len(offers') >= Len(offers)
  BY <1>2, <1>3, <1>4
<1>6. s \in Doc /\ Alike(s, d) /\ (s.status = d.status \/ (s.status = "in_discussion" /\ d.status = "awaiting_response"))
  BY <1>3, Spoken
<1> HIDE DEF s
<1>0. n \in Nat
  BY <1>3
<1> HIDE DEF n
<1>7. /\ e \in Doc /\ e.rounds = s.rounds /\ e.status = s.status
      /\ e.escalateBy = s.escalateBy /\ e.offer = n /\ e.version = s.version
  BY <1>0, <1>6 DEF Doc
<1>8. commit(r, e, "idle", <<>>)
  BY <1>2 DEF s, n
<1> HIDE DEF e
<1>9. Sound(e, n)
  BY <1>3, <1>6, <1>7 DEF Sound, Alike, n
<1>10. dispute' # dispute => Sound(e, Len(offers'))
  BY <1>2, <1>4, <1>9 DEF n
<1>11. e.status # "resolved" /\ e.version = d.version
  BY <1>3, <1>6, <1>7 DEF isClosed, Alike
<1>12. <<>> \in Counts
  BY EmptySeq DEF Counts
<1> QED BY <1>1, <1>3, <1>5, <1>7, <1>8, <1>10, <1>11, <1>12, CommitKeeps

LEMMA AcceptKeeps == ASSUME IInv, NEW r \in Requests, accept(r) PROVE IInv'
<1> DEFINE d == mem[r].doc
           todo == <<<<Raiser, "settled">>, <<Respondent, "settled">>>>
<1>1. at[r] = "ready" /\ UNCHANGED <<decisions, offers, appointed, lapsed>>
  BY DEF accept, acts, histories, elsewhere
<1>2. PICK p \in Parties : commit(r, settled(d, p), "count", todo)
  BY DEF accept
<1> DEFINE s == said(d, p)
           result == [NoResult EXCEPT !.how = "settled", !.terms = d.offer]
           e == [s EXCEPT !.status = "resolved", !.escalateBy = 0, !.offer = 0, !.result = result]
<1>3. /\ Sound(d, Len(offers)) /\ d \in Doc /\ d.offer \in Nat
      /\ Len(offers) \in Nat /\ offers \in Seq(Parties) /\ decisions \in 0..MaxDecisions
  BY <1>1, CopyIs DEF Doc
<1>4. s \in Doc /\ Alike(s, d)
  BY <1>3, Said
<1>5. result \in Result
  <2> DEFINE k == d.offer
  <2>1. k \in Nat
    BY <1>3
  <2> HIDE DEF k
  <2> DEFINE a == [NoResult EXCEPT !.how = "settled"]
  <2>2. a \in Result
    BY DEF NoResult, Result, MAX_ROUNDS
  <2> HIDE DEF a
  <2>3. [a EXCEPT !.terms = k] \in Result
    BY <2>1, <2>2 DEF Result
  <2>4. [NoResult EXCEPT !.how = "settled", !.terms = k] = [a EXCEPT !.terms = k]
    BY DEF a
  <2> QED BY <2>3, <2>4 DEF k
<1>6. settled(d, p) = e
  BY DEF settled
<1> HIDE DEF s, result
<1>7. /\ e \in Doc /\ e.rounds = s.rounds /\ e.status = "resolved"
      /\ e.escalateBy = 0 /\ e.offer = 0 /\ e.version = s.version
  BY <1>4, <1>5 DEF Doc, Status
<1> HIDE DEF e
<1>8. Sound(e, Len(offers))
  BY <1>3, <1>4, <1>7, BoundsAssumption DEF Sound, Alike
<1>9. todo \in Counts /\ todo # <<>>
  BY OfParties DEF Counts
<1>10. e.version = d.version
  BY <1>4, <1>7 DEF Alike
<1> HIDE DEF todo
<1> QED BY <1>1, <1>2, <1>3, <1>6, <1>7, <1>8, <1>9, <1>10, CommitKeeps

LEMMA WithdrawKeeps == ASSUME IInv, NEW r \in Requests, withdraw(r) PROVE IInv'
<1> DEFINE d == mem[r].doc
           result == [NoResult EXCEPT !.how = "withdrawn"]
           e == [d EXCEPT !.status = "withdrawn", !.offer = 0, !.result = result]
<1>1. /\ at[r] = "ready" /\ UNCHANGED <<decisions, offers, appointed, lapsed>>
      /\ decisionsOf(d) = {} /\ commit(r, e, "idle", <<>>)
  BY DEF withdraw, acts, histories, elsewhere
<1>2. Sound(d, Len(offers)) /\ d \in Doc /\ Len(offers) \in Nat /\ decisions \in 0..MaxDecisions
  BY <1>1, CopyIs
<1>3. result \in Result
  BY DEF NoResult, Result, MAX_ROUNDS
<1> HIDE DEF result
<1>4. /\ e \in Doc /\ e.rounds = d.rounds /\ e.status = "withdrawn"
      /\ e.escalateBy = d.escalateBy /\ e.offer = 0 /\ e.version = d.version
  BY <1>2, <1>3 DEF Doc, Status
<1> HIDE DEF e
<1>5. d.status # "decided"
  BY <1>1, <1>2, RoundsOf DEF Sound, decisionsOf
<1>6. Sound(e, Len(offers))
  BY <1>2, <1>4, <1>5 DEF Sound
<1> QED BY <1>1, <1>2, <1>4, <1>6, PlainKeeps

\* A decision added to the last round.
decidedAs(d, f) ==
  [d EXCEPT !.rounds[Len(d.rounds)].decision = f, !.agreements = {},
            !.status = "decided", !.escalateBy = decisions + 1]

LEMMA Deciding ==
  ASSUME IInv, NEW r \in Requests, decide(r)
  PROVE  /\ at[r] = "ready" /\ UNCHANGED <<offers, appointed, lapsed>>
         /\ decisions' \in {decisions, decisions + 1} /\ decisions' \in 0..MaxDecisions
         /\ \E f \in Favours :
              LET e == decidedAs(mem[r].doc, f)
              IN  /\ Sound(e, Len(offers)) /\ e.rounds[Len(e.rounds)].decision # "none"
                  /\ e.version = mem[r].doc.version /\ e.status = "decided"
                  /\ e.result = mem[r].doc.result
                  /\ commit(r, e, "idle", <<>>) \/ finalizeDecided(r, e)
<1> DEFINE d == mem[r].doc
           last == d.rounds[Len(d.rounds)]
<1>1. /\ at[r] = "ready" /\ UNCHANGED <<offers, appointed, lapsed>>
      /\ decisions < MaxDecisions /\ decisions' \in {decisions, decisions + 1}
  BY DEF decide, acts, elsewhere
<1>2. PICK f \in Favours :
        LET e == decidedAs(d, f)
        IN  IF escalationOpen(e) THEN commit(r, e, "idle", <<>>) ELSE finalizeDecided(r, e)
  BY DEF decide, decidedAs
<1> DEFINE x == [last EXCEPT !.decision = f]
           e0 == [d EXCEPT !.rounds = [d.rounds EXCEPT ![Len(d.rounds)] = x]]
           k == decisions + 1
           e == [e0 EXCEPT !.agreements = {}, !.status = "decided", !.escalateBy = k]
<1>3. /\ Sound(d, Len(offers)) /\ d \in Doc /\ Len(offers) \in Nat /\ decisions \in 0..MaxDecisions
  BY <1>1, CopyIs
<1>4. k \in 1..MaxDecisions /\ k \in Nat /\ decisions' \in 0..MaxDecisions
  BY <1>1, <1>3, BoundsAssumption
<1>5. last \in Round /\ last.managerId \notin Parties
  BY <1>3, RoundsOf DEF Sound, Fresh
<1>6. x \in Round /\ x.managerId = last.managerId /\ x.decision = f /\ f # "none"
  BY <1>5 DEF Round, Favours
<1>7. \A n \in 1..Len(d.rounds) : n < Len(d.rounds) => d.rounds[n].managerId # x.managerId
  BY <1>3, <1>6, LastsManager
<1>8. decidedAs(d, f) = e
  BY <1>3 DEF Doc, decidedAs
<1>a. e.result = d.result
  BY <1>3 DEF Doc
<1> HIDE DEF x, k, last
<1>9. e0 \in Doc /\ Fresh(e0.rounds) /\ e0.rounds[Len(e0.rounds)] = x
      /\ e0.offer = d.offer /\ e0.version = d.version
  BY <1>3, <1>5, <1>6, <1>7, Rewritten
<1> HIDE DEF e0
<1>10. /\ e \in Doc /\ e.rounds = e0.rounds /\ e.status = "decided"
       /\ e.escalateBy = k /\ e.offer = d.offer /\ e.version = d.version
  BY <1>4, <1>9 DEF Doc, Status
<1> HIDE DEF e
<1>11. Sound(e, Len(offers)) /\ e.rounds[Len(e.rounds)].decision # "none"
  BY <1>3, <1>4, <1>6, <1>9, <1>10 DEF Sound
<1>12. commit(r, e, "idle", <<>>) \/ finalizeDecided(r, e)
  BY <1>2, <1>8
<1> QED BY <1>1, <1>4, <1>8, <1>a, <1>10, <1>11, <1>12

LEMMA DecideKeeps == ASSUME IInv, NEW r \in Requests, decide(r) PROVE IInv'
<1>1. PICK f \in Favours :
        LET e == decidedAs(mem[r].doc, f)
        IN  /\ Sound(e, Len(offers)) /\ e.rounds[Len(e.rounds)].decision # "none"
            /\ e.version = mem[r].doc.version /\ e.status = "decided"
            /\ commit(r, e, "idle", <<>>) \/ finalizeDecided(r, e)
  BY Deciding
<1> DEFINE e == decidedAs(mem[r].doc, f)
<1>2. at[r] = "ready" /\ UNCHANGED <<offers, appointed, lapsed>> /\ decisions' \in 0..MaxDecisions
  BY Deciding
<1> HIDE DEF e
<1>3. CASE commit(r, e, "idle", <<>>)
  BY <1>1, <1>2, <1>3, PlainKeeps DEF e
<1>4. CASE finalizeDecided(r, e)
  BY <1>1, <1>2, <1>4, FinalKeeps DEF e
<1> QED BY <1>1, <1>3, <1>4 DEF e

\* A side agrees with the decision.
agreedBy(d, p) == [said(d, p) EXCEPT !.agreements = @ \cup {p}]

LEMMA Agreeing ==
  ASSUME IInv, NEW r \in Requests, agree(r)
  PROVE  /\ at[r] = "ready" /\ UNCHANGED <<decisions, offers, appointed, lapsed>>
         /\ decisions' \in 0..MaxDecisions
         /\ \E p \in Parties :
              LET e == agreedBy(mem[r].doc, p)
              IN  /\ Sound(e, Len(offers)) /\ e.rounds[Len(e.rounds)].decision # "none"
                  /\ e.version = mem[r].doc.version /\ e.status = "decided"
                  /\ e.result = mem[r].doc.result
                  /\ commit(r, e, "idle", <<>>) \/ finalizeDecided(r, e)
<1> DEFINE d == mem[r].doc
<1>1. at[r] = "ready" /\ UNCHANGED <<decisions, offers, appointed, lapsed>> /\ d.status = "decided"
  BY DEF agree, acts, histories, elsewhere
<1>2. PICK p \in Parties :
        LET e == agreedBy(d, p)
        IN  IF bothAgreed(e) THEN finalizeDecided(r, e) ELSE commit(r, e, "idle", <<>>)
  BY DEF agree, agreedBy
<1> DEFINE s == said(d, p)
           e == [s EXCEPT !.agreements = @ \cup {p}]
<1>3. Sound(d, Len(offers)) /\ d \in Doc /\ Len(offers) \in Nat /\ decisions' \in 0..MaxDecisions
  BY <1>1, CopyIs
<1>4. s \in Doc /\ s.status = d.status /\ Alike(s, d)
  BY <1>3, Said
<1>a. s.result = d.result
  BY <1>3 DEF said, Doc
<1> HIDE DEF s
<1>5. /\ e \in Doc /\ e.rounds = s.rounds /\ e.status = s.status /\ e.result = s.result
      /\ e.escalateBy = s.escalateBy /\ e.offer = s.offer /\ e.version = s.version
  BY <1>4 DEF Doc
<1>6. agreedBy(d, p) = e
  BY DEF agreedBy, s
<1> HIDE DEF e
<1>7. Sound(e, Len(offers)) /\ e.version = d.version /\ e.status = "decided"
  BY <1>1, <1>3, <1>4, <1>5 DEF Sound, Alike
<1>8. e.rounds[Len(e.rounds)].decision # "none"
  BY <1>7 DEF Sound
<1>9. commit(r, e, "idle", <<>>) \/ finalizeDecided(r, e)
  BY <1>2, <1>6
<1> QED BY <1>1, <1>3, <1>a, <1>5, <1>6, <1>7, <1>8, <1>9

LEMMA AgreeKeeps == ASSUME IInv, NEW r \in Requests, agree(r) PROVE IInv'
<1>1. PICK p \in Parties :
        LET e == agreedBy(mem[r].doc, p)
        IN  /\ Sound(e, Len(offers)) /\ e.rounds[Len(e.rounds)].decision # "none"
            /\ e.version = mem[r].doc.version /\ e.status = "decided"
            /\ commit(r, e, "idle", <<>>) \/ finalizeDecided(r, e)
  BY Agreeing
<1> DEFINE e == agreedBy(mem[r].doc, p)
<1>2. at[r] = "ready" /\ UNCHANGED <<offers, appointed, lapsed>> /\ decisions' \in 0..MaxDecisions
  BY Agreeing
<1> HIDE DEF e
<1>3. CASE commit(r, e, "idle", <<>>)
  BY <1>1, <1>2, <1>3, PlainKeeps DEF e
<1>4. CASE finalizeDecided(r, e)
  BY <1>1, <1>2, <1>4, FinalKeeps DEF e
<1> QED BY <1>1, <1>3, <1>4 DEF e

LEMMA EscalateKeeps == ASSUME IInv, NEW r \in Requests, escalate(r) PROVE IInv'
<1> DEFINE d == mem[r].doc
           s == said(d, losingPartyOfLatest(d))
<1>1. /\ at[r] = "ready" /\ UNCHANGED <<decisions, offers, appointed, lapsed>>
      /\ d.status = "decided" /\ Len(d.rounds) < MAX_ROUNDS
  BY DEF escalate, acts, histories, elsewhere, escalationOpen
<1>2. PICK m \in pickManagerFor(d) :
        commit(r, [s EXCEPT !.rounds = Append(@, newRound(m)), !.status = "in_discussion",
                            !.escalateBy = 0, !.offer = 0],
               "charge", <<>>)
  BY DEF escalate
<1> DEFINE x == newRound(m)
           new == Append(s.rounds, x)
           e == [s EXCEPT !.rounds = new, !.status = "in_discussion", !.escalateBy = 0, !.offer = 0]
<1>3. /\ Sound(d, Len(offers)) /\ d \in Doc /\ d.rounds \in Seq(Round) /\ Fresh(d.rounds)
      /\ Len(offers) \in Nat /\ decisions' \in 0..MaxDecisions
  BY <1>1, CopyIs
<1>4. losingPartyOfLatest(d) \in Parties
  BY OfParties DEF losingPartyOfLatest, other
<1>5. s \in Doc /\ s.rounds = d.rounds /\ s.version = d.version
  BY <1>3, <1>4, Said DEF Alike
<1>6. m \in Managers /\ m \notin Parties /\ m \notin deciders(d)
  BY <1>2, Picked DEF IInv
<1>7. x \in Round /\ x.managerId = m
  BY <1>6 DEF newRound, Round
<1> HIDE DEF x, s
<1>8. Len(d.rounds) \in 1..MAX_ROUNDS /\ Len(d.rounds) \in Nat /\ Len(d.rounds) + 1 \in 1..MAX_ROUNDS
  BY <1>1, <1>3 DEF Fresh, MAX_ROUNDS
<1>9. /\ new \in Seq(Round) /\ Len(new) = Len(d.rounds) + 1 /\ new[Len(d.rounds) + 1] = x
      /\ \A n \in 1..Len(d.rounds) : new[n] = d.rounds[n]
  BY <1>3, <1>5, <1>7, <1>8, AppendProperties
<1>10. \A n \in 1..Len(d.rounds) : d.rounds[n].decision # "none" /\ d.rounds[n].managerId # m
  <2>1. d.rounds[Len(d.rounds)].decision # "none"
    BY <1>1, <1>3 DEF Sound
  <2>2. \A n \in 1..Len(d.rounds) : d.rounds[n].decision # "none"
    BY <1>3, <1>8, <2>1 DEF Fresh
  <2> QED BY <1>3, <1>6, <2>2, RoundsOf DEF deciders, decisionsOf
<1> HIDE DEF new
<1>11. Fresh(new)
  <2> DEFINE L == Len(d.rounds)
  <2>1. \A n \in 1..Len(new) : n = L + 1 \/ n \in 1..L
    BY <1>8, <1>9
  <2>3. \A n \in 1..Len(new) : new[n].managerId \notin Parties
    BY <1>3, <1>6, <1>7, <1>9, <2>1 DEF Fresh
  <2>4. \A n \in 1..Len(new), k \in 1..Len(new) : n # k => new[n].managerId # new[k].managerId
    BY <1>3, <1>7, <1>9, <1>10, <2>1 DEF Fresh
  <2>5. \A n \in 1..Len(new) : n < Len(new) => new[n].decision # "none"
    BY <1>8, <1>9, <1>10, <2>1
  <2> QED BY <1>8, <1>9, <2>3, <2>4, <2>5 DEF Fresh
<1>12. /\ e \in Doc /\ e.rounds = new /\ e.status = "in_discussion"
       /\ e.escalateBy = 0 /\ e.offer = 0 /\ e.version = d.version
  BY <1>5, <1>9 DEF Doc, Status
<1>13. commit(r, e, "charge", <<>>)
  BY <1>2 DEF new, x
<1> HIDE DEF e
<1>14. Sound(e, Len(offers)) /\ ~isClosed(e) /\ e.status # "resolved"
  BY <1>3, <1>11, <1>12, BoundsAssumption DEF Sound, isClosed
<1> QED BY <1>1, <1>3, <1>12, <1>13, <1>14, PlainKeeps

LEMMA ReceiptKeeps == ASSUME IInv, NEW r \in Requests, receipt(r) PROVE IInv'
<1> DEFINE d == mem[r].doc
           last == d.rounds[Len(d.rounds)]
           x == [last EXCEPT !.payment = TRUE]
           e == [d EXCEPT !.rounds = [d.rounds EXCEPT ![Len(d.rounds)] = x]]
<1>1. /\ at[r] = "receipt" /\ UNCHANGED <<decisions, offers, appointed, lapsed>>
      /\ commit(r, [d EXCEPT !.rounds[Len(d.rounds)].payment = TRUE], "idle", <<>>)
  BY DEF receipt, histories, elsewhere
<1>2. Sound(d, Len(offers)) /\ ~isClosed(d) /\ d \in Doc /\ decisions' \in 0..MaxDecisions
  BY <1>1, CopyIs
<1>3. last \in Round /\ last.managerId \notin Parties
  BY <1>2, RoundsOf DEF Sound, Fresh
<1>4. x \in Round /\ x.managerId = last.managerId /\ x.decision = last.decision
  BY <1>3 DEF Round
<1>5. \A n \in 1..Len(d.rounds) : n < Len(d.rounds) => d.rounds[n].managerId # x.managerId
  BY <1>2, <1>4, LastsManager
<1>6. [d EXCEPT !.rounds[Len(d.rounds)].payment = TRUE] = e
  OBVIOUS
<1> HIDE DEF x, last
<1>7. /\ e \in Doc /\ Fresh(e.rounds) /\ e.rounds[Len(e.rounds)] = x
      /\ e.status = d.status /\ e.escalateBy = d.escalateBy
      /\ e.offer = d.offer /\ e.version = d.version
  BY <1>2, <1>3, <1>4, <1>5, Rewritten
<1>8. commit(r, e, "idle", <<>>)
  BY <1>1, <1>6
<1> HIDE DEF e
<1>9. Sound(e, Len(offers)) /\ e.status # "resolved"
  BY <1>2, <1>4, <1>7 DEF Sound, last, isClosed
<1> QED BY <1>1, <1>2, <1>7, <1>8, <1>9, PlainKeeps

-----------------------------------------------------------------------------
(* The theorems.                                                           *)

LEMMA InitInv == Init => IInv
<1> SUFFICES ASSUME Init PROVE IInv
  OBVIOUS
<1> DEFINE x == newRound(First)
           rounds == <<x>>
           d == [status |-> "awaiting_response", rounds |-> rounds, agreements |-> {},
                 escalateBy |-> 0, offer |-> 0, answered |-> FALSE, result |-> NoResult, version |-> 0]
<1>1. x \in Round /\ x.managerId \notin Parties
  BY PeopleAssumption DEF newRound, Round, Managers
<1> HIDE DEF x
<1>2. rounds \in Seq(Round) /\ Len(rounds) = 1 /\ rounds[1] = x
  BY <1>1
<1> HIDE DEF rounds
<1>3. NoResult \in Result
  BY DEF NoResult, Result, MAX_ROUNDS
<1>4. /\ d \in Doc /\ d.rounds = rounds /\ d.status = "awaiting_response" /\ d.escalateBy = 0 /\ d.offer = 0
  BY <1>2, <1>3 DEF Doc, Status
<1>5. dispute = d
  BY DEF Init, rounds, x
<1> HIDE DEF d
<1>6. Fresh(rounds)
  BY <1>1, <1>2 DEF Fresh, MAX_ROUNDS
<1>7. offers = <<>> /\ offers \in Seq(Parties) /\ Len(offers) = 0
  BY EmptySeq DEF Init
<1>8. Sound(dispute, Len(offers))
  BY <1>4, <1>5, <1>6, <1>7, BoundsAssumption DEF Sound
<1>9. FinalsTold
  BY <1>4, <1>5 DEF FinalsTold, Init
<1>10. NoRequest \in Memory
  BY EmptySeq DEF NoRequest, Memory, Counts
<1>11. /\ at \in [Requests -> Working] /\ mem \in [Requests -> Memory]
       /\ \A r \in Requests : at[r] = "idle"
  BY <1>10 DEF Init, Working
<1>12. \A r \in Requests : Holds(r)
  BY <1>11 DEF Holds, CopyOpen
<1>13. appointed \subseteq People /\ lapsed \subseteq 0..MaxDecisions /\ decisions \in 0..MaxDecisions
  BY BoundsAssumption DEF Init
<1> QED BY <1>7, <1>8, <1>9, <1>11, <1>12, <1>13 DEF IInv, Memory

LEMMA NextInv == IInv /\ [Next]_vars => IInv'
<1> SUFFICES ASSUME IInv, [Next]_vars PROVE IInv'
  OBVIOUS
<1>1. CASE UNCHANGED vars
  BY <1>1 DEF vars, IInv, Holds, CopyOpen, FinalsTold
<1>2. ASSUME NEW r \in Requests, Step(r) PROVE IInv'
  BY <1>2, LoadKeeps, MoveRoundKeeps, BringFinalKeeps, BumpKeeps, LeaveKeeps, OfferKeeps,
     AcceptKeeps, WithdrawKeeps, DecideKeeps, AgreeKeeps, EscalateKeeps, ChargeKeeps, ReceiptKeeps
     DEF Step
<1>3. ASSUME NEW m \in People, dismiss(m) PROVE IInv'
  BY <1>3, DismissKeeps
<1>4. ASSUME NEW n \in 0..MaxDecisions, lapse(n) PROVE IInv'
  BY <1>4, LapseKeeps
<1> QED BY <1>1, <1>2, <1>3, <1>4 DEF Next

LEMMA SpecInv == Spec => []IInv
BY InitInv, NextInv, PTL DEF Spec

LEMMA DocIs ==
  ASSUME NEW d, Sound(d, Len(offers)), IInv
  PROVE  IsDoc(d)
<1>1. Len(offers) \in Nat
  BY LenProperties DEF IInv
<1>2. /\ d \in Doc /\ Len(d.rounds) \in 1..MAX_ROUNDS /\ d.escalateBy <= MaxDecisions
      /\ d.offer <= Len(offers) /\ (d.escalateBy # 0 <=> d.status = "decided")
  BY DEF Sound, Fresh
<1>3. d.escalateBy \in 0..MaxDecisions /\ d.offer \in 0..Len(offers)
  BY <1>1, <1>2, BoundsAssumption DEF Doc
<1> QED BY <1>2, <1>3, RoundsOf DEF IsDoc, Doc

\* Documents, and the copies requests hold, keep the shape the code expects: a
\* deadline to escalate exactly while a decision waits, at most three rounds,
\* an offer that was made (loadDispute to withdraw, any route in any order).
THEOREM TypeCorrect == Spec => []TypeOK
<1>1. IInv => TypeOK
  <2> SUFFICES ASSUME IInv PROVE TypeOK
    OBVIOUS
  <2>1. IsDoc(dispute)
    BY DocIs DEF IInv
  <2>2. \A r \in Requests : at[r] # "idle" => IsDoc(mem[r].doc)
    BY DocIs DEF IInv, Holds
  <2>3. finals \in Nat
    BY DEF IInv, FinalsTold
  <2> QED BY <2>1, <2>2, <2>3 DEF IInv, TypeOK, Working
<1> QED BY <1>1, SpecInv, PTL

\* Readers, managers, parties and the clock may all find a result due at once:
\* the version they committed against lets one make it final (finalizeDecided).
THEOREM FinalIsOnce == Spec => []FinalOnce
<1>1. IInv => FinalOnce
  BY DEF IInv, FinalsTold, FinalOnce
<1> QED BY <1>1, SpecInv, PTL

\* However rounds are escalated, moved and decided, none is with a party or
\* with a manager who has decided another (pickManagerFor).
THEOREM ManagersStayFresh == Spec => []ManagersAreFresh
<1>1. IInv => ManagersAreFresh
  <2> SUFFICES ASSUME IInv PROVE ManagersAreFresh
    OBVIOUS
  <2>1. DOMAIN dispute.rounds = 1..Len(dispute.rounds) /\ Fresh(dispute.rounds)
    BY RoundsOf DEF IInv, Sound
  <2> QED BY <2>1 DEF Fresh, ManagersAreFresh, decisionsOf
<1> QED BY <1>1, SpecInv, PTL

-----------------------------------------------------------------------------
(* The result.                                                             *)

\* ResultIsBestOfRounds, of a document.
Best(d) ==
  LET f == d.result.favour
      against == {n \in DOMAIN d.rounds : d.rounds[n].decision \notin {f, "none"}}
      for == inFavour(d, f)
  IN  d.result.how = "decided" =>
        /\ \A n \in DOMAIN d.rounds : d.rounds[n].decision # "none"
        /\ Cardinality(against) <= Cardinality(for)
        /\ Cardinality(against) = Cardinality(for) => Len(d.rounds) \in for
        /\ d.result.round \in for
        /\ \A n \in for : n <= d.result.round

\* Of three rounds at most, two that agree outnumber the rest; if no two do,
\* there are two at most, and the last stands (standingDecision).
LEMMA StandingIsBest ==
  ASSUME NEW d, NEW made, Sound(d, made), d.rounds[Len(d.rounds)].decision # "none",
         NEW f, f = standingDecision(d).favour,
         NEW against, against = {n \in DOMAIN d.rounds : d.rounds[n].decision \notin {f, "none"}}
  PROVE  /\ \A n \in DOMAIN d.rounds : d.rounds[n].decision # "none"
         /\ Cardinality(against) <= Cardinality(inFavour(d, f))
         /\ Cardinality(against) = Cardinality(inFavour(d, f)) => Len(d.rounds) \in inFavour(d, f)
         /\ standingDecision(d).round \in inFavour(d, f)
         /\ \A n \in inFavour(d, f) : n <= standingDecision(d).round
<1> DEFINE L == Len(d.rounds)
           all == DOMAIN d.rounds
<1>1. all = 1..L /\ L \in all /\ L \in 1..3 /\ \A n \in all : d.rounds[n].decision \in Favours \cup {"none"}
  BY RoundsOf DEF Round, Sound, Fresh, MAX_ROUNDS
<1>2. \A n \in all : d.rounds[n].decision # "none"
  BY <1>1 DEF Sound, Fresh
<1>3. decisionsOf(d) = all
  BY <1>2 DEF decisionsOf
<1>4. \A g : inFavour(d, g) = {n \in all : d.rounds[n].decision = g}
  BY <1>3 DEF inFavour
<1>5. IsFiniteSet(all) /\ Cardinality(all) = L
  <2>1. L \in Nat /\ 1..L = IF 1 > L THEN {} ELSE 1..L
    BY <1>1
  <2>2. IsFiniteSet(1..L) /\ Cardinality(1..L) = IF 1 > L THEN 0 ELSE L - 1 + 1
    BY <2>1, FS_Interval
  <2> QED BY <1>1, <2>2
<1>6. /\ inFavour(d, f) \cup against = all /\ inFavour(d, f) \cap against = {}
      /\ IsFiniteSet(inFavour(d, f)) /\ IsFiniteSet(against)
  <2>1. inFavour(d, f) \subseteq all /\ against \subseteq all
    BY <1>4
  <2>2. IsFiniteSet(inFavour(d, f)) /\ IsFiniteSet(against)
    BY <1>5, <2>1, FS_Subset
  <2> QED BY <1>2, <1>4, <2>1, <2>2
<1>7. /\ Cardinality(inFavour(d, f)) \in Nat /\ Cardinality(against) \in Nat
      /\ Cardinality(inFavour(d, f)) + Cardinality(against) = L
  <2>1. Cardinality(inFavour(d, f)) \in Nat /\ Cardinality(against) \in Nat
    BY <1>6, FS_CardinalityType
  <2>2. Cardinality(inFavour(d, f) \cup against) =
          Cardinality(inFavour(d, f)) + Cardinality(against) - Cardinality(inFavour(d, f) \cap against)
    BY <1>6, FS_Union
  <2>3. Cardinality(inFavour(d, f) \cap against) = 0
    BY <1>6, FS_EmptySet, Zenon
  <2>4. Cardinality(all) =
          Cardinality(inFavour(d, f)) + Cardinality(against) - Cardinality(inFavour(d, f) \cap against)
    BY <1>6, <2>2, Zenon
  <2> HIDE DEF all, L
  <2> QED BY <1>5, <2>1, <2>3, <2>4
<1>8. CASE \E g \in Favours : Cardinality(inFavour(d, g)) >= 2
  <2> DEFINE g == CHOOSE g \in Favours : Cardinality(inFavour(d, g)) >= 2
  <2>1. g \in Favours /\ Cardinality(inFavour(d, g)) >= 2
    BY <1>8
  <2>2. standingDecision(d) = [favour |-> g, round |-> Max(inFavour(d, g))]
    BY <1>8 DEF standingDecision
  <2> HIDE DEF g
  <2>3. f = g /\ standingDecision(d).round = Max(inFavour(d, f))
    BY <2>2
  <2>4. inFavour(d, f) # {}
    <3> SUFFICES ASSUME inFavour(d, f) = {} PROVE FALSE
      OBVIOUS
    <3>1. Cardinality(inFavour(d, f)) = 0
      BY FS_EmptySet, Zenon
    <3> QED BY <2>1, <2>3, <3>1
  <2>5. inFavour(d, f) \subseteq 1..MAX_ROUNDS
    BY <1>1, <1>4 DEF MAX_ROUNDS
  <2>6. Max(inFavour(d, f)) \in inFavour(d, f) /\ \A k \in inFavour(d, f) : Max(inFavour(d, f)) >= k
    BY <2>4, <2>5, MaxOfRounds
  <2>7. \A n \in inFavour(d, f) : n <= standingDecision(d).round
    BY <2>3, <2>5, <2>6 DEF MAX_ROUNDS
  <2>8. Cardinality(against) < Cardinality(inFavour(d, f))
    BY <1>1, <1>7, <2>1, <2>3
  <2> QED BY <1>2, <1>7, <2>3, <2>6, <2>7, <2>8
<1>9. CASE ~ \E g \in Favours : Cardinality(inFavour(d, g)) >= 2
  <2>1. standingDecision(d) = [favour |-> d.rounds[Max(all)].decision, round |-> Max(all)]
    BY <1>3, <1>9 DEF standingDecision
  <2>2. Max(all) \in all /\ \A k \in all : Max(all) >= k
    <3>1. all \subseteq 1..MAX_ROUNDS /\ all # {}
      BY <1>1 DEF MAX_ROUNDS
    <3> HIDE DEF all
    <3> QED BY <3>1, MaxOfRounds
  <2>3. Max(all) = L
    <3> DEFINE m == Max(all)
    <3>1. m \in 1..L /\ m >= L
      BY <1>1, <2>2
    <3> HIDE DEF m
    <3>2. m = L
      BY <1>1, <3>1
    <3> QED BY <3>2 DEF m
  <2>4. f = d.rounds[L].decision /\ standingDecision(d).round = L
    BY <2>1, <2>3
  <2>5. L \in inFavour(d, f) /\ \A n \in inFavour(d, f) : n <= L
    BY <1>1, <1>4, <2>4
  <2>6. f \in Favours /\ Cardinality(inFavour(d, f)) # 0
    <3>1. f \in Favours
      BY <1>1, <1>2, <2>4
    <3> QED BY <1>6, <2>5, <3>1, FS_EmptySet
  <2>7. PICK g \in Favours : g # f /\ Favours = {f, g}
    BY <2>6 DEF Favours
  <2>8. against = inFavour(d, g)
    BY <1>1, <1>2, <1>4, <2>7
  <2>9. Cardinality(against) < 2
    <3>1. ~ Cardinality(inFavour(d, g)) >= 2
      BY <1>9, <2>7
    <3>2. Cardinality(against) = Cardinality(inFavour(d, g))
      BY <2>8
    <3> QED BY <1>7, <3>1, <3>2
  <2> QED BY <1>2, <1>7, <2>4, <2>5, <2>6, <2>9
<1> QED BY <1>8, <1>9

\* So a result that is made final is the best of its rounds.
LEMMA FinalizedIsBest ==
  ASSUME NEW d, NEW made, Sound(d, made), d.rounds[Len(d.rounds)].decision # "none"
  PROVE  Best(finalized(d))
<1> DEFINE e == finalized(d)
           f == standingDecision(d).favour
<1>1. /\ e.rounds = d.rounds
      /\ e.result.favour = f /\ e.result.round = standingDecision(d).round
  BY DEF finalized, Sound, Doc
<1>2. inFavour(e, f) = inFavour(d, f)
  BY <1>1 DEF inFavour, decisionsOf
<1> HIDE DEF e, f
<1>3. \A against : against = {n \in DOMAIN d.rounds : d.rounds[n].decision \notin {f, "none"}} =>
         /\ \A n \in DOMAIN d.rounds : d.rounds[n].decision # "none"
         /\ Cardinality(against) <= Cardinality(inFavour(d, f))
         /\ Cardinality(against) = Cardinality(inFavour(d, f)) => Len(d.rounds) \in inFavour(d, f)
         /\ standingDecision(d).round \in inFavour(d, f)
         /\ \A n \in inFavour(d, f) : n <= standingDecision(d).round
  BY StandingIsBest DEF f
<1>4. Best(e)
  BY <1>1, <1>2, <1>3 DEF Best
<1> QED BY <1>4 DEF e

Undecided(d) == d.result.how # "decided"

\* Only a result that was made final says it was decided.
BestInv ==
  /\ Best(dispute)
  /\ ~isClosed(dispute) => Undecided(dispute)
  /\ \A r \in Requests : at[r] \in {"final", "move", "ready", "charge", "receipt"} => Undecided(mem[r].doc)

\* r goes on with the copy it has, or with none, or with the dispute if open.
LEMMA WalkKeepsBest ==
  ASSUME BestInv, NEW r \in Requests, UNCHANGED dispute,
         \A q \in Requests \ {r} : at'[q] = at[q] /\ mem'[q] = mem[q],
         \/ at'[r] \in {"idle", "count"}
         \/ mem'[r].doc = dispute /\ ~isClosed(dispute)
         \/ mem'[r].doc = mem[r].doc /\ at[r] \in {"final", "move", "ready", "charge", "receipt"}
  PROVE  BestInv'
BY DEF BestInv, Best, Undecided, isClosed, inFavour, decisionsOf

\* What is committed keeps it if it is undecided, or the best.
LEMMA CommitKeepsBest ==
  ASSUME IInv, BestInv, NEW r \in Requests, NEW d, {"status", "rounds", "result"} \subseteq DOMAIN d,
         NEW step, NEW todo, commit(r, d, step, todo),
         Undecided(d) \/ (Best(d) /\ isClosed(d) /\ step = "count")
  PROVE  BestInv'
<1>1. at \in [Requests -> Working] /\ mem \in [Requests -> Memory]
  BY DEF IInv, Memory
<1>2. CASE dispute.version # d.version
  <2>1. /\ dispute' = dispute /\ at'[r] = "idle"
        /\ \A q \in Requests \ {r} : at'[q] = at[q] /\ mem'[q] = mem[q]
    BY <1>1, <1>2 DEF commit, ends, goes
  <2> QED BY <2>1, WalkKeepsBest
<1>3. CASE dispute.version = d.version
  <2> DEFINE new == [d EXCEPT !.version = @ + 1]
  <2>1. new.result = d.result /\ new.rounds = d.rounds /\ new.status = d.status
    OBVIOUS
  <2>2. saved(r, new, step, todo)
    BY <1>3 DEF commit
  <2> HIDE DEF new
  <2>3. /\ dispute' = new
        /\ \A q \in Requests \ {r} : at'[q] = at[q] /\ mem'[q] = mem[q]
        /\ at'[r] = step /\ (step # "idle" => mem'[r].doc = new)
    BY <1>1, <2>2 DEF saved, ends, goes
  <2>4. inFavour(new, new.result.favour) = inFavour(d, d.result.favour)
    BY <2>1 DEF inFavour, decisionsOf
  <2>5. Best(new)
    BY <2>1, <2>4 DEF Best, Undecided
  <2>6. (~isClosed(new) \/ step # "count") => Undecided(new)
    BY <2>1 DEF Undecided, isClosed
  <2>7. Best(dispute)'
    BY <2>3, <2>5 DEF Best, inFavour, decisionsOf
  <2>8. (~isClosed(dispute) => Undecided(dispute))'
    BY <2>3, <2>6 DEF Undecided, isClosed
  <2>9. ASSUME NEW q \in Requests, at'[q] \in {"final", "move", "ready", "charge", "receipt"}
        PROVE  Undecided(mem'[q].doc)
    BY <2>3, <2>6, <2>9 DEF BestInv
  <2> QED BY <2>7, <2>8, <2>9 DEF BestInv, Undecided
<1> QED BY <1>2, <1>3

LEMMA FinalKeepsBest ==
  ASSUME IInv, BestInv, NEW r \in Requests, NEW d, Sound(d, Len(offers)),
         d.rounds[Len(d.rounds)].decision # "none", finalizeDecided(r, d)
  PROVE  BestInv'
<1>1. Len(offers) \in Nat
  BY LenProperties DEF IInv
<1>2. Sound(finalized(d), Len(offers)) /\ finalized(d).status = "resolved" /\ Best(finalized(d))
  BY <1>1, Finalized, FinalizedIsBest
<1>3. {"status", "rounds", "result"} \subseteq DOMAIN finalized(d) /\ isClosed(finalized(d))
  BY <1>2 DEF Sound, isClosed, Doc
<1>4. commit(r, finalized(d), "count", countsOf(d))
  BY DEF finalizeDecided
<1> QED BY <1>2, <1>3, <1>4, CommitKeepsBest

\* Every step is of one of these kinds.
LEMMA NextKeepsBest == IInv /\ BestInv /\ [Next]_vars => BestInv'
<1> SUFFICES ASSUME IInv, BestInv, [Next]_vars PROVE BestInv'
  OBVIOUS
<1>1. CASE UNCHANGED <<dispute, at, mem>>
  BY <1>1 DEF BestInv, Best, Undecided, isClosed, inFavour, decisionsOf
<1>2. ASSUME NEW r \in Requests, Step(r) PROVE BestInv'
  <2> DEFINE d == mem[r].doc
             Edits(e) == DOMAIN e = DOMAIN d /\ Undecided(e)
  <2>1. at \in [Requests -> Working] /\ mem \in [Requests -> Memory]
    BY DEF IInv, Memory
  <2>2. ASSUME at[r] \in {"final", "move", "ready", "receipt"}
        PROVE  d \in Doc /\ Undecided(d)
    BY <2>2, CopyIs DEF BestInv
  <2>c. ASSUME NEW e, NEW step, NEW todo, commit(r, e, step, todo), Edits(e), d \in Doc
        PROVE  BestInv'
    <3>1. {"status", "rounds", "result"} \subseteq DOMAIN e /\ Undecided(e)
      BY <2>c DEF Doc
    <3> QED BY <2>c, <3>1, CommitKeepsBest
  <2>t. ASSUME takesTheirs(r) PROVE BestInv'
    <3>1. /\ \A q \in Requests \ {r} : at'[q] = at[q] /\ mem'[q] = mem[q]
          /\ dispute' = dispute
          /\ at'[r] = "idle" \/ (mem'[r].doc = dispute /\ ~isClosed(dispute))
      BY <2>1, <2>t DEF takesTheirs, ends, goes, Memory
    <3> QED BY <3>1, WalkKeepsBest
  <2>3. CASE load(r)
    <3>1. /\ \A q \in Requests \ {r} : at'[q] = at[q] /\ mem'[q] = mem[q]
          /\ dispute' = dispute /\ mem'[r].doc = dispute /\ ~isClosed(dispute)
      BY <2>1, <2>3 DEF load, goes, Memory
    <3> QED BY <3>1, WalkKeepsBest
  <2>4. CASE moveRound(r)
    <3>1. at[r] = "move" /\ (takesTheirs(r) \/ \E m : commit(r, reassignRound(d, m), "ready", <<>>))
      BY <2>4 DEF moveRound
    <3>2. \A m : Edits(reassignRound(d, m))
      BY <2>2, <3>1 DEF reassignRound, Undecided, Doc
    <3> QED BY <2>2, <2>c, <2>t, <3>1, <3>2
  <2>5. CASE bringFinal(r)
    <3>1. at[r] = "final" /\ (takesTheirs(r) \/ finalizeDecided(r, d))
      BY <2>5 DEF bringFinal
    <3>2. Sound(d, Len(offers)) /\ d.rounds[Len(d.rounds)].decision # "none"
      BY <3>1 DEF IInv, Holds, Sound
    <3> QED BY <2>t, <3>1, <3>2, FinalKeepsBest
  <2>6. CASE bump(r) \/ leave(r) \/ charge(r)
    <3>1. /\ \A q \in Requests \ {r} : at'[q] = at[q] /\ mem'[q] = mem[q]
          /\ dispute' = dispute
          /\ \/ at'[r] \in {"idle", "count"}
             \/ mem'[r].doc = mem[r].doc /\ at[r] = "charge"
      BY <2>1, <2>6 DEF bump, leave, charge, ends, goes, histories, elsewhere
    <3> QED BY <3>1, WalkKeepsBest
  <2>7. CASE offer(r)
    <3>1. at[r] = "ready" /\ \E p \in Parties : \E n : commit(r, [spoken(d, p) EXCEPT !.offer = n], "idle", <<>>)
      BY <2>7 DEF offer, acts
    <3>2. \A p, n : Edits([spoken(d, p) EXCEPT !.offer = n])
      BY <2>2, <3>1 DEF spoken, Undecided, Doc
    <3> QED BY <2>2, <2>c, <3>1, <3>2
  <2>8. CASE accept(r)
    <3>1. at[r] = "ready" /\ \E p, todo : commit(r, settled(d, p), "count", todo)
      BY <2>8 DEF accept, acts
    <3>2. \A p : Edits(settled(d, p))
      BY <2>2, <3>1 DEF settled, said, NoResult, Undecided, Doc
    <3> QED BY <2>2, <2>c, <3>1, <3>2
  <2>9. CASE withdraw(r)
    <3> DEFINE e == [d EXCEPT !.status = "withdrawn", !.offer = 0, !.result = [NoResult EXCEPT !.how = "withdrawn"]]
    <3>1. at[r] = "ready" /\ commit(r, e, "idle", <<>>)
      BY <2>9 DEF withdraw, acts
    <3>2. Edits(e)
      BY <2>2, <3>1 DEF NoResult, Undecided, Doc
    <3> QED BY <2>2, <2>c, <3>1, <3>2
  <2>10. CASE decide(r) \/ agree(r)
    <3>1. PICK e : /\ Sound(e, Len(offers)) /\ e.rounds[Len(e.rounds)].decision # "none"
                   /\ e.result = d.result
                   /\ commit(r, e, "idle", <<>>) \/ finalizeDecided(r, e)
      BY <2>10, Deciding, Agreeing
    <3>2. at[r] = "ready"
      BY <2>10, Deciding, Agreeing
    <3>3. CASE finalizeDecided(r, e)
      BY <3>1, <3>3, FinalKeepsBest
    <3>4. CASE commit(r, e, "idle", <<>>)
      <4>1. Edits(e)
        BY <2>2, <3>1, <3>2 DEF Sound, Doc, Undecided
      <4> QED BY <2>2, <2>c, <3>2, <3>4, <4>1
    <3> QED BY <3>1, <3>3, <3>4
  <2>11. CASE escalate(r)
    <3> DEFINE e(m) == [said(d, losingPartyOfLatest(d)) EXCEPT
                          !.rounds = Append(@, newRound(m)), !.status = "in_discussion",
                          !.escalateBy = 0, !.offer = 0]
    <3>1. at[r] = "ready" /\ \E m : commit(r, e(m), "charge", <<>>)
      BY <2>11 DEF escalate, acts
    <3>2. \A m : Edits(e(m))
      BY <2>2, <3>1 DEF said, Undecided, Doc
    <3> HIDE DEF e
    <3> QED BY <2>2, <2>c, <3>1, <3>2
  <2>12. CASE receipt(r)
    <3> DEFINE e == [d EXCEPT !.rounds[Len(d.rounds)].payment = TRUE]
    <3>1. at[r] = "receipt" /\ commit(r, e, "idle", <<>>)
      BY <2>12 DEF receipt
    <3>2. Edits(e)
      BY <2>2, <3>1 DEF Undecided, Doc
    <3> HIDE DEF e
    <3> QED BY <2>2, <2>c, <3>1, <3>2
  <2> QED BY <1>2, <2>3, <2>4, <2>5, <2>6, <2>7, <2>8, <2>9, <2>10, <2>11, <2>12 DEF Step
<1> QED BY <1>1, <1>2 DEF Next, dismiss, lapse, vars

LEMMA InitBest == Init => BestInv
BY DEF Init, BestInv, Best, NoResult, Undecided

\* Whatever rounds there were, and whoever found the result due, what is carried
\* out is what most decisions favour, or the last if they are even.
THEOREM ResultsAreBest == Spec => []ResultIsBestOfRounds
<1>1. BestInv => ResultIsBestOfRounds
  BY DEF BestInv, Best, ResultIsBestOfRounds
<1> QED BY <1>1, InitBest, NextKeepsBest, SpecInv, PTL DEF Spec

-----------------------------------------------------------------------------
(* What is counted.                                                        *)

\* The records when L have lost, W won and S settled, once each.
Tally(L, W, S) ==
  [p \in Parties |-> [lost |-> IF p \in L THEN 1 ELSE 0, won |-> IF p \in W THEN 1 ELSE 0,
                      settled |-> IF p \in S THEN 1 ELSE 0]]

\* What is counted of a result at first: a defeat, and a victory if the other
\* side took part, or a settlement each.
FirstCounts(todo) ==
  \/ \E p \in Parties : todo = <<<<other(p), "lost">>>> \/ todo = <<<<other(p), "lost">>, <<p, "won">>>>
  \/ todo = <<<<Raiser, "settled">>, <<Respondent, "settled">>>>

\* How far the one request that counts has come.
Remains(todo, L, W, S) ==
  \/ L = {} /\ W = {} /\ S = {} /\ FirstCounts(todo)
  \/ \E p \in Parties : L = {other(p)} /\ W = {} /\ S = {} /\ todo = <<<<p, "won">>>>
  \/ L = {} /\ W = {} /\ S = {Raiser} /\ todo = <<<<Respondent, "settled">>>>

\* Records that one result can leave, all of it counted or not.
OfOneResult(L, W, S) ==
  \/ L = {} /\ W = {} /\ S \in {{}, {Raiser}, Parties}
  \/ \E p \in Parties : L = {other(p)} /\ W \in {{}, {p}} /\ S = {}

CountsSoFar(L, W, S) ==
  /\ record = Tally(L, W, S) /\ OfOneResult(L, W, S)
  /\ finals = 0 => L = {} /\ W = {} /\ S = {}
  /\ \A r \in Requests : at[r] = "count" => finals = 1 /\ Remains(mem[r].todo, L, W, S)

\* One request counts, once a result was made final.
CountInv ==
  /\ finals \in {0, 1}
  /\ \A r, q \in Requests : at[r] = "count" /\ at[q] = "count" => r = q
  /\ \E L, W, S \in SUBSET Parties : CountsSoFar(L, W, S)

LEMMA Others ==
  /\ other(Raiser) = Respondent /\ other(Respondent) = Raiser
  /\ \A p \in Parties : p = Raiser \/ p = Respondent
BY PartiesAssumption DEF other, Parties

\* Such records are as CountsAreFinal says.
LEMMA CountFollows == CountInv => CountsAreFinal
<1> SUFFICES ASSUME CountInv PROVE CountsAreFinal
  OBVIOUS
<1>1. PICK L, W, S \in SUBSET Parties :
        record = Tally(L, W, S) /\ OfOneResult(L, W, S) /\ (finals = 0 => L = {} /\ W = {} /\ S = {})
  BY DEF CountInv, CountsSoFar
<1>2. \A p \in Parties : /\ record[p].lost = IF p \in L THEN 1 ELSE 0
                         /\ record[p].won = IF p \in W THEN 1 ELSE 0
                         /\ record[p].settled = IF p \in S THEN 1 ELSE 0
  BY <1>1 DEF Tally
<1>3. Raiser \in Parties /\ Respondent \in Parties /\ Raiser # Respondent
  BY OfParties, PartiesAssumption
<1>4. finals \in {0, 1}
  BY DEF CountInv
<1>5. CASE L = {} /\ W = {} /\ S \in {{}, {Raiser}, Parties}
  BY <1>1, <1>2, <1>3, <1>4, <1>5, Others DEF CountsAreFinal
<1>6. CASE \E p \in Parties : L = {other(p)} /\ W \in {{}, {p}} /\ S = {}
  <2>1. PICK p \in Parties : L = {other(p)} /\ W \in {{}, {p}} /\ S = {}
    BY <1>6
  <2>2. finals = 1 /\ other(p) \in Parties /\ other(p) # p
    BY <1>1, <1>3, <1>4, <2>1, Others
  <2>3. /\ other(p) \in L /\ p \notin L /\ other(p) \notin W
        /\ other(p) \notin S /\ p \notin S
    BY <2>1, <2>2
  <2>4. /\ record[other(p)].lost = 1 /\ record[p].lost = 0
        /\ record[other(p)].won = 0 /\ (record[p].won = 0 \/ record[p].won = 1)
        /\ record[p].settled = 0 /\ record[other(p)].settled = 0
    BY <1>2, <2>2, <2>3
  <2>5. \A q \in Parties : record[q].won <= record[other(q)].lost
    <3> SUFFICES ASSUME NEW q \in Parties PROVE record[q].won <= record[other(q)].lost
      OBVIOUS
    <3>1. CASE q = p
      BY <2>4, <3>1
    <3>2. CASE q = other(p)
      <4>1. other(q) = p
        BY <2>2, <3>2, Others
      <4> QED BY <2>4, <3>2, <4>1
    <3> QED BY <2>2, <3>1, <3>2, Others
  <2>6. CASE p = Raiser
    BY <2>2, <2>4, <2>5, <2>6, Others DEF CountsAreFinal
  <2>7. CASE p = Respondent
    BY <2>2, <2>4, <2>5, <2>7, Others DEF CountsAreFinal
  <2> QED BY <2>6, <2>7, Others
<1> QED BY <1>1, <1>5, <1>6 DEF OfOneResult

\* Sequences of one and of two.
LEMMA OneOrTwo ==
  ASSUME NEW x, NEW y
  PROVE  /\ Head(<<x>>) = x /\ Len(<<x>>) = 1
         /\ Head(<<x, y>>) = x /\ Tail(<<x, y>>) = <<y>>
<1>1. Head(<<x>>) = x /\ Len(<<x>>) = 1
  OBVIOUS
<1>2. Head(<<x, y>>) = x
  OBVIOUS
<1>3. Tail(<<x, y>>) = <<y>>
  OBVIOUS
<1> QED BY <1>1, <1>2, <1>3

LEMMA Joined ==
  ASSUME NEW x, NEW y
  PROVE  <<x>> \o <<y>> = <<x, y>> /\ <<x>> \o <<>> = <<x>>
<1>1. <<x>> \in Seq({x, y}) /\ <<y>> \in Seq({x, y}) /\ <<x, y>> \in Seq({x, y})
  OBVIOUS
<1>2. /\ <<x>> \o <<y>> \in Seq({x, y}) /\ Len(<<x>> \o <<y>>) = 2
      /\ \A i \in 1 .. 2 : (<<x>> \o <<y>>)[i] = IF i <= 1 THEN <<x>>[i] ELSE <<y>>[i - 1]
  BY <1>1, ConcatProperties
<1>3. /\ Len(<<x, y>>) = 2
      /\ \A i \in 1 .. 2 : <<x, y>>[i] = IF i <= 1 THEN <<x>>[i] ELSE <<y>>[i - 1]
  OBVIOUS
<1>4. <<x>> \o <<>> = <<x>>
  BY <1>1, ConcatEmptySeq
<1> QED BY <1>1, <1>2, <1>3, <1>4, SeqEqual

\* What a decision has counted is where counting begins.
LEMMA CountsOfFirst == \A d : FirstCounts(countsOf(d))
<1> TAKE d
<1> DEFINE p == sideOf(standingDecision(d).favour)
           a == <<other(p), "lost">>
           b == <<p, "won">>
<1>1. p \in Parties
  BY OfParties DEF sideOf
<1>2. countsOf(d) = <<a>> \o (IF d.answered THEN <<b>> ELSE <<>>)
  BY DEF countsOf
<1> HIDE DEF a, b
<1>3. <<a>> \o <<b>> = <<a, b>> /\ <<a>> \o <<>> = <<a>>
  BY Joined
<1> HIDE DEF p
<1>4. countsOf(d) = <<a>> \/ countsOf(d) = <<a, b>>
  BY <1>2, <1>3
<1> QED BY <1>1, <1>4 DEF FirstCounts, a, b

\* r does not count, and no result is made final.
LEMMA WalkKeepsCounts ==
  ASSUME CountInv, NEW r \in Requests, UNCHANGED <<record, finals>>, at'[r] # "count",
         \A q \in Requests \ {r} : at'[q] = at[q] /\ mem'[q] = mem[q]
  PROVE  CountInv'
<1>1. PICK L, W, S \in SUBSET Parties : CountsSoFar(L, W, S)
  BY DEF CountInv
<1>2. CountsSoFar(L, W, S)'
  BY <1>1 DEF CountsSoFar
<1> QED BY <1>2 DEF CountInv

\* A commit makes no result final, or the first, and its request counts it.
LEMMA CommitKeepsCounts ==
  ASSUME IInv, IInv', CountInv, NEW r \in Requests, NEW d, NEW step, NEW todo, commit(r, d, step, todo),
         UNCHANGED record,
         \/ step # "count" /\ todo = <<>>
         \/ step = "count" /\ todo # <<>> /\ FirstCounts(todo)
  PROVE  CountInv'
<1>1. at \in [Requests -> Working] /\ mem \in [Requests -> Memory]
  BY DEF IInv, Memory
<1>2. finals \in {0, 1} /\ finals' \in {0, 1}
  BY DEF IInv, FinalsTold
<1>3. CASE dispute.version # d.version
  <2>1. /\ finals' = finals /\ at'[r] = "idle"
        /\ \A q \in Requests \ {r} : at'[q] = at[q] /\ mem'[q] = mem[q]
    BY <1>1, <1>3 DEF commit, ends, goes
  <2> QED BY <2>1, WalkKeepsCounts
<1>4. CASE dispute.version = d.version
  <2>1. PICK new : saved(r, new, step, todo)
    BY <1>4 DEF commit
  <2>2. /\ \A q \in Requests \ {r} : at'[q] = at[q] /\ mem'[q] = mem[q]
        /\ at'[r] = step /\ (step # "idle" => mem'[r].todo = todo)
        /\ finals' = IF todo # <<>> THEN finals + 1 ELSE finals
    BY <1>1, <2>1 DEF saved, ends, goes
  <2>3. CASE step # "count"
    BY <2>2, <2>3, WalkKeepsCounts
  <2>4. CASE step = "count"
    <3>1. finals = 0 /\ finals' = 1
      BY <1>2, <2>2, <2>4
    <3>2. PICK L, W, S \in SUBSET Parties : CountsSoFar(L, W, S)
      BY DEF CountInv
    <3>3. L = {} /\ W = {} /\ S = {} /\ \A q \in Requests : at[q] # "count"
      BY <3>1, <3>2 DEF CountsSoFar
    <3>4. CountsSoFar(L, W, S)'
      BY <2>2, <2>4, <3>1, <3>2, <3>3 DEF CountsSoFar, Remains
    <3>5. \A q, p \in Requests : at'[q] = "count" /\ at'[p] = "count" => q = p
      BY <2>2, <3>3
    <3> QED BY <1>2, <3>4, <3>5 DEF CountInv
  <2> QED BY <2>3, <2>4
<1> QED BY <1>3, <1>4

\* One more is counted, of what is left.
LEMMA BumpKeepsCounts ==
  ASSUME IInv, CountInv, NEW r \in Requests, bump(r)
  PROVE  CountInv'
<1> DEFINE todo == mem[r].todo
<1>1. /\ at[r] = "count" /\ finals' = finals
      /\ record' = [record EXCEPT ![Head(todo)[1]][Head(todo)[2]] = @ + 1]
      /\ IF Len(todo) = 1 THEN ends(r) ELSE mem' = [mem EXCEPT ![r].todo = Tail(todo)] /\ UNCHANGED at
  BY DEF bump
<1>2. at \in [Requests -> Working] /\ mem \in [Requests -> Memory]
  BY DEF IInv, Memory
<1>3. PICK L, W, S \in SUBSET Parties : CountsSoFar(L, W, S)
  BY DEF CountInv
<1>4. /\ finals = 1 /\ Remains(todo, L, W, S) /\ record = Tally(L, W, S)
      /\ \A q \in Requests \ {r} : at[q] # "count"
      /\ finals' = 1
  BY <1>1, <1>3 DEF CountsSoFar, CountInv
<1>5. /\ \A q \in Requests \ {r} : at'[q] # "count"
      /\ Len(todo) = 1 => at'[r] = "idle"
      /\ Len(todo) # 1 => mem'[r].todo = Tail(todo)
  BY <1>1, <1>2, <1>4 DEF ends, goes, Memory
<1>6. ASSUME NEW M \in SUBSET Parties, NEW V \in SUBSET Parties, NEW T \in SUBSET Parties,
             record' = Tally(M, V, T), OfOneResult(M, V, T),
             Len(todo) = 1 \/ Remains(Tail(todo), M, V, T)
      PROVE  CountInv'
  <2>1. CountsSoFar(M, V, T)'
    BY <1>4, <1>5, <1>6 DEF CountsSoFar
  <2> QED BY <1>4, <1>5, <2>1 DEF CountInv
<1> HIDE DEF todo
<1>7. \A p \in Parties : other(p) \in Parties /\ other(p) # p
  BY OfParties, Others, PartiesAssumption
<1>8. CASE L = {} /\ W = {} /\ S = {} /\ \E p \in Parties :
             todo = <<<<other(p), "lost">>>> \/ todo = <<<<other(p), "lost">>, <<p, "won">>>>
  <2>1. PICK p \in Parties : todo = <<<<other(p), "lost">>>> \/ todo = <<<<other(p), "lost">>, <<p, "won">>>>
    BY <1>8
  <2>2. Head(todo) = <<other(p), "lost">> /\ (Len(todo) = 1 \/ Tail(todo) = <<<<p, "won">>>>)
    <3> DEFINE a == <<other(p), "lost">>
               b == <<p, "won">>
    <3>1. todo = <<a>> \/ todo = <<a, b>>
      BY <2>1
    <3> HIDE DEF a, b
    <3>2. CASE todo = <<a>>
      <4>1. Head(todo) = a /\ Len(todo) = 1
        BY <3>2, OneOrTwo
      <4> QED BY <4>1 DEF a
    <3>3. CASE todo = <<a, b>>
      <4>1. Head(todo) = a /\ Tail(todo) = <<b>>
        BY <3>3, OneOrTwo
      <4> QED BY <4>1 DEF a, b
    <3> QED BY <3>1, <3>2, <3>3
  <2>3. record' = Tally({other(p)}, {}, {})
    BY <1>1, <1>4, <1>7, <1>8, <2>2 DEF Tally
  <2>4. OfOneResult({other(p)}, {}, {})
    BY DEF OfOneResult
  <2>5. Len(todo) = 1 \/ Remains(Tail(todo), {other(p)}, {}, {})
    BY <2>2 DEF Remains
  <2> QED BY <1>6, <1>7, <2>3, <2>4, <2>5
<1>9. CASE L = {} /\ W = {} /\ S = {} /\ todo = <<<<Raiser, "settled">>, <<Respondent, "settled">>>>
  <2>1. Head(todo) = <<Raiser, "settled">> /\ Tail(todo) = <<<<Respondent, "settled">>>>
    BY <1>9
  <2>2. record' = Tally({}, {}, {Raiser})
    BY <1>1, <1>4, <1>9, <2>1, OfParties DEF Tally
  <2>3. OfOneResult({}, {}, {Raiser}) /\ Remains(Tail(todo), {}, {}, {Raiser})
    BY <2>1 DEF OfOneResult, Remains
  <2> QED BY <1>6, <2>2, <2>3, OfParties
<1>10. CASE \E p \in Parties : L = {other(p)} /\ W = {} /\ S = {} /\ todo = <<<<p, "won">>>>
  <2>1. PICK p \in Parties : L = {other(p)} /\ W = {} /\ S = {} /\ todo = <<<<p, "won">>>>
    BY <1>10
  <2>2. Head(todo) = <<p, "won">> /\ Len(todo) = 1
    BY <2>1, OneOrTwo
  <2>3. record' = Tally(L, {p}, {})
    <3>1. Head(todo)[1] = p /\ Head(todo)[2] = "won"
      BY <2>2
    <3>2. record' = [record EXCEPT ![p]["won"] = @ + 1]
      BY <1>1, <3>1
    <3>3. record = Tally(L, {}, {})
      BY <1>4, <2>1
    <3> DEFINE lost(q) == IF q \in L THEN 1 ELSE 0
    <3>4. /\ record = [q \in Parties |-> [lost |-> lost(q), won |-> 0, settled |-> 0]]
          /\ Tally(L, {p}, {}) =
               [q \in Parties |-> [lost |-> lost(q), won |-> IF q = p THEN 1 ELSE 0, settled |-> 0]]
      BY <3>3 DEF Tally
    <3> HIDE DEF todo, lost
    <3>5. [record[p] EXCEPT !["won"] = @ + 1] = [lost |-> lost(p), won |-> 1, settled |-> 0]
      BY <3>4
    <3>6. record' = [record EXCEPT ![p] = [lost |-> lost(p), won |-> 1, settled |-> 0]]
      BY <3>2, <3>5
    <3> QED BY <3>4, <3>6
  <2>4. OfOneResult(L, {p}, {})
    BY <2>1 DEF OfOneResult
  <2> QED BY <1>6, <2>2, <2>3, <2>4
<1>11. CASE L = {} /\ W = {} /\ S = {Raiser} /\ todo = <<<<Respondent, "settled">>>>
  <2>1. Head(todo) = <<Respondent, "settled">> /\ Len(todo) = 1
    BY <1>11
  <2>2. record' = Tally({}, {}, Parties)
    BY <1>1, <1>4, <1>11, <2>1, OfParties, Others, PartiesAssumption DEF Tally
  <2>3. OfOneResult({}, {}, Parties)
    BY DEF OfOneResult
  <2> QED BY <1>6, <2>1, <2>2, <2>3
<1> QED BY <1>4, <1>8, <1>9, <1>10, <1>11 DEF Remains, FirstCounts

\* Every other step is a walk or a commit.
LEMMA NextKeepsCounts == IInv /\ IInv' /\ CountInv /\ [Next]_vars => CountInv'
<1> SUFFICES ASSUME IInv, IInv', CountInv, [Next]_vars PROVE CountInv'
  OBVIOUS
<1>1. CASE UNCHANGED <<at, mem, finals, record>>
  BY <1>1 DEF CountInv, CountsSoFar
<1>2. ASSUME NEW r \in Requests, Step(r) PROVE CountInv'
  <2>1. at \in [Requests -> Working] /\ mem \in [Requests -> Memory]
    BY DEF IInv, Memory
  <2>w. ASSUME UNCHANGED <<finals, record>>, NEW step, step # "count", goes(r, step),
               \A q \in Requests \ {r} : mem'[q] = mem[q]
        PROVE  CountInv'
    <3>1. at'[r] = step /\ \A q \in Requests \ {r} : at'[q] = at[q]
      BY <2>1, <2>w DEF goes
    <3> QED BY <2>w, <3>1, WalkKeepsCounts
  <2>p. ASSUME NEW d, NEW step, step # "count", commit(r, d, step, <<>>), UNCHANGED record
        PROVE  CountInv'
    BY <2>p, CommitKeepsCounts
  <2>f. ASSUME NEW d, finalizeDecided(r, d), UNCHANGED record
        PROVE  CountInv'
    <3>1. countsOf(d) # <<>> /\ FirstCounts(countsOf(d))
      BY CountsOfFirst DEF FirstCounts
    <3> QED BY <2>f, <3>1, CommitKeepsCounts DEF finalizeDecided
  <2>t. ASSUME takesTheirs(r), UNCHANGED record
        PROVE  CountInv'
    <3>1. UNCHANGED finals /\ (goes(r, "idle") \/ goes(r, "ready"))
          /\ \A q \in Requests \ {r} : mem'[q] = mem[q]
      BY <2>1, <2>t DEF takesTheirs, ends
    <3> QED BY <2>t, <2>w, <3>1
  <2>2. CASE bump(r)
    BY <2>2, BumpKeepsCounts
  <2>3. CASE load(r) \/ charge(r) \/ leave(r)
    <3>1. UNCHANGED <<finals, record>> /\ \A q \in Requests \ {r} : mem'[q] = mem[q]
      BY <2>1, <2>3 DEF load, charge, leave, ends, histories, elsewhere
    <3>2. \E step \in {"idle", "final", "move", "ready", "receipt"} : goes(r, step)
      BY <2>3 DEF load, charge, leave, ends
    <3> QED BY <2>w, <3>1, <3>2
  <2>4. CASE moveRound(r)
    BY <2>4, <2>p, <2>t DEF moveRound, histories
  <2>5. CASE bringFinal(r)
    BY <2>5, <2>f, <2>t DEF bringFinal, histories
  <2>6. CASE offer(r) \/ withdraw(r) \/ escalate(r) \/ receipt(r)
    <3>1. UNCHANGED record /\ \E d : \E step \in {"idle", "charge"} : commit(r, d, step, <<>>)
      BY <2>6 DEF offer, withdraw, escalate, receipt, histories
    <3> QED BY <2>p, <3>1
  <2>7. CASE accept(r)
    <3> DEFINE todo == <<<<Raiser, "settled">>, <<Respondent, "settled">>>>
    <3>1. UNCHANGED record /\ \E d : commit(r, d, "count", todo)
      BY <2>7 DEF accept, histories
    <3>2. todo # <<>> /\ FirstCounts(todo)
      BY DEF FirstCounts
    <3> HIDE DEF todo
    <3> QED BY <3>1, <3>2, CommitKeepsCounts
  <2>8. CASE decide(r) \/ agree(r)
    <3>1. UNCHANGED record
      BY <2>8 DEF decide, agree, histories
    <3>2. \E d : commit(r, d, "idle", <<>>) \/ finalizeDecided(r, d)
      BY <2>8, Deciding, Agreeing
    <3> QED BY <2>p, <2>f, <3>1, <3>2
  <2> QED BY <1>2, <2>2, <2>3, <2>4, <2>5, <2>6, <2>7, <2>8 DEF Step
<1> QED BY <1>1, <1>2 DEF Next, dismiss, lapse, histories, vars

LEMMA InitCounts == Init => CountInv
<1> SUFFICES ASSUME Init PROVE CountInv
  OBVIOUS
<1>1. /\ finals = 0 /\ record = [p \in Parties |-> [lost |-> 0, won |-> 0, settled |-> 0]]
      /\ \A r \in Requests : at[r] = "idle"
  BY DEF Init
<1>2. record = Tally({}, {}, {})
  BY <1>1 DEF Tally
<1>3. CountsSoFar({}, {}, {})
  BY <1>1, <1>2 DEF CountsSoFar, OfOneResult
<1> QED BY <1>1, <1>3 DEF CountInv

\* The records of the two sides never say more than one result made final, and
\* nobody has won what the other has not lost (bump may be cut short anywhere).
THEOREM CountsStayFinal == Spec => []CountsAreFinal
BY InitCounts, NextKeepsCounts, CountFollows, SpecInv, PTL DEF Spec
=============================================================================
