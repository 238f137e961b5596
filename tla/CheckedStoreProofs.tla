------------------------- MODULE CheckedStoreProofs -------------------------
(***************************************************************************)
(* For any number of requests, instances, fields, values and attempts:     *)
(* writes checked by etag, and merged when they lose, are compare-and-     *)
(* swaps of the fields the handler changed.                                *)
(***************************************************************************)
EXTENDS CheckedStore, TLAPS

\* What holds between a lost write and the next: the first offer is made
\* under the etag the document was read with, and a later one was merged, from
\* a known base and without a conflict, onto the version it is conditional on.
LoopInv ==
  \A r \in Requests :
    /\ tag[r] \in Etags
    /\ pc[r] \in {"replacing", "merging"} =>
         /\ cond[r] \in Etags
         /\ attempt[r] = 0 => cond[r] = tag[r]
         /\ attempt[r] # 0 => base[r] # NoDoc
    /\ pc[r] = "merging" => base[r] # NoDoc
    /\ pc[r] = "replacing" /\ attempt[r] # 0 =>
         conflicts(base[r], mine[r], versions[cond[r]].doc) = {}

IInv == TypeOK /\ SnapshotsFaithful /\ LoopInv

-----------------------------------------------------------------------------
\* A merge of documents is a document, and mergeChanges keeps its promise:
\* fields the writer changed are the writer's, the others are what won.
LEMMA MergedType ==
  ASSUME NEW a \in Doc, NEW b \in Doc, NEW c \in Doc
  PROVE  merged(a, b, c) \in Doc
BY DEF merged, Doc

\* Merging onto the very version one started from gives back one's own copy.
LEMMA MergedOntoBase ==
  ASSUME NEW a \in Doc, NEW b \in Doc
  PROVE  merged(a, b, a) = b /\ conflicts(a, b, a) = {}
BY DEF merged, conflicts, Doc

\* There is a current version, and every version is one.
LEMMA VersionFacts ==
  ASSUME TypeOK
  PROVE  /\ etagNow \in Nat /\ etagNow \in Etags /\ current \in Doc
         /\ \A e \in Etags : versions[e] \in Version /\ versions[e].doc \in Doc
<1>1. versions \in Seq(Version) /\ versions # <<>>
  BY DEF TypeOK
<1>2. Len(versions) \in Nat /\ Len(versions) > 0
  BY <1>1
<1>3. \A e \in 1 .. Len(versions) : versions[e] \in Version
  BY <1>1
<1>4. \A v \in Version : v.doc \in Doc
  BY DEF Version
<1> QED BY <1>2, <1>3, <1>4 DEF Etags, etagNow, current

\* recall answers with an entry of the cache that has the etag asked for.
LEMMA RecallFaithful ==
  ASSUME TypeOK, SnapshotsFaithful, NEW i \in Instances, NEW e \in Etags
  PROVE  recall(i, e) = NoDoc \/ recall(i, e) = versions[e].doc
<1>1. CASE \E s \in snapshots[i] : s.etag = e
  <2>1. PICK s \in snapshots[i] : s = CHOOSE t \in snapshots[i] : t.etag = e
    BY <1>1
  <2>2. s.etag = e
    BY <1>1, <2>1
  <2>3. s.doc = versions[e].doc
    BY <2>2 DEF SnapshotsFaithful
  <2> QED BY <1>1, <2>1, <2>3 DEF recall
<1>2. CASE ~ \E s \in snapshots[i] : s.etag = e
  BY <1>2 DEF recall
<1> QED BY <1>1, <1>2

\* What is offered is a document.
LEMMA OfferType ==
  ASSUME IInv, NEW r \in Requests, pc[r] = "replacing"
  PROVE  offer(r) \in Doc
<1>1. CASE attempt[r] = 0
  BY <1>1 DEF offer, IInv, TypeOK
<1>2. CASE attempt[r] # 0
  <2>1. base[r] \in Doc /\ mine[r] \in Doc /\ versions[cond[r]].doc \in Doc
    <3>1. cond[r] \in Etags /\ base[r] # NoDoc
      BY <1>2 DEF IInv, LoopInv
    <3> QED BY <3>1, VersionFacts DEF IInv, TypeOK
  <2> QED BY <1>2, <2>1, MergedType DEF offer
<1> QED BY <1>1, <1>2

\* The invariant of the runs follows from the inductive one.
LEMMA OfferFollows ==
  IInv => OfferIsOverlay
<1> SUFFICES ASSUME IInv, NEW r \in Requests, pc[r] = "replacing"
             PROVE  /\ cond[r] \in Etags
                    /\ conflicts(versions[tag[r]].doc, mine[r], versions[cond[r]].doc) = {}
                    /\ offer(r) = merged(versions[tag[r]].doc, mine[r], versions[cond[r]].doc)
  BY DEF OfferIsOverlay
<1>1. /\ cond[r] \in Etags /\ tag[r] \in Etags /\ mine[r] \in Doc
      /\ versions[tag[r]].doc \in Doc
  <2>1. cond[r] \in Etags /\ tag[r] \in Etags
    BY DEF IInv, LoopInv
  <2> QED BY <2>1, VersionFacts DEF IInv, TypeOK
<1>2. CASE attempt[r] = 0
  <2>1. cond[r] = tag[r] /\ offer(r) = mine[r]
    BY <1>2 DEF IInv, LoopInv, offer
  <2> QED BY <1>1, <2>1, MergedOntoBase
<1>3. CASE attempt[r] # 0
  <2>1. base[r] = versions[tag[r]].doc
    BY <1>3 DEF IInv, LoopInv, SnapshotsFaithful
  <2> QED BY <1>1, <1>3, <2>1 DEF IInv, LoopInv, offer
<1> QED BY <1>2, <1>3

-----------------------------------------------------------------------------
LEMMA InitIInv == Init => IInv
<1> SUFFICES ASSUME Init PROVE IInv
  OBVIOUS
<1> PICK d \in Doc : versions = <<[doc |-> d, by |-> Nobody]>>
  BY DEF Init
<1>1. /\ d \in Doc /\ versions \in Seq(Version)
      /\ versions # <<>> /\ Len(versions) = 1 /\ versions[1].doc = d
  BY DEF Version
<1>2. TypeOK
  BY <1>1 DEF Init, TypeOK
<1>3. SnapshotsFaithful
  BY DEF Init, SnapshotsFaithful
<1>4. \A r \in Requests : tag[r] \in Etags /\ pc[r] = "idle"
  <2>1. tag = [r \in Requests |-> 1] /\ pc = [r \in Requests |-> "idle"]
    BY DEF Init
  <2>2. 1 \in Etags
    BY <1>1 DEF Etags
  <2> QED BY <2>1, <2>2
<1>5. LoopInv
  BY <1>4 DEF LoopInv
<1> QED BY <1>2, <1>3, <1>5 DEF IInv

\* Steps that leave every version where it is and touch no request's save.
LEMMA StepIInv == IInv /\ [Next]_vars => IInv'
<1> SUFFICES ASSUME IInv, [Next]_vars PROVE IInv'
  OBVIOUS
<1> USE DEF IInv
<1>0. /\ etagNow \in Etags /\ etagNow \in Nat /\ current \in Doc
      /\ \A e \in Etags : versions[e].doc \in Doc
  BY VersionFacts
<1>1. ASSUME NEW r \in Requests, read(r) PROVE IInv'
  <2>1. TypeOK'
    <3>1. Home[r] \in Instances /\ [etag |-> etagNow, doc |-> current] \in [etag : Nat, doc : Doc]
      BY <1>0, HomeAssumption
    <3> QED BY <1>0, <1>1, <3>1 DEF TypeOK, read, remember
  <2>2. SnapshotsFaithful'
    BY <1>0, <1>1, HomeAssumption DEF TypeOK, SnapshotsFaithful, read, remember, Etags, etagNow, current
  <2>3. LoopInv'
    BY <1>0, <1>1 DEF TypeOK, LoopInv, read, Etags, etagNow
  <2> QED BY <2>1, <2>2, <2>3
<1>2. ASSUME NEW r \in Requests, write(r) PROVE IInv'
  <2>1. Home[r] \in Instances /\ tag[r] \in Etags
    BY HomeAssumption DEF LoopInv
  <2>2. recall(Home[r], tag[r]) = NoDoc \/ recall(Home[r], tag[r]) = versions[tag[r]].doc
    BY <2>1, RecallFaithful
  <2>3. TypeOK'
    BY <1>0, <1>2, <2>1, <2>2 DEF TypeOK, write
  <2>4. SnapshotsFaithful'
    BY <1>2, <2>2 DEF TypeOK, SnapshotsFaithful, write, Etags
  <2>5. LoopInv'
    BY <1>2 DEF TypeOK, LoopInv, write, Etags
  <2> QED BY <2>3, <2>4, <2>5
<1>3. ASSUME NEW r \in Requests, replace(r) PROVE IInv'
  <2>1. offer(r) \in Doc
    BY <1>3, OfferType DEF replace
  <2>2. /\ versions' \in Seq(Version)
        /\ Len(versions') = Len(versions) + 1
        /\ versions'[etagNow + 1].doc = offer(r)
        /\ \A e \in Etags : versions'[e] = versions[e]
        /\ Etags \subseteq Etags' /\ etagNow + 1 \in Etags'
    <3>1. /\ versions \in Seq(Version) /\ etagNow = Len(versions)
          /\ versions' = Append(versions, [doc |-> offer(r), by |-> r])
          /\ [doc |-> offer(r), by |-> r] \in Version
      BY <1>3, <2>1 DEF TypeOK, replace, etagNow, Version
    <3>2. /\ versions' \in Seq(Version) /\ Len(versions') = Len(versions) + 1
          /\ versions'[etagNow + 1] = [doc |-> offer(r), by |-> r]
          /\ \A e \in 1 .. Len(versions) : versions'[e] = versions[e]
      BY <3>1
    <3> QED BY <1>0, <3>1, <3>2 DEF Etags
  <2>3. TypeOK'
    <3>1. /\ Home[r] \in Instances /\ etagNow + 1 \in Nat
          /\ [etag |-> etagNow + 1, doc |-> offer(r)] \in [etag : Nat, doc : Doc]
      BY <1>0, <2>1, HomeAssumption
    <3>2. versions' # <<>>
      BY <2>2, <1>0 DEF etagNow
    <3> QED BY <1>3, <2>1, <2>2, <3>1, <3>2 DEF TypeOK, replace, adopt, remember
  <2>4. \A i \in Instances : \A s \in snapshots'[i] : s.etag \in Etags' /\ s.doc = versions'[s.etag].doc
    <3>1. /\ Home[r] \in Instances
          /\ snapshots' = [snapshots EXCEPT ![Home[r]] = @ \cup {[etag |-> etagNow + 1, doc |-> offer(r)]}]
      BY <1>3, HomeAssumption DEF replace, remember
    <3>2. \A i \in Instances : \A s \in snapshots'[i] :
            s \in snapshots[i] \/ s = [etag |-> etagNow + 1, doc |-> offer(r)]
      BY <3>1 DEF TypeOK
    <3> QED BY <2>2, <3>2 DEF SnapshotsFaithful
  <2>5. SnapshotsFaithful'
    BY <1>3, <2>2, <2>4, ZenonT(60) DEF TypeOK, SnapshotsFaithful, LoopInv, replace, adopt
  <2>6. LoopInv'
    <3> SUFFICES ASSUME NEW q \in Requests
                 PROVE  (/\ tag[q] \in Etags
                         /\ pc[q] \in {"replacing", "merging"} =>
                              /\ cond[q] \in Etags
                              /\ attempt[q] = 0 => cond[q] = tag[q]
                              /\ attempt[q] # 0 => base[q] # NoDoc
                         /\ pc[q] = "merging" => base[q] # NoDoc
                         /\ pc[q] = "replacing" /\ attempt[q] # 0 =>
                              conflicts(base[q], mine[q], versions[cond[q]].doc) = {})'
      BY DEF LoopInv
    <3>1. CASE q = r
      BY <1>3, <2>2, <3>1 DEF TypeOK, replace, adopt
    <3>2. CASE q # r
      <4>1. /\ tag'[q] = tag[q] /\ pc'[q] = pc[q] /\ mine'[q] = mine[q]
            /\ cond' = cond /\ attempt' = attempt /\ base' = base
        BY <1>3, <3>2 DEF TypeOK, replace, adopt
      <4> QED BY <2>2, <4>1 DEF LoopInv, conflicts
    <3> QED BY <3>1, <3>2
  <2> QED BY <2>3, <2>5, <2>6
<1>4. ASSUME NEW r \in Requests, replaceLost(r) PROVE IInv'
  BY <1>4 DEF TypeOK, SnapshotsFaithful, LoopInv, replaceLost, Etags, conflicts
<1>5. ASSUME NEW r \in Requests, merge(r) PROVE IInv'
  <2>1. TypeOK'
    BY <1>0, <1>5 DEF TypeOK, merge
  <2>2. SnapshotsFaithful'
    BY <1>5 DEF TypeOK, SnapshotsFaithful, merge, Etags
  <2>3. LoopInv'
    <3>1. versions' = versions /\ base' = base /\ mine' = mine /\ tag' = tag
      BY <1>5 DEF merge
    <3>2. /\ cond'[r] = etagNow /\ attempt'[r] = attempt[r] + 1 /\ attempt'[r] # 0
          /\ base[r] # NoDoc /\ conflicts(base[r], mine[r], current) = {}
          /\ \A q \in Requests \ {r} : cond'[q] = cond[q] /\ attempt'[q] = attempt[q] /\ pc'[q] = pc[q]
          /\ pc'[r] \in {"replacing", "refused"}
      BY <1>5 DEF TypeOK, LoopInv, merge
    <3> QED BY <1>0, <3>1, <3>2 DEF LoopInv, conflicts, Etags, current
  <2> QED BY <2>1, <2>2, <2>3
<1>6. ASSUME NEW r \in Requests, refuse(r) PROVE IInv'
  BY <1>6 DEF TypeOK, SnapshotsFaithful, LoopInv, refuse, Etags, conflicts
<1>7. ASSUME NEW i \in Instances, evict(i) PROVE IInv'
  BY <1>7 DEF TypeOK, SnapshotsFaithful, LoopInv, evict, Etags, conflicts
<1>8. ASSUME NEW i \in Instances, restart(i) PROVE IInv'
  BY <1>8 DEF TypeOK, SnapshotsFaithful, LoopInv, restart, InFlight, Etags, conflicts
<1>9. CASE remove
  BY <1>9, ZenonT(60) DEF TypeOK, SnapshotsFaithful, LoopInv, remove, Etags, conflicts
<1>10. CASE UNCHANGED vars
  BY <1>10 DEF TypeOK, SnapshotsFaithful, LoopInv, vars, Etags, conflicts
<1> QED BY <1>1, <1>2, <1>3, <1>4, <1>5, <1>6, <1>7, <1>8, <1>9, <1>10 DEF Next, saveStep

\* The inductive invariant holds in every behaviour.
THEOREM Inductive == Spec => []IInv
BY InitIInv, StepIInv, PTL DEF Spec

\* Type correctness.
THEOREM TypeCorrect == Spec => []TypeOK
<1>1. IInv => TypeOK
  BY DEF IInv
<1> QED BY Inductive, <1>1, PTL

\* Every remembered snapshot is what the store held under its etag, and every
\* merge starts from the version its handler read.
THEOREM SnapshotsStayFaithful == Spec => []SnapshotsFaithful
<1>1. IInv => SnapshotsFaithful
  BY DEF IInv
<1> QED BY Inductive, <1>1, PTL

\* Whatever is offered to the store is the handler's own changes on top of
\* the version the offer is conditional on.
THEOREM OffersAreOverlays == Spec => []OfferIsOverlay
BY Inductive, OfferFollows, PTL

-----------------------------------------------------------------------------
(* Who refuses whom.                                                       *)

\* What a request wrote it has adopted: no later version is its own.  And it
\* has lost a race only if there is a later version.
BeatenInv ==
  \A r \in Requests :
    /\ \A e \in Etags : e > tag[r] => versions[e].by # r
    /\ pc[r] = "replacing" /\ attempt[r] # 0 => etagNow > tag[r]
    /\ pc[r] = "merging" => etagNow > tag[r]
    /\ pc[r] = "refused" => ~live \/ etagNow > tag[r]

LEMMA InitBeaten == Init => BeatenInv
<1> SUFFICES ASSUME Init PROVE BeatenInv
  OBVIOUS
<1>1. Len(versions) = 1 /\ pc = [r \in Requests |-> "idle"] /\ tag = [r \in Requests |-> 1]
  BY DEF Init
<1>2. \A r \in Requests : pc[r] = "idle" /\ tag[r] = 1
  BY <1>1
<1>3. \A r \in Requests : \A e \in Etags : ~ e > tag[r]
  BY <1>1, <1>2 DEF Etags
<1> QED BY <1>2, <1>3 DEF BeatenInv

\* Only replace adds a version: its writer adopts it, and nobody else wrote it.
LEMMA StepBeaten == IInv /\ BeatenInv /\ [Next]_vars => BeatenInv'
<1> SUFFICES ASSUME IInv, BeatenInv, [Next]_vars PROVE BeatenInv'
  OBVIOUS
<1>0. /\ etagNow \in Nat /\ etagNow = Len(versions) /\ Etags = 1 .. etagNow
      /\ \A r \in Requests : tag[r] \in Nat /\ tag[r] <= etagNow
      /\ pc \in [Requests -> {"idle", "holding", "replacing", "merging", "refused", "lost"}]
      /\ tag \in [Requests -> Nat] /\ attempt \in [Requests -> Nat]
  BY VersionFacts DEF IInv, TypeOK, LoopInv, Etags, etagNow
<1>1. ASSUME NEW r \in Requests, replace(r) PROVE BeatenInv'
  <2>1. /\ etagNow' = etagNow + 1 /\ Etags' = 1 .. (etagNow + 1)
        /\ versions'[etagNow + 1].by = r
        /\ \A e \in Etags : versions'[e] = versions[e]
    <3>1. offer(r) \in Doc
      BY <1>1, OfferType DEF replace
    <3>2. /\ versions \in Seq(Version)
          /\ versions' = Append(versions, [doc |-> offer(r), by |-> r])
          /\ [doc |-> offer(r), by |-> r] \in Version
      BY <1>1, <3>1 DEF IInv, TypeOK, replace, Version
    <3>3. /\ Len(versions') = Len(versions) + 1
          /\ versions'[Len(versions) + 1] = [doc |-> offer(r), by |-> r]
          /\ \A e \in 1 .. Len(versions) : versions'[e] = versions[e]
      BY <3>2
    <3> QED BY <1>0, <3>3 DEF Etags, etagNow
  <2>2. /\ tag'[r] = etagNow + 1 /\ pc'[r] = "holding" /\ attempt' = attempt /\ live' = live
        /\ \A q \in Requests \ {r} : tag'[q] = tag[q] /\ pc'[q] = pc[q]
    BY <1>0, <1>1 DEF replace, adopt
  <2>3. ASSUME NEW q \in Requests, q # r, NEW e \in Etags', e > tag'[q] PROVE versions'[e].by # q
    <3>1. CASE e = etagNow + 1
      BY <2>1, <2>3, <3>1
    <3>2. CASE e # etagNow + 1
      BY <1>0, <2>1, <2>2, <2>3, <3>2 DEF BeatenInv
    <3> QED BY <3>1, <3>2
  <2> QED BY <1>0, <2>1, <2>2, <2>3 DEF BeatenInv
<1>2. ASSUME NEW r \in Requests, replaceLost(r) PROVE BeatenInv'
  <2>1. attempt[r] = 0 => cond[r] = tag[r]
    BY <1>2 DEF IInv, LoopInv, replaceLost
  <2>2. live => etagNow > tag[r]
    BY <1>0, <1>2, <2>1 DEF BeatenInv, replaceLost
  <2> QED BY <1>0, <1>2, <2>2 DEF BeatenInv, replaceLost, Etags, etagNow
<1>3. ASSUME NEW r \in Requests, merge(r) PROVE BeatenInv'
  BY <1>0, <1>3 DEF BeatenInv, merge, Etags, etagNow
<1>4. ASSUME NEW r \in Requests, read(r) \/ write(r) \/ refuse(r) PROVE BeatenInv'
  BY <1>0, <1>4 DEF BeatenInv, read, write, refuse, Etags, etagNow
<1>5. ASSUME NEW i \in Instances, evict(i) \/ restart(i) PROVE BeatenInv'
  BY <1>0, <1>5 DEF BeatenInv, evict, restart, Etags, etagNow
<1>6. CASE remove \/ UNCHANGED vars
  BY <1>0, <1>6 DEF BeatenInv, remove, vars, Etags, etagNow
<1> QED BY <1>1, <1>2, <1>3, <1>4, <1>5, <1>6 DEF Next, saveStep

\* Nobody is refused on account of his own save: a refusal means that another
\* wrote the document since this request last read or saved it, or it is gone.
THEOREM RefusalsAreOthers == Spec => []RefusedOnlyByOthers
<1>1. IInv /\ BeatenInv => RefusedOnlyByOthers
  <2> SUFFICES ASSUME IInv, BeatenInv, NEW r \in Requests, pc[r] = "refused", live
               PROVE  \E e \in Etags : e > tag[r] /\ versions[e].by # r
    BY DEF RefusedOnlyByOthers
  <2>1. etagNow \in Etags /\ etagNow > tag[r]
    BY VersionFacts DEF IInv, BeatenInv
  <2> QED BY <2>1 DEF BeatenInv
<1>2. Spec => []BeatenInv
  BY InitBeaten, StepBeaten, Inductive, PTL DEF Spec
<1> QED BY <1>1, <1>2, Inductive, PTL

-----------------------------------------------------------------------------
(* The refinement.                                                         *)

LEMMA InitPromise == Init => Promise!Init
<1> SUFFICES ASSUME Init PROVE Promise!Init
  OBVIOUS
<1> PICK d \in Doc : versions = <<[doc |-> d, by |-> Nobody]>>
  BY DEF Init
<1>1. Len(versions) = 1 /\ versions[1].doc = d
  OBVIOUS
<1>2. current = d /\ live = TRUE /\ d \in Promise!Doc
  BY <1>1 DEF Init, current, etagNow, Doc, Promise!Doc
<1>3. held = [r \in Requests |-> d] /\ mine = [r \in Requests |-> d]
  BY <1>1 DEF Init, held
<1>4. phase = [r \in Requests |-> "idle"]
  BY DEF Init, phase
<1> QED BY <1>2, <1>3, <1>4 DEF Promise!Init

\* Each step of the store is a step of the promise, or none of its business.
LEMMA StepPromise == IInv /\ IInv' /\ [Next]_vars => [Promise!Next]_(Promise!vars)
<1> SUFFICES ASSUME IInv, IInv', [Next]_vars PROVE [Promise!Next]_(Promise!vars)
  OBVIOUS
<1> USE DEF Promise!vars
<1>0. /\ etagNow \in Etags /\ etagNow \in Nat /\ current \in Doc
      /\ \A e \in Etags : versions[e].doc \in Doc
      /\ \A r \in Requests : tag[r] \in Etags
  BY VersionFacts DEF IInv, LoopInv
<1>1. ASSUME NEW r \in Requests, read(r) PROVE Promise!Load(r)
  <2>1. /\ phase[r] = "idle" /\ phase' = [phase EXCEPT ![r] = "open"]
    BY <1>1 DEF IInv, TypeOK, read, phase, held, InFlight
  <2>2. held' = [held EXCEPT ![r] = current] /\ mine' = [mine EXCEPT ![r] = current]
    BY <1>1 DEF IInv, TypeOK, read, current, etagNow, phase, held, InFlight
  <2>3. live /\ current' = current /\ live' = live
    BY <1>1 DEF read, current, etagNow
  <2> QED BY <2>1, <2>2, <2>3 DEF Promise!Load
<1>2. ASSUME NEW r \in Requests, write(r) PROVE Promise!Edit(r)
  <2>1. phase[r] = "open" /\ phase' = phase /\ held' = held
    BY <1>2 DEF IInv, TypeOK, write, phase, held, InFlight
  <2>2. /\ \E d \in Doc : mine' = [mine EXCEPT ![r] = d]
        /\ current' = current /\ live' = live
    BY <1>2 DEF write, current, etagNow
  <2> QED BY <2>1, <2>2 DEF Promise!Edit, Promise!Doc, Doc
<1>3. ASSUME NEW r \in Requests, replace(r) PROVE Promise!Save(r)
  <2>1. phase[r] = "open" /\ phase' = phase
    BY <1>3 DEF IInv, TypeOK, replace, phase, held, InFlight
  <2>2. /\ conflicts(held[r], mine[r], current) = {}
        /\ offer(r) = merged(held[r], mine[r], current)
    BY <1>3, OfferFollows DEF OfferIsOverlay, replace, current, phase, held, InFlight
  <2>3. /\ offer(r) \in Doc /\ current' = offer(r)
        /\ versions'[etagNow + 1].doc = offer(r)
        /\ \A e \in Etags : versions'[e] = versions[e]
    <3>1. offer(r) \in Doc
      BY <1>3, OfferType DEF replace
    <3>2. /\ versions \in Seq(Version) /\ etagNow = Len(versions)
          /\ versions' = Append(versions, [doc |-> offer(r), by |-> r])
          /\ [doc |-> offer(r), by |-> r] \in Version
      BY <1>3, <3>1 DEF IInv, TypeOK, replace, etagNow, Version
    <3>3. /\ Len(versions') = etagNow + 1
          /\ versions'[etagNow + 1] = [doc |-> offer(r), by |-> r]
          /\ \A e \in 1 .. Len(versions) : versions'[e] = versions[e]
      BY <3>2
    <3> QED BY <3>1, <3>3 DEF Etags, current, etagNow
  <2>4. held' = [held EXCEPT ![r] = offer(r)] /\ mine' = [mine EXCEPT ![r] = offer(r)]
    <3>1. /\ tag' = [tag EXCEPT ![r] = etagNow + 1]
          /\ mine' = [mine EXCEPT ![r] = offer(r)]
          /\ tag \in [Requests -> Nat]
      BY <1>3 DEF IInv, TypeOK, replace, adopt
    <3> QED BY <1>0, <2>3, <3>1 DEF phase, held, InFlight
  <2>5. live /\ live' = live
    BY <1>3 DEF replace
  <2>6. offer(r) = Promise!Overlay(r) /\ \A f \in Promise!Changed(r) : current[f] = held[r][f]
    BY <2>2, StampAssumption DEF merged, conflicts, Promise!Overlay, Promise!Changed
  <2> QED BY <2>1, <2>3, <2>4, <2>5, <2>6 DEF Promise!Save
<1>4. ASSUME NEW r \in Requests, replaceLost(r) \/ refuse(r)
      PROVE  Promise!Close({r}) \/ UNCHANGED Promise!vars
  <2>1. /\ phase[r] = "open" /\ pc'[r] \in {"merging", "refused"}
        /\ \A q \in Requests \ {r} : pc'[q] = pc[q]
    BY <1>4 DEF IInv, TypeOK, replaceLost, refuse, phase, held, InFlight
  <2>2. held' = held /\ mine' = mine /\ live' = live /\ current' = current
    BY <1>4 DEF replaceLost, refuse, current, etagNow, phase, held, InFlight
  <2>3. CASE pc'[r] = "merging"
    <3>1. phase' = phase
      BY <2>1, <2>3 DEF phase, held, InFlight
    <3> QED BY <2>2, <3>1
  <2>4. CASE pc'[r] = "refused"
    <3>1. phase' = [q \in Requests |-> IF q \in {r} THEN "closed" ELSE phase[q]]
      BY <2>1, <2>4 DEF phase, held, InFlight
    <3> QED BY <2>1, <2>2, <3>1 DEF Promise!Close
  <2> QED BY <2>1, <2>3, <2>4
<1>5. ASSUME NEW r \in Requests, merge(r)
      PROVE  Promise!Close({r}) \/ UNCHANGED Promise!vars
  <2>1. /\ phase[r] = "open" /\ pc'[r] \in {"replacing", "refused"}
        /\ \A q \in Requests \ {r} : pc'[q] = pc[q]
    BY <1>5 DEF IInv, TypeOK, merge, phase, held, InFlight
  <2>2. held' = held /\ mine' = mine /\ live' = live /\ current' = current
    BY <1>5 DEF merge, current, etagNow, phase, held, InFlight
  <2>3. CASE pc'[r] = "replacing"
    <3>1. phase' = phase
      BY <2>1, <2>3 DEF phase, held, InFlight
    <3> QED BY <2>2, <3>1
  <2>4. CASE pc'[r] = "refused"
    <3>1. phase' = [q \in Requests |-> IF q \in {r} THEN "closed" ELSE phase[q]]
      BY <2>1, <2>4 DEF phase, held, InFlight
    <3> QED BY <2>1, <2>2, <3>1 DEF Promise!Close
  <2> QED BY <2>1, <2>3, <2>4
<1>6. ASSUME NEW i \in Instances, evict(i) PROVE UNCHANGED Promise!vars
  BY <1>6 DEF evict, current, etagNow, phase, held, InFlight
<1>7. ASSUME NEW i \in Instances, restart(i) PROVE \E S \in SUBSET Requests : Promise!Close(S)
  <2> DEFINE S == {q \in Requests : Home[q] = i /\ InFlight(q)}
  <2>1. /\ \A q \in S : phase[q] = "open"
        /\ phase' = [q \in Requests |-> IF q \in S THEN "closed" ELSE phase[q]]
    BY <1>7 DEF restart, phase, held, InFlight
  <2>2. held' = held /\ mine' = mine /\ live' = live /\ current' = current
    BY <1>7 DEF restart, current, etagNow, phase, held, InFlight
  <2>3. S \in SUBSET Requests /\ Promise!Close(S)
    BY <2>1, <2>2 DEF Promise!Close
  <2> HIDE DEF S
  <2> QED BY <2>3
<1>8. CASE remove
  <2>1. phase' = phase /\ held' = held /\ mine' = mine /\ current' = current /\ live /\ live' = FALSE
    BY <1>8 DEF remove, current, etagNow, phase, held, InFlight
  <2> QED BY <2>1 DEF Promise!Remove, Promise!Next
<1>9. CASE UNCHANGED vars
  BY <1>9 DEF vars, current, etagNow, phase, held, InFlight
<1>10. \A r \in Requests : {r} \in SUBSET Requests
  OBVIOUS
<1> QED BY <1>1, <1>2, <1>3, <1>4, <1>5, <1>6, <1>7, <1>8, <1>9, <1>10 DEF Next, saveStep, Promise!Next

\* The etags, snapshots and merges of the store implement AtomicFields: every
\* save is one compare-and-swap of the fields its handler changed.
THEOREM StoreKeepsPromise == Spec => KeepsPromise
<1>1. IInv /\ IInv' /\ [Next]_vars => [Promise!Next]_(Promise!vars)
  BY StepPromise
<1> QED BY InitPromise, <1>1, Inductive, PTL DEF Spec, KeepsPromise, Promise!Spec
=============================================================================
