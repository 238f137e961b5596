---------------------------- MODULE CheckedStore ----------------------------
(***************************************************************************)
(* Optimistic concurrency for one document (an order, a listing, a user, a *)
(* user part or a lot): api/src/data/concurrency.ts and the writeChecked   *)
(* loop of api/src/data/cosmos-repository.ts.                              *)
(*                                                                         *)
(* Handlers run as requests on several instances of the API.  A handler    *)
(* reads the document with its etag, changes its copy over several awaits  *)
(* and writes it back conditionally.  A lost race is merged field by field *)
(* against what the document looked like when it was read, which the       *)
(* instance remembers in a bounded cache, or refused.                      *)
(*                                                                         *)
(* Etags are the document's version numbers: versions[e] is what the store *)
(* held under etag e, and the last one is current.  The cache is shared    *)
(* with every other document of the instance, so any entry may be evicted  *)
(* at any moment.  A field that a document lacks is a value like another.  *)
(***************************************************************************)
EXTENDS Naturals, Sequences

CONSTANTS Requests,
          Instances,
          Home,          \* Home[r]: the instance request r runs on
          Fields,
          StampFields,   \* updatedAt: stamped on every write
          Values,
          NoDoc,         \* recall found nothing
          Attempts,      \* conditional writes tried before giving up: 5
          MaxSaves       \* bound: saves started by one request

ASSUME HomeAssumption == Home \in [Requests -> Instances]
ASSUME StampAssumption == StampFields \subseteq Fields
ASSUME NoDocAssumption == NoDoc \notin [Fields -> Values]
ASSUME AttemptsAssumption == Attempts \in Nat \ {0} /\ MaxSaves \in Nat

VARIABLES versions,   \* every version of the document: its fields and its writer
          live,       \* the document is in the store
          snapshots,  \* snapshots[i]: the versions instance i remembers
          pc,         \* pc[r]: where request r is
          mine,       \* mine[r]: the document in r's hands
          tag,        \* tag[r]: the etag it carries
          base,       \* base[r]: what recall found for it
          cond,       \* cond[r]: the etag r's offer is conditional on
          attempt,    \* attempt[r]: conditional writes lost so far
          saves       \* saves[r]: saves r has started

vars == <<versions, live, snapshots, pc, mine, tag, base, cond, attempt, saves>>

Doc == [Fields -> Values]
Nobody == "nobody"
Version == [doc : Doc, by : Requests \cup {Nobody}]
Etags == 1 .. Len(versions)
etagNow == Len(versions)
current == versions[etagNow].doc

-----------------------------------------------------------------------------
(* mergeChanges: `mine` on top of `theirs`, both started from `from`.      *)

conflictsWhenDifferent(from, my, theirs) ==   \* slip: agreeing on the new value is let through
  {f \in Fields \ StampFields : my[f] # from[f] /\ theirs[f] # from[f] /\ my[f] # theirs[f]}

conflicts(from, my, theirs) ==
  {f \in Fields \ StampFields : my[f] # from[f] /\ theirs[f] # from[f]}

mergedPatchOnly(from, my, theirs) ==   \* slip: the changed fields alone are sent
  [f \in {g \in Fields : my[g] # from[g]} |-> my[f]]

merged(from, my, theirs) ==
  [f \in Fields |-> IF f \in StampFields \/ my[f] # from[f] THEN my[f] ELSE theirs[f]]

(* ReadSnapshots *)

remember(i, e, d) ==
  snapshots' = [snapshots EXCEPT ![i] = @ \cup {[etag |-> e, doc |-> d]}]

recallAnyVersion(i, e) ==   \* slip: entries keyed without their etag
  IF snapshots[i] # {} THEN (CHOOSE s \in snapshots[i] : TRUE).doc ELSE NoDoc

recall(i, e) ==
  IF \E s \in snapshots[i] : s.etag = e
  THEN (CHOOSE s \in snapshots[i] : s.etag = e).doc
  ELSE NoDoc

-----------------------------------------------------------------------------
Init ==
  /\ \E d \in Doc : versions = <<[doc |-> d, by |-> Nobody]>>
  /\ live = TRUE
  /\ snapshots = [i \in Instances |-> {}]
  /\ pc = [r \in Requests |-> "idle"]
  /\ mine = [r \in Requests |-> versions[1].doc]
  /\ tag = [r \in Requests |-> 1]
  /\ base = [r \in Requests |-> NoDoc]
  /\ cond = [r \in Requests |-> 1]
  /\ attempt = [r \in Requests |-> 0]
  /\ saves = [r \in Requests |-> 0]

\* getOrder, getListing, getLot...: a point read, remembered by the instance.
read(r) ==
  /\ pc[r] = "idle"
  /\ live
  /\ pc' = [pc EXCEPT ![r] = "holding"]
  /\ mine' = [mine EXCEPT ![r] = current]
  /\ tag' = [tag EXCEPT ![r] = etagNow]
  /\ remember(Home[r], etagNow, current)
  /\ UNCHANGED <<versions, live, base, cond, attempt, saves>>

\* The handler changes the object it holds, then calls updateOrder and the
\* like: writeChecked recalls the base before its first conditional write.
write(r) ==
  /\ pc[r] = "holding"
  /\ saves[r] < MaxSaves
  /\ pc' = [pc EXCEPT ![r] = "replacing"]
  /\ \E d \in Doc : mine' = [mine EXCEPT ![r] = d]
  /\ base' = [base EXCEPT ![r] = recall(Home[r], tag[r])]
  /\ cond' = [cond EXCEPT ![r] = tag[r]]
  /\ attempt' = [attempt EXCEPT ![r] = 0]
  /\ saves' = [saves EXCEPT ![r] = @ + 1]
  /\ UNCHANGED <<versions, live, snapshots, tag>>

adoptFieldsOnly(r, d, e) ==   \* slip: the new etag is not taken
  /\ mine' = [mine EXCEPT ![r] = d]
  /\ tag' = tag

\* The object the caller passed in becomes what was stored, etag included.
adopt(r, d, e) ==
  /\ mine' = [mine EXCEPT ![r] = d]
  /\ tag' = [tag EXCEPT ![r] = e]

\* What r offers to the store: its document as it is at first, and after a
\* lost race its changes merged onto the version read back since.
offer(r) == IF attempt[r] = 0 THEN mine[r] ELSE merged(base[r], mine[r], versions[cond[r]].doc)

\* item.replace under IfMatch succeeds.
replace(r) ==
  /\ pc[r] = "replacing"
  /\ live
  /\ cond[r] = etagNow
  /\ versions' = Append(versions, [doc |-> offer(r), by |-> r])
  /\ remember(Home[r], etagNow + 1, offer(r))
  /\ adopt(r, offer(r), etagNow + 1)
  /\ pc' = [pc EXCEPT ![r] = "holding"]
  /\ UNCHANGED <<live, base, cond, attempt, saves>>

replaceLostRetries(r) ==   \* slip: without a base, the same write is tried again
  /\ pc[r] = "replacing"
  /\ ~live \/ cond[r] # etagNow
  /\ pc' = [pc EXCEPT ![r] = IF base[r] # NoDoc THEN "merging" ELSE "replacing"]
  /\ UNCHANGED <<versions, live, snapshots, mine, tag, base, cond, attempt, saves>>

\* 412: the race is lost.  Without a base there is nothing to merge against.
\* 404: the document is gone, and the error goes to the caller.
replaceLost(r) ==
  /\ pc[r] = "replacing"
  /\ ~live \/ cond[r] # etagNow
  /\ pc' = [pc EXCEPT ![r] = IF live /\ base[r] # NoDoc THEN "merging" ELSE "refused"]
  /\ UNCHANGED <<versions, live, snapshots, mine, tag, base, cond, attempt, saves>>

\* Read what won, merge, and go round again if an attempt is left.
merge(r) ==
  /\ pc[r] = "merging"
  /\ live
  /\ conflicts(base[r], mine[r], current) = {}
  /\ cond' = [cond EXCEPT ![r] = etagNow]
  /\ attempt' = [attempt EXCEPT ![r] = @ + 1]
  /\ pc' = [pc EXCEPT ![r] = IF attempt[r] + 1 < Attempts THEN "replacing" ELSE "refused"]
  /\ UNCHANGED <<versions, live, snapshots, mine, tag, base, saves>>

\* StaleWriteError: both changed one field, or the document has gone.
refuse(r) ==
  /\ pc[r] = "merging"
  /\ ~live \/ conflicts(base[r], mine[r], current) # {}
  /\ pc' = [pc EXCEPT ![r] = "refused"]
  /\ UNCHANGED <<versions, live, snapshots, mine, tag, base, cond, attempt, saves>>

\* The cache is full of other documents: an entry is dropped.
evict(i) ==
  /\ \E s \in snapshots[i] : snapshots' = [snapshots EXCEPT ![i] = @ \ {s}]
  /\ UNCHANGED <<versions, live, pc, mine, tag, base, cond, attempt, saves>>

InFlight(r) == pc[r] \in {"holding", "replacing", "merging"}

\* The host recycles an instance: its cache and the requests on it are lost.
restart(i) ==
  /\ \E r \in Requests : Home[r] = i /\ InFlight(r)
  /\ snapshots' = [snapshots EXCEPT ![i] = {}]
  /\ pc' = [r \in Requests |-> IF Home[r] = i /\ InFlight(r) THEN "lost" ELSE pc[r]]
  /\ UNCHANGED <<versions, live, mine, tag, base, cond, attempt, saves>>

\* deleteOrder, deleteListing, or an order leaving this partition for a lot.
remove ==
  /\ live
  /\ live' = FALSE
  /\ UNCHANGED <<versions, snapshots, pc, mine, tag, base, cond, attempt, saves>>

saveStep(r) == replace(r) \/ replaceLost(r) \/ merge(r) \/ refuse(r)

Next ==
  \/ \E r \in Requests : read(r) \/ write(r) \/ saveStep(r)
  \/ \E i \in Instances : evict(i) \/ restart(i)
  \/ remove

Spec == Init /\ [][Next]_vars

\* An await of a running handler comes back.  Nothing makes a handler start,
\* an entry be evicted or an instance restart.
FairSpec == Spec /\ \A r \in Requests : WF_vars(saveStep(r))

-----------------------------------------------------------------------------
TypeOK ==
  /\ versions \in Seq(Version)
  /\ versions # <<>>
  /\ live \in BOOLEAN
  /\ snapshots \in [Instances -> SUBSET [etag : Nat, doc : Doc]]
  /\ pc \in [Requests -> {"idle", "holding", "replacing", "merging", "refused", "lost"}]
  /\ mine \in [Requests -> Doc]
  /\ tag \in [Requests -> Nat]
  /\ base \in [Requests -> Doc \cup {NoDoc}]
  /\ cond \in [Requests -> Nat]
  /\ attempt \in [Requests -> Nat]
  /\ saves \in [Requests -> Nat]

\* Every entry of every cache is what the store held under that etag, and a
\* request's base is the version it read: however long ago the handler read
\* the document, it is merged against what it really started from.
SnapshotsFaithful ==
  /\ \A i \in Instances : \A s \in snapshots[i] :
       s.etag \in Etags /\ s.doc = versions[s.etag].doc
  /\ \A r \in Requests :
       pc[r] \in {"replacing", "merging"} /\ base[r] # NoDoc => base[r] = versions[tag[r]].doc

\* What r offers under etag cond[r] is its own changes on top of that very
\* version, so a replace the store accepts takes nobody's change away.
OfferIsOverlay ==
  \A r \in Requests : pc[r] = "replacing" =>
    /\ cond[r] \in Etags
    /\ conflicts(versions[tag[r]].doc, mine[r], versions[cond[r]].doc) = {}
    /\ offer(r) = merged(versions[tag[r]].doc, mine[r], versions[cond[r]].doc)

\* A handler that saves twice is never refused by its own first save: a
\* refusal means that somebody else wrote the document since this request
\* last read or saved it, or that it is gone (adopt, and remember on save).
RefusedOnlyByOthers ==
  \A r \in Requests : pc[r] = "refused" =>
    \/ ~live
    \/ \E e \in Etags : e > tag[r] /\ versions[e].by # r

\* A save does not go on for ever: it ends saved, refused, or with its instance.
SavesEnd ==
  \A r \in Requests : pc[r] \in {"replacing", "merging"} ~> pc[r] \in {"holding", "refused", "lost"}

-----------------------------------------------------------------------------
\* The promise kept: a successful replace is a compare-and-swap of exactly
\* the fields the request changed since it last read or saved.
phase == [r \in Requests |->
            IF pc[r] = "idle" THEN "idle" ELSE IF InFlight(r) THEN "open" ELSE "closed"]
held == [r \in Requests |-> versions[tag[r]].doc]

Promise == INSTANCE AtomicFields WITH stored <- current

KeepsPromise == Promise!Spec
=============================================================================
