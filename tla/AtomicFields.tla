---------------------------- MODULE AtomicFields ----------------------------
(***************************************************************************)
(* What the document store promises a request handler: a document is a     *)
(* record of fields, a handler loads it, edits its own copy, and saves it. *)
(* A save is a compare-and-swap of exactly the fields the handler changed: *)
(* it happens in one step, only if each of them still holds what the       *)
(* handler loaded, and it leaves every other field as it stands.  A save   *)
(* that cannot be done so is refused and changes nothing.                  *)
(*                                                                         *)
(* CheckedStore shows that etags, snapshots and three-way merges keep this *)
(* promise; the modules about orders rely on it.                           *)
(***************************************************************************)
CONSTANTS Requests, Fields, StampFields, Values

VARIABLES stored,   \* the document's fields
          live,     \* the document exists
          phase,    \* phase[r]: "idle", "open" or "closed"
          held,     \* held[r]: the fields r last loaded or saved
          mine      \* mine[r]: r's own copy, as edited

vars == <<stored, live, phase, held, mine>>

Doc == [Fields -> Values]

\* The fields that r means to change.  Stamps say nothing about what changed.
Changed(r) == {f \in Fields \ StampFields : mine[r][f] # held[r][f]}

Overlay(r) ==
  [f \in Fields |-> IF f \in StampFields \cup Changed(r) THEN mine[r][f] ELSE stored[f]]

Init ==
  /\ stored \in Doc
  /\ live = TRUE
  /\ phase = [r \in Requests |-> "idle"]
  /\ held \in [Requests -> Doc]
  /\ mine = held

Load(r) ==
  /\ phase[r] = "idle"
  /\ live
  /\ phase' = [phase EXCEPT ![r] = "open"]
  /\ held' = [held EXCEPT ![r] = stored]
  /\ mine' = [mine EXCEPT ![r] = stored]
  /\ UNCHANGED <<stored, live>>

Edit(r) ==
  /\ phase[r] = "open"
  /\ \E d \in Doc : mine' = [mine EXCEPT ![r] = d]
  /\ UNCHANGED <<stored, live, phase, held>>

Save(r) ==
  /\ phase[r] = "open"
  /\ live
  /\ \A f \in Changed(r) : stored[f] = held[r][f]
  /\ stored' = Overlay(r)
  /\ held' = [held EXCEPT ![r] = Overlay(r)]
  /\ mine' = [mine EXCEPT ![r] = Overlay(r)]
  /\ UNCHANGED <<live, phase>>

\* The open requests of S end without having saved what they changed.
Close(S) ==
  /\ \A r \in S : phase[r] = "open"
  /\ phase' = [r \in Requests |-> IF r \in S THEN "closed" ELSE phase[r]]
  /\ UNCHANGED <<stored, live, held, mine>>

Remove ==
  /\ live
  /\ live' = FALSE
  /\ UNCHANGED <<stored, phase, held, mine>>

Next ==
  \/ \E r \in Requests : Load(r) \/ Edit(r) \/ Save(r)
  \/ \E S \in SUBSET Requests : Close(S)
  \/ Remove

Spec == Init /\ [][Next]_vars
=============================================================================
