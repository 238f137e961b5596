---------------------------- MODULE DisputeReply ----------------------------
(***************************************************************************)
(* Dispute with the one write of it that is not committed: a reply.        *)
(* updateDispute saves the copy it was given, version included, over       *)
(* whatever the document has become since that copy was read.              *)
(***************************************************************************)
EXTENDS Dispute

reply(r) ==
  LET d == mem[r].doc IN
  /\ at[r] = "ready"
  /\ \E p \in Parties \cup {managing(d)} : dispute' = spoken(d, p)
  /\ ends(r)
  /\ histories /\ elsewhere /\ UNCHANGED finals

RepliedSpec == Init /\ [][Next \/ \E r \in Requests : reply(r)]_vars

\* A result is only ever made final once, however many readers arrive at the
\* same moment (finalizeDecided, and what its comment says of it).
ResultFinalOnce == FinalOnce
=============================================================================
