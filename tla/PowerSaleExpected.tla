-------------------------- MODULE PowerSaleExpected -------------------------
(***************************************************************************)
(* What power-sale.ts says of a sale that savePowerSale, an unconditional   *)
(* write of the whole sale, and slow passes do not keep.                   *)
(***************************************************************************)
EXTENDS PowerSale

\* A sale called off stays off: a pass that read it before the stop saves it
\* running again ("Calling a sale off at 9:01 must not still drop the item
\* written for 9:03", callOffAhead).
StoppedStaysStopped == [][sale.status = "cancelled" => sale'.status = "cancelled"]_vars

\* "Stopping a sale must not strand what it dropped" (releaseItems): an item
\* a pass wrote after the stop read the sale is not handed over.
StopStrandsNothing ==
  (sale.status = "cancelled" /\ \A r \in Everyone : at[r] \in {"idle", "done"}) =>
    \A i \in Items : listings[i].status # "members"

\* The members' price is theirs for the whole window: a slow pass keeps its
\* own, earlier time for an item another wrote later, and hands it over early.
MembersFirst ==
  [][~stopped => \A i \in Items :
       listings[i].status = "members" /\ listings'[i].status = "public" => listings[i].windowEndsAt <= now]_vars

\* Whoever asked to be reminded is told: a pass saves over their asking.
AskingIsKept == [][sale.reminders \subseteq sale'.reminders \/ \E r \in Requests : at[r] = "remind" /\ at'[r] # "remind"]_vars

=============================================================================
