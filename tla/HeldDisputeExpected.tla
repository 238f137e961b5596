------------------------ MODULE HeldDisputeExpected ------------------------
(* What the code and its comments say of HeldDispute, and it does not do.  *)
EXTENDS HeldDispute

\* While a dispute is open no auto-release can run (open of dispute-routes.ts):
\* it runs if the order's save was lost, or if one of two disputes opened at
\* once is withdrawn.
FrozenWhileOpen ==
  [][order.hold = "held" /\ order'.hold = "released" => \A d \in Disputes : disputes[d].status # "open"]_vars

\* Nobody opens a second dispute on an order while one is still being worked
\* (openDisputeRecord): two that list before either creates both do.
OneOpenDispute == \A d, e \in Disputes : disputes[d].status = "open" /\ disputes[e].status = "open" => d = e

\* A finished trade counts exactly once (countCompleted): two reads of one
\* order past its window, or two releases, count it twice.
CountedOnce == \A p \in Sides : completed[p] <= 1

\* Held money is claimed once (moveHeld): a reply to what the dispute was
\* before reopens it, and it is settled and claimed again.
ClaimedOnce == \A d \in Disputes : Cardinality(claimed[d]) <= 1

\* What a dispute says it released has left the order (moveHeld): not if the
\* second save is lost, and then the order stays disputed for good.
ClaimIsPaid ==
  (\A r \in Requests : at[r] \in Ends \cup {"idle"}) =>
    \A d \in Disputes : disputes[d].release => order.hold \in {"released", "refunded"}
=============================================================================
