---------------------------- MODULE HeldPayment ----------------------------
(***************************************************************************)
(* What buyer protection promises about the money Figmark holds: it is     *)
(* taken once, grows only while it is held, is frozen while disputed, and  *)
(* leaves exactly once, to the seller (released) or to the buyer           *)
(* (refunded).  Leaving from "held" takes the buyer's word that the parcel *)
(* came or a window that has been running since an earlier step.           *)
(***************************************************************************)
EXTENDS Naturals

VARIABLES state,    \* "none", "held", "disputed", "released" or "refunded"
          amount,   \* what is held, or was
          window,   \* the auto-release window is running
          arrived   \* the buyer has said the parcel arrived

vars == <<state, amount, window, arrived>>

Init ==
  /\ state = "none"
  /\ amount \in Nat
  /\ window = FALSE
  /\ arrived = FALSE

Arrive == ~arrived /\ arrived' = TRUE

Take ==
  /\ state = "none"
  /\ state' = "held"
  /\ amount' \in Nat
  /\ window' = FALSE
  /\ UNCHANGED arrived

TopUp ==
  /\ state = "held"
  /\ amount' \in Nat /\ amount' > amount
  /\ UNCHANGED <<state, window, arrived>>

\* A dispatch or a delivery starts the window; an undone dispatch stops it.
SetWindow ==
  /\ state = "held"
  /\ window' \in BOOLEAN
  /\ UNCHANGED <<state, amount, arrived>>

Freeze ==
  /\ state = "held"
  /\ state' = "disputed"
  /\ window' = FALSE
  /\ UNCHANGED <<amount, arrived>>

Unfreeze ==
  /\ state = "disputed"
  /\ state' = "held"
  /\ window' \in BOOLEAN
  /\ UNCHANGED <<amount, arrived>>

Release ==
  /\ state = "held"
  /\ state' = "released"
  /\ Arrive \/ (window /\ UNCHANGED arrived)
  /\ UNCHANGED <<amount, window>>

Settle ==
  /\ state = "disputed"
  /\ state' \in {"released", "refunded"}
  /\ UNCHANGED <<amount, window, arrived>>

\* Without protection there is nothing to hold, and the parcel still arrives.
ArriveUnheld == state # "held" /\ Arrive /\ UNCHANGED <<state, amount, window>>

Next ==
  \/ Take \/ TopUp \/ SetWindow \/ Freeze \/ Unfreeze
  \/ Release \/ Settle \/ ArriveUnheld

Spec == Init /\ [][Next]_vars
=============================================================================
