----------------------------- MODULE MCPreOrder -----------------------------
(* One request among reads that never end, two buyers, a threshold of two. *)
EXTENDS PreOrderExpected, TLC

CONSTANTS ann, bob, r1

UnitsOfBuyers == ann :> 1 @@ bob :> 2

OneRule == {<<"ask", "waitlist">>}
RulePairs == {<<"cancel", "keep_open">>, <<"ask", "waitlist">>, <<"proceed", "close">>}
=============================================================================
