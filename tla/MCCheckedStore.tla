--------------------------- MODULE MCCheckedStore ---------------------------
(* Two requests, on one or two instances, write one document of two fields *)
(* and perhaps a stamp.                                                    *)
EXTENDS CheckedStore, TLC

CONSTANTS r1, r2, i1, i2, fStatus, fStock, fStamp, v1, v2

OneHome == [r \in Requests |-> i1]
TwoHomes == (r1 :> i1) @@ (r2 :> i2)

\* Requests that share a home are interchangeable, and no value is special.
Symmetry == Permutations(Requests) \cup Permutations({v1, v2})
=============================================================================
