------------------------ MODULE MCBookingSettlement ------------------------
(* Instances of BookingSettlement for TLC: two payments of 2 and one of 3   *)
(* for a booking of 4, so that any two may exceed what is left.             *)
EXTENDS BookingSettlement, TLC

CONSTANTS p1, p2, p3

Amounts == [p \in Pays |-> IF p = p3 THEN 3 ELSE 2]
Symmetry == Permutations(Workers)
=============================================================================
