--------------------------- MODULE MCBookingSlots ---------------------------
(* Instances of BookingSlots for TLC.                                       *)
EXTENDS BookingSlots, TLC

\* One customer books everything.
SameCustomer == [b \in Bookings |-> "customer"]

\* A short service with a long buffer, and a longer one that needs none.
TwoSpecs == {[dur |-> 1, buf |-> 1], [dur |-> 2, buf |-> 0]}

Symmetry == Permutations(Workers) \cup Permutations(Bookings)
=============================================================================
