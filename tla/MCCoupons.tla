----------------------------- MODULE MCCoupons -----------------------------
(* Terms without and with a threshold; of the prices one is below the face  *)
(* value, the other reaches the threshold.                                  *)
EXTENDS Coupons, TLC

CouponTerms == {[face |-> 2, threshold |-> 0], [face |-> 3, threshold |-> 3]}
Prices == [b1 |-> 1, b2 |-> 3]

Interchangeable == Permutations(Callers) \cup Permutations(Coupons) \cup Permutations(Customers)
=============================================================================
