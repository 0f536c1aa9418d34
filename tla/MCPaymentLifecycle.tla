------------------------- MODULE MCPaymentLifecycle -------------------------
(* Instances of PaymentLifecycle for TLC. *)
EXTENDS PaymentLifecycle, TLC

Symmetry == Permutations(Orders) \cup Permutations(Handlers)
=============================================================================
