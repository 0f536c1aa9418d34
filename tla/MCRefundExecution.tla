------------------------- MODULE MCRefundExecution -------------------------
(* Instances of RefundExecution for TLC. *)
EXTENDS RefundExecution, TLC

CONSTANT Collected   \* the amount of every payment of the instance

MCPaidAmount == [p \in Payments |-> Collected]

Symmetry == Permutations(Callers) \cup Permutations(Refunds)
============================================================================
