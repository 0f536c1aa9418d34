SPECIFICATION Spec
CONSTANTS
    Payments = {p1}
    Refunds = {r1, r2, r3}
    Callers = {c1, c2}
    Online = {p1}
    Faults = {"declined", "landing", "lost"}
    NoRefund = NoRefund
    NoRow = NoRow
    Collected = 3
    PaidAmount <- MCPaidAmount
SYMMETRY Symmetry
CHECK_DEADLOCK FALSE
INVARIANTS
    QuotaHasReason
