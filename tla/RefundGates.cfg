SPECIFICATION Spec
CONSTANTS
    Payments = {p1, p2}
    Refunds = {r1, r2, r3}
    Callers = {c1, c2}
    Online = {p1}
    Faults = {"declined", "landing", "abort", "rejected"}
    NoRefund = NoRefund
    NoRow = NoRow
    Collected = 2
    PaidAmount <- MCPaidAmount
SYMMETRY Symmetry
CHECK_DEADLOCK FALSE
INVARIANTS
    RefundedWithinPayment
    OneExecutor
    LandsOnce
    PaidOutIsHeld
    QuotaAccounts
PROPERTIES
    ImplementsLedger
