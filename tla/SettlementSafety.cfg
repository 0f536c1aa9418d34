SPECIFICATION Spec
CONSTANTS
    p1 = p1
    p2 = p2
    p3 = p3
    Workers = {w1, w2}
    Pays = {p1, p2, p3}
    Online = {p1, p2}
    Amount <- Amounts
    Gross = 4
    Coupon = 1
    Quotes = {3}
    NoPay = NoPay
    Nobody = Nobody
SYMMETRY Symmetry
INVARIANT NeverOverstated
INVARIANT CounterIsExact
INVARIANT CompletedOnce
CHECK_DEADLOCK FALSE
