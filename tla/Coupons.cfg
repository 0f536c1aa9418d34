SPECIFICATION Spec
CONSTANTS
    Customers = {ann, bob}
    Coupons = {k1, k2}
    Bookings = {"b1", "b2"}
    Callers = {c1, c2}
    Terms <- CouponTerms
    Base <- Prices
INVARIANTS
    ClaimedOnce
    DiscountBacked
PROPERTIES
    NothingClaimedWhenOff
SYMMETRY Interchangeable
CHECK_DEADLOCK FALSE
