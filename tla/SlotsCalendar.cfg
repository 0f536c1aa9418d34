SPECIFICATION Spec
CONSTANTS
    Workers = {w1, w2}
    Staffs = {1}
    Bookings = {b1, b2}
    Customer <- SameCustomer
    Items = {i}
    Specs <- TwoSpecs
    Times = {0, 2}
    Forces = {TRUE, FALSE}
    Policies = {"skip", "notify"}
    MaxEdits = 1
    MaxRecounts = 1
    Nobody = Nobody
    NoPlan = NoPlan
    NoSlot = NoSlot
SYMMETRY Symmetry
INVARIANT SlotsExclusive
PROPERTY CalendarSpec
CHECK_DEADLOCK FALSE
