SPECIFICATION CommissionSpec
CONSTANTS
    Bookings = {"b1", "b2"}
    Positions = {1, 2}
    Shares = {0, 1, 2}
    Managers = {"m1", "m2"}
    LastMonth = 2
    MaxRefunds = 2
INVARIANTS
    BatchesAddUp
    RefundedIsNotDue
CHECK_DEADLOCK FALSE
