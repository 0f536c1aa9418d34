SPECIFICATION Spec
CONSTANTS
    Callers = {"c1", "c2"}
    Slips = {1, 2}
    Amounts = {2}
    Limits = {0, 2}
    Payable = 2
INVARIANTS
    UsedIsOutstanding
    SettledHasRows
PROPERTIES
    ChargesWithinLimit
    DueIsMarked
CHECK_DEADLOCK FALSE
