SPECIFICATION JobsSpec
CONSTANTS
    Jobs = {"j1"}
    Handlers = {"close"}
    Crons = {"hourly"}
    Clerks = {"c1", "c2"}
    Slots = {"s1", "s2"}
    Faults = TRUE
INVARIANTS
    BarredWhileItRuns
    EntriesFollowRows
CHECK_DEADLOCK FALSE
