SPECIFICATION Spec
CONSTANTS
    Requests = {"request"}
    Job = "job"
    LastDay = 2
    Window = 1
    Times = {9}
    Skip = TRUE
    MaxDisturbed = 3
INVARIANTS
    NeverTwice
    
PROPERTY
    Regenerated
CHECK_DEADLOCK FALSE
