SPECIFICATION FairSpec
CONSTANTS
    Orders = {o1}
    Handlers = {h1, h2}
    Job = job
    NoOrder = NoOrder
    MaxNotify = 3
    MaxFaults = 1
CHECK_DEADLOCK FALSE
INVARIANTS
    DeliveredOnce
    AckedIsBooked
    NoticedAtMostOnce
PROPERTIES
    PaidIsBooked
