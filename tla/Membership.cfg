SPECIFICATION Spec
CONSTANTS
    Callers = {c1, c2}
    Amounts = {2}
    Bonuses = {1}
    Modes = {"proportional"}
    Adjustments <- Corrections
    Threshold <- OneLevel
    CentsPerYuan = 2
    PointsPerYuan = 1
    MaxMoney = 2
    MaxPoints = 3
    Cards = {1}
    TotalTimes = 2
    Price = 2
    GoodsPoints = 1
    GoodsStock = 2
    PerLimit = 1
    MaxUses = 2
INVARIANTS
    TypeOK
    LedgerBalances
    CardFollowsLog
    GivenBackOnce
PROPERTIES
    PointsTotalNeverFalls
    RefundedStays
CHECK_DEADLOCK FALSE
SYMMETRY Symmetry
