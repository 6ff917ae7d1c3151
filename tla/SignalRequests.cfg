SPECIFICATION Spec
CONSTANTS
    Channels = {1, 2}
    Sorters = {"sort1", "sort2"}
    Values = {1, 2}
    Limits <- MCLimits
CHECK_DEADLOCK FALSE
INVARIANTS
    TypeOK
    AgainOnce
    RttsTold
    RejoinsAfterLoss
    RecreateCarried
