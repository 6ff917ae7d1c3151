SPECIFICATION FairSpec
CONSTANTS
    Loggers = {"app", "other"}
    Limits <- MCLimits
CHECK_DEADLOCK FALSE
INVARIANTS
    LinesOnce
    AcceptedOnce
PROPERTIES
    Finishes
