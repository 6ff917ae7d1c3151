SPECIFICATION FairSpec
CONSTANTS
    Callers = {app, other}
    Opener = app
    Parts = 2
    Limits <- MCLimits
CHECK_DEADLOCK FALSE
INVARIANTS
    TypeOK
    WireInOrder
    DeliveredWhole
    EndIsReported
    OneClose
PROPERTIES
    IsTransport
    CloseEnds
