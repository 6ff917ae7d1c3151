SPECIFICATION FairSpec
CONSTANTS
    Scenarios <- MCSingle
    Detached = {d1, d2}
    ReconnectMaxTimes = 1
CHECK_DEADLOCK FALSE
INVARIANTS
    TypeOK
    NeverAbandoned
    NoLostClose
    OneJoiner
PROPERTIES
    AttemptsSettle
    DisconnectDrains
