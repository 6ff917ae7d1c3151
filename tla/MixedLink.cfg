SPECIFICATION Spec
CONSTANTS
    Scenarios <- MCMixed
    Detached = {d1, d2}
    ReconnectMaxTimes = 1
SYMMETRY Symmetric
CHECK_DEADLOCK FALSE
INVARIANTS
    SessionIsLive
    Watched
    SuppressedOnlyWhenTold
    OneWinner
    NoOrphan
