SPECIFICATION Spec
CONSTANTS
    Scenarios <- MCThree
    Detached = {d1, d2}
    ReconnectMaxTimes = 1
CHECK_DEADLOCK FALSE
INVARIANT OpenIsUsed
