SPECIFICATION Spec
CONSTANTS
    Scenarios <- MCQuic
    Detached = {d1, d2}
    ReconnectMaxTimes = 1
CHECK_DEADLOCK FALSE
INVARIANT NeverJoinsItself
