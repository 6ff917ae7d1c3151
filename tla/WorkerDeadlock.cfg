SPECIFICATION Spec
CONSTANTS
    Scenarios <- MCCurl
    Detached = {d1, d2}
    ReconnectMaxTimes = 1
CHECK_DEADLOCK FALSE
INVARIANT SafeFromWorker
