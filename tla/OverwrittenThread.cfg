SPECIFICATION Spec
CONSTANTS
    Scenarios <- MCRace
    Detached = {d1, d2}
    ReconnectMaxTimes = 1
CHECK_DEADLOCK FALSE
INVARIANT JoinedBeforeOpen
