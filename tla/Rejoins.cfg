SPECIFICATION Spec
CONSTANTS
    Channels = {1, 2}
    Sorters = {}
    Values = {1}
    Limits <- MCTimeout
CHECK_DEADLOCK FALSE
INVARIANT Rejoins
