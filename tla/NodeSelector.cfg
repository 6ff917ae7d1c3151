SPECIFICATION FairSpec
CONSTANTS
    a = a
    b = b
    x = x
    none = none
    Nodes = {a, b}
    NodeLists <- MCNodeLists
    HostnameToIP <- MCHostnameToIP
    Hosts = {a}
    Addrs = {here}
    Limits <- MCLimits
CHECK_DEADLOCK FALSE
INVARIANTS
    CacheWhole
    CanJoin
    CountSettles
    WaitsForUpdate
PROPERTIES
    Answers
