SPECIFICATION FairSpec
CONSTANTS
    Clients = {p, q}
    WithPort = {q}
    a = a
    b = b
    none = none
    Nodes = {a, b}
    RoundTrips <- MCRoundTrips
    MaxListed = 2
    MaxReports = 1
    Servers <- MCServers
CHECK_DEADLOCK FALSE
INVARIANTS
    LeastLoss
    Meet
PROPERTIES
    Selected
