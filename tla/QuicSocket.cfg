SPECIFICATION FairSpec
CONSTANTS
    Streams <- MCStreams
    Sizes <- MCSizes
    Limits <- MCLimits
CHECK_DEADLOCK FALSE
INVARIANTS
    TypeOK
    DeliversFrames
    HeadFirst
    CanReopen
PROPERTIES
    IsTransport
    CloseEnds
