SPECIFICATION Spec
CONSTANTS
    Callers = {app, other}
    Opener = app
    Parts = 2
    Limits <- MCPeerCloses
CHECK_DEADLOCK FALSE
INVARIANT OneEnd
