CONSTANTS
    MessageLen = 2
    HighWaterMark = 3
    base = "base"
    IoLoops <- MCNone
    MaxConns = 1
    MaxCalls = 3
    MaxPeer = 2
    UserCalls = {"shutdown", "forceClose", "stopRead"}
    OtherCalls = {}
    RefsAreDropped = FALSE
    ServerDies = FALSE
SPECIFICATION Spec
INVARIANT ClosesOpenConnection
