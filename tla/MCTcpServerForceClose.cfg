CONSTANTS
    MessageLen = 2
    HighWaterMark = 3
    base = "base"
    IoLoops <- MCPool
    MaxConns = 1
    MaxCalls = 1
    MaxPeer = 1
    UserCalls = {}
    OtherCalls = {"forceClose"}
    RefsAreDropped = FALSE
    ServerDies = FALSE
SPECIFICATION Spec
INVARIANT RemoveFindsConnection
