CONSTANTS
    MessageLen = 2
    HighWaterMark = 3
    base = "base"
    IoLoops <- MCPool
    MaxConns = 1
    MaxCalls = 0
    MaxPeer = 1
    UserCalls = {}
    OtherCalls = {}
    RefsAreDropped = FALSE
    ServerDies = TRUE
SPECIFICATION Spec
INVARIANT ServerOutlivesFunctors
