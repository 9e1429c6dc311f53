CONSTANTS
    MessageLen = 2
    HighWaterMark = 3
    base = "base"
    IoLoops <- MCPool
    MaxConns = 1
    MaxCalls = 1
    MaxPeer = 1
    UserCalls = {}
    OtherCalls = {"send"}
    RefsAreDropped = TRUE
    ServerDies = FALSE
SPECIFICATION Spec
INVARIANT FunctorsOutlived
