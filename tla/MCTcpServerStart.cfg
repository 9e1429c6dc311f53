CONSTANTS
    MessageLen = 2
    HighWaterMark = 3
    base = "base"
    IoLoops <- MCPool
    MaxConns = 1
    MaxCalls = 0
    MaxPeer = 0
    UserCalls = {}
    OtherCalls = {"start"}
    RefsAreDropped = FALSE
    ServerDies = FALSE
SPECIFICATION Spec
INVARIANT StartAnywhere
