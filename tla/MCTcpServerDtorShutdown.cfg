CONSTANTS
    MessageLen = 2
    HighWaterMark = 3
    base = "base"
    IoLoops <- MCNone
    MaxConns = 1
    MaxCalls = 1
    MaxPeer = 0
    UserCalls = {"shutdown"}
    OtherCalls = {}
    RefsAreDropped = FALSE
    ServerDies = TRUE
SPECIFICATION Spec
INVARIANT RemovesIdleChannel
