CONSTANTS
    MessageLen = 2
    HighWaterMark = 3
    base = "base"
    IoLoops <- MCNone
    MaxConns = 2
    MaxCalls = 1
    MaxPeer = 2
    UserCalls = {"send", "stopRead"}
    OtherCalls = {}
    RefsAreDropped = TRUE
    ServerDies = TRUE
SPECIFICATION Spec
INVARIANT LivesAreSound
