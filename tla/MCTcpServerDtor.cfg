CONSTANTS
    MessageLen = 2
    HighWaterMark = 3
    base = "base"
    IoLoops <- MCPool
    MaxConns = 1
    MaxCalls = 1
    MaxPeer = 1
    UserCalls = {"send", "startRead", "stopRead"}
    OtherCalls = {"send", "shutdown", "forceClose", "startRead", "stopRead", "start"}
    RefsAreDropped = TRUE
    ServerDies = TRUE
SPECIFICATION FairSpec
CHECK_DEADLOCK FALSE
PROPERTY DtorCompletes
