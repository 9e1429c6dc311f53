CONSTANTS
    MessageLen = 2
    HighWaterMark = 3
    base = "base"
    IoLoops <- MCPool
    MaxConns = 1
    MaxCalls = 2
    MaxPeer = 2
    UserCalls = {"send", "shutdown", "forceClose", "forceCloseWithDelay"}
    OtherCalls = {"send"}
    RefsAreDropped = FALSE
    ServerDies = FALSE
SPECIFICATION FairSpec
INVARIANTS LivesAreSound StreamInOrder OutputIsDrained
PROPERTIES ClosedIsReleased ClosesHappen
