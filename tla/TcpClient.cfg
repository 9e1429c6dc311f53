CONSTANTS
    kInitRetryDelayMs = 1
    kMaxRetryDelayMs = 3
    MaxConns = 2
    MaxConnects = 1
    Risks = {}
CHECK_DEADLOCK FALSE
SPECIFICATION Spec
INVARIANTS AssertionsHold SocketsOwned OneAttempt
PROPERTIES NoConnectionAfterStop Reconnects DeadClientCloses
