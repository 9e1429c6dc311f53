CONSTANTS
    m_rollSize = 3
    m_flushInterval = 1
    m_checkEveryN = 1
    kRollPerSeconds = 2
    BufferSize = 3
    MaxBuffers = 2
    MaxLines = 5
    MaxTime = 3
    MaxErrors = 1
SPECIFICATION Spec
CHECK_DEADLOCK FALSE
INVARIANTS AssertionsHold LinesInOrder
PROPERTIES LinesReachDisk StopReturns
