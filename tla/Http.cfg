CONSTANTS
    MaxLines = 5
SPECIFICATION Spec
CHECK_DEADLOCK FALSE
INVARIANTS RequestsAsSent CloseIsLast
PROPERTIES RequestsAnswered
