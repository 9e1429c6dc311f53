CONSTANTS
    SIZE = 16
    kMaxNumbericSize = 12
    FirstYear = 1900
    LastYear = 2500
    Starts <- MCStarts
    MaxTicks = 16
    Files <- MCFiles
    FixedOffsets <- MCFixed
    Numbers <- MCNumbers
    Lengths = {1, 4, 15, 16}
    MaxPieces = 3
    Mantissas <- MCMantissas
SPECIFICATION Spec
CHECK_DEADLOCK FALSE
INVARIANTS CalendarAgrees LineShowsTime FormatsAreRight
