CONSTANTS
  a1 = a1
  a2 = a2
  t1 = t1
  Addrs = {a1, a2}
  Threads = {t1}
  Delays = {0, 2}
  Intervals = {0, 1}
  MaxTimers = 3
  MaxTime = 4
  MaxFunctors = 1
SYMMETRY MCSymmetry
SPECIFICATION Spec
CHECK_DEADLOCK FALSE
INVARIANTS TimersAreSound TimerfdCoversEarliest CancelledStaysCancelled
PROPERTY CancelHitsOnlyItsTimer
