CONSTANTS
  main = main
  f1 = f1
  f2 = f2
  f3 = f3
  t1 = t1
  Threads = {main, t1}
  Functors = {f1, f2, f3}
  Channels = {"io"}
  MaxQuits = 2
SPECIFICATION FairSpecThread
CHECK_DEADLOCK FALSE
INVARIANTS NoMissedWakeup NoSleepAfterQuit LifetimesHold
PROPERTIES ImplementsFIFO FunctorRunsOrQuit StartLoopReturns DtorReturnsFromRunningLoop
