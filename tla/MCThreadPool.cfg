CONSTANTS
    main = "main"
    Threads <- MCThreads
    Mutexes <- MCMutexes
    Conditions <- MCConditions
    Workers <- MCWorkers
    Producers <- MCProducers
    Tasks = 1
    maxQueueSize = 1
SPECIFICATION Spec
INVARIANTS LocksUsedRightly TasksConserved
PROPERTY PoolTerminates
