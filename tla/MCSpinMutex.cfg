SPECIFICATION FairSpec
CONSTANTS
    Thread = {t1, t2, t3}
    NoThread = NoThread
    Iterations <- IterationsValue
    MaxCalls = 2
INVARIANTS
    MutualExclusion
PROPERTIES
    ImplementsMutex
    LockReturns
CHECK_DEADLOCK FALSE
