SPECIFICATION Spec
CONSTANTS
    t1 = t1
    t2 = t2
    w1 = w1
    w2 = w2
    Threads <- MCThreads
    Wrappers = {w1, w2}
    WrapperOf <- MCSharedWrapper
    NoThread = NoThread
    MaxClock = 3
    MaxCalls = 3
CHECK_DEADLOCK FALSE
SYMMETRY Symmetric
INVARIANTS
    IdsUnique
    ConsecutiveIdsDiffer
