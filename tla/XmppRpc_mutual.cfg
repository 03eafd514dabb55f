SPECIFICATION Spec
CONSTANTS
    a = a
    b = b
    j = j
    k = k
    c1 = c1
    c2 = c2
    c3 = c3
    w1 = w1
    w2 = w2
    Nobody = Nobody
    Jvms = {j, k}
    Nodes = {a, b}
    JvmOf <- SharedJvmOf
    Wrappers = {w1, w2}
    NodeOf <- MutualNodeOf
    EndpointOf <- MutualEndpointOf
    Callers = {c1, c2, c3}
    WrapperOf <- SharedMutualWrapperOf
    MaxCalls = 1
    MayLose = FALSE
CHECK_DEADLOCK FALSE
SYMMETRY SymmetricAtA
INVARIANTS
    OwnReply
    ExecutedOnce
PROPERTIES
    SettledStays
    ImplementsService
