SPECIFICATION FairSpec
CONSTANTS
    a = a
    b = b
    j = j
    k = k
    c1 = c1
    c2 = c2
    c3 = c3
    w1 = w1
    w2 = w2
    Nobody = Nobody
    Jvms = {j, k}
    Nodes = {a}
    JvmOf <- SelfJvmOf
    Wrappers = {w1}
    NodeOf <- SharedNodeOf
    EndpointOf <- SelfEndpointOf
    Callers = {c1}
    WrapperOf <- SelfWrapperOf
    MaxCalls = 3
    MayLose = TRUE
CHECK_DEADLOCK FALSE
PROPERTY CallEnds
