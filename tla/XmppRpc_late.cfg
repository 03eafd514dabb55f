SPECIFICATION FairSpec
CONSTANTS
    a = a
    b = b
    j = j
    k = k
    c1 = c1
    c2 = c2
    c3 = c3
    w1 = w1
    w2 = w2
    Nobody = Nobody
    Jvms = {j, k}
    Nodes = {a, b}
    JvmOf <- SharedJvmOf
    Wrappers = {w1}
    NodeOf <- SharedNodeOf
    EndpointOf <- SharedEndpointOf
    Callers = {c1}
    WrapperOf <- SelfWrapperOf
    MaxCalls = 1
    MayLose = FALSE
CHECK_DEADLOCK FALSE
PROPERTY ReplyWithoutClientIgnored
