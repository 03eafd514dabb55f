SPECIFICATION Spec
CONSTANTS
    u1 = u1
    u2 = u2
    j1 = j1
    j2 = j2
    l1 = l1
    k1 = k1
    w1 = w1
    o1 = o1
    Users = {u1, u2}
    Requests = {j1, j2, l1, k1, w1, o1}
    ChildOf <- MCChildOf
    UserOf <- MCUserOf
CHECK_DEADLOCK FALSE
INVARIANTS
    
    ListedRightly
    
