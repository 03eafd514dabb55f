SPECIFICATION FairSpec
CONSTANTS
    b1 = b1
    b2 = b2
    n1 = n1
    n2 = n2
    p1 = p1
    p2 = p2
    cl1 = cl1
    cl2 = cl2
    cl3 = cl3
    q1 = q1
    q2 = q2
    w1 = w1
    w2 = w2
    i1 = i1
    None = None
    SameBucket = FALSE
    Namespaces = {n1, n2}
    Packages = {p1, p2}
    Classes = {cl1, cl2, cl3}
    RootClasses <- MCRootClasses
    Bundles = {b1, b2}
    NamespaceOf <- ApartNamespaceOf
    PackageOf <- ApartPackageOf
    Workers = {w1, w2}
    Queries = {q1, q2}
    TargetOf <- LackingTargetOf
    Outgoing = {i1}
CHECK_DEADLOCK FALSE
INVARIANTS
    
    NotRefused
    

    
