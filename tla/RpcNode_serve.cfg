SPECIFICATION FairSpec
CONSTANTS
    r1 = r1
    r2 = r2
    r3 = r3
    o1 = o1
    o2 = o2
    Example = Example
    Requests = {r1, r2, r3}
    NameOf <- MCNameOf
    TextOf <- MCTextOf
    Keys <- MCKeys
    Objects = {o1, o2}
    Classes = {Example}
    ClassOf <- MCClassOf
    ResultOf <- MCResultOf
    Nothing = Nothing
    MaxAdds = 2
    MaxSends = 2
CHECK_DEADLOCK FALSE
INVARIANTS
    RunByRegistered
    
 
