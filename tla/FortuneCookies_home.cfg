SPECIFICATION FairSpec
CONSTANTS
    c1 = c1
    c2 = c2
    c3 = c3
    red = red
    blue = blue
    Clients = {c1, c2, c3}
    Jids = {red, blue}
    JidOf <- MCJidOf
    CookieCount = 2
    MaxBounces = 2
    Component = Component
    Nobody = Nobody
CHECK_DEADLOCK FALSE
INVARIANTS
    OneAnswer
    BouncesAfterLeaving
PROPERTY GreetingAnswered
