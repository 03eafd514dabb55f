SPECIFICATION FairSpec
CONSTANTS
    alice = alice
    bob = bob
    Users = {alice, bob}
    MaxConnections = 3
CHECK_DEADLOCK FALSE
INVARIANTS
    SessionShown
    NoneLeftOnline
    FeedbackTells
    ListIsOwn
PROPERTY PingEnds
