\* One page with one sendIQ, any service, any mechanism.
CONSTANTS
    Iqs = {"q1"}
    TimedIqs = {"q1"}
    Window = 3
    SendLimit = 1
    ErrorLimit = 1
    Offers <- AllOffers
    Nodes = {TRUE, FALSE}
    FailStatus = {"0", "4xx"}
    Bodies = {"terminate"}
    MaxCalls = 1
SPECIFICATION Spec
\* A session that has ended stands still
CHECK_DEADLOCK FALSE
INVARIANT TimedOutIsForgotten
