SPECIFICATION FairSpec
CONSTANTS
    c1 = c1
    c2 = c2
    Clients = {c1, c2}
    MaxCalls <- TwoAndOne
    MaxInstances = 2
    MaxMsg = 2
    Sizes = {2, 4}
    MaxFaults = 1
    Nothing = Nothing
INVARIANTS
    PipeTypeOK
    AnswersOwnRequest
    PermitsExact
PROPERTIES
    Reachable
    FittingCallsEnd
CHECK_DEADLOCK FALSE
