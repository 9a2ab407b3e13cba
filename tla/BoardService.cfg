SPECIFICATION Spec
CONSTANTS
    c1 = c1
    c2 = c2
    Clients = {c1, c2}
    MaxCalls <- ThreeAndOne
    ReplyPrefix = "agent/"
    ChannelCap = 3
    MaxFaults = 2
    None = None
INVARIANTS
    TypeOK
    AnsweredPostIsStored
    
    HeardInOrder
    NoPostUnnoticed
CHECK_DEADLOCK FALSE
