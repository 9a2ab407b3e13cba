CONSTANTS
    s1 = s1
    m1 = m1
    m2 = m2
    NoMessage = NoMessage
    Senders = {s1}
    Sent <- MCSent
    RetainedOnes = {m2}
    MaxLosses = 1
    MaxLeaves = 1
    MaxCrashes = 1
SPECIFICATION Spec
INVARIANTS TypeOK   QueuedIsHanded
PROPERTY OnlineWhileUp
CHECK_DEADLOCK FALSE
