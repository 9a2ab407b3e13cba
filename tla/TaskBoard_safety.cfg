SPECIFICATION Spec
CONSTANTS
    m1 = m1
    w1 = w1
    t1 = t1
    Masters = {m1}
    Workers = {w1}
    Tasks = {t1}
    Capable <- AllCapable
    SelfCompleting <- OneRunner
    Prefix = ""
    Budget <- AnyTwo
    MaxInFlight = 2
    None = None
INVARIANTS
    TypeOK
    OutputsGenuine
    EndedHasOutput
    NoLostWakeup
PROPERTIES
    OutputNeverRetracted
    ServiceSpec
CHECK_DEADLOCK FALSE
