SPECIFICATION FairSpec
CONSTANTS
    m1 = m1
    w1 = w1
    t1 = t1
    Masters = {m1}
    Workers = {w1}
    Tasks = {t1}
    Capable <- AllCapable
    SelfCompleting <- NoRunner
    Prefix = ""
    Budget <- OneCrash
    MaxInFlight = 2
    None = None
PROPERTIES
    EveryCapableWorkerExecutes
    WaitsEnd
CHECK_DEADLOCK FALSE
