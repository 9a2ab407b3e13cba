CONSTANTS
    m1 = m1
    w1 = w1
    t1 = t1
    t2 = t2
    None = None
    Masters = {m1}
    Workers = {w1}
    Tasks = {t1, t2}
    Capable <- MCCapable
    Budget <- MCBudget
SYMMETRY TaskSymmetry
SPECIFICATION Spec
INVARIANT CommandsReachOwnTask
CHECK_DEADLOCK FALSE
