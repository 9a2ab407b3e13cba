SPECIFICATION Spec
CONSTANTS
    k1 = k1
    k2 = k2
    k3 = k3
    k4 = k4
    h1 = h1
    h2 = h2
    None = None
    Keys = {k1, k2, k3, k4}
    Hkeys = {h1, h2}
    Selections <- AllOrOne
    Capacities = {0, 1, 2, 3}
    MaxFreq = 3
SYMMETRY KeySymmetry
INVARIANTS TypeOK IndexesExact StoreEnds
PROPERTIES EvictsLeastUsed
CHECK_DEADLOCK FALSE
