CONSTANTS
    a1 = a1
    a2 = a2
    m1 = m1
    Agents = {a1, a2}
    Masters = {m1}
    MaxTables = 3
    MaxEvents = 3
    MaxQueries = 2
    MaxRestarts = 1
SYMMETRY AgentSymmetry
SPECIFICATION Spec
INVARIANT QueryFindsAll
CHECK_DEADLOCK FALSE
