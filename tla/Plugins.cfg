CONSTANTS
    a1 = a1
    a2 = a2
    h1 = h1
    filters_py = filters_py
    extra_py = extra_py
    audit = audit
    spam = spam
    NoFile = NoFile
    Admins = {a1, a2}
    Handlers = {h1}
    AllFiles <- MCAllFiles
    Classes <- MCClasses
    Priority <- MCPriority
    MaxInstances = 3
    MaxSignings = 1
SYMMETRY AdminSymmetry
SPECIFICATION Spec
INVARIANTS TypeOK EveryFilterAsked 
CHECK_DEADLOCK FALSE
