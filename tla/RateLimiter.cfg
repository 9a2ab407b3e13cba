CONSTANTS
    p1 = p1
    p2 = p2
    board = board
    node = node
    all = all
    Threads = {p1, p2}
    Topics = {board, node}
    Limited = {board}
    Global = all
    Cost = 2
    PeakRate <- MCRate
    PeakBurst <- MCBurst
    MaxTime = 3
SYMMETRY ThreadSymmetry
SPECIFICATION Spec
INVARIANTS TypeOK RateKept
