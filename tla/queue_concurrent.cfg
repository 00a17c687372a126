SPECIFICATION Spec
CONSTANTS
    c1 = c1
    c2 = c2
    c3 = c3
    w1 = w1
    w2 = w2
    b1 = b1
    b2 = b2
    b3 = b3
    None = None
    Clients = {c1, c2}
    Workers = {w1, w2}
    Blocks = {b1, b2, b3}
    Width = 4
    Calls = {"async", "sync", "barrier"}
    MaxSuspends = 0
    MayRelease = FALSE
SYMMETRY Symmetry
INVARIANTS BarrierExclusive WidthRespected
CHECK_DEADLOCK FALSE
