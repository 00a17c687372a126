SPECIFICATION Spec
CONSTANTS
    c1 = c1
    c2 = c2
    c3 = c3
    w1 = w1
    w2 = w2
    b1 = b1
    b2 = b2
    b3 = b3
    None = None
    Clients = {c1, c2, c3}
    Workers = {w1, w2}
    Blocks = {b1, b2, b3}
    Width = 1
    Calls = {"async", "sync"}
    MaxSuspends = 0
    MayRelease = TRUE
SYMMETRY Symmetry
INVARIANTS Ordered OneInvocation NoUseAfterDispose NothingStranded
PROPERTY SerialSpec
CHECK_DEADLOCK FALSE
