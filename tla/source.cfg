SPECIFICATION FairSpec
CONSTANTS
    c1 = c1
    c2 = c2
    w1 = w1
    m = m
    Clients = {c1, c2}
    Workers = {w1}
    Manager = m
    MaxCalls = 2
    MaxEvents = 2
INVARIANTS DataConserved CancelIsLast NoUseAfterDispose NothingStranded
PROPERTY CancelHandlerRuns
CHECK_DEADLOCK FALSE
