SPECIFICATION FairSpec
CONSTANTS
    t1 = t1
    t2 = t2
    t3 = t3
    n1 = n1
    n2 = n2
    Threads = {t1, t2, t3}
    Notes = {n1, n2}
    None = None
    LongMax = 9
    PortAtInit = TRUE
    MaxCalls = 5
INVARIANTS WaiterAccounting WakeComing LinkTargetAlive ListRetains
PROPERTY EventuallyServed
CHECK_DEADLOCK FALSE
