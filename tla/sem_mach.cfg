SPECIFICATION FairSpec
CONSTANTS
    t1 = t1
    t2 = t2
    t3 = t3
    Threads = {t1, t2, t3}
    Orig = 0
    Mach = TRUE
    MaxCalls = 4
INVARIANTS Accounting NoMissedSignal
PROPERTIES AbstractSpec WaitersServed TimedWaitReturnsOrRobbed
CHECK_DEADLOCK FALSE
