SPECIFICATION FairSpec
CONSTANTS
    t1 = t1
    t2 = t2
    t3 = t3
    Threads = {t1, t2, t3}
    Orig = 0
    MaxCalls = 7
INVARIANTS NoUseAfterDispose NoLostWakeup
PROPERTIES AbstractSpec WaitersServed
CHECK_DEADLOCK FALSE
