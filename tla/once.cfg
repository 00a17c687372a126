SPECIFICATION OnceFairSpec
CONSTANTS
    t1 = t1
    t2 = t2
    t3 = t3
    t4 = t4
    Threads = {t1, t2, t3, t4}
    Null = Null
    Done = Done
    MaxCalls = 5
INVARIANT WaiterRecordAlive
PROPERTIES OnceSpec EveryCallReturns
CHECK_DEADLOCK FALSE
