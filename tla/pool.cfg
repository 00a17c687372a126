SPECIFICATION FairSpec
CONSTANTS
    p1 = p1
    p2 = p2
    w1 = w1
    w2 = w2
    w3 = w3
    MaxItems = 3
    Pushers = {p1, p2}
    Workers = {w1, w2, w3}
    PoolSize = 2
    Null = Null
    Mediator = Mediator
INVARIANT NothingStranded
PROPERTIES WorkQueueSpec EveryItemStarts
CHECK_DEADLOCK FALSE
