SPECIFICATION FairSpec
CONSTANTS
    c1 = c1
    c2 = c2
    Width <- SerialOnWideOnNarrow
    Callers = {c1}
    MaxCPUs = 3
    MaxIter = 3
    MaxOthers = 3
    Word = 256
INVARIANTS EachIterationOnce RecordAlive ReservationsFit
PROPERTY CallReturns
CHECK_DEADLOCK FALSE
