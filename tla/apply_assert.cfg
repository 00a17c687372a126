SPECIFICATION Spec
CONSTANTS
    c1 = c1
    c2 = c2
    Width <- WideOnNarrow
    Callers = {c1, c2}
    MaxCPUs = 2
    MaxIter = 2
    MaxOthers = 1
    Word = 256
INVARIANT ContinuationCounted
CHECK_DEADLOCK FALSE
