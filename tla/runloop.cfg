SPECIFICATION LoopFairSpec
CONSTANTS
    c1 = c1
    s1 = s1
    base = base
    panel = panel
    Modes = {base, panel}
    Base = base
    Clients = {c1}
    Sources = {s1}
    PortModes = {base}
    Calls = {"block", "signal", "send", "stop", "stopMode", "invalidate"}
    BlockModes = {{base}, {base, panel}}
    OnceModes = {panel}
    Limits = {"instant", "timed"}
    MaxRuns = 2
    MaxCalls = 3
INVARIANTS PendingInOrder NoLostWakeup
PROPERTY StopEndsRun
CHECK_DEADLOCK FALSE
