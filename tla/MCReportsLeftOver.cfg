CONSTANTS
    ExpIds = {e1, e2}
    Sessions = {s1}
    QueueMax = 1
    DbFaults = FALSE
    MaxData = 0
SPECIFICATION Spec
INVARIANT NothingLeftOver
