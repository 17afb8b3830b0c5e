CONSTANTS
    ExpIds = {e1, e2}
    Sessions = {s1}
    QueueMax = 2
    DbFaults = FALSE
    MaxData = 1
SPECIFICATION FairSpec
INVARIANTS
    OneJob
    ServedFresh
PROPERTY EveryJobTaken
