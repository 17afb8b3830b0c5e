CONSTANTS
    ExpIds = {e1, e2}
    Sessions = {s1, s2}
    QueueMax = 1
    DbFaults = TRUE
    MaxData = 0
SPECIFICATION FairSpec
INVARIANTS
    TypeOK
    LinksLead
    OutcomeServed
PROPERTIES
    StartRepairs
    WorkerReturns
