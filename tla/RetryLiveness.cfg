SPECIFICATION FairSpec
CONSTANTS
    j1 = j1
    j2 = j2
    j3 = j3
    Jobs <- twoJobs
    WriterCap = 1
    WriteAttempts = 1
    QueueCap = 1
    MaxAttempts = 2
    Outbox = TRUE
    Frozen = {"terminal", "nothing", "unbuildable"}
INVARIANTS
    TypeOK
    EveryJobPlaced
    IdleIsIdle
PROPERTY
    JobEnds
