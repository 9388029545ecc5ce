SPECIFICATION Spec
CONSTANTS
    j1 = j1
    j2 = j2
    j3 = j3
    Jobs <- threeJobs
    WriterCap = 1
    WriteAttempts = 2
    QueueCap = 1
    MaxAttempts = 1
    Outbox = TRUE
    Frozen = {"terminal"}
SYMMETRY symmetric
INVARIANTS
    PendingExact
    EveryJobPlaced
    IdleIsIdle
    HoldsBounded
