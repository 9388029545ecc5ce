SPECIFICATION FairSpec
CONSTANTS
    j1 = j1
    j2 = j2
    j3 = j3
    Jobs <- threeJobs
    WriterCap = 1
    WriteAttempts = 1
    QueueCap = 0
    MaxAttempts = 1
    Outbox = TRUE
    Frozen = {"terminal"}
PROPERTY
    FlushWakes
