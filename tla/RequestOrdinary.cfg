SPECIFICATION FairSpec
CONSTANTS
    NCand = 2
    MaxRetries = 1
    MaxChunks = 1
    Terms = {"after", "before", "async"}
    Leases = {FALSE}
INVARIANTS
    TypeOK
    OneTerminal
    BilledRoute
    HeadMeansAccepted
    OutputAccounted
    AnswerOwned
PROPERTIES
    CommitFinal
    HandlerEnds
