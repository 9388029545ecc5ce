SPECIFICATION Spec
CONSTANTS
    NCand = 2
    MaxRetries = 0
    MaxChunks = 1
    Terms = {"after"}
    Leases = {TRUE}
INVARIANTS
    OneTerminal
    BilledRoute
    OutputAccounted
