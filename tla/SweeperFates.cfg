SPECIFICATION Spec
CONSTANTS
    Sweepers = {s1}
    Terminals = {1, 2, 3}
    Fate <- EveryFate
    Gens = {1, 2, 3, 4, 5, 6, 7, 8, 9}
    PageSize = 2
    LeaseTicks = 2
    IntervalTicks = 1
    StoreTicks = 1
    ReplayTicks = 1
    MaxParks = 1
    MaxFaults = 1
INVARIANTS NoTerminalLost FiledByFate
