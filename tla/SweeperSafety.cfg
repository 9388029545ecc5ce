SPECIFICATION Spec
CONSTANTS
    Sweepers = {s1, s2}
    Terminals = {1}
    Fate <- OneSettles
    Gens = {1, 2, 3, 4, 5, 6, 7, 8, 9}
    PageSize = 1
    LeaseTicks = 3
    IntervalTicks = 2
    StoreTicks = 1
    ReplayTicks = 1
    MaxParks = 2
    MaxFaults = 2
SYMMETRY SweeperSymmetry
INVARIANTS TypeOK NoTerminalLost FiledByFate
PROPERTIES LiveLeaseUndisturbed OutboxSpec
