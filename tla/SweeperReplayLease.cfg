SPECIFICATION Spec
CONSTANTS
    Sweepers = {s1, s2}
    Terminals = {1}
    Fate <- OneSettles
    Gens = {1, 2, 3, 4, 5, 6, 7, 8, 9}
    PageSize = 1
    LeaseTicks = 8
    IntervalTicks = 4
    StoreTicks = 3
    ReplayTicks = 3
    MaxParks = 1
    MaxFaults = 0
SYMMETRY SweeperSymmetry
INVARIANT ReplayKeepsLease
