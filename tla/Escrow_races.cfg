CONSTANTS
    Requests = {r1, r2, r3}
    MaxOverlaps = 5
    HashColumn = 66
    SimulatedHash = 66
    SuppliedHashes = {64, 66}
SPECIFICATION Spec
SYMMETRY Symmetry
CHECK_DEADLOCK FALSE
INVARIANTS TypeOK CoherentUnlessCrossed PayoutsWithinOverlaps
PROPERTY NeverPendingAgain
