CONSTANTS
    Requests = {r1, r2}
    MaxOverlaps = 2
    HashColumn = 64
    SimulatedHash = 66
    SuppliedHashes = {64, 66}
SPECIFICATION Spec
CHECK_DEADLOCK FALSE
INVARIANT FundsLeaveOnce
