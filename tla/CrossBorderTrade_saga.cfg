CONSTANTS
    Requests = {r1, r2}
    MaxOverlaps = 0
    HashColumn = 66
    SimulatedHash = 66
    SuppliedHashes = {64}
    Refused = {}
SPECIFICATION TradeSpec
CHECK_DEADLOCK FALSE
INVARIANTS TradeTypeOK EscrowAfterScreening SuccessIsComplete
PROPERTY ImplementsLedger
