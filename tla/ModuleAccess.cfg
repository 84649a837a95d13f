SPECIFICATION FairSpec
CONSTANTS
    Processes = {p1, p2}
    Keys = {k}
    Contents = {x}
    NoRow = NoRow
    NotCached = NotCached
    TTL = 1
    QueryTime = 1
    MaxTimers = 2
    Calls = {c1, c2}
    Idle = Idle
INVARIANTS TypeOK StaleBounded
PROPERTIES Converges
