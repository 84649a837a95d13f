CONSTANTS
    Clients = {p1, p2}
    Keys = {k1, k2}
    Conns = {c1, c2, c3}
    MaxPoolSize = 1
    MinPoolSize = 0
    None = None
SPECIFICATION FairSpec
INVARIANTS TypeOK WaitersAreQueued OvershootBounded TenantIsolation
PROPERTY AcquireSettles
