CONSTANTS
    Calls = {c1, c2}
    Modules = {m1}
    Tenants = {t1, t2}
    FailureThreshold = 2
    HalfOpenAttempts = 2
    Timeout = 2
    Window = 2
    MaxRequests = 2
    TimerLag = 1
SPECIFICATION FairSpec
INVARIANTS TypeOK BreakerConsistent OnlyProbesInHalfOpen QuarantineBounded RateWindow
PROPERTIES LimitLifts CallSettles
