CONSTANTS
    Partners = {p1, p2, p3}
    MaxUnknown = 0
    MinOffers = {1}
    Thresholds = {0, 1}
    Users = {u1}
    Submission = Submission
    None = None
SPECIFICATION FairSpec
CHECK_DEADLOCK FALSE
PROPERTY EarlyTermination
