CONSTANTS
    Partners = {p1, p2, p3}
    MaxUnknown = 1
    MinOffers = {2}
    Thresholds = {0, 1}
    Users = {u1, u2}
    Submission = Submission
    None = None
SPECIFICATION FairSpec
CHECK_DEADLOCK FALSE
INVARIANTS TypeOK AwardWholeUnlessCrossed
PROPERTIES SubmissionEnds FullHouseSettles
