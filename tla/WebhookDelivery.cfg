SPECIFICATION FairSpec
CONSTANTS
    Webhooks = {w1, w2}
    MaxDeliveries = 2
    Runs = {r1, r2}
    RetryCounts = {0, 3}
    RetryDelay = 1
    Multiplier = 3
    MaxRetryDelay = 2
    Never = Never
INVARIANTS TypeOK OneCall AttemptsBounded NothingForgotten FirstAttemptsInOrder
PROPERTIES SettledIsFinal DeliverySettles
CHECK_DEADLOCK FALSE
