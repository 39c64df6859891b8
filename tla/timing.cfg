SPECIFICATION Spec
CONSTANTS
    Holders = {h1, h2}
    NoHolder = NoHolder
    Leases = {1, 2, 3, 4, 5, 6, 7, 8, 9, 10, 11, 12, 13, 14, 15, 16, 17, 18}
    ClaimTimes = {0, 1}
    StoreTimes = {1, 2}
    Retries = {0, 1, 2}
    Backoffs = {1, 2}
    AttemptTimes = {1, 2}
    BatchSizes = {1, 2, 3}
    PublishTimes = {1, 2}
    Intervals = {1, 2, 3, 5, 7, 8, 12, 20, 23, 24, 30}
    Cap = 24
    MaxAttempts = 7
    NoConfig = NoConfig
INVARIANTS LeasesCover DelayMatches
PROPERTY BackoffGrows
CHECK_DEADLOCK FALSE
