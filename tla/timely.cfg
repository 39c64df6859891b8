SPECIFICATION Spec
CONSTANTS
    Events = {e1}
    Dispatchers = {d1, d2}
    Workers = {w1, w2}
    Replayers = {r1, s1}
    Schedulers = {s1}
    NoToken = NoToken
    NoEvent = NoEvent
    BatchSize = 1
    RetryLimit = 1
    LegacyFailed = {}
    Orphans = {}
    MaxCopies = 1
    MaxRetries = 1
    DispatchLeaseSuffices = TRUE
    ProcessingLeaseSuffices = TRUE
SYMMETRY Symmetry
INVARIANTS ExclusiveExecution ExecutionHasLease DistinctBatches
PROPERTY FollowsLifecycle
CHECK_DEADLOCK FALSE
