SPECIFICATION Spec
CONSTANTS
    Events = {e1}
    Dispatchers = {d1}
    Workers = {w1, w2}
    Replayers = {}
    Schedulers = {}
    NoToken = NoToken
    NoEvent = NoEvent
    BatchSize = 1
    RetryLimit = 0
    LegacyFailed = {}
    Orphans = {}
    MaxCopies = 1
    MaxRetries = 0
    DispatchLeaseSuffices = FALSE
    ProcessingLeaseSuffices = FALSE
SYMMETRY Symmetry
INVARIANT ExclusiveExecution
CHECK_DEADLOCK FALSE
