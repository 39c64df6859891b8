SPECIFICATION Spec
CONSTANTS
    Events = {e1}
    Dispatchers = {d1}
    Workers = {w1}
    Replayers = {r1, r2}
    Schedulers = {}
    NoToken = NoToken
    NoEvent = NoEvent
    BatchSize = 1
    RetryLimit = 0
    LegacyFailed = {}
    Orphans = {}
    MaxCopies = 1
    MaxRetries = 0
    DispatchLeaseSuffices = TRUE
    ProcessingLeaseSuffices = TRUE
SYMMETRY Symmetry
PROPERTY ReplayRequeues
CHECK_DEADLOCK FALSE
