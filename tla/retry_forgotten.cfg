SPECIFICATION Spec
CONSTANTS
    Events = {e1}
    Dispatchers = {d1}
    Workers = {w1}
    Replayers = {s1}
    Schedulers = {s1}
    NoToken = NoToken
    NoEvent = NoEvent
    BatchSize = 1
    RetryLimit = 2
    LegacyFailed = {}
    Orphans = {}
    MaxCopies = 1
    MaxRetries = 0
    DispatchLeaseSuffices = TRUE
    ProcessingLeaseSuffices = TRUE
SYMMETRY Symmetry
INVARIANT RetryNotForgotten
CHECK_DEADLOCK FALSE
