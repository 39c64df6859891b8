SPECIFICATION Spec
CONSTANTS
    Events = {e1}
    Dispatchers = {d1, d2}
    Workers = {w1, w2}
    Replayers = {r1}
    Schedulers = {}
    NoToken = NoToken
    NoEvent = NoEvent
    BatchSize = 1
    RetryLimit = 0
    LegacyFailed = {}
    Orphans = {}
    MaxCopies = 1
    MaxRetries = 0
    DispatchLeaseSuffices = FALSE
    ProcessingLeaseSuffices = FALSE
SYMMETRY Symmetry
INVARIANT NoEventStranded
CHECK_DEADLOCK FALSE
