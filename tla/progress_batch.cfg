SPECIFICATION FairSpec
CONSTANTS
    Events = {e1, e2}
    Dispatchers = {d1, d2}
    Workers = {w1}
    Replayers = {}
    Schedulers = {}
    NoToken = NoToken
    NoEvent = NoEvent
    BatchSize = 2
    RetryLimit = 0
    LegacyFailed = {}
    Orphans = {}
    MaxCopies = 2
    MaxRetries = 0
    MaxFaults = 2
    DispatchLeaseSuffices = TRUE
    ProcessingLeaseSuffices = TRUE
INVARIANT NoEventStranded
PROPERTY EventuallyDecided
CHECK_DEADLOCK FALSE
