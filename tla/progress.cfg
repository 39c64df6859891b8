SPECIFICATION FairSpec
CONSTANTS
    Events = {e1}
    Dispatchers = {d1, d2}
    Workers = {w1, w2}
    Replayers = {s1}
    Schedulers = {s1}
    NoToken = NoToken
    NoEvent = NoEvent
    BatchSize = 1
    RetryLimit = 2
    LegacyFailed = {}
    Orphans = {}
    MaxCopies = 3
    MaxRetries = 1
    MaxFaults = 2
    DispatchLeaseSuffices = TRUE
    ProcessingLeaseSuffices = TRUE
PROPERTIES EventuallyDecided EventuallyQuiet RetriedOrExhausted ReplayRequeues
CHECK_DEADLOCK FALSE
