SPECIFICATION HistorySpec
CONSTANTS
    Events = {e1}
    Dispatchers = {d1}
    Workers = {w1}
    Replayers = {r1, s1, s2}
    Schedulers = {s1, s2}
    NoToken = NoToken
    NoEvent = NoEvent
    BatchSize = 1
    RetryLimit = 2
    LegacyFailed = {e1}
    Orphans = {}
    MaxCopies = 1
    MaxRetries = 0
    DispatchLeaseSuffices = FALSE
    ProcessingLeaseSuffices = TRUE
SYMMETRY Symmetry
INVARIANTS TypeOK StrandedOnlyIfOvertaken ForgottenOnlyIfLost
CHECK_DEADLOCK FALSE
