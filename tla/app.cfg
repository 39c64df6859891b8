SPECIFICATION Spec
CONSTANTS
    Events = {e1}
    NoEvent = NoEvent
    Requests = {r1, r2}
    Local = {r1}
    NoRequest = NoRequest
    Observations = {o1, o2}
    Durations = {1, 2}
    MaxQueued = 1
INVARIANTS TypeOK BothOrNeither AcceptedIsStored DuplicateIsStored MaxIsExact MeanNotOverstated RatioAtMostOne
PROPERTY ImplementsAcceptance
CHECK_DEADLOCK FALSE
