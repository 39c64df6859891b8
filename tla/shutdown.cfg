SPECIFICATION Spec
CONSTANTS
    Messages = {m1, m2, m3}
    Undecodable = {m3}
    NoDelivery = NoDelivery
    Workers = {w1, w2}
    QueueSize = 1
    MaxFaults = 2
INVARIANTS TypeOK DeliveriesAccounted CleanStop
PROPERTIES KeepsContract ClosedOnlyWhenIdle ShutdownTerminates Reconnects
CHECK_DEADLOCK FALSE
