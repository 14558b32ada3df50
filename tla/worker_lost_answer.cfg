SPECIFICATION Spec
CONSTANTS
    d1 = d1
    Docs = {d1}
    Events = {}
    DocOf <- MCNoEvents
    EventKinds = {}
    DocDeliveries = 1
    EventDeliveries = 1
    MaxAttempts = 2
    SkewedClocks = FALSE
INVARIANT TransportIsRetried
CHECK_DEADLOCK FALSE
