SPECIFICATION Spec
CONSTANTS
    d1 = d1
    Docs = {d1}
    Events = {e1}
    DocOf <- MCDocOf
    EventKinds = {"cancel"}
    DocDeliveries = 1
    EventDeliveries = 2
    MaxAttempts = 1
    SkewedClocks = TRUE
INVARIANT StatusIsReal
INVARIANT PendingHasRequest
CHECK_DEADLOCK FALSE
