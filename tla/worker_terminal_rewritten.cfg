SPECIFICATION Spec
CONSTANTS
    d1 = d1
    Docs = {d1}
    Events = {}
    DocOf <- MCNoEvents
    EventKinds = {}
    DocDeliveries = 2
    EventDeliveries = 1
    MaxAttempts = 2
    SkewedClocks = FALSE
PROPERTY TerminalStatusKept
CHECK_DEADLOCK FALSE
