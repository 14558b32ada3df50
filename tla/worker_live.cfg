SPECIFICATION FairSpec
CONSTANTS
    d1 = d1
    Docs = {d1}
    Events = {}
    DocOf <- MCNoEvents
    EventKinds = {}
    DocDeliveries = 2
    EventDeliveries = 1
    MaxAttempts = 2
    SkewedClocks = FALSE
INVARIANT TypeOK
INVARIANT OneWorkerPerRow
PROPERTY DocumentSpec
PROPERTY NoCallAfterFinal
PROPERTY EveryDocumentEnds
PROPERTY SettlementArrives
CHECK_DEADLOCK FALSE
