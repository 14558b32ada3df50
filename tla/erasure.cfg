SPECIFICATION FairSpec
CONSTANTS
    c1 = c1
    e1 = e1
    d1 = d1
    Companies = {c1}
    Jobs = {e1, d1}
    JobOf <- MCJobOf
    KindOf <- MCKindOf
    Consumers = {p1, p2}
    MaxReceives = 3
INVARIANT TypeOK
INVARIANT ErasedForGood
INVARIANT AckedMeansDone
INVARIANT Reachable
PROPERTY DeletionSpec
PROPERTY RequestAnswered
CHECK_DEADLOCK FALSE
