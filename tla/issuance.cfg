SPECIFICATION FairSpec
CONSTANTS
    Companies = {c1}
    Emissions = {e1, e2}
    Saves = {s1}
    Series = {ser1}
    EmissionTypes = {normal, svc}
    Normal = normal
    Edits = {3}
    Limit = 1
    MaxPeriod = 2
INVARIANT TypeOK
INVARIANT NumbersUnique
INVARIANT NoGaps
INVARIANT UsageExact
INVARIANT UsageWithinLimit
PROPERTY LedgerSpec
PROPERTY RefundArrives
CHECK_DEADLOCK FALSE
