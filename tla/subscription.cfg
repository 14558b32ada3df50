SPECIFICATION FairSpec
CONSTANTS
    Plans = {free, pro}
    Requests = {r1}
    Handlers = {h1}
    MaxSubs = 2
    MaxChanges = 3
INVARIANT TypeOK
INVARIANT AnsweredMeansSynced
PROPERTY SecondOnlyWhenBehind
PROPERTY GateCatchesUp
