SPECIFICATION FairSpec
CONSTANTS
    LastNSU = 4
    Document = 2
    Cancellation = 3
    BatchSize = 2
    Sweeps = {w1}
    Syncs = {u1}
    Lookups = {k1}
    Saves = {s1}
    MaxAttempts <- MCMaxAttempts
INVARIANT TypeOK
INVARIANT CursorCovered
INVARIANT OneJobAtATime
INVARIANT CancellationApplied
PROPERTY CatchesUp
