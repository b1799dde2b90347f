\* One worker process that stops and restarts.
CONSTANTS
    c1 = c1
    c2 = c2
    w1 = w1
    w2 = w2
    None = None
    Jobs = {j1}
    Workers = {w1}
    Customers = {c1, c2}
    Selections <- FilterOrOne
    MaxRetries = 1
    MaxStops = 2
SPECIFICATION FairSpec
INVARIANT OnePass
PROPERTIES
    SnapshotEvaluatedOnce
    EveryJobSettles
