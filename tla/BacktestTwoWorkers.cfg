\* Two worker processes: a lease may expire under a worker that still runs.
CONSTANTS
    c1 = c1
    c2 = c2
    w1 = w1
    w2 = w2
    None = None
    Jobs = {j1}
    Workers = {w1, w2}
    Customers = {c1}
    Selections <- FilterOrOne
    MaxRetries = 1
    MaxStops = 1
SPECIFICATION Spec
SYMMETRY SymmetricWorkers
INVARIANTS
    TypeOK
    ResultsWhole
    QueuedHasNoProgress
    AuditTruthful
    SelectionHonoured
PROPERTY VerdictSettled
