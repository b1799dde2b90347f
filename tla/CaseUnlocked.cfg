\* Two customers, a report that corrects another, updates without a version, and
\* the EDD job.
CONSTANTS
    None = None
    Alerts = {a1}
    Cases = {c1}
    Reports = {r1, r2}
    Customers = {k1, k2}
    CustomerOf <- AnAlertEach
    Clients = {q1}
    Jobs = {j1}
    Locking = {}
    MaxAlertVersion = 4
    MaxCaseVersion = 4
    MaxVersions = 6
SPECIFICATION Spec
SYMMETRY Symmetry
INVARIANTS
    ClosedAtTerminal
    DispositionMatches
    DecisionsExplainStatus
    LinksOfOneCustomer
    SupersedesSubmitted
