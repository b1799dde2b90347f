\* Every client sends expected_updated_at and the EDD job does not run.
CONSTANTS
    None = None
    Alerts = {a1}
    Cases = {c1}
    Reports = {r1}
    Customers = {k1}
    CustomerOf <- AnAlertEach
    Clients = {q1, q2}
    Jobs = {}
    Locking = {q1, q2}
    MaxAlertVersion = 3
    MaxCaseVersion = 4
    MaxVersions = 6
SPECIFICATION Spec
SYMMETRY Symmetry
INVARIANTS
    TypeOK
    DecisionsChain
    TimelineExplainsStatus
    FiledOnReport
PROPERTIES
    ClosesResolved
    FiledForGood
    LinksOnlyActiveWork
