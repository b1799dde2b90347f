CONSTANTS
    Alerts = {a1}
    Cases = {k1}
    Pendings = {p1}
    Jobs = {j1, j2}
    Transactions = {t1}
    Scores = {}
    AuditLogs = {}
    Customer = customer
    Processes = {api}
    Days = {1, 2}
    Adjustable = {"alert_case_data"}
    Grace = 1
    MaxAge = 2
    MaxRows = 2
    MaxChildren = 1
    None = None
SYMMETRY JobSymmetry
SPECIFICATION PurgeSpec
INVARIANTS
    PurgeTypes
    GuardCoversForeignKeys
    ChildrenGoFirst
PROPERTIES
    UnfinishedSurvives
    KeptForItsPeriod
