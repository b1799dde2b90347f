\* An alert is reopened under its closed case.
CONSTANTS
    None = None
    Alerts = {a1}
    Cases = {c1}
    Reports = {}
    Customers = {k1}
    CustomerOf <- AnAlertEach
    Clients = {q1}
    Jobs = {}
    Locking = {q1}
    MaxAlertVersion = 5
    MaxCaseVersion = 4
    MaxVersions = 9
SPECIFICATION Spec
INVARIANT CompatibleStates
