\* The EDD job writes back a case that was filed meanwhile.
CONSTANTS
    None = None
    Alerts = {a1}
    Cases = {c1}
    Reports = {r1}
    Customers = {k1}
    CustomerOf <- AnAlertEach
    Clients = {q1}
    Jobs = {j1}
    Locking = {q1}
    MaxAlertVersion = 3
    MaxCaseVersion = 5
    MaxVersions = 8
SPECIFICATION Spec
PROPERTY FiledForGood
