CONSTANTS
    Alerts = {a1}
    Cases = {}
    Pendings = {}
    Jobs = {}
    Transactions = {t1}
    Scores = {}
    AuditLogs = {}
    Customer = customer
    Processes = {api}
    Days = {1}
    Adjustable = {}
    Grace = 1
    MaxAge = 2
    MaxRows = 2
    None = None
SPECIFICATION FairSpec
PROPERTY DeletedAfterGrace
