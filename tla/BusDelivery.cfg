\* One process that publishes and subscribes, three events, every fault.
CONSTANTS
    p1 = p1
    p2 = p2
    None = None
    Events = {e1, e2, e3}
    TierChanges = {e1, e3}
    Processes = {p1}
    BatchSize = 2
    Faults = {"publish", "record", "mark", "requery", "connection", "restart"}
    MaxFaults = 2
SPECIFICATION FairSpec
CHECK_DEADLOCK FALSE
INVARIANTS
    TypeOK
    PublishedWasSent
PROPERTIES
    EveryEventPublished
    EveryTierChangeHanded
