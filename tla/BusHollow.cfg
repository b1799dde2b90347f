\* Nothing fails.
CONSTANTS
    p1 = p1
    p2 = p2
    None = None
    Events = {e1}
    TierChanges = {e1}
    Processes = {p1}
    BatchSize = 2
    Faults = {}
    MaxFaults = 0
SPECIFICATION Spec
CHECK_DEADLOCK FALSE
INVARIANT HandedWhole
