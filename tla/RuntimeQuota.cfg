SPECIFICATION Spec
CONSTANTS
    VMs = {v1}
    Tasks = {t1, t2}
    Slots = 1
    Limits = {0, 1}
    Horizon = 1
    MaxEdits = 1
    MaxFaults = 1
    MaxLooks = 2
    None = None
CHECK_DEADLOCK FALSE
INVARIANTS
    
    FlagIsBacked

    
