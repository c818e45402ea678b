SPECIFICATION FairSpec
CONSTANTS
    s1 = s1
    e1 = e1
    Schedules = {s1}
    Editors = {e1}
    Runs = {1, 2}
    Slots = 1
    Kinds = {"once", "daily"}
    Actions = {"start", "shutdown", "delete"}
    Period = 1
    Batch = 1
    Horizon = 1
    MaxStores = 2
    MaxFaults = 1
    Locking = TRUE
    None = None
CHECK_DEADLOCK FALSE
INVARIANTS
    FiredAtMostDue
    RunningIsCarriedOut
PROPERTIES
    DueIsHandled
