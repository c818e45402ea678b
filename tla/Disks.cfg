SPECIFICATION MCSpec
CONSTANTS
    m1 = m1
    m2 = m2
    starter = starter
    s1 = s1
    s2 = s2
    Pools = {0, 1, 2}
    Home = 0
    Names = {1, 2}
    Migrations = {m1, m2}
    Starters = {starter}
    Slots = 2
    Requests = {1, 2, 3}
    SnapshotNames = {s1, s2}
    Generated = {s1}
    MaxChanges = 1
    MaxFaults = 1
    MaxWrites = 1
    Faults = {"fail", "cancel", "crash"}
    None = None
CHECK_DEADLOCK FALSE
INVARIANTS
    DataKept
    
    
    SnapshotKept
