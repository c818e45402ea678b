SPECIFICATION SnapshotsSpec
CONSTANTS
    Requests = {1, 2, 3}
    Slots = 1
    s1 = s1
    s2 = s2
    SnapshotNames = {s1, s2}
    Generated = {s1}
    MaxChanges = 1
    MaxFaults = 0
    None = None
CHECK_DEADLOCK FALSE
INVARIANTS
    DeletionKeepsState
