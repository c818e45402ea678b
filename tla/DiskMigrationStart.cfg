SPECIFICATION Spec
CONSTANTS
    m1 = m1
    m2 = m2
    s1 = s1
    Pools = {0, 1, 2}
    Home = 0
    Names = {1, 2}
    Migrations = {m1}
    Starters = {s1}
    Slots = 2
    MaxWrites = 2
    Faults = {}
    None = None
CHECK_DEADLOCK FALSE
INVARIANTS
    StartIsHarmless
