SPECIFICATION MCSpec
CONSTANTS
    DayLength = 3
    Weeks = 2
    None = None
    Tasks = {t1, t2}
    Workers = {w1}
    Users = {ann, root}
    Admins = {root}
    CreatedBy <- MCCreatedBy
    Unhandled = {}
    Capacity = 1
    NoTask = None
    Clients = {c1}
    Viewer <- MCViewer
    BufferSize = 2
    Count = 3
    MaxConcurrency = 2
    MaxErrors = 2
    Quotas = {0, 1}
    MaxRaw = 2
    Months = 2
    MaxOps = 2
    Requests = {r1, r2}
    Slots = 2
    MaxWrites = 1
    MaxFaults = 1
    VMs = {v1, v2}
    Order <- MCOrder
    MinMemory = 3
    Initial = 4
    MaxMemory = 6
    Step = 2
    VirtioStep = 2
    Uses = {1, 6}
    LowRounds = 1
    HighRounds = 2
    Cooldown = 1
    Pause = 2
    HostFree = 6
    Reserve = 3
    r1 = r1
    r2 = r2
    v1 = v1
    v2 = v2
    t1 = t1
    t2 = t2
    w1 = w1
    ann = ann
    root = root
    c1 = c1
SYMMETRY Symmetric
CHECK_DEADLOCK FALSE
INVARIANTS
    NextIsLeast
    RepeatsForEver
    MigratedIsWhole
    
    SuccessIsComplete
    NothingHalfMade
    
    ManualKept
    
    VerdictIsLastEvent
    ShownOutcomeIsTrue
PROPERTIES
    NoSendAfterClose
