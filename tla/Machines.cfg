SPECIFICATION MCSpec
CONSTANTS
    Tasks = {r1, r2}
    Original = Original
    Slots = 2
    Kinds = {"linux", "windows", "windows_cold"}
    Faults = {"fail", "restore", "cleanup", "cancel", "crash"}
    None = None
    Confirmations = {r1, r2}
    MaxIds = 2
    MaxErrors = 1
    Names = {v1, v2}
    Changes = {r1, r2, r3}
    MaxVM = 1
    MaxFailures = 1
    VMs = {v1, v2}
    Ips = {i1, i2}
    Ports = {1, 2}
    Both <- MCBoth
    Requests = {r1, r2}
    Savers = {1, 2}
    MaxFaults = 1
    r1 = r1
    r2 = r2
    r3 = r3
    v1 = v1
    v2 = v2
    i1 = i1
    i2 = i2
SYMMETRY Symmetric
CHECK_DEADLOCK FALSE
INVARIANTS
    OldSystemKept
    VerdictIsTrue
    ProvisioningIsBacked
    ActiveIsComplete
    OwnedIsListed
    
    
