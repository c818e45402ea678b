SPECIFICATION TrafficSpec
CONSTANTS
    Quotas = {0, 1}
    MaxRaw = 1
    Months = 1
    MaxOps = 1
    None = None
CHECK_DEADLOCK FALSE
INVARIANTS
    RebalanceMindsTraffic
