SPECIFICATION BatchSpec
CONSTANTS
    Count = 3
    MaxConcurrency = 2
    MaxErrors = 1
    None = None
CHECK_DEADLOCK FALSE
INVARIANTS
    ErrorIsRolledBack
