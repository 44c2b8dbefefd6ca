CONSTANTS
    MaxCores = 3
    GdbCores = {1}
    NetConfigured = TRUE
SPECIFICATION FairSpec
INVARIANTS
    OwnBootId
    StatusKept

    
    
\* A process that has ended stays so.
CHECK_DEADLOCK FALSE
