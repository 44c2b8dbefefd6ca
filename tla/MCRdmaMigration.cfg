CONSTANTS
    GuestChunks <- MCGuestChunks
    Settings <- MCSettings
    MaxMsg = 2
    MaxSendWr = 2
    Depths = {2, 3}
    MigIters = 2
    MaxSteps = 3
SPECIFICATION FairSpec
INVARIANTS
    ExactMemory
    ListAwaited
PROPERTIES
    SourceEnds
    MemoryArrives
\* The transfer ends.
CHECK_DEADLOCK FALSE
