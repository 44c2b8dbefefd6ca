CONSTANTS
    GapStart = 3
    GapSize = 2
    WordMod = 16
    NCores = 2
    MemSizes = {1, 2, 3, 4}
    Types = {"cold", "live"}
    MaxSteps = 2
SPECIFICATION FairSpec
INVARIANTS
    
    NeverTwice
    NoColdBoot
    SizeKept
PROPERTIES
    MigrationCompletes
\* A finished or failed migration is followed by nothing.
CHECK_DEADLOCK FALSE
