CONSTANTS
    GapStart = 5
    GapSize = 2
    WordMod = 32
    Base = 1
    GuestSizes = {4, 12}
    MaxRegions = 3
SPECIFICATION Spec
INVARIANTS
    CoversAllocated
\* The conversion ends.
CHECK_DEADLOCK FALSE
