CONSTANTS
    NCores = 2
    MaxAlarms = 1
SPECIFICATION Spec
INVARIANTS
    OneInstant
CHECK_DEADLOCK FALSE
