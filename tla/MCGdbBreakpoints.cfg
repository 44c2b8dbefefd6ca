CONSTANTS
    MaxVcpus = 2
    Addrs = {1, 2}
    Bytes = {nop, ret}
    Int3 = int3
    SwLens = {1}
    HwLens = {1, 4}
    HwTypes = {"hw"}
    MaxHw = 2
SPECIFICATION BpSpec
INVARIANTS
    
    HwBudget
    
    SettingsCurrent
\* A failed assertion ends the process.
CHECK_DEADLOCK FALSE
