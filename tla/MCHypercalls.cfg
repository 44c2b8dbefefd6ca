CONSTANTS
    Cores = {c1, c2}
    WordMod = 32
    PageSize = 2
    Fanout = 2
    Levels = 3
    Root = 0
    Setups <- MCSetups
    PhysSize = 12
    Buffers <- MCBuffers
    MaxFd = 3
    Fds = {2, 3}
    Kvm = "kvm"
    Names <- MCNames
    FileSize = 5
    MaxArgs = 2
    MaxCalls = 3
    MaxFails = 1
SPECIFICATION FairSpec
INVARIANTS
    BytesExact
    
    ArgsIntact
PROPERTIES
    NothingOutside
    CallEnds
\* The guest stops issuing hypercalls after MaxCalls of them.
CHECK_DEADLOCK FALSE
