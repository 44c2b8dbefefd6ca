CONSTANTS
    Cores = {c1, c2}
    QueueSize = 2
    CounterMod = 4
    MTU = 3
    Lengths = {0, 2, 3}
    MaxFrames = 5
SPECIFICATION TxFairSpec
INVARIANTS
    NoStrandedFrame
    WholeFrames
PROPERTIES
    IsTxFifo
    EveryFrameLeaves
\* The thread sleeps for good once the guest has sent its MaxFrames frames.
CHECK_DEADLOCK FALSE
