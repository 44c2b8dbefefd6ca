CONSTANTS
    QueueSize = 2
    CounterMod = 4
    MaxFrames = 7
SPECIFICATION RxFairSpec
INVARIANTS
    RingInv
    NoLostWakeup
PROPERTIES
    NoOverwrite
    IsRxFifo
    EveryFrameDelivered
