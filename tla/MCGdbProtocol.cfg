CONSTANTS
    CoreCounts = {1, 2}
    Values = {0, 1}
    BufMax = 4
    MaxTries = 2
    MaxAsked = 3
    MaxStops = 2
    MaxInterrupts = 1
    MaxNoiseIn = 1
    MaxNoiseOut = 1
SPECIFICATION FairSpec
PROPERTIES
    IsSession
    ThreadsListed
    EveryCommandAnswered
    TermEnds
\* A process that has ended stays so.
CHECK_DEADLOCK FALSE
