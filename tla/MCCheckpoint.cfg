CONSTANTS
    NCores = 2
    NPages = 2
    HeapPages = {0}
    ImagePages = {1}
    BufferPages = {1}
    MaxCheckpoints = 2
    MaxVersion = 2
    MaxWrites = 1
    MaxCrashes = 1
SPECIFICATION FairSpec

    
PROPERTIES
    CommittedFilesKept
    NewestRestored
    CheckpointEnds
