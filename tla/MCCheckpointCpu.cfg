CONSTANTS
    NCores = 2
    NPages = 1
    HeapPages = {0}
    ImagePages = {}
    BufferPages = {}
    MaxCheckpoints = 2
    MaxVersion = 1
    MaxWrites = 1
    MaxCrashes = 2
SPECIFICATION Spec
PROPERTIES
    RestoredCpuState
