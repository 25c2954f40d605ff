SPECIFICATION FairSpec
CONSTANTS
    BlockCap = 2
    NumBlocks = 10
    MemBlocks = 9
    Bytes = {0, 1}
    Latency = 2
    NumSets = 2
    Program <- MCProgram
    Image <- MCImage
INVARIANTS
    TypeOK
    NoDuplicateLine
    CleanMatchesMemory
    DrainedWhenReady
PROPERTIES
    ImplementsMemory
    FilledLineStays
    MissServed
