SPECIFICATION Spec
CONSTANTS
    Word = 4
    BlockLanes = 2
    FhtBlock = 2
    Patterns <- MCPatterns
    SparseIndices <- MCIndices
    MaxDim = 9
    LowBase = 65536
    HighBase = 256
    Dims <- MCDims
    Degrees <- MCDegrees
    DirectorySizes <- MCDirectorySizes
    HeapShare = 2
    FirstChunk = 1
    WINDOW_SIZE = 2
INVARIANTS
    
    RotationReversible
    
    StoredReadBack
    VectorsAgree
    
    
