SPECIFICATION Spec
CONSTANTS
    PlaneSize = 6
    Byte = {0, 1}
    LoadSizes = {1, 2}
    MaxData = 2
    U16 = 7
    WordBits = 2
    Capacity = 1
    EnableProof = FALSE
INVARIANT
    CacheCoherent
