SPECIFICATION Spec
CONSTANTS
    PlaneSize = 2
    Byte = {0, 1}
    LoadSizes = {0, 1, 2, 5}
    MaxData = 2
    U16 = 4
    WordBits = 2
    Capacity = 1
    EnableProof = TRUE
INVARIANTS
    CacheCoherent
    ProofsCurrent
PROPERTY
    WritesStayInside
