SPECIFICATION SpecVM
CHECK_DEADLOCK FALSE
CONSTANTS
    Heap = Heap
    Stack = Stack
    RegionTypes <- TwoTypes
    Flags <- NoFlags
    Sizes = {1, 3, 5}
    PlaneSize = 4
    U16 = 8
    WordBits = 2
    U32 = 16
    U64 = 64
    MaxYPromotions = 2
    LRUCap = 2
    MaxRegions = 3
    MaxPlanes = 1
    MaxAllocs = 3
INVARIANT
    LRUWellFormed
PROPERTY
    NoNeedlessRegion
