SPECIFICATION Spec
CHECK_DEADLOCK FALSE
CONSTANTS
    Heap = Heap
    Stack = Stack
    RegionTypes <- OneType
    Flags <- NoFlags
    Sizes = {1, 3, 5}
    PlaneSize = 4
    U16 = 8
    WordBits = 2
    U32 = 16
    U64 = 64
    MaxYPromotions = 2
    LRUCap = 3
    MaxRegions = 2
    MaxPlanes = 2
    MaxAllocs = 3
INVARIANT
    NoOverlap
