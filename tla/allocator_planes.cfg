SPECIFICATION SpecPlanes
CHECK_DEADLOCK FALSE
CONSTANTS
    Heap = Heap
    Stack = Stack
    RegionTypes <- OneType
    Flags <- NoFlags
    Sizes = {1, 2, 3, 6}
    PlaneSize = 4
    U16 = 8
    WordBits = 2
    U32 = 16
    U64 = 64
    MaxYPromotions = 2
    LRUCap = 1
    MaxRegions = 2
    MaxPlanes = 2
    MaxAllocs = 3
INVARIANTS
    TypeOK
    NoOverlap
    BitsCovered
    FreeBytesExact
    AllocCountExact
    FoundByAddress
    SizeGranted
PROPERTIES
    OthersKept
    ImplementsBlocks
