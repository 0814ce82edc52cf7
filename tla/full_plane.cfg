SPECIFICATION Spec
CONSTANTS
    N = 6
    U16 = 16
    WordBits = 4
    Planes = 2
    MaxPlanes = 2
    Sizes = {}
    U64 = 64
    MaxOff = 2
INVARIANT
    CountersExact
