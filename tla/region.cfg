SPECIFICATION Spec
CONSTANTS
    N = 6
    U16 = 16
    WordBits = 4
    Planes = 2
    MaxPlanes = 2
    Sizes = {0, 1, 3, 9}
    U64 = 64
    MaxOff = 2
INVARIANTS
    FirstFitCorrect
    FragmentationMeaning
    CountersHold
PROPERTY
    PlanSound
