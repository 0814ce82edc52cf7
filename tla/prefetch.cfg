SPECIFICATION PrefetchSpec
CHECK_DEADLOCK FALSE
CONSTANTS
    Goroutines = {g1, g2}
    Centers <- Missed
    UX = 5
    UY = 5
    UZ = 5
    Window = 1
    Batch = 4
    QueueCap = 2
    MaxLen = 60
INVARIANTS
    NeighbourhoodCovered
    OnlyRemaindersLost
PROPERTY
    PrefetchEnds
