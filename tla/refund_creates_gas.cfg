SPECIFICATION Spec
CHECK_DEADLOCK FALSE
CONSTANTS
    Instructions <- Small
    MaxLength = 2
    GasLimit = 40
    MaxInstructions = 3
    StoreLens = {2}
    MaxMoved = 1
    MaxExecuted = 3
    U64 = 256
INVARIANT
    GasWithinLimit
