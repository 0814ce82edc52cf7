SPECIFICATION GasFairSpec
CONSTANTS
    Threads = {t1, t2}
    Amounts = {0, 1, 2}
    GasLimit = 3
    U64 = 16
    MaxCredit = 2
INVARIANTS
    TypeOK
    NoOverdraft
    GasConserved
PROPERTY
    GasCallsReturn
