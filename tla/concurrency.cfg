SPECIFICATION FairSpec
CHECK_DEADLOCK FALSE
CONSTANTS
    Callers = {c1, c2}
    Workers = {w1, w2}
    Regions = {r1}
    QueueCap = 1
    Modes = {"pool", "machine"}
    Calls = {"free", "report", "analyze"}
    None = None
    Exited = Exited
INVARIANTS
    NoDeadlock
    RequestsTracked
PROPERTIES
    CallsReturn
    WorkersExit
