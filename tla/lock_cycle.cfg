SPECIFICATION Spec
CHECK_DEADLOCK FALSE
CONSTANTS
    Callers = {c1, c2}
    Workers = {w1, w2}
    Regions = {r1}
    QueueCap = 1
    Modes = {"pool"}
    Calls = {"hit"}
    None = None
    Exited = Exited
INVARIANT
    NoDeadlock
