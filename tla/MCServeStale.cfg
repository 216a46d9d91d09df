SPECIFICATION Spec
CONSTANTS
    p1 = p1
    p2 = p2
    Proc = {p1, p2}
    NoProc = none
    Op = {o1, o2}
    Mode = {"shadow"}
    MaxStarts = 2
INVARIANT AcknowledgedReload
CHECK_DEADLOCK FALSE
