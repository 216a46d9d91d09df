SPECIFICATION Spec
CONSTANTS
    p1 = p1
    p2 = p2
    Proc = {p1, p2}
    NoProc = none
    Op = {o1, o2}
    Mode = {"shadow", "authoritative"}
    MaxStarts = 2
SYMMETRY Interchangeable
INVARIANTS
    AcknowledgedSurvives
    LoneStartSucceeds
    ModeIsAsTold
PROPERTY LiveSocketSurvives
CHECK_DEADLOCK FALSE
