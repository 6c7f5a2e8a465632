CONSTANTS
    p1 = p1
    p2 = p2
    t1 = t1
    t2 = t2
    Process = {p1, p2}
    Thread = {t1, t2}
    Owner <- OneOwner
    Idle = Idle
    Everything = Everything
    Processors = 2
    Unit = 12
    Half = 20
    MaxGap = 2
    MaxLag = 1
    MaxUsed = 5
SYMMETRY Symmetry
SPECIFICATION Spec
INVARIANTS SharesFit ThreadOnOneProcessor ThreadsWithinProcess
