CONSTANTS
    None = None
    p1 = p1
    c1 = c1
    c2 = c2
    Pid = {p1}
    Stamp = {c1, c2}
SPECIFICATION Spec
PROPERTIES KilledWasAsked
