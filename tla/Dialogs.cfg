CONSTANTS
    None = None
    p1 = p1
    p2 = p2
    c1 = c1
    Pid = {p1, p2}
    Stamp = {c1}
SPECIFICATION FairDialogs
INVARIANTS DialogHasSelection
PROPERTIES KilledWasAsked DialogCloses MenuActsOnItsRow FailureBoxCloses AboutCloses
