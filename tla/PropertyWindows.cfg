CONSTANTS
    k1 = k1
    k2 = k2
    Key = {k1, k2}
    MaxWindows = 2
SPECIFICATION FairWindowsSpec
INVARIANTS OpenIsListed
PROPERTIES ClosedGoes RequestIsServed
