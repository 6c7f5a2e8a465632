CONSTANTS
    NotComputed = NotComputed
    Denied = Denied
    Pid = {1, 2}
    MaxTime = 2
    MaxStarts = 3
SPECIFICATION Spec
INVARIANTS NamedParentIsParent FactsAreOwn
