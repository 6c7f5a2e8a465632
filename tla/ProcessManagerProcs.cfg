\* Processes only: two ids, two creation times, one partial call.
CONSTANTS
    Zero = Zero
    p1 = p1
    p2 = p2
    c1 = c1
    c2 = c2
    Pid = {p1, p2}
    Stamp = {c1, c2}
    Tid = {}
    MaxPartial = 1
SPECIFICATION Spec
INVARIANTS TablesAgree TerminatedAreDead
PROPERTIES StableIdentity ImplementsProcessDiff ImplementsTable
