\* Threads: two process ids, two thread ids, one partial call.
CONSTANTS
    Zero = Zero
    p1 = p1
    c1 = c1
    p2 = p2
    t1 = t1
    t2 = t2
    Pid = {p1, p2}
    Stamp = {c1}
    Tid = {t1, t2}
    MaxPartial = 1
SPECIFICATION Spec
INVARIANTS ThreadListsCover
PROPERTIES ImplementsThreadDiff
