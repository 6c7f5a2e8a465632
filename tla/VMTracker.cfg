CONSTANTS
    free = free
    rw = rw
    Attribute = {free, rw}
    Pages = 3
SPECIFICATION FairSpec
INVARIANTS WalkIsContiguous NewWasNeverSeen GoneIsReported
PROPERTIES WalkEnds
