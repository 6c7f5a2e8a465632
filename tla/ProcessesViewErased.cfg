CONSTANTS
    k1 = k1
    Key = {k1}
    Hold = 1
    Intervals = {1, 3}
    Filters <- NoFilter
    MaxFailed = 1
    CanWrap = FALSE
SPECIFICATION Spec
PROPERTIES ErasedAreTerminated
