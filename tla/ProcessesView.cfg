CONSTANTS
    k1 = k1
    k2 = k2
    Key = {k1, k2}
    Hold = 1
    Intervals = {1, 3}
    Filters <- SomeFilters
    MaxFailed = 0
    CanWrap = TRUE
SPECIFICATION FairSpec
INVARIANTS TypeOK RowsMatchManager KnownHaveRows DrawnPassFilter InfoPointsToHeldObject
PROPERTIES ErasedAreTerminated DeadRowsGo LiveRowsCome
