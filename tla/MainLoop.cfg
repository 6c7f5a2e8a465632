CONSTANTS
    Size <- Sizes
    MaxMessages = 4
SPECIFICATION FairSpec
INVARIANTS TargetIsCurrent
PROPERTIES FrameFits QuitEnds
\* The program ends.
CHECK_DEADLOCK FALSE
