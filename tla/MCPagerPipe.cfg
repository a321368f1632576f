SPECIFICATION FairSpec
CONSTANTS
    Writes <- MCWrites
    Capacity = 2
    MaxForks = 1
INVARIANTS
    NothingLeft
    NoDeadlock
    MarkedFirst
    InOrder
    WholeUnlessCut
PROPERTY Returns
\* the program may be killed
CHECK_DEADLOCK FALSE
