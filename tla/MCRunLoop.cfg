SPECIFICATION LoopFairSpec
CONSTANTS
    NUrls = 4
    ParallelReload = 2
    DlRetries = 1
    AutoReload = TRUE
    ConfirmExit = TRUE
    NotifyBeep = TRUE
    WaitTime = 2
INVARIANT FreedOnce
PROPERTIES
    ReloadEnds
    ReloadsRecur
    NewsAnnounced
    BatchesProgress
    ImplementsReloadCycle
\* the exit key ends the program
CHECK_DEADLOCK FALSE
