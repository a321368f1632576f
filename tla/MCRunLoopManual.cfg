SPECIFICATION LoopSpec
CONSTANTS
    NUrls = 2
    ParallelReload = 2
    DlRetries = 1
    AutoReload = FALSE
    ConfirmExit = FALSE
    NotifyBeep = TRUE
    WaitTime = 1
PROPERTY ReloadsAsked
\* the exit key ends the program
CHECK_DEADLOCK FALSE
