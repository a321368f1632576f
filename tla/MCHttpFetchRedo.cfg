SPECIFICATION Spec
CONSTANTS
    NUrls = 3
    ParallelReload = 2
    DlRetries = 2
INVARIANT OnlyFailuresRetried
