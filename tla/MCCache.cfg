SPECIFICATION Spec
CONSTANTS
    Urls = {u1, u2}
    Articles = {a1, a2}
    Guided = {a1}
    CyclesUntilDelete = 2
    Retention = 0
    MayExit = TRUE
    MayFail = TRUE
    MaxEntryID = 2
    MaxNow = 1
SYMMETRY Symmetry
INVARIANTS
    NoDuplicates
    NoOrphans
PROPERTIES
    ImportKeepsMarks
    OnlyStaleDeleted
    GracePeriod
    StaleGone
    NewsReported
    ImplementsArticleStore
