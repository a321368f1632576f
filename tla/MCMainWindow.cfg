SPECIFICATION Spec
CONSTANTS
    Feeds = {1, 2, 3}
    Entries = {1, 2, 3, 4, 5}
    Dates = {1, 2, 3}
    Stored <- MCStored
    ShowReadFeeds = TRUE
    ShowReadEntries = FALSE
    Heights = {2}
    MayImport = FALSE
INVARIANTS
    InBounds
    RowsCounted
    RowsFresh
PROPERTIES
    ExitReturns
