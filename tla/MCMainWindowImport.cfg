SPECIFICATION Spec
CONSTANTS
    Feeds = {1, 2}
    Entries = {1, 2}
    Dates = {1, 2}
    Stored <- MCCaches
    ShowReadFeeds = FALSE
    ShowReadEntries = TRUE
    Heights = {1, 2}
    MayImport = TRUE
INVARIANTS
    TypeOK
    PagesTile
PROPERTIES
    RowsKeepFeed
    FirstPageKept
