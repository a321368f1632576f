SPECIFICATION Spec
CONSTANTS
    CONF_BUF_INC = 3
    MaxFile = 7
INVARIANTS
    TypeOK
    LinesRead
    BytesKept
    WordsSplit
    UrlsRead
\* the file is read once
CHECK_DEADLOCK FALSE
