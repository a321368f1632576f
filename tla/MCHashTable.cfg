SPECIFICATION Spec
CONSTANTS
    k1 = k1
    k2 = k2
    k3 = k3
    k4 = k4
    download = download
    help = help
    Names = {k1, k2, k3, k4}
    Handlers = {download, help}
    Order <- MCOrder
    Download = download
    NULL = NULL
    Hash <- MCHash
    Size = 4
    MaxUnset = 4
INVARIANTS
    TypeOK
    NoNameTwice
    HelpListsKeys
PROPERTY
    OneBindingChanges
\* the configuration is read once
CHECK_DEADLOCK FALSE
