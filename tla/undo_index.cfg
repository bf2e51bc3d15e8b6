SPECIFICATION MiraSpec
CONSTANTS
    Values <- MCValues
    Key <- MCKey
    Wide <- MCWide
    None = None
    MaxId = 2
    MaxDepth = 2
    MaxRevision = 3
INVARIANTS ContainerSound ThrowsOnlyIfRekeyed
PROPERTIES ImplementsSnapshots
CHECK_DEADLOCK FALSE
