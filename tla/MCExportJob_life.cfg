SPECIFICATION FairSpec
CONSTANTS
    c1 = c1
    c2 = c2
    NULL = NULL
    Clients = {c1, c2}
    Background = Background
    MaxRows = 0
    Ttl = 1
    MaxMatching = 1
    MaxNow = 1
    MaxFailures = 2
    MaxDeaths = 1
    MaxLost = 1
\* An export that no client knows, or that no generation is left for, may
\* come to rest.
CHECK_DEADLOCK FALSE
INVARIANTS
    TypeOK
    ReadyIsComplete
    RowCountMatchesFile
PROPERTIES
    LifecycleForward
    ExportSettles
