SPECIFICATION FairSpec
CONSTANTS
    r1 = r1
    r2 = r2
    s1 = s1
    s2 = s2
    d1 = d1
    d2 = d2
    NoRequest = NoRequest
    Requests <- MCOneRequest
    Streams <- MCOneStream
    Downloads <- MCTwoDownloads
    Launchable <- MCOneRequest
    MaxLines = 2
    EarlyDownloads = TRUE
    Faults = TRUE
INVARIANTS
    TypeOK
    SuccessMeansDocument
    StreamsGoOn
PROPERTIES
    TasksEnd
CHECK_DEADLOCK FALSE
