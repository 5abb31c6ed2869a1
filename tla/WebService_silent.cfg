SPECIFICATION FairSpec
CONSTANTS
    r1 = r1
    r2 = r2
    s1 = s1
    s2 = s2
    d1 = d1
    d2 = d2
    NoRequest = NoRequest
    Requests <- MCTwoRequests
    Streams <- MCOneStream
    Downloads <- MCOneDownload
    Launchable <- MCOneRequest
    MaxLines = 1
    EarlyDownloads = FALSE
    Faults = FALSE
PROPERTIES
    UploadsAnswered
CHECK_DEADLOCK FALSE
