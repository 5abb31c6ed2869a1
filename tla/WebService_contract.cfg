SPECIFICATION FairSpec
CONSTANTS
    r1 = r1
    r2 = r2
    s1 = s1
    s2 = s2
    d1 = d1
    d2 = d2
    NoRequest = NoRequest
    Requests <- MCTwoRequests
    Streams <- MCTwoStreams
    Downloads <- MCTwoDownloads
    Launchable <- MCOneRequest
    MaxLines = 2
    EarlyDownloads = FALSE
    Faults = FALSE
INVARIANTS
    LogWellFormed
    StreamsReplayLog
    NoDocumentLost
    InputOutlivesChild
PROPERTIES
    ImplementsFeed
    LaunchedUploadsAnswered
    StreamsEnd
    InputsRemoved
CHECK_DEADLOCK FALSE
