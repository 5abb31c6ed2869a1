SPECIFICATION WebSpec
CONSTANTS
    f1 = f1
    f2 = f2
    f3 = f3
    k1 = k1
    NoRequest = NoRequest
    Files <- MCFiles
    Clients <- MCClients
    Requests <- MCRequests
    Streams <- MCRequests
    Downloads <- MCClients
    Selections <- MCSelections
    MaxNotifications <- MCMaxNotifications
    PageFaults = FALSE
    ClientFaults = TRUE
INVARIANTS
    ClientSavesDocument
CHECK_DEADLOCK FALSE
