SPECIFICATION Spec
CONSTANTS
    c1 = c1
    c2 = c2
    Conversions <- MCOneConversion
    Runtimes <- MCContainers
    PipeSize = 1
    MaxLines <- MCOneLine
    OldOutputs <- MCOneConversion
    Faults = TRUE
    Crashes = FALSE
INVARIANTS
    TemporaryFolderRemoved
CHECK_DEADLOCK FALSE
