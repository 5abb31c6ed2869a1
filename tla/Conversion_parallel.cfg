SPECIFICATION FairSpec
CONSTANTS
    c1 = c1
    c2 = c2
    Conversions <- MCTwoConversions
    Runtimes <- MCAllRuntimes
    PipeSize = 1
    MaxLines <- MCLines
    OldOutputs <- MCOneConversion
    Faults = TRUE
    Crashes = TRUE
INVARIANTS
    TypeOK
    FoldersSwept
    IncompleteProfileHasWriter
    BarFilled
PROPERTIES
    ImplementsSanitization
    ConversionsEnd
CHECK_DEADLOCK FALSE
