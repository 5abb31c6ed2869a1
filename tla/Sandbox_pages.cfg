SPECIFICATION FairSpec
CONSTANTS
    Unknown = "unknown"
    Files <- MCFiles
    Passwords <- MCPasswords
    Languages <- MCLanguages
    MaxPages = 3
    Faults = TRUE
INVARIANTS
    TypeOK
    PercentInStage
    SuccessMeansEveryPage
    DetectionFitsArchive
PROPERTIES
    PercentNeverFalls
    SandboxEnds
CHECK_DEADLOCK FALSE
