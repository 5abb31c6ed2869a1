SPECIFICATION FairSpec
CONSTANTS
    f1 = f1
    f2 = f2
    f3 = f3
    Files <- MCTwoFiles
    StartFiles <- MCOneFile
    MaxSelected = 4
    MaxBatches = 3
    MaxProgress = 1
INVARIANTS
    TypeOK
    SelectionShown
    ProgressOnOwnRow
    OneAckPerResult
    StatusTellsOutcome
    BatchGoesOn
PROPERTIES
    DeletesTicked
    BatchEnds
CHECK_DEADLOCK FALSE
