SPECIFICATION FairSpec
CONSTANTS
    f1 = f1
    f2 = f2
    f3 = f3
    Files <- MCTwoFiles
    StartFiles <- MCNoFile
    MaxSelected = 3
    MaxBatches = 2
    MaxProgress = 0
INVARIANTS
    CancelledOnlyIfAsked
CHECK_DEADLOCK FALSE
