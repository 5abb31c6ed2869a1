SPECIFICATION FairSpec
CONSTANTS
    f1 = f1
    f2 = f2
    f3 = f3
    Files <- MCThreeFiles
    StartFiles <- MCNoFile
    MaxSelected = 4
    MaxBatches = 1
    MaxProgress = 0
PROPERTIES
    DeletesOnlySelected
CHECK_DEADLOCK FALSE
