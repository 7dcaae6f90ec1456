CONSTANTS
    N = 3
    Objects = {o1, o2}
    Threshold = 1
    QueueSize = 2
    Barrier = TRUE
SPECIFICATION FairSpec
INVARIANTS NoUseAfterFree FreesOnlyRetired
PROPERTIES PostsGrow PostedIsFreed
CHECK_DEADLOCK FALSE
