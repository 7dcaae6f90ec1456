CONSTANTS
    N = 2
    Scales = {"small", "large"}
    PageBlocks <- MCPageBlocks
    MAX_NUM_THREADS = 3
    STATIC_HAZ_PER_THREAD = 1
    DynamicWords = 2
    Readers = {1}
    MaxMallocs <- MCMaxMallocs
    MaxReads = 2
SPECIFICATION Spec
INVARIANTS EachBlockOnce TailIsLast UsedIsLive
PROPERTY EveryCallReturns
CHECK_DEADLOCK FALSE
