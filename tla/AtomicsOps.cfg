CONSTANTS
    Threads = {t1, t2}
    Width = 2
    Args <- MCArgs
    MaxCalls = 3
SPECIFICATION Spec
PROPERTIES RefinesRegister EveryCallReturns
CHECK_DEADLOCK FALSE
