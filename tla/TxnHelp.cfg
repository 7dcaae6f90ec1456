CONSTANTS
    Threads = {t1, t2}
    Keys = {x}
    Past = 0
    MaxTxns = 2
    MaxOps = 2
SPECIFICATION Spec
SYMMETRY Symmetric
INVARIANT VerdictIsFinal
CHECK_DEADLOCK FALSE
