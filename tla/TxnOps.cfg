CONSTANTS
    Threads = {t1, t2}
    Keys = {x}
    Past = 3
    MaxTxns = 2
    MaxOps = 3
SPECIFICATION Spec
SYMMETRY Symmetric
INVARIANTS SnapshotReads NoLostUpdate CommittedDescend HelpIsBounded
CHECK_DEADLOCK FALSE
