CONSTANTS
    Threads = {t1, t2, t3}
    NumKeys = 2
    Initial = v0
    DOES_NOT_EXIST = DOES_NOT_EXIST
    Expectations = {"CAS_EXPECT_DOES_NOT_EXIST", "CAS_EXPECT_EXISTS", "CAS_EXPECT_WHATEVER"}
    Kinds = {"get", "cas", "remove", "iterate"}
    MaxOps = 1
    Head = Head
    Null = Null
SPECIFICATION Spec
SYMMETRY Symmetry
INVARIANTS Sorted RetiredWhenGone Linearizable
PROPERTIES RemovedStaysRemoved WalkAscends
CHECK_DEADLOCK FALSE
