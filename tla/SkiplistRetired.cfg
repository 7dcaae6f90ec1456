CONSTANTS
    Threads = {t1, t2}
    NumKeys = 1
    Initial = v0
    DOES_NOT_EXIST = DOES_NOT_EXIST
    Expectations = {"CAS_EXPECT_DOES_NOT_EXIST", "CAS_EXPECT_EXISTS"}
    Kinds = {"get", "cas", "remove"}
    MaxOps = 1
    Casts <- OneKey
    MAX_LEVELS = 4
    MaxLevels = 2
    Head = Head
    Null = Null
SPECIFICATION Spec
SYMMETRY Symmetry
INVARIANT RetiredIsGone
CHECK_DEADLOCK FALSE
