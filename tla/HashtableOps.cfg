CONSTANTS
    Threads = {t1, t2}
    NumKeys = 2
    Initial = v0
    DOES_NOT_EXIST = DOES_NOT_EXIST
    TOMBSTONE = TOMBSTONE
    Expectations = {"CAS_EXPECT_DOES_NOT_EXIST"}
    Budget <- Calls
    MaxCalls = 3
    Sizes <- ThreeSizes
    Probe <- ThreeProbe
    ENTRIES_PER_COPY_CHUNK = 1
SPECIFICATION Spec
SYMMETRY Symmetry
INVARIANTS TypeOK CopiedIsDead FreedIsUnused CountAgrees Linearizable
PROPERTY DeadStaysDead
CHECK_DEADLOCK FALSE
