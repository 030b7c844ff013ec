SPECIFICATION Spec
CONSTANTS
    p1 = p1
    p2 = p2
    Partitions = {p1, p2}
    LastOffset <- TwoAndOne
    MaxBatch = 2
    MaxRebalances = 3
    CommitMayFail = TRUE
    CtxMayEnd = TRUE
CHECK_DEADLOCK FALSE
INVARIANTS
    CommittedWereHandled
    RevokedAreFinished
    NeverPanics
PROPERTIES
    ReturnsUnlessBlocked
