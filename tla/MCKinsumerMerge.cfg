SPECIFICATION Spec
CONSTANTS
    Clients = {1, 2}
    Shards = {1, 2, 3}
    Parent <- MergeParent
    AdjacentParent <- MergeAdjacent
    None = None
    Nobody = Nobody
    KeepShardOrder = TRUE
    MaxFaults = 1
CHECK_DEADLOCK FALSE
INVARIANTS
    ParentFirst
