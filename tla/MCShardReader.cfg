SPECIFICATION Spec
CONSTANTS
    Clients = {c1, c2}
    Nobody = Nobody
    Last = 2
    MaxBatch = 2
    Timeout = 2
    MaxStall = 1
    Timely = {c1}
    MaxFaults = 1
INVARIANTS
    CheckpointCovered
    FinishedMeansHandled
    ExclusiveRead
PROPERTIES
    EventuallyFinished
