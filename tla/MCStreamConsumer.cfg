SPECIFICATION BatchSpec
CONSTANTS
    Singles = {3}
    Aggregates <- SomeAggregates
    Runners = {r1, r2}
    Settings <- Usual
    MaxReceive = 2
    MaxFaults = 1
    BatchSize = 2
CHECK_DEADLOCK FALSE
INVARIANTS
    NoneLostInBatch
PROPERTIES
    DeletedWereConsumed
    EventuallyConsumed
    StopDrains
