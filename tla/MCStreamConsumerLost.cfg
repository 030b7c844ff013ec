SPECIFICATION BatchSpec
CONSTANTS
    Singles = {}
    Aggregates <- SomeAggregates
    Runners = {r1, r2}
    Settings <- QueueAtLeastOnce
    MaxReceive = 2
    MaxFaults = 1
    BatchSize = 2
CHECK_DEADLOCK FALSE
INVARIANTS
    NoneLost
