SPECIFICATION Spec
CONSTANTS
    Writers = {w1}
    Runners = {r1, r2}
    Kinds <- TwoBuckets
    Buckets = 2
    Envelope = 1
    BufferSize = 1
    BatchSize = 2
    BatchMaxSize = 22
    AggregationSizes = {1, 2}
    AggregationMaxSize = 7
    EarlyWrites = FALSE
    MaxMessages = 3
    MaxCall = 2
    MaxRestarts = 1
CHECK_DEADLOCK FALSE
INVARIANTS
    InOrderOnce
    StoppedMeansSent
    BatchBounded
PROPERTIES
    EventuallySent
    StopReturns
