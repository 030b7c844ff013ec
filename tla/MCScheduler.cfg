SPECIFICATION JSSpec
CONSTANTS
    Jobs = {j1, j2, j3, j4}
    Runners = {r1, r2}
    MaxBatchSize = 2
CHECK_DEADLOCK FALSE
INVARIANTS
    WaitingOnce
PROPERTIES
    ScheduledIsAnswered
    SchedulerReturns
