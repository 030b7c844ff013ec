SPECIFICATION TRSpec
CONSTANTS
    Tasks = {t1, t2, t3, t4}
    Usages <- AllUsages
    MaxChannels = 2
CHECK_DEADLOCK FALSE
INVARIANTS
    PendingIsKept
PROPERTIES
    PromiseKept
