SPECIFICATION Spec
CONSTANTS
    Clients = {c1, c2}
    NoItem = NoItem
    Second = 2
    Margin = 1
    LockTime = 3
    RenewTime = 3
    MaxSkew = 2
    MaxTime = 8
    MaxLocks = 2
    MaxFaults = 1
CHECK_DEADLOCK FALSE
SYMMETRY Symmetric
INVARIANTS
    MutualExclusion
    OwnerIsCovered
    LeaseBounded
PROPERTIES
    ImplementsLease
