SPECIFICATION Spec
CONSTANTS
    N = 2
    m1 = m1
    m2 = m2
    m3 = m3
    Modules = {m1, m2, m3}
    StageOf <- Placed
    Essential = {m3}
    Background = {m3}
    SlowStages = {1}
    Endings <- Ends
    MaxSignals = 2
INVARIANTS
    TypeOK
    VerdictExact
    CleanExit
    ReverseShutdown
    ModulesStopKernel
PROPERTIES
    StopLeadsToExit
    StopDrains
