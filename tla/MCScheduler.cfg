CONSTANTS
    CPUs = {c1, c2}
    MaxProcs = 2
    Alarms = {a1}
    Null = Null
    Ticking = {c1, c2}
    RunTime = 1
    VetoSize = 4

SPECIFICATION Spec
SYMMETRY Interchangeable
CHECK_DEADLOCK FALSE

INVARIANT LockHandover
INVARIANT OneCPUPerContext
INVARIANT HomeCPU
INVARIANT ParkedInCriticalSection
INVARIANT VetoBalance
PROPERTY TableSpec
