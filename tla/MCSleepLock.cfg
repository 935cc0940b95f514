CONSTANTS
    CPUs = {c1, c2}
    MaxProcs = 2
    Alarms = {a1}
    Null = Null
    Ticking = {c1}
    RunTime = 0
    VetoSize = 4

SPECIFICATION FairSleepSpec
CHECK_DEADLOCK FALSE

INVARIANT MutualExclusion
PROPERTY ProcessLockReleased
PROPERTY SleeperWoken
