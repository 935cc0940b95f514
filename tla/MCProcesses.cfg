CONSTANTS
    CPUs = {c1, c2}
    MaxProcs = 3
    Alarms = {}
    Null = Null
    Ticking = {}
    RunTime = 0
    VetoSize = 4
    Stacks = {k1, k2, k3}
    MaxPid = 5

SPECIFICATION ProcSpec
SYMMETRY Interchangeable
CHECK_DEADLOCK FALSE

INVARIANT BookedExclusive
INVARIANT FamilyTree
INVARIANT StackExclusive
PROPERTY ReapedByParent
