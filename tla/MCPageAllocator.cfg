CONSTANTS
    CPUs = {c1, c2}
    PAGE_MAX_ORDER = 2
    Frames = 16
    LowEnd = 1
    VirtualEnd = 8
    MemoryMaps <- MCMemoryMaps
    Requests = {0, 1}

SYMMETRY Symmetry
SPECIFICATION AllocSpec
CHECK_DEADLOCK FALSE

INVARIANT SectionExclusive
INVARIANT BlocksDisjoint
INVARIANT BitmapAgrees
PROPERTY InterruptsRestored
PROPERTY NothingLeaks
PROPERTY WildOnlyOffBoundary
