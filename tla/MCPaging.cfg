CONSTANTS
    Procs = {p1, p2}
    First = p1
    Frames = {1, 2, 3, 4, 5, 6}
    Dirs = 2
    Tabs = 2
    PageSize = 2
    Shifts <- TheShifts
    Offered <- Ends
    MaxCalls = 5

SPECIFICATION Spec
CHECK_DEADLOCK FALSE

INVARIANT FrameOwnership
INVARIANT HeapMapped
