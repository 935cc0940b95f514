CONSTANTS
    Readers = {r1}
    Delays = {0, 1, 5}
    SeqSize = 6
    TickSize = 12
    MaxOverlap = 2

SPECIFICATION FairSpec

INVARIANT SettledRead
INVARIANT DelayLongEnough
PROPERTY DelayEnds
