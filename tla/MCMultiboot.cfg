CONSTANTS
    MaxTags = 15
    AddressSpace = 16
    MEMORY_HIGH_START = 4
    Loader = {0, 1}
    HeaderLimit = 3
    PageSize = 2
    ElfHeaders = 1
    Lengths = {0, 7, 8}
    CONSOLE_VGA_NUM_COLUMNS = 4
    PromptLine = 1
    PromptLength = 2
    CommandLimit = 8
    Scenarios <- TheScenarios

SPECIFICATION Spec
CHECK_DEADLOCK FALSE

INVARIANT BlocksSound
INVARIANT NothingLost
INVARIANT WellPlaced
INVARIANT KernelInPlace
INVARIANT CommandInStep
INVARIANT InfoComplete
