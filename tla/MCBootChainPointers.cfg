CONSTANTS
    NumEntries = 2
    Slots = 3
    Blocks <- MCBlocks
    MaxRead = 3
    Sector_Size = 2
    BOOTLOADER_ADDRESS = 10
    B = 16
    P = 4
    PnP <- MCPnP
    MaxKeys = 2
    Controllers = {TRUE, FALSE}

SPECIFICATION Spec
CHECK_DEADLOCK FALSE

INVARIANT PointersPassed
