CONSTANTS
    Printers = {BSP, a1}
    Host = BSP
    Handler = Handler
    CONSOLE_VGA_NUM_LINES = 4
    CONSOLE_VGA_NUM_COLUMNS = 4
    TabWidth = 3
    BufferLines = 12
    MaxNested = 2
    MaxRaces = 1
    MaxTyped = 2
    Keys <- MCKeys
    MaxHeld = 2
    Message <- MCMessage

SPECIFICATION Spec
CHECK_DEADLOCK FALSE

INVARIANT CursorOnScreen
INVARIANT ModifiersReleased
