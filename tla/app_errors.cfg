\* A shot of one tick, an LCD with errors, any layout of the stack.
SPECIFICATION Spec
CONSTANTS
    ClockReset = 1
    Second = 1
    Sync = 1
    Buzz = 1
    DashAt = 1
    BuzzBelow = 1
    ConnChars = {"0", "P"}
    Fields = {}
    Spill = {"d_state", "d_clock"}
    DisplayMayFail = TRUE
    MaxLag = 0
INVARIANTS TypeOK BuzzerWillStop LcdClean LcdShowsCache
