\* A shot of two seconds, an LCD without errors, a display that subscribes.
SPECIFICATION FairSpec
CONSTANTS
    ClockReset = 4
    Second = 2
    Sync = 1
    Buzz = 1
    DashAt = 2
    BuzzBelow = 1
    ConnChars = {"0", "P"}
    Fields = {"state"}
    Spill = {}
    DisplayMayFail = FALSE
    MaxLag = 1
PROPERTIES CatchesUp GetsSent SettledIsShown ExpiryIsSent
