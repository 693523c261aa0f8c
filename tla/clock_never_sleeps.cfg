\* A device that stays awake.
SPECIFICATION FairSpec
CONSTANTS
    Buttons = {"start", "stop"}
    Trigger <- BothEdges
    ClockReset = 2
    SleepShort = 1
    SleepLong = 3
    InitMayFail = FALSE
    MaxLag = 1
PROPERTIES NeverIdlesForever
