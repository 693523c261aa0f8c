\* A second push of stop.
SPECIFICATION Spec
CONSTANTS
    Buttons = {"start", "stop"}
    Trigger <- BothEdges
    ClockReset = 2
    SleepShort = 1
    SleepLong = 3
    InitMayFail = FALSE
    MaxLag = 1
PROPERTIES PausedTimeKept
