\* State 2 under a running count-down.
SPECIFICATION Spec
CONSTANTS
    Buttons = {"start", "stop"}
    Trigger <- BothEdges
    ClockReset = 2
    SleepShort = 1
    SleepLong = 3
    InitMayFail = FALSE
    MaxLag = 1
INVARIANTS StoppedMeansStopped
