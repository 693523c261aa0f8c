\* Every handler against every interrupt, in short times.
SPECIFICATION FairSpec
CONSTANTS
    Buttons = {"start", "stop"}
    Trigger <- BothEdges
    ClockReset = 3
    SleepShort = 2
    SleepLong = 5
    InitMayFail = TRUE
    MaxLag = 1
INVARIANTS TypeOK PausedIsFrozen NoPowerOffMidShot
PROPERTIES StaysOnCourse ShotClockPromise ShotLeftAloneSleeps
