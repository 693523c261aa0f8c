\* All four buttons.
SPECIFICATION Spec
CONSTANTS
    Buttons = {"pair", "user", "start", "stop"}
    Trigger <- StopDead
    ClockReset = 1
    SleepShort = 0
    SleepLong = 2
    InitMayFail = FALSE
    MaxLag = 0
INVARIANTS PairingFollowsButton
