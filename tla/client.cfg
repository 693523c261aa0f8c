\* Two controllers, one of them incomplete; errors wherever they can come from.
SPECIFICATION FairSpec
CONSTANTS
    Conns = {c1, c2}
    Peers = {p1, p2}
    Complete = {p1}
    NULL = NULL
    InitMayFail = TRUE
    ScanMayFail = TRUE
    CreateMayFail = TRUE
INVARIANTS TypeOK RefsBalanced NoScanWhileConnected KeepsTrying SubscribedOnOwnLink
PROPERTIES WatcherPromise ScansAgain
