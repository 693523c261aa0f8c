\* Two displays, two connections, errors from every call into the stack.
SPECIFICATION FairSpec
CONSTANTS
    Peers = {d1, d2}
    MaxConn = 2
    PairTrigger = {0, 1}
    MayFail = TRUE
INVARIANTS TypeOK NumConnCounts FilteredIsForBonds NotLeftOpen ReadyToReconnect
PROPERTIES WindsDown AdmissionPromise ComesToRest
