\* A display is connected when the pair button is pushed; no call fails.
SPECIFICATION PushedWhileConnected
CONSTANTS
    Peers = {d1}
    MaxConn = 1
    PairTrigger = {0, 1}
    MayFail = FALSE
INVARIANTS PairingIsOpen
