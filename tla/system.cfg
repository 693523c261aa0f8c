\* One controller, one display, one link.
SPECIFICATION FairSpec
CONSTANTS
    Display = display
    Controller = controller
    Conn = conn
    NULL = NULL
    PairTrigger = {0, 1}
    MayFail = TRUE
INVARIANTS TypeOK NotifiesBonded NeverStuck
PROPERTIES DisplayFollows EndsAgree
