CONSTANTS
    N = 2
    DiskCanFail = TRUE
    CanCrash = FALSE
    CrashAfterTouch = FALSE
    Listen = TRUE
SPECIFICATION Spec
\* the snapshot path ends in a loaded chainstate or in full sync
CHECK_DEADLOCK FALSE
PROPERTY VerifiedBeforeTouch
