CONSTANTS
    N = 2
    DiskCanFail = FALSE
    CanCrash = TRUE
    CrashAfterTouch = TRUE
    Listen = TRUE
SPECIFICATION Spec
\* the snapshot path ends in a loaded chainstate or in full sync
CHECK_DEADLOCK FALSE
INVARIANT LoadedOnlyVerified
