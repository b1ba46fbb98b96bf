SPECIFICATION Spec
CONSTANTS
    Callers = {t1, t2}
    Keys = {k1, k2}
    Retention = 3
    Second = 2
    MaxLockWait = 1
    MaxTime = 9
    MaxRuns = 2
    ClockMaySlip = FALSE
    MayPanic = FALSE
SYMMETRY Symmetry
CHECK_DEADLOCK FALSE
INVARIANT TypeOK
PROPERTY RetentionHonoured
PROPERTY NoStaleReplay
