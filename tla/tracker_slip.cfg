SPECIFICATION Spec
CONSTANTS
    Callers = {t1, t2, t3}
    Keys = {k1, k2}
    Retention = 1
    Second = 1
    MaxLockWait = 1
    MaxTime = 2
    MaxRuns = 2
    ClockMaySlip = TRUE
    MayPanic = TRUE
SYMMETRY Symmetry
CHECK_DEADLOCK FALSE
INVARIANT NoConcurrentExecution
INVARIANT InProgressIsOwned
INVARIANT CachedIsLatest
PROPERTY ImplementsCache
