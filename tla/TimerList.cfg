\* Any expiry distances.
CONSTANTS
    Timers = {t1, t2, t3}
    NULL = NULL
    Timeouts = {1, 2, 3}
    MaxTime = 3
SPECIFICATION Spec
INVARIANT TypeOK
INVARIANT WellLinked
PROPERTY ImplementsTimerSet
