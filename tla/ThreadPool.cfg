\* Three workers, a queue that fills, interrupted waits.
CONSTANTS
    Requests = {r1, r2}
    Workers = {w1, w2, w3}
    MaxRequest = 2
    MaxAppends = 4
    MaxSignals = 2
    Main = main
    None = None
SPECIFICATION FairSpec
INVARIANT TypeOK
INVARIANT NeverPopsEmpty
INVARIANT NoLostWakeup
PROPERTY ImplementsTaskQueue
PROPERTY Served
PROPERTY Returns
\* When every task is done the workers wait for ever.
CHECK_DEADLOCK FALSE
