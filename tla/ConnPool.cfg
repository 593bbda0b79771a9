\* Fewer handles than threads and as many, interrupted waits.
CONSTANTS
    Workers = {w1, w2, w3}
    Connections = {m1, m2, m3}
    Sizes = {1, 2, 3}
    MaxSignals = 2
    NULL = NULL
SPECIFICATION Spec
INVARIANT TypeOK
INVARIANT NoSharing
INVARIANT AlwaysServed
INVARIANT NoIdleConnection
\* A thread that has popped an empty list goes no further.
CHECK_DEADLOCK FALSE
