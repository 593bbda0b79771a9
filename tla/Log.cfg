SPECIFICATION FairSpec
CONSTANTS
    Threads = {t1, t2}
    Flusher = flusher
    m_split_lines = 2
    m_max_size = 1
    MaxLines = 5
    MaxDay = 2
    None = None
\* The lines are bounded, and the asynchronous log stops after its first one
CHECK_DEADLOCK FALSE
INVARIANT TypeOK
INVARIANT Durable
INVARIANT SplitLimit
PROPERTY Returns
