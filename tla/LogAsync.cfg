SPECIFICATION FairSpec
CONSTANTS
    Threads = {t1}
    Flusher = flusher
    m_split_lines = 2
    m_max_size = 1
    MaxLines = 2
    MaxDay = 1
    None = None
\* The lines are bounded.
CHECK_DEADLOCK FALSE
PROPERTY Recorded
