\* A body that arrives in two pieces.
CONSTANTS
    Requests <- MCRequests
    BufSize = 10
    IntMax = 7
    HeadSizes = {3}
    FileSizes = {2}
    TrigModes = {0}
    MaxRequests = 2
    CutBody = TRUE
    None = None
SPECIFICATION Spec
INVARIANT NeverStuck
CHECK_DEADLOCK FALSE
