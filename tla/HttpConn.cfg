\* Requests that fit the buffer, fill it and exceed it, in any pieces that leave a
\* body whole; a file longer than the largest int.
CONSTANTS
    Requests <- MCRequests
    BufSize = 10
    IntMax = 7
    HeadSizes = {4}
    FileSizes = {2, 6}
    TrigModes = {0, 1}
    MaxRequests = 3
    CutBody = FALSE
    None = None
SPECIFICATION FairSpec
INVARIANT TypeOK
 
INVARIANT RightAnswer
INVARIANT NeverStuck
PROPERTY Intact
PROPERTY RefusedOnlyIfTooLong
PROPERTY WholeResponse
PROPERTY Returns
\* When the clients have asked all they will, nothing need happen any more.
CHECK_DEADLOCK FALSE
