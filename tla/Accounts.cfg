\* Two workers that may be at one name or at two, and a restart at any point.
CONSTANTS
    Workers = {w1, w2}
    Names = {n1, n2}
    Passwords = {p1, p2}
    MaxRequests = 4
    MaxCrashes = 1
    Empty = Empty
    None = None
SPECIFICATION FairSpec
INVARIANT TypeOK
INVARIANT Remembered
INVARIANT Agree
INVARIANT WelcomeIsRight
PROPERTY Answered
\* When all requests have been answered nothing need happen any more.
CHECK_DEADLOCK FALSE
