\* Every trigger mode with an edge in it, tasks of any length, some files missing, an fd
\* for every client, a queue shorter than there are fds.
CONSTANTS
    Conns = {c1, c2}
    Workers = {w1, w2}
    None = None
    MaxFD = 2
    MaxUsers = 1
    MaxRequest = 1
    Slots = 1
    MaxSend = 1
    Kinds = {"keep", "missing"}
    ActorModels = {0, 1}
    TrigModes = {1, 2, 3}
SPECIFICATION Spec
INVARIANT TypeOK
INVARIANT TimerOwned
INVARIANT NoFreedTimer
INVARIANT EdgeDrained
INVARIANT ProactorOneHandler
SYMMETRY Symmetry
