\* Every file found, tasks of any length, two clients in turn on one fd.
CONSTANTS
    Conns = {c1, c2}
    Workers = {w1}
    None = None
    MaxFD = 1
    MaxUsers = 1
    MaxRequest = 1
    Slots = 1
    MaxSend = 2
    Kinds = {"part", "keep", "close"}
    ActorModels = {0, 1}
    TrigModes = {0, 3}
SPECIFICATION Spec
INVARIANT RightClient
PROPERTY TickClosesOwn
SYMMETRY Symmetry
