\* Proactor, some files missing.
CONSTANTS
    Conns = {c1, c2}
    Workers = {w1}
    None = None
    MaxFD = 1
    MaxUsers = 1
    MaxRequest = 1
    Slots = 2
    MaxSend = 1
    Kinds = {"keep", "missing"}
    ActorModels = {0}
    TrigModes = {0}
SPECIFICATION Spec
PROPERTY TickClosesOwn
