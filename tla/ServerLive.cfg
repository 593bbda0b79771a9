\* Both actor models, level- and edge-triggered, tasks of any length, some files missing,
\* one fd for two clients, a queue of one.
CONSTANTS
    Conns = {c1, c2}
    Workers = {w1}
    None = None
    MaxFD = 1
    MaxUsers = 1
    MaxRequest = 1
    Slots = 1
    MaxSend = 1
    Kinds = {"keep", "missing"}
    ActorModels = {0, 1}
    TrigModes = {0, 3}
SPECIFICATION FairSpec
PROPERTY IdleIsClosed
PROPERTY BacklogIsServed
PROPERTY AlarmIsServed
