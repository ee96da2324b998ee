SPECIFICATION Spec
CONSTANTS
    c1 = c1
    c2 = c2
    j1 = j1
    j2 = j2
    NoJob = NoJob
    Clients = {c1, c2}
    Jobs = {j1, j2}
    SendCap = 1
    BroadcastCap = 1
    MaxMessages = 3
    MaxSubscribes = 3
CHECK_DEADLOCK FALSE
INVARIANTS
    HubSurvives
