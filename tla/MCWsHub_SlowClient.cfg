CONSTANTS
    Clients = {c1}
    MaxBroadcasts = 3
    SendBufSize = 1
SPECIFICATION Spec
INVARIANT SlowClientIsOnlyRemoved
CHECK_DEADLOCK FALSE
