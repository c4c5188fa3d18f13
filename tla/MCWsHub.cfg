CONSTANTS
    Clients = {c1}
    MaxBroadcasts = 4
    SendBufSize = 2
SPECIFICATION FairSpec
INVARIANTS
    NoSendOnClosed
    MissedIsRemoved
PROPERTIES
    PumpsEnd
    SlowClientIsDisconnected
\* Every connection and every broadcast comes to an end.
CHECK_DEADLOCK FALSE
