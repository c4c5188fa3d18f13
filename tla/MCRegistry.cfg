CONSTANTS
    Agents = {a1, a2}
    Polled = a1
    NoAgent = NoAgent
    Interval = 1
    CheckEvery = 1
    Timeout = 7
    DbTicks = 2
    PollTicks = 2
    MaxRemoves = 1
SPECIFICATION Spec
INVARIANTS
    HealthyStaysOnline
    DeadIsNoticedInTime
    CommandSurvivesWait
    TableFollowsRegistry
PROPERTIES
    RemovedStaysOut
