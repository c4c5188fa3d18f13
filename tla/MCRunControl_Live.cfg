CONSTANTS
    Agents = {a1}
    Runs = {r1, r2}
    NoRun = NoRun
    Handlers = {h1, h2}
    Tests = {t1}
    NoTest = NoTest
    Totals = {1}
    QueueCap = 2
    MaxCalls = 3
    Faults = {"late", "crash", "signal"}
SPECIFICATION FairSpec
INVARIANTS
    SlotNamesLiveRun
    SoloRunIsStoppable
    CancelOnlyOnRequest
    StopNeverOvertakesStart
    UncontestedTestsRunOnce
PROPERTIES
    RequestEnds
    QueuedStartIsExecuted
    QueuedStopEndsRun
\* MaxCalls bounds the requests, so the system comes to rest.
CHECK_DEADLOCK FALSE
