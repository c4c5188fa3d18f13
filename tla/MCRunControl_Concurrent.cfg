CONSTANTS
    Agents = {a1, a2}
    Runs = {r1}
    NoRun = NoRun
    Handlers = {h1, h2}
    Tests = {t1}
    NoTest = NoTest
    Totals = {3}
    QueueCap = 1
    MaxCalls = 2
    Faults = {"db", "lost", "crash", "reuse", "restart", "remove", "delete"}
SPECIFICATION Spec
SYMMETRY Symmetry
INVARIANTS
    TypeOK
    LoadWithinRequest
    ExecutedRunsAreOnRecord
PROPERTIES
    DeliverySpec
    StopIsFinal
\* MaxCalls bounds the requests, so the system comes to rest.
CHECK_DEADLOCK FALSE
