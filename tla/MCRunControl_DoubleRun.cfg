CONSTANTS
    Agents = {a1}
    Runs = {r1, r2}
    NoRun = NoRun
    Handlers = {h1, h2}
    Tests = {t1}
    NoTest = NoTest
    Totals = {1}
    QueueCap = 2
    MaxCalls = 2
    Faults = {}
SPECIFICATION Spec
INVARIANT OneActiveRunPerTest
CHECK_DEADLOCK FALSE
