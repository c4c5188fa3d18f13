CONSTANTS
    Agents = {a1}
    Runs = {r1}
    NoRun = NoRun
    Handlers = {h1, h2}
    Tests = {t1}
    NoTest = NoTest
    Totals = {1}
    QueueCap = 2
    MaxCalls = 2
    Faults = {}
SPECIFICATION FairSpec
PROPERTY StopTakesEffect
CHECK_DEADLOCK FALSE
