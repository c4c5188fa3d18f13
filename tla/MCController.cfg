CONSTANTS
    Agents = {a1, a2}
    MaxReports = 3
    MaxHttp = 1
SPECIFICATION FairSpec
INVARIANTS
    TotalsWereShown
    ReportsSurviveShutdown
    PoolClosedLast
PROPERTIES
    SignalEndsProcess
\* The process ends.
CHECK_DEADLOCK FALSE
