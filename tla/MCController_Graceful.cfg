CONSTANTS
    Agents = {a1}
    MaxReports = 1
    MaxHttp = 1
SPECIFICATION Spec
INVARIANT RequestsSurviveShutdown
CHECK_DEADLOCK FALSE
