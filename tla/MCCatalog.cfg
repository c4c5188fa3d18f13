CONSTANTS
    Tests = {t1, t2, t3}
    Agents = {a1, a2}
    ValidTexts = {"v1", "v2"}
    InvalidTexts = {"", "bad"}
    MaxPerPage = 2
    DefaultPerPage = 1
    Requested = {2, 3}
    MaxRuns = 1
SPECIFICATION Spec
SYMMETRY Symmetry
INVARIANTS
    OneVersionPerRun
    MissesAreExplained
\* The tests can all be deleted and the client be done.
CHECK_DEADLOCK FALSE
