CONSTANTS
    Totals = {0, 1, 2, 3, 4, 5, 6, 7, 8, 9, 10, 11, 12, 13}
    MaxAgents = 6
SPECIFICATION Spec
INVARIANTS
    NothingLost
    ReturnsAnAllocation
\* Allocate returns.
CHECK_DEADLOCK FALSE
