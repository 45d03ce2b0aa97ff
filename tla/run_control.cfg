SPECIFICATION FairSpec
CONSTANTS
    ExitOnMonitor = TRUE
    Budgets = {2, 3}
    Slice = 2
CHECK_DEADLOCK FALSE
INVARIANTS TypeOK OneOwner BudgetHeld FaultsSurface NoSessionInRun TickParts
PROPERTY RunEnds
