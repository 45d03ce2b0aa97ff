SPECIFICATION FairSpec
CONSTANTS
    Level <- OneTimer
    Counts = {0, 1, 2}
    Advances = {0, 1, 3, 5}
    FiredBound = 6
    Parts = 2
INVARIANTS TypeOK SignalKept
PROPERTIES AdvanceExact AdvanceReturns
