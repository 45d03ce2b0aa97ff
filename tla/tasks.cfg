SPECIFICATION FairSpec
CONSTANTS
    Version = {1}
    MaxCalls = 1
    MaxStarts = 2
INVARIANTS TypeOK
PROPERTIES TakesTurns TurnComesBack
