SPECIFICATION CacheSpec
CONSTANTS
    low = low
    shared = shared
    high = high
    entry = entry
    routine = routine
    Cells <- MCCells
    Low <- MCLow
    Contents = {"old", "new"}
    Blocks = {entry, routine}
    Covers <- MCCovers
INVARIANT Coherent
