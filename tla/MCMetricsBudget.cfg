CONSTANTS
    Count = 4
    RegionCount = 2
    Queries <- MCQueries
    Budgeted = {2, 3, 4}
    Services = {2, 3}
    Memoised = {1, 2}
    MaxPerCycle = 5
    ChunkSize = 2
    Unswept = Unswept
SPECIFICATION BudgetSpec
INVARIANTS
    CeilingKept
    DroppedOnlyAtTheCeiling
