CONSTANTS
    None = None
    Refused = Refused
    MinSamples = 2
    CostLines = {"amortization", "power"}
    MinSavings = 100
    IdleCpu = 5
    IdleRam = 20
    TargetPct = 70
    ThinLimit = 150
    UnaccountedGib = 10
    UnaccountedPct = 10
    MinGib = 10
    MinAge = 7
    Ring = 3
    UsageSamples = 2
    PoolUnrequestedPct = 25
    OvercommitRatio = 125
    NameRank <- MCNameRank
    First <- MCFirst
    RunsOn <- MCRunsOn
    MaxMoves = 2
    MaxPasses = 3
SPECIFICATION Spec
CHECK_DEADLOCK FALSE
INVARIANTS
    SplitIsWhole
    NobodyElsesMoney
    NothingUnmeasuredShrunk
    DropsLeaveRoom
