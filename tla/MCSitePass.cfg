CONSTANTS
    None = None
    Refused = Refused
    MinSamples = 2
    CostLines = {"amortization", "power"}
    MinSavings = 1
    IdleCpu = 5
    IdleRam = 20
    TargetPct = 70
    ThinLimit = 150
    UnaccountedGib = 1
    UnaccountedPct = 1
    MinGib = 1
    MinAge = 14
    Volumes <- MCVolumes
    Worlds <- MCWorlds
    NodeGib = 20
    SpareGib = 2
    JunkGib = 1
    Rate = 10
    PassTtl = 1
    WasteTtl = 2
    Slow = 1
    MaxTime = 6
    MaxMoves = 1
    MaxFailures = 1
SPECIFICATION Spec
CHECK_DEADLOCK FALSE
INVARIANTS
    GapIsRight
    SweepIsTheUnowned
    OfferedOnceInTheEnd
