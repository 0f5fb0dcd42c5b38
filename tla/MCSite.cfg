CONSTANTS
    None = None
    Refused = Refused
    MinSamples = 2
    CostLines = {"amortization", "power", "licenses"}
    MinSavings = 100
    IdleCpu = 5
    IdleRam = 20
    TargetPct = 70
    ThinLimit = 150
    UnaccountedGib = 10
    UnaccountedPct = 10
    Sites <- MCSites
    Configs <- MCConfigs
    Guests <- MCGuests
    MaxMoves = 2
SPECIFICATION Spec
CHECK_DEADLOCK FALSE
INVARIANTS
    SpendIsTheSites
    OffersWithinTheirPart
    OneAdvicePerThing
    NothingLiveHandedBack
