CONSTANTS
    FirstYear = 2027
    FirstWeekday = 4
    MonthCount = 18
    Starts <- MCStarts
    Stops <- MCStops
    BaselineDays = 28
    FirstSpend <- MCFirstSpend
    MaxLag = 2
    MaxStale = 1
    None = None
    Unknown = Unknown
    Blank = Blank
    TagKeys = {"team"}
    UnattributedPct = 20
    TransferPct = 15
    SpikePct = 50
    MinAmount = 20
    Alpha = 50
    WidePct = 25
    WarnPct = 80
    Budgets <- MCBudgets
    Sigma = 3
    MinPoints = 6
    MinTrend = 4
    ForecastDays = 14
    Rules <- MCRules
    FullAt <- MCFullAt
    Lines <- MCLines
    Spend <- MCSpend
    Databases <- MCDatabases
    Status <- MCStatus
    Free <- MCFree
    Credits <- MCCredits
    SampleHours = {0, 12}
    HistoryDays = 5
SPECIFICATION Spec
CHECK_DEADLOCK FALSE
INVARIANTS
    WindowIsRight
    BreachIsTold
    RegularMonthIsForeseen
    RangeHoldsTheForecast
    SpikeMeansJump
    ReportsAddUp
    TroubleIsAnnounced
