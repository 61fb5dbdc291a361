SPECIFICATION Spec
CONSTANTS
    MetaIds = {1, 2, 3}
    ONE = 100
    Views <- SomeViews
    CorrViews <- SomeCorr
    MetaConfigs <- SomeConfigs
    SymbolOf <- OnSymbols
    Redistributions = 12
    MaxDecisions = 2
    MaxRestores = 1
    LastDay = 1
    MaxAge = 0
    BaseGate = 100
    TradedId = 1
    GovIds = {"s1", "s2"}
    Candidates <- SomeCandidates
    TripSets <- SomeTrips
    GrossTarget = 50
    MaxDelta = 20
    MaxJump = 50
    MaxDrop = 2
    MaxCandidates = 3
    Cooldown = 2
    RiskBudget = 10
    MaxRebalances = 3
    MaxSignals = 2
    Words = {"stop", "status", "x"}
    MaxUpdates = 2
    LastTick = 2
    AlertKinds <- TwoAlerts
    RateLimit = 2
    Kinds <- ThreeKinds
    Grid <- SmallGrid
    Symbols <- ThreeSymbols
    MaxFactors = 3
    Budget <- SmallBudget
    Policies = {"p1", "p2"}
    Datasets = {"", "d1"}
    MaxRuns = 3
    Entries <- FourEntries
    Corr <- FourCorr
    Limits <- SomeLimits
    MinScore = 40
    MaxPositions = 3
    Targets = {15, 20}
    Measurements <- SomeMeasurements
    Places <- ThreePlaces
    Uncleanable = {"installation"}
    MaxLaunches = 2
INVARIANT FreshIsApplied
CHECK_DEADLOCK FALSE
