SPECIFICATION Spec
CONSTANTS
    Workers = {"w1"}
    Strats = {"s"}
    Contents = {"c1", "c2"}
    Tags = {"", "t"}
    Screened <- SomeScreened
    Survives <- SomeSurvivors
    Selected <- SomeSelected
    OldLooks <- SomeOldLooks
    MaxJobs = 3
    MaxVersion = 2
    FrameSizes = {8, 9, 12}
    Splits = {4, 6}
    Embargoes = {0, 1, 2}
    Warmups = {0, 2}
    Purges = {0, 1}
    LastBar = 8
    DayOf <- EightBars
    Offers <- SomeOffers
    MinHistories = {2, 3}
    EveryDays = {1, 2}
    Replays = {1, 2, 3}
    VolWindow = 2
    ClosedAt <- FourCloses
    RecentN = 1
    BaselineN = 2
    FoldCounts = {2, 3}
    EmbargoBars = 1
    MinTrain = 2
    MinTest = 1
    Regimes <- TwoRegimes
    Ladder <- TwoModels
    Offered = {"ema", "dsl"}
    EaStrategies = {"ema"}
    Outcomes <- SomeOutcomes
    MinTrades = 20
    SpreadFloor = 1
    VolumeMin = 8
    VolumeMax = 64
    VolumeStep = 8
    VolumeLimit = 0
    StopsLevel = 3
    TickLoss = 1
    TickProfit = 1
    KellyHardCap = 25
    Orders <- SomeOrders
    LineSets <- OneOrTwo
    Configs <- SomeConfigs
    MarketBars <- SomeBars
    FirstClose <- StartAt
    Capital = 10000
    LastStep = 3
    Walks <- SomeWalks
    SegmentMin = 4
    SelectionMin = 2
    Grids <- SomeGrids
    DataNames = {"n"}
    Downloads <- SomeDownloads
    MaxDeaths = 2
    SlAtr = 1
    TpAtr = 2
INVARIANTS LookIsEarned SelectionIsHonest NothingLooksAhead CertificateIsEarned NeverOverRisks
    FastMirrorsTruth AccountsBalance LineageHolds
PROPERTIES RecordedLookIsFinal
CHECK_DEADLOCK FALSE
