\* The evidence chain: the gate's stages, package and verdict, comparison, demo run, safety legs.
CONSTANTS
    g1 = g1   g2 = g2
    Minutes = {1, 2}
    WindowEnd = 3
    Deposit = 6
    MaxOddities = 1
    MaxEdits = 1
    Edits = {"label", "basis", "volume"}
    FrozenColumns <- Columns
    Refusals <- GuardSets
    Golds = {g1, g2}
    BarLegs = {"m1_ohlc"}
    TesterTests = {"kill_switch"}
    DemoTests = {"restart"}
    Scopes <- SomeScopes
    NaChoices <- SomeNa
    Heads = {"descendant", "foreign"}
    MaxRuns = 2
    MaxTroubles = 1
    DemoRuns = {"restart", "netting", "hedging"}
    AccountFiles <- SomeAccounts
    LegTests = {"kill_switch", "risk_veto", "meta_reduce", "sl_verify", "lost_response",
                "restart", "netting", "hedging"}
    MaxLines = 5
    MaxBars = 6
    Pinned = {"fixture"}
    MaxTamper = 1
    Targets = {"ea", "script"}
    RunStart = 3
    DayBars <- Days
    DslBars = 2
    TesterLegs <- ThreeLegs
SPECIFICATION Spec
INVARIANT FailClosed
CHECK_DEADLOCK FALSE
