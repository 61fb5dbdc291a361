SPECIFICATION FlowSpec
CONSTANTS
    Calls <- MCMarket
    MaxCalls = 2
    MaxItems = 2
    MaxAttempts = 2
    PassItems = 2
    ExpireBars = 1
    TimedOut = {"executed", "lost"}
    MaxRestarts = 1
    PendingMode = FALSE
    Cadence = 2
INVARIANTS
    SingleExposure
