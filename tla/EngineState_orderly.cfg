SPECIFICATION FairSpec
CONSTANTS
    Equity <- MCEquity
    DailyLossPct = 5
    MaxDrawdownPct = 15
    Days = 2
    MaxRestarts = 3
    KillAllowed = FALSE
PROPERTIES
    HaltIsSticky
    ImplementsFailSafe
    DailyPauseEnds
