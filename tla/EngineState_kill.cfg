SPECIFICATION Spec
CONSTANTS
    Equity <- MCDailyLevels
    DailyLossPct = 5
    MaxDrawdownPct = 15
    Days = 2
    MaxRestarts = 2
    KillAllowed = TRUE
INVARIANTS
    MemoryPersisted
PROPERTIES
    BreachStops
