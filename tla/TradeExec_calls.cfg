\* The retry queue around every kind of call, and the registries.
SPECIFICATION ExecutionSpec
CONSTANTS
    Parts = {"queue", "registry"}
    MaxOpens = 2
    Slots = 2
    PerPass = 1
    DropPumps = 2
    ModifyPumps = 2
    BarePumps = 2
    ClosePumps = 3
    Desired <- MCKnownOrNot
    Trails = TRUE
    Calls <- MCAll
    MaxCalls = 2
    MaxItems = 1
    MaxAttempts = 2
    PassItems = 1
    ExpireBars = 1
    TimedOut = {"executed", "lost"}
    MaxRestarts = 0
    StrategyIds = {"x", "y"}
    Span = 2
    SlotOf <- MCSameSlot
    FlushTicks = 2
    MaxEntries = 2
    MaxStarts = 3
INVARIANTS
    NoDuplicateFill
    DoneIsFilled
    Attribution
PROPERTIES
    RetriesEnd
    SavedFlagHolds
