\* The stop-loss guard, and the retry queue under ambiguous and late answers.
SPECIFICATION ExecutionSpec
CONSTANTS
    Parts = {"guard", "queue"}
    MaxOpens = 2
    Slots = 2
    PerPass = 1
    DropPumps = 2
    ModifyPumps = 2
    BarePumps = 2
    ClosePumps = 3
    Desired <- MCKnownOrNot
    Trails = TRUE
    Calls <- MCAmbiguous
    MaxCalls = 2
    MaxItems = 2
    MaxAttempts = 2
    PassItems = 2
    ExpireBars = 1
    TimedOut = {"executed", "lost", "late"}
    MaxRestarts = 1
    StrategyIds = {"x", "y"}
    Span = 2
    SlotOf <- MCSameSlot
    FlushTicks = 2
    MaxEntries = 2
    MaxStarts = 3
INVARIANTS
    AttemptsBounded
PROPERTIES
    EscalationJustified
    SecuredOrHalted
