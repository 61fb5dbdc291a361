SPECIFICATION FlowFairSpec
CONSTANTS
    Calls <- MCPending
    MaxCalls = 2
    MaxItems = 1
    MaxAttempts = 2
    PassItems = 1
    ExpireBars = 1
    TimedOut = {"lost"}
    MaxRestarts = 0
    PendingMode = TRUE
    Cadence = 2
INVARIANTS
    TrackedExposure
PROPERTIES
    HaltGoesFlat
