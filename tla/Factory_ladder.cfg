\* The factory's store under its clients: two requests or runs at a time.
CONSTANTS
    s1 = s1   s2 = s2   c1 = c1   c2 = c2   a = a z = z
    NoSpec = NoSpec
    Strategies = {s1}
    Clients = {c1, c2}
    Specs = {a, z}
    Grid = {a}
    MaxVersion = 2
    MaxAsks = 2
    MAX_RUNNING_CAMPAIGNS = 1
    MaxPosts = 2
    MaxCrashes = 1
    MetricInputs <- Inputs
SPECIFICATION Spec
CHECK_DEADLOCK FALSE
INVARIANTS
    LiveWasDecided
    LadderBacked
    CampaignsAreHonest
PROPERTIES
    RunReturns
