\* One loan, a venue that pays and losses recognised: the job that closes epochs.
SPECIFICATION RecognisedSpec
CONSTANTS
    p1 = p1
    p2 = p2
    p3 = p3
    m1 = m1
    c1 = c1
    c2 = c2
    h1 = h1
    h2 = h2
    v1 = v1
    NoVenue = NoVenue
    Plans = {p3}
    Merchants = {m1}
    Corridors = {c1}
    Terms <- MCTerms
    Bps = 4
    ReserveTargetBps = 0
    MinSubordinationBps = 1
    DelinquentProvisionBps = 3
    MaxEpoch = 3
    Holders = {}
    VirtualShares = 1
    Scale = 10
    SeniorApyBps = 1
    Year = 2
    LiquidityFeeThresholdBps = 1
    LiquidityFeeBps = 2
    BufferFloorBps = 1
    EpochLength = 1
    JuniorLockPeriod = 1
    VenueVirtualShares = 2
    Venues = {v1}
    PlanStates <- MCPlanStates
    LatePlans = {p3}
    Treasury = 3
    LenderFunds = 0
    SeedAmounts = {2}
    ReserveAmounts = {}
    YieldAmounts = {1}
    DepositAmounts = {}
    RedeemAmounts = {}
    BufferAmounts = {1}
    MarkLimits = {1}
    ClaimSteps = {}
    MaxTime = 3
    BatchSize = 2
    MaxFailures = 1
PROPERTIES
    EpochsCloseOnWhatThereIs
CHECK_DEADLOCK FALSE
