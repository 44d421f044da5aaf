\* Two loans, no lenders: the loan side of the book.
SPECIFICATION Spec
CONSTANTS
    p1 = p1
    p2 = p2
    p3 = p3
    m1 = m1
    c1 = c1
    c2 = c2
    h1 = h1
    h2 = h2
    v1 = v1
    NoVenue = NoVenue
    Plans = {p1, p2}
    Merchants = {m1}
    Corridors = {c1, c2}
    Terms <- MCTerms
    Bps = 4
    ReserveTargetBps = 1
    MinSubordinationBps = 1
    DelinquentProvisionBps = 3
    MaxEpoch = 2
    Holders = {}
    VirtualShares = 4
    Scale = 100
    SeniorApyBps = 0
    Year = 2
    LiquidityFeeThresholdBps = 1
    LiquidityFeeBps = 1
    BufferFloorBps = 1
    EpochLength = 1
    JuniorLockPeriod = 1
    VenueVirtualShares = 2
    Venues = {}
    PlanStates <- MCPlanStates
    LatePlans = {p1}
    Treasury = 8
    LenderFunds = 0
    SeedAmounts = {2}
    ReserveAmounts = {4}
    YieldAmounts = {}
    DepositAmounts = {}
    RedeemAmounts = {}
    BufferAmounts = {}
    MarkLimits = {1}
    ClaimSteps = {}
    MaxTime = 2
INVARIANTS
    TheBookIsExact
    MarkPhaseCompletes
    RecognitionIsExact
CHECK_DEADLOCK FALSE
