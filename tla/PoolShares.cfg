\* Two lenders and one loan: the lender side, at prices that move.
SPECIFICATION Spec
CONSTANTS
    p1 = p1
    p2 = p2
    p3 = p3
    m1 = m1
    c1 = c1
    c2 = c2
    h1 = h1
    h2 = h2
    v1 = v1
    NoVenue = NoVenue
    Plans = {p3}
    Merchants = {m1}
    Corridors = {c1}
    Terms <- MCTerms
    Bps = 4
    ReserveTargetBps = 0
    MinSubordinationBps = 2
    DelinquentProvisionBps = 3
    MaxEpoch = 3
    Holders = {h1, h2}
    VirtualShares = 1
    Scale = 10
    SeniorApyBps = 1
    Year = 2
    LiquidityFeeThresholdBps = 1
    LiquidityFeeBps = 2
    BufferFloorBps = 1
    EpochLength = 1
    JuniorLockPeriod = 1
    VenueVirtualShares = 2
    Venues = {}
    PlanStates <- MCPlanStates
    LatePlans = {}
    Treasury = 2
    LenderFunds = 2
    SeedAmounts = {1}
    ReserveAmounts = {1}
    YieldAmounts = {}
    DepositAmounts = {2}
    RedeemAmounts = {2}
    BufferAmounts = {}
    MarkLimits = {1}
    ClaimSteps = {1}
    MaxTime = 4
SYMMETRY LenderSymmetry
INVARIANTS
    LendersAreCovered
PROPERTIES
    ClosesAreFair
CHECK_DEADLOCK FALSE
