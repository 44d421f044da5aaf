\* One plan and the tables its logs fill.
SPECIFICATION IndexSpec
CONSTANTS
    InstallmentCount = 2
    Principal = 3
    FirstDueDate = 1
    Interval = 2
    ScheduleJitter = 0
    LateFeeFlat = 2
    LateFeeCapBps = 10
    LateFeeCapAbsolute = 1
    ContractSigner = FALSE
    Bps = 10
    BountyStartBps = 2
    BountyEndBps = 7
    BountyFloor = 1
    BountyCap = 3
    MarkBounty = 1
    GraceWindow = 1
    ChargeOffAfter = 1
    AuthorizationWindow = 2
    RevalidationWindow = 3
    JitterHalfWidth = 1
    OriginatedAt = 1
    UnsignedChecks = {}
    Purses = {0, 3}
    RepayAmounts = {2}
    RefundAmounts = {1}
    MayBlacklist = FALSE
    MaxTime = 4
    MaxOutages = 0
    MaxDonated = 0
    Hex = {PlanId, PlanAddress, Factory, K1, Zero}
    Zero = Zero
    Thrown = Thrown
    ARC_DOMAIN = 26
    UNKNOWN_MERCHANT = Unknown
    PAYROLL_SWEEPER = K1
    OPERATOR_ADDRESSES = {K1}
    TRACKED = {}
    Month = 3
    NativePerMinor = 10
    MaxBlocks = 4
    MaxLag = 0
    PlanId = PlanId
    PlanAddress = PlanAddress
    Factory = Factory
    Callers = {K1}
INVARIANTS
    TheIndexIsTheContract
    DebtIsNeverUnderstated
CHECK_DEADLOCK FALSE
