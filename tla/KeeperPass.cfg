\* One plan, one keeper, and the rivals the chain lets in between.
SPECIFICATION KeeperSpec
CONSTANTS
    CrankCost = 0
    MaxRivalMoves = 1
    InstallmentCount = 2
    Principal = 3
    FirstDueDate = 1
    Interval = 2
    ScheduleJitter <- MCJitter
    LateFeeFlat = 2
    LateFeeCapBps = 10
    LateFeeCapAbsolute = 1
    ContractSigner = FALSE
    Bps = 10
    BountyStartBps = 2
    BountyEndBps = 10
    BountyFloor = 1
    BountyCap = 2
    MarkBounty = 1
    GraceWindow = 1
    ChargeOffAfter = 2
    AuthorizationWindow = 3
    RevalidationWindow = 9
    JitterHalfWidth = 1
    OriginatedAt = 1
    UnsignedChecks = {}
    Purses = {0, 2}
    RepayAmounts = {2}
    RefundAmounts = {}
    MayBlacklist = TRUE
    MaxTime = 5
    MaxOutages = 1
    MaxDonated = 0
PROPERTIES
    OneKeeperIsEnough
    PaidWhatItReckoned
CHECK_DEADLOCK FALSE
