SPECIFICATION TimedSpec
CONSTANTS
    InstallmentCount = 2
    Principal = 3
    FirstDueDate = 1
    Interval = 2
    ScheduleJitter <- MCJitter
    LateFeeFlat = 2
    LateFeeCapBps = 10
    LateFeeCapAbsolute = 1
    ContractSigner = FALSE
    Bps = 10
    BountyStartBps = 2
    BountyEndBps = 7
    BountyFloor = 1
    BountyCap = 1
    MarkBounty = 1
    GraceWindow = 1
    ChargeOffAfter = 1
    AuthorizationWindow = 2
    RevalidationWindow = 9
    JitterHalfWidth = 1
    OriginatedAt = 1
    UnsignedChecks = {}
    Purses = {0, 2}
    RepayAmounts = {2}
    RefundAmounts = {}
    MayBlacklist = TRUE
    MaxTime = 4
    MaxOutages = 1
    MaxDonated = 0
PROPERTIES
    EveryCheckIsAccountedFor
    PayingAlwaysConverges
CHECK_DEADLOCK FALSE
