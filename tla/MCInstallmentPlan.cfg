SPECIFICATION Spec
CONSTANTS
    InstallmentCount = 2
    Principal = 3
    FirstDueDate = 1
    Interval = 2
    ScheduleJitter = 0
    LateFeeFlat = 2
    LateFeeCapBps = 10
    LateFeeCapAbsolute = 1
    ContractSigner = TRUE
    Bps = 10
    BountyStartBps = 2
    BountyEndBps = 7
    BountyFloor = 1
    BountyCap = 3
    MarkBounty = 1
    GraceWindow = 1
    ChargeOffAfter = 2
    AuthorizationWindow = 3
    RevalidationWindow = 3
    JitterHalfWidth = 1
    OriginatedAt = 1
    UnsignedChecks = {}
    Purses = {0, 3}
    RepayAmounts = {2}
    RefundAmounts = {1, 4}
    MayBlacklist = FALSE
    MaxTime = 4
    MaxOutages = 1
    MaxDonated = 1
INVARIANTS
    TypeOK
    ValueConserved
    EscrowIsTheOnlyFloat
    OneLateFee
    DebtIsSettledOnce
    BooksFitTheState
    RepayAndCollectCommute
PROPERTIES
    OutcomesAreFinal
    KeepsItsPromise
CHECK_DEADLOCK FALSE
