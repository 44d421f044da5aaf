\* Two sales that are repaid, refunded, disputed or lost.
SPECIFICATION Spec
CONSTANTS
    p1 = p1
    p2 = p2
    m1 = m1
    c1 = c1
    NoOne = NoOne
    Plans = {p1, p2}
    Merchants = {m1}
    Corridors = {c1}
    Terms <- MCTerms
    Bps = 4
    ReserveTargetBps = 0
    MinSubordinationBps = 0
    DelinquentProvisionBps = 0
    MaxEpoch = 1
    Domains = {"Arc"}
    Arc = "Arc"
    BondBps = 2
    BondFloor = 1
    VestingWindow = 1
    VestingBps = 2
    VelocityCap = 2
    VelocityWindow = 2
    ConcentrationBps = 4
    AttestationDeadline = 1
    ReleaseTimer = 1
    DisputeTimelock = 1
    Deniable = {}
    Moving = {p1}
    Contested = {p1}
    Verdicts = {TRUE}
    PlanStates = {"Pending", "Defaulted"}
    Reserve = 2
    Junior = 6
    BondAmounts = {2}
    RefundAmounts = {2}
    DisputeAmounts = {1}
    RebateAmounts = {1}
    MaxBond = 2
    MaxRebates = 1
    MaxTime = 2
INVARIANTS
    LedgersAgree
CHECK_DEADLOCK FALSE
