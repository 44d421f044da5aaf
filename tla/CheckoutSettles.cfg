\* Every contract a merchant meets, over two sales nobody repays yet.
SPECIFICATION FairSpec
CONSTANTS
    p1 = p1
    p2 = p2
    m1 = m1
    c1 = c1
    NoOne = NoOne
    Plans = {p1, p2}
    Merchants = {m1}
    Corridors = {c1}
    Terms <- MCTerms
    Bps = 4
    ReserveTargetBps = 0
    MinSubordinationBps = 0
    DelinquentProvisionBps = 0
    MaxEpoch = 1
    Domains = {"Arc", "Base"}
    Arc = "Arc"
    BondBps = 2
    BondFloor = 1
    VestingWindow = 2
    VestingBps = 2
    VelocityCap = 2
    VelocityWindow = 2
    ConcentrationBps = 4
    AttestationDeadline = 1
    ReleaseTimer = 1
    DisputeTimelock = 1
    Deniable = {"Base"}
    Moving = {}
    Contested = {p2}
    Verdicts = {TRUE, FALSE}
    PlanStates = {"Pending"}
    Reserve = 2
    Junior = 6
    BondAmounts = {2}
    RefundAmounts = {}
    DisputeAmounts = {1}
    RebateAmounts = {}
    MaxBond = 2
    MaxRebates = 0
    MaxTime = 3
INVARIANTS
    WithheldIsInTheBond
    VelocityIsBounded
PROPERTIES
    OnlyASlashUncoversABond
    SettlementsDoNotStrand
CHECK_DEADLOCK FALSE
