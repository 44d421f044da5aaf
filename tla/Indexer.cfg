SPECIFICATION MCIndexerSpec
CONSTANTS
    Zero = Zero
    Thrown = Thrown
    ARC_DOMAIN = 26
    UNKNOWN_MERCHANT = Unknown
    PAYROLL_SWEEPER = Zero
    OPERATOR_ADDRESSES = {}
    TRACKED = {Holder}
    Month = 3
    NativePerMinor = 10
    ARC_NATIVE_TRANSFER_EMITTER = Native
    MaxBlocks = 6
    MaxLag = 0
    Plans = {PlanA, PlanB}
    Merchants = {Merchant}
    Tokens = {USDC, EURC}
    Domains = {26, 6}
    Withheld = {1}
    Router = Router
    Escrow = Escrow
    Checkout = Checkout
    Pool = PoolA
    Factory = Factory
    Registry = Registry
    Refunds = Refunds
    Attestor = Attestor
    PRINCIPAL = 4
    MDR = 1
    BurnsPerBlock = 2
    PageLimit = {}
    PollBound = 2
    Planes <- MCPlanes
    BlocksIn <- MCBlocksIn
    Subjects <- MCSubjects
    S1 = S1
    S2 = S2
    PoolA = PoolA
    PoolB = PoolB
    Holder = Holder
    Senior = 0
    PlanA = PlanA
    PlanB = PlanB
    Merchant = Merchant
    Guardian = Guardian
    Corridor = Corridor
    Vault = Vault
    Guard = Guard
    MaxAmount = 2
    Hex = {PoolA, PoolB, Holder, PlanA, PlanB, Merchant, Guardian, Corridor, Vault, Guard, S1, S2, Native, Zero, USDC, EURC, Router, Escrow, Checkout, Factory, Registry, Refunds, Attestor}
INVARIANTS
    PayoutsFollowTheMoney
    EarlierBurnsAreDone
    CapitalReadsTheBooks
    TheIndexKeepsUp
CHECK_DEADLOCK FALSE
