SPECIFICATION OperatorSpec
CONSTANTS
    Services <- MCServices
    Out = Out
    BPS = 4
    JITTER_HALF_WIDTH = 2
    AUTHORIZATION_WINDOW = 4
    GRACE_WINDOW = 2
    BOUNTY_START_BPS = 1
    BOUNTY_END_BPS = 2
    BOUNTY_FLOOR = 1
    BOUNTY_CAP = 2
    MARK_BOUNTY = 1
    ORIGINATION_DEFAULTS <- MCDefaults
    NEGATIVE_MARK_TTL = 3
    BandEdges <- MCBandEdges
    IdNumber <- MCIdNumber
    SessionIds = {"s1"}
    Merchants = {"m1", "m2"}
    ExternalIds = {"x"}
    Requests = {"r1", "r2"}
    Carts = {3}
    Limits = {2}
    Counts = {2}
    DEFAULT_SESSION_TTL = 0
    Durable = TRUE
    Elsewhere = Elsewhere
    Acceptance = Acceptance
    Forged = Forged
    NotIntegers = {NaN}
    ForgedAt = {0}
    SessionTime = 1
    a1 = a1
    Accounts = {a1}
    KeyIds = {k1, k2}
    Calls = {c1, c2}
    Overlaps = {0, 1}
    DEFAULT_OVERLAP_DAYS = 1
    MAX_OVERLAP_DAYS = 1
    RATE_LIMIT = 1
    RATE_WINDOW = 1
    Environment = "sandbox"
    None = None
    KeyTime = 1
    HookMerchants = {h1, h2}
    Endpoints = {e1, e2}
    Events = {x}
    Senders = {w1, w2}
    Hosts <- MCHosts
    REPLAY_WINDOW_SECONDS = 300
    DISABLE_AFTER = 3
    MAX_ATTEMPTS = 7
    Delays = {0, 301}
    FailureAges = {3}
    Unset = Unset
    MessageBound = 2
    SecretBound = 2
    AskBound = 2
    DueAt <- MCDueAt
    Due <- MCDue
    Horizon = 2
    LEAD_TIMES = {1}
    Contacts = {b1, b2}
    Dispatchers = {d1, d2}
    DurableLog = TRUE
    NoticeTime = 2
    RecordBound = 3
    SendBound = 2
    Operators = {"o1", "o2"}
    Roles <- MCRoles
    Commands = {q1, q2}
    DurableAudit = TRUE
    EntryBound = 3
    Rates = {8, 10}
    One = 10
    FX_BPS = 20
    PAR_BAND = 2
    ROUNDTRIP = 2
    MAX_AGE = 1
    MAX_DEVIATION = 2
    OUTAGE_FAILURES = 2
    TtlCaps = {1, 2}
    Ttls = {2}
    VenueFailures = {"http4xx"}
    TradeReads = {"breached"}
    Sessions = {s1}
    AmountIn = 10
    PollWindows = {1, 2}
    FxTime = 1
    FxMoves = 1
    Screened = {"ann", "bo", "cy"}
    FeedOrder <- MCFeedOrder
    REFRESH_AFTER = 5
    SCREEN_FRESHNESS = 7
    BATCH_SIZE = 2
    ScreenDays = 8
    FeedMoves = 1
    LivePlans <- MCLivePlans
    PlansOf <- MCPlansOf
    BatchSizes = {1, 2}
    Floors = {0, 1}
    GateTime = 3
    GateMoves = 1
    Payers = {"ann", "bo"}
    ProtocolAddresses = {"plan"}
    Months = {1, 2}
    Values = {2, 5}
    Written = {5}
    UW_BPS = 10
    incomeMultipleBps = 5
    pseudonymousCap = 1
    payrollBonusBps = 5
    minMonths = 2
    minCounterparties = 2
    dispersionCeilingBps = 3
    Caps = {2, 4}
    PaymentBound = 3
    FigureBound = 7
    SCALE = 3
    RADIX = 2
    DECIMALS = 2
    RATE_DECIMALS = 2
    CHAIN_ID = 1
    Frames = {f1, f2}
    Signatures = 4
    Ancestors <- MCAncestors
    MerchantOrigin = "shop"
    CheckoutOrigin = "checkout"
    OtherOrigin = "other"
    ReloadBound = 1
    StrayBound = 1
    PostBound = 1
    Renders = {1, 2, 3}
    Wallets = {"w1", "w2"}
    Figures = {0, 3}
INVARIANTS
    SessionsHold
    KeysHold
    HooksHold
    NoticesHold
    AuditHolds
    CorridorHolds
    ScreeningHolds
    RelayerHolds
    LimitsHold
    PagesHold
CHECK_DEADLOCK FALSE
