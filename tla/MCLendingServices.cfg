SPECIFICATION ServicesSpec
CONSTANTS
    u1 = u1
    u2 = u2
    usd = usd
    col = col
    Users = {u1, u2}
    Tokens = {usd, col}
    Assets = {usd}
    PrimaryAsset = usd
    NftTokens = {}
    NoNft = NoNft
    NoLoan = NoLoan
    NoReserve = NoReserve
    NoModel = NoModel
    BPS = 10
    YEAR = 1
    DAY = 1
    PROTOCOL_INTEREST_BPS = 5
    BAD_DEBT_RESERVE_BPS = 5
    U64_MAX = 8
    MINIMUM_LIQUIDITY = 2
    BaseRateBps = 2
    MultiplierBps = 5
    UtilizationCapBps = 8
    DEFAULT_GRACE_PERIOD_SECONDS = 0
    DEFAULT_LATE_FEE_RATE_BPS = 2
    DefaultReserveFactorBps = 5
    DefaultFlashLoanFeeBps = 5
    MaxTime = 3
    MaxLoanId = 1
    MaxCustody = 10
    DepositAmounts = {6}
    WithdrawShares = {3}
    FlashAmounts = {}
    FlashTips = {0}
    BucketAmounts = {5}
    TimeSteps = {1}
    GracePeriods = {}
    LateFeeRates = {}
    ReserveFactors = {}
    FlashFees = {}
    RateModels = {}
    FlashReceivers = {}
    CollateralTokens = {col}
    ReserveTokens = {col}
    PoolPauses = {}
    ContractPauses = {}
    CollateralRatioBps = 15
    LIQUIDATION_THRESHOLD_BPS = 15
    LIQUIDATION_SEIZE_BPS = 15
    REFINANCING_FEE_BPS = 2
    U32_MAX = 31
    BorrowAmounts = {3}
    CollateralAmounts = {5}
    Durations = {1}
    LiquidateAmounts = {}
    RefinanceDurations = {}
    ConsolidateDurations = {}
    SplitAmounts = {}
    MaxConsolidate = 0
    MaxSplit = 0
    WriteOffs = {}
    Accruals = {}
    NoPosition = NoPosition
    MAX_YIELD_BOOST_BPS = 3
    p1 = p1
    p2 = p2
    Plans = {p1, p2}
    MAX_PLAN_YIELD_POSITIONS = 1
    Principals = {5}
    Boosts = {3}
    DEFAULT_REWARD_RATE = 2
    REWARD_PRECISION = 2
    MaxStaked = 6
    StakeAmounts = {3}
    RewardRates = {1}
    NoPolicy = NoPolicy
    DEFAULT_INSURANCE_PREMIUM_RATE_BPS = 7
    PremiumRates = {0}
    FundAmounts = {3}
    MaxServices = 1
SYMMETRY UserSymmetry
CONSTRAINT FewServices
INVARIANTS
    ServiceBooks
PROPERTIES
    ClaimSettles
    ElapsedTimeIsSettled
    ServicesKeepBacking
CHECK_DEADLOCK FALSE
