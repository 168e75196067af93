SPECIFICATION Spec
CONSTANTS
    u1 = u1
    usd = usd
    col = col
    n1 = n1
    Users = {u1}
    Tokens = {usd, col}
    Assets = {usd}
    PrimaryAsset = usd
    NftTokens = {n1}
    NoNft = NoNft
    NoLoan = NoLoan
    NoReserve = NoReserve
    NoModel = NoModel
    BPS = 10
    YEAR = 1
    DAY = 1
    PROTOCOL_INTEREST_BPS = 5
    BAD_DEBT_RESERVE_BPS = 5
    U64_MAX = 14
    MINIMUM_LIQUIDITY = 2
    BaseRateBps = 2
    MultiplierBps = 5
    UtilizationCapBps = 9
    DEFAULT_GRACE_PERIOD_SECONDS = 0
    DEFAULT_LATE_FEE_RATE_BPS = 3
    DefaultReserveFactorBps = 5
    DefaultFlashLoanFeeBps = 5
    MaxTime = 3
    MaxLoanId = 3
    MaxCustody = 30
    DepositAmounts = {8}
    WithdrawShares = {2}
    FlashAmounts = {2}
    FlashTips = {0}
    BucketAmounts = {}
    TimeSteps = {1}
    GracePeriods = {}
    LateFeeRates = {}
    ReserveFactors = {}
    FlashFees = {}
    RateModels = {}
    FlashReceivers = {}
    CollateralTokens = {col}
    ReserveTokens = {}
    PoolPauses = {}
    ContractPauses = {}
    CollateralRatioBps = 10
    LIQUIDATION_THRESHOLD_BPS = 15
    LIQUIDATION_SEIZE_BPS = 15
    REFINANCING_FEE_BPS = 2
    U32_MAX = 31
    BorrowAmounts = {4}
    CollateralAmounts = {6}
    Durations = {1}
    LiquidateAmounts = {2}
    RefinanceDurations = {1}
    ConsolidateDurations = {1}
    SplitAmounts = {0, 2, 3, 4}
    MaxConsolidate = 2
    MaxSplit = 2
    WriteOffs = {u1}
    Accruals = {1}
    MaxChangedSettings = 11
INVARIANTS
    LoanBookConsistent
    LendingWithinDeposits
PROPERTIES
    SharePriceNeverFalls
    BackingNeverEroded
CHECK_DEADLOCK FALSE
