SPECIFICATION Spec
CONSTANTS
    u1 = u1
    u2 = u2
    usd = usd
    eur = eur
    Users = {u1, u2}
    Tokens = {usd, eur}
    Assets = {usd, eur}
    PrimaryAsset = usd
    NftTokens = {}
    NoNft = NoNft
    NoLoan = NoLoan
    NoReserve = NoReserve
    NoModel = NoModel
    BPS = 10
    YEAR = 1
    DAY = 1
    PROTOCOL_INTEREST_BPS = 5
    BAD_DEBT_RESERVE_BPS = 5
    U64_MAX = 8
    MINIMUM_LIQUIDITY = 2
    BaseRateBps = 2
    MultiplierBps = 5
    UtilizationCapBps = 8
    DEFAULT_GRACE_PERIOD_SECONDS = 0
    DEFAULT_LATE_FEE_RATE_BPS = 2
    DefaultReserveFactorBps = 5
    DefaultFlashLoanFeeBps = 5
    MaxTime = 3
    MaxLoanId = 2
    MaxCustody = 30
    DepositAmounts = {5}
    WithdrawShares = {3}
    FlashAmounts = {3}
    FlashTips = {0}
    BucketAmounts = {}
    TimeSteps = {1}
    GracePeriods = {1}
    LateFeeRates = {4}
    ReserveFactors = {3}
    FlashFees = {4}
    RateModels <- OneModel
    FlashReceivers = {u1, u2}
    CollateralTokens = {eur}
    ReserveTokens = {}
    PoolPauses = {TRUE, FALSE}
    ContractPauses = {TRUE, FALSE}
    CollateralRatioBps = 15
    LIQUIDATION_THRESHOLD_BPS = 15
    LIQUIDATION_SEIZE_BPS = 15
    REFINANCING_FEE_BPS = 2
    U32_MAX = 31
    BorrowAmounts = {3}
    CollateralAmounts = {5}
    Durations = {1}
    LiquidateAmounts = {}
    RefinanceDurations = {1}
    ConsolidateDurations = {}
    SplitAmounts = {}
    MaxConsolidate = 0
    MaxSplit = 0
    WriteOffs = {}
    Accruals = {}
    MaxChangedSettings = 2
CONSTRAINT FewChangedSettings
SYMMETRY UserSymmetry
INVARIANTS
    ShareLedger
    SharesBacked
    BorrowedMatchesLoans
    Repayable
    Solvent
CHECK_DEADLOCK FALSE
