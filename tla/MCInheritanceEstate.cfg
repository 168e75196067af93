SPECIFICATION EstateSpec
CONSTANTS
    u1 = u1
    u2 = u2
    alice = alice
    bob = bob
    Users = {u1, u2}
    Admin = u1
    Emails = {alice, bob}
    Codes = {alice, bob}
    NoPlan = NoPlan
    NoConfig = NoConfig
    NoAccess = NoAccess
    NoGuardians = NoGuardians
    NoAddress = NoAddress
    NoDispute = NoDispute
    BPS = 4
    CREATION_FEE_BP = 0
    EMERGENCY_TRANSFER_LIMIT_BP = 1
    MAX_BENEFICIARIES = 3
    MAX_GUARDIANS = 2
    MAX_EMERGENCY_CONTACTS = 1
    EMERGENCY_COOLDOWN_PERIOD = 1
    EMERGENCY_EXPIRATION_PERIOD = 1
    CLAIM_ATTEMPT_WINDOW_SECONDS = 2
    CLAIM_MAX_ATTEMPTS_PER_WINDOW = 1
    U64_MAX = 5
    MaxPlans = 1
    MaxDisputes = 0
    MaxTime = 3
    Owners = {u1}
    CreateAmounts = {4}
    Rosters <- Even
    Waits = {0}
    CreateGuardians <- NoneAtCreation
    Lendable = {}
    DepositAmounts = {}
    WithdrawAmounts = {2}
    NewHeirs = {}
    Removals = {}
    Allocations = {}
    Priorities = {}
    UpdateRosters <- Even
    EarnYields = {TRUE}
    NewOwners = {u2}
    Switches = {"trigger"}
    KycUsers = {u1}
    Sanctioned = {}
    RoleGrants = {}
    Pauses = {}
    TimeSteps = {1}
    TriggerSetups = {}
    TriggerDates = {}
    InactivityPeriods = {}
    Oracles = {}
    GuardianSets = {}
    Signers = {}
    TrustedContacts = {}
    EmergencyContacts = {}
    Verdicts = {}
    Arbitrators = {}
    Claimers = {}
    ClaimEmails = {alice}
    ClaimCodes = {alice, bob}
    BatchClaimers = {u1}
    NoPosition = NoPosition
    NoYield = NoYield
    YEAR = 1
    MAX_YIELD_BOOST_BPS = 1
    l1 = l1
    l2 = l2
    Pools = {l1, l2}
    usd = usd
    YieldAssets = {usd}
    MAX_YIELD_RELAYERS = 1
    MAX_PERFORMANCE_FEE_BPS = 2
    SupplyRates = {1}
    Relayers = {u2}
    YieldConfigs <- Policies
    LenderPrincipals = {3}
    LenderBoostBps = {1}
    NoWill = NoWill
    h1 = h1
    h2 = h2
    WillHashes = {h1, h2}
    s1 = s1
    s2 = s2
    Signatures = {s1, s2}
    MaxVersions = 2
    Witnesses = {u2}
    Expiries = {2}
    WillRosters <- WillLines
    NoMessage = NoMessage
    c1 = c1
    Contents = {c1}
    KnownAs <- AliceIsSecond
    MaxMessages = 2
    MaxKeys = 1
    UnlockTimes = {2, 3}
    NoticeIndices = {1}
    Requirements = {TRUE, FALSE}
    MaxDesks = 1
SYMMETRY PoolSymmetry
CONSTRAINT FewDesks
INVARIANTS
    EstateTypeOK
    CreditsAreBacked
    VaultWillIsActiveVersion
    MessagesKept
PROPERTIES
    NoYieldGoesMissing
    FinalizedWillStands
CHECK_DEADLOCK FALSE
