SPECIFICATION Spec
CONSTANTS
    u1 = u1
    u2 = u2
    u3 = u3
    alice = alice
    bob = bob
    Users = {u1, u2}
    Admin = u1
    Emails = {alice, bob}
    Codes = {alice, bob}
    NoPlan = NoPlan
    NoConfig = NoConfig
    NoAccess = NoAccess
    NoGuardians = NoGuardians
    NoAddress = NoAddress
    NoDispute = NoDispute
    BPS = 4
    CREATION_FEE_BP = 1
    EMERGENCY_TRANSFER_LIMIT_BP = 1
    MAX_BENEFICIARIES = 3
    MAX_GUARDIANS = 2
    MAX_EMERGENCY_CONTACTS = 1
    EMERGENCY_COOLDOWN_PERIOD = 1
    EMERGENCY_EXPIRATION_PERIOD = 1
    CLAIM_ATTEMPT_WINDOW_SECONDS = 2
    CLAIM_MAX_ATTEMPTS_PER_WINDOW = 2
    U64_MAX = 16
    MaxPlans = 1
    MaxDisputes = 0
    MaxTime = 1
    Owners = {u1}
    CreateAmounts = {10}
    Rosters <- OneRoster
    Waits = {0}
    CreateGuardians <- NoneAtCreation
    Lendable = {}
    DepositAmounts = {4}
    WithdrawAmounts = {3}
    NewHeirs <- Extra
    Removals = {1, 2}
    Allocations <- Reweigh
    Priorities = {1, 3}
    UpdateRosters <- TwoRosters
    EarnYields = {FALSE}
    NewOwners = {u1, u2}
    Switches = {"waterfall"}
    KycUsers = {u1}
    Sanctioned = {}
    RoleGrants = {}
    Pauses = {}
    TimeSteps = {}
    TriggerSetups = {}
    TriggerDates = {}
    InactivityPeriods = {}
    Oracles = {}
    GuardianSets = {}
    Signers = {}
    TrustedContacts = {}
    EmergencyContacts = {u2}
    Verdicts = {}
    Arbitrators = {}
    Claimers = {u1}
    ClaimEmails = {alice, bob}
    ClaimCodes = {alice, bob}
    BatchClaimers = {}
INVARIANTS
    PlanBooks
PROPERTIES
    OneClaimPerHeir
    WaterfallRespected
CHECK_DEADLOCK FALSE
