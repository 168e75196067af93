SPECIFICATION Spec
CONSTANTS
    u1 = u1
    u2 = u2
    u3 = u3
    alice = alice
    bob = bob
    Users = {u1, u2}
    Admin = u1
    Emails = {alice, bob}
    Codes = {alice, bob}
    NoPlan = NoPlan
    NoConfig = NoConfig
    NoAccess = NoAccess
    NoGuardians = NoGuardians
    NoAddress = NoAddress
    NoDispute = NoDispute
    BPS = 4
    CREATION_FEE_BP = 1
    EMERGENCY_TRANSFER_LIMIT_BP = 1
    MAX_BENEFICIARIES = 3
    MAX_GUARDIANS = 2
    MAX_EMERGENCY_CONTACTS = 1
    EMERGENCY_COOLDOWN_PERIOD = 1
    EMERGENCY_EXPIRATION_PERIOD = 1
    CLAIM_ATTEMPT_WINDOW_SECONDS = 2
    CLAIM_MAX_ATTEMPTS_PER_WINDOW = 2
    U64_MAX = 16
    MaxPlans = 1
    MaxDisputes = 0
    MaxTime = 1
    Owners = {u1}
    CreateAmounts = {10}
    Rosters <- OneRoster
    Waits = {0}
    CreateGuardians <- NoneAtCreation
    Lendable = {}
    DepositAmounts = {}
    WithdrawAmounts = {}
    NewHeirs = {}
    Removals = {}
    Allocations = {}
    Priorities = {}
    UpdateRosters = {}
    EarnYields = {FALSE}
    NewOwners = {}
    Switches = {}
    KycUsers = {u1}
    Sanctioned = {}
    RoleGrants = {}
    Pauses = {}
    TimeSteps = {}
    TriggerSetups = {}
    TriggerDates = {}
    InactivityPeriods = {}
    Oracles = {}
    GuardianSets = {}
    Signers = {}
    TrustedContacts = {}
    EmergencyContacts = {}
    Verdicts = {}
    Arbitrators = {}
    Claimers = {}
    ClaimEmails = {alice, bob}
    ClaimCodes = {alice, bob}
    BatchClaimers = {u1}
INVARIANTS
    VaultMatchesBooks
CHECK_DEADLOCK FALSE
