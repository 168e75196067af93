SPECIFICATION Spec
CONSTANTS
    u1 = u1
    u2 = u2
    u3 = u3
    alice = alice
    bob = bob
    Users = {u1, u2}
    Admin = u1
    Emails = {alice, bob}
    Codes = {alice, bob}
    NoPlan = NoPlan
    NoConfig = NoConfig
    NoAccess = NoAccess
    NoGuardians = NoGuardians
    NoAddress = NoAddress
    NoDispute = NoDispute
    BPS = 4
    CREATION_FEE_BP = 1
    EMERGENCY_TRANSFER_LIMIT_BP = 1
    MAX_BENEFICIARIES = 3
    MAX_GUARDIANS = 2
    MAX_EMERGENCY_CONTACTS = 1
    EMERGENCY_COOLDOWN_PERIOD = 1
    EMERGENCY_EXPIRATION_PERIOD = 1
    CLAIM_ATTEMPT_WINDOW_SECONDS = 2
    CLAIM_MAX_ATTEMPTS_PER_WINDOW = 2
    U64_MAX = 16
    MaxPlans = 2
    MaxDisputes = 2
    MaxTime = 2
    Owners = {u1}
    CreateAmounts = {4}
    Rosters <- OneRoster
    Waits = {0}
    CreateGuardians <- NoneAtCreation
    Lendable = {TRUE, FALSE}
    DepositAmounts = {}
    WithdrawAmounts = {4}
    NewHeirs = {}
    Removals = {}
    Allocations = {}
    Priorities = {}
    UpdateRosters = {}
    EarnYields = {FALSE}
    NewOwners = {u2}
    Switches = {"activity", "dispute", "unfreeze", "trigger", "deactivate"}
    KycUsers = {u1, u2}
    Sanctioned = {u2}
    RoleGrants <- AdminRole
    Pauses = {TRUE, FALSE}
    TimeSteps = {1}
    TriggerSetups = {}
    TriggerDates = {2}
    InactivityPeriods = {1}
    Oracles = {}
    GuardianSets = {}
    Signers = {}
    TrustedContacts = {}
    EmergencyContacts = {}
    Verdicts = {"UnderReview", "Resolved", "Rejected"}
    Arbitrators = {u2}
    Claimers = {u2}
    ClaimEmails = {bob}
    ClaimCodes = {bob}
    BatchClaimers = {u2}
CONSTRAINT OneBusiness
INVARIANTS
    VaultCoversBooks
PROPERTIES
    FrozenPlanKeepsFunds
    FateIsSealed
    ClaimantsAreVetted
CHECK_DEADLOCK FALSE
