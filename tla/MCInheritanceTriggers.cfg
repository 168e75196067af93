SPECIFICATION Spec
CONSTANTS
    u1 = u1
    u2 = u2
    u3 = u3
    alice = alice
    bob = bob
    Users = {u1, u2, u3}
    Admin = u1
    Emails = {alice, bob}
    Codes = {alice, bob}
    NoPlan = NoPlan
    NoConfig = NoConfig
    NoAccess = NoAccess
    NoGuardians = NoGuardians
    NoAddress = NoAddress
    NoDispute = NoDispute
    BPS = 4
    CREATION_FEE_BP = 1
    EMERGENCY_TRANSFER_LIMIT_BP = 1
    MAX_BENEFICIARIES = 3
    MAX_GUARDIANS = 2
    MAX_EMERGENCY_CONTACTS = 1
    EMERGENCY_COOLDOWN_PERIOD = 1
    EMERGENCY_EXPIRATION_PERIOD = 1
    CLAIM_ATTEMPT_WINDOW_SECONDS = 2
    CLAIM_MAX_ATTEMPTS_PER_WINDOW = 2
    U64_MAX = 16
    MaxPlans = 1
    MaxDisputes = 0
    MaxTime = 3
    Owners = {u1}
    CreateAmounts = {10}
    Rosters <- OneRoster
    Waits = {2}
    CreateGuardians <- BothAtCreation
    Lendable = {}
    DepositAmounts = {}
    WithdrawAmounts = {3}
    NewHeirs = {}
    Removals = {}
    Allocations = {}
    Priorities = {}
    UpdateRosters = {}
    EarnYields = {FALSE}
    NewOwners = {u2}
    Switches = {"trigger", "freeze_loans", "revoke_access"}
    KycUsers = {u1}
    Sanctioned = {}
    RoleGrants = {}
    Pauses = {}
    TimeSteps = {1}
    TriggerSetups <- DateSetup
    TriggerDates = {}
    InactivityPeriods = {}
    Oracles = {u3}
    GuardianSets <- OneGuardianSet
    Signers <- Quorums
    TrustedContacts = {u2}
    EmergencyContacts = {}
    Verdicts = {}
    Arbitrators = {}
    Claimers = {u1}
    ClaimEmails = {alice}
    ClaimCodes = {alice}
    BatchClaimers = {}
INVARIANTS
    EarlyClaimNeedsTrigger
PROPERTIES
    EmergencyDrainLimited
CHECK_DEADLOCK FALSE
