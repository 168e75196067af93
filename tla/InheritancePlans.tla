-------------------------- MODULE InheritancePlans --------------------------
(***************************************************************************)
(* Storage of the inheritance contract                                     *)
(* (contracts/inheritance-contract/src/lib.rs), the accounts it knows, and *)
(* what a plan's owner may do: create and fund a plan, edit its heirs,     *)
(* withdraw, hand it over, deactivate it.  InheritanceTriggers adds the    *)
(* ways a plan is triggered or frozen and InheritanceClaims the payouts.   *)
(*                                                                         *)
(* Every entry point is one action: an invocation is atomic, and one that  *)
(* returns an error or traps leaves no trace.  A batch call is as many     *)
(* consecutive steps as it has entries: the checks it makes once are not   *)
(* changed by its own entries.                                             *)
(*                                                                         *)
(* A claim code is hashed with a random salt kept under the heir's index   *)
(* (Cs).  Heirs are created at the end of the list and removal only moves  *)
(* the last one down, so the salt under index i is that of the heir at i   *)
(* exactly when that heir was created there: salt_index says where.        *)
(*                                                                         *)
(* Not in the state: wallets, which hold what the caller brings;           *)
(* total_loaned, which starts at 0 and no entry point raises, and with it  *)
(* recall_loan and liquidation_fallback, which refuse a plan without       *)
(* loans; the keys Lh, Fb and Ves, which nothing writes; and names, the    *)
(* grace period and the timestamps that no condition reads.                *)
(***************************************************************************)
EXTENDS Integers, Sequences, FiniteSets, Functions

CONSTANTS
    Users, Admin,               \* addresses, and the initialized admin
    Emails, Codes,              \* who an heir is, and the claim code it knows
    NoPlan, NoConfig, NoAccess, NoGuardians, NoAddress, NoDispute,
    BPS,                        \* 10_000
    CREATION_FEE_BP, EMERGENCY_TRANSFER_LIMIT_BP,
    MAX_BENEFICIARIES, MAX_GUARDIANS, MAX_EMERGENCY_CONTACTS,
    EMERGENCY_COOLDOWN_PERIOD, EMERGENCY_EXPIRATION_PERIOD,
    CLAIM_ATTEMPT_WINDOW_SECONDS, CLAIM_MAX_ATTEMPTS_PER_WINDOW,
    U64_MAX,                    \* overflow bound of amounts
    MaxPlans,                   \* bound: plans ever created
    MaxDisputes,                \* bound: disputes ever filed
    MaxTime                     \* bound: last ledger timestamp

CONSTANTS                       \* inputs of the operations
    Owners, CreateAmounts, Rosters, Waits, CreateGuardians, Lendable,
    DepositAmounts, WithdrawAmounts, NewHeirs, Removals, Allocations,
    Priorities, UpdateRosters, EarnYields, NewOwners,
    Switches,                   \* operations without an input that are in use
    KycUsers, Sanctioned, RoleGrants, Pauses, TimeSteps

Plans == 1..MaxPlans
U64 == 0..U64_MAX
DisputeIds == 0..(MaxDisputes - 1)
KycFlag == {"submitted", "approved", "rejected"}
Role == {"Admin", "Guardian"}   \* Owner and Beneficiary are never read

HeirInput == [email : Emails, code : Codes, allocation_bp : Nat, priority : Nat]

Beneficiary == [email : Emails, code : Codes, salt_index : 1..MAX_BENEFICIARIES,
                allocation_bp : Nat, priority : Nat, is_claimed : BOOLEAN]

Plan == [owner : Users, total_amount : U64, beneficiaries : Seq(Beneficiary),
         total_allocation_bp : Nat,
         wait : Nat,            \* of its DistributionMethod
         created_at : Nat, is_active : BOOLEAN, is_lendable : BOOLEAN,
         waterfall_enabled : BOOLEAN, earn_yield : BOOLEAN]

\* The guardian list counts duplicates; only its length and members matter.
GuardianConfig == [members : SUBSET Users, len : Nat, threshold : Nat]

ASSUME InheritanceAssumption ==
    /\ IsFiniteSet(Users) /\ Admin \in Users
    /\ {BPS, MAX_BENEFICIARIES, CLAIM_ATTEMPT_WINDOW_SECONDS, MaxTime} \subseteq Nat \ {0}
    /\ CREATION_FEE_BP \in 0..BPS
    /\ EMERGENCY_TRANSFER_LIMIT_BP \in 0..BPS
    /\ {MAX_GUARDIANS, MAX_EMERGENCY_CONTACTS, EMERGENCY_COOLDOWN_PERIOD,
        EMERGENCY_EXPIRATION_PERIOD,
        CLAIM_MAX_ATTEMPTS_PER_WINDOW, U64_MAX, MaxPlans, MaxDisputes} \subseteq Nat
    /\ NoPlan \notin Plan
    /\ Owners \cup NewOwners \cup KycUsers \cup Sanctioned \subseteq Users
    /\ CreateAmounts \cup DepositAmounts \cup WithdrawAmounts \subseteq U64
    /\ Rosters \cup UpdateRosters \subseteq Seq(HeirInput)
    /\ CreateGuardians \subseteq GuardianConfig \cup {NoGuardians}
    /\ NewHeirs \subseteq HeirInput
    /\ Allocations \subseteq Seq(Nat)
    /\ Waits \cup Priorities \cup TimeSteps \cup Removals \subseteq Nat
    /\ Lendable \cup Pauses \cup EarnYields \subseteq BOOLEAN
    /\ RoleGrants \subseteq Users \X Role

VARIABLES
    (* plans *)
    plan,                   \* P(plan_id)
    next_plan_id,           \* Npi
    user_plans,             \* Up(owner)
    deactivated,            \* Dp
    vault,                  \* tokens in the plan's vault contract
    (* claims *)
    claimed,                \* C(plan_id, email)
    attempts,               \* Ca(plan_id, claimer)
    user_claimed,           \* Uc(owner)
    all_claimed,            \* Ac
    (* accounts *)
    kyc,                    \* Ky(user): which of the three flags are set
    roles, blacklisted, paused,
    (* triggers, emergency access, disputes *)
    triggered,              \* plans with It(plan_id)
    config,                 \* Tc(plan_id)
    guardians,              \* Gd(plan_id)
    approvals,              \* Eap(plan_id, contact)
    access,                 \* Eac(plan_id)
    contacts,               \* Ec(plan_id)
    disputes,               \* Ds(dispute_id)
    next_dispute_id,        \* Ndi
    frozen,                 \* plans with Fz(plan_id)
    arbitrators,            \* Arb, a list without repeats
    now

planVars == <<plan, next_plan_id, user_plans, deactivated>>
claimVars == <<claimed, attempts, user_claimed, all_claimed>>
accountVars == <<kyc, roles, blacklisted, paused>>
triggerVars == <<triggered, config>>
emergencyVars == <<guardians, approvals, access, contacts>>
disputeVars == <<disputes, next_dispute_id, frozen, arbitrators>>
vars == <<planVars, vault, claimVars, accountVars, triggerVars,
          emergencyVars, disputeVars, now>>

(* The admin is initialized and the vault code installed; nothing else. *)
Init ==
    /\ plan = [p \in Plans |-> NoPlan]
    /\ next_plan_id = 1
    /\ user_plans = [u \in Users |-> {}]
    /\ deactivated = {}
    /\ vault = [p \in Plans |-> 0]
    /\ claimed = [p \in Plans |-> {}]
    /\ attempts = [p \in Plans |-> [u \in Users |-> [start |-> 0, count |-> 0]]]
    /\ user_claimed = [u \in Users |-> {}]
    /\ all_claimed = {}
    /\ kyc = [u \in Users |-> {}]
    /\ roles = [u \in Users |-> IF u = Admin THEN {"Admin"} ELSE {}]
    /\ blacklisted = {}
    /\ paused = FALSE
    /\ triggered = {}
    /\ config = [p \in Plans |-> NoConfig]
    /\ guardians = [p \in Plans |-> NoGuardians]
    /\ approvals = [p \in Plans |-> [u \in Users |-> {}]]
    /\ access = [p \in Plans |-> NoAccess]
    /\ contacts = [p \in Plans |-> {}]
    /\ disputes = [d \in DisputeIds |-> NoDispute]
    /\ next_dispute_id = 0
    /\ frozen = {}
    /\ arbitrators = {}
    /\ now = 1

-----------------------------------------------------------------------------
(* Checks and helpers shared by the entry points *)

Exists(p) == plan[p] # NoPlan
Owns(u, p) == Exists(p) /\ plan[p].owner = u

\* require_admin: the role, not the initialized address, and no sanction.
RequireAdmin == \E a \in Users : "Admin" \in roles[a] /\ a \notin blacklisted

Share(amount, bp) == (amount * bp) \div BPS

\* create_inheritance_plan's fee: checked_mul on u64, unwrap_or(0).
Fee(amount) ==
    IF amount * CREATION_FEE_BP > U64_MAX THEN 0 ELSE Share(amount, CREATION_FEE_BP)

Allocated(heirs) == SumFunction([i \in DOMAIN heirs |-> heirs[i].allocation_bp])

\* validate_beneficiaries, and create_beneficiary's own check of each heir.
ValidRoster(roster) ==
    /\ Len(roster) \in 1..MAX_BENEFICIARIES
    /\ IsInjective([i \in DOMAIN roster |-> roster[i].email])
    /\ IsInjective([i \in DOMAIN roster |-> roster[i].priority])
    /\ \A i \in DOMAIN roster : roster[i].priority # 0 /\ roster[i].allocation_bp # 0
    /\ Allocated(roster) = BPS

create_beneficiary(heir, index) ==
    [email |-> heir.email, code |-> heir.code, salt_index |-> index,
     allocation_bp |-> heir.allocation_bp, priority |-> heir.priority,
     is_claimed |-> FALSE]

Enrolled(roster) == [i \in DOMAIN roster |-> create_beneficiary(roster[i], i)]

\* Swap with the last heir and pop.
SwapRemove(heirs, i) ==
    SubSeq([heirs EXCEPT ![i] = heirs[Len(heirs)]], 1, Len(heirs) - 1)

\* set_guardians and plan creation agree on what a guardian list must satisfy.
ValidGuardians(g) == g.threshold # 0 /\ g.len >= g.threshold

WithRole(who, role) ==
    [u \in Users |-> IF u \in who THEN roles[u] \cup {role} ELSE roles[u]]

\* check_and_expire_emergency_access, called for its effect.
AccessExpired(p) ==
    access[p] # NoAccess /\ now > access[p].activated_at + EMERGENCY_EXPIRATION_PERIOD

AfterExpiry(p) == [access EXCEPT ![p] = IF AccessExpired(p) THEN NoAccess ELSE @]

is_emergency_active(p) ==
    /\ access[p] # NoAccess /\ ~AccessExpired(p)
    /\ now - access[p].activated_at < EMERGENCY_COOLDOWN_PERIOD

\* Mutant: the limit is lifted by the trigger.
LimitUntilTriggered(p, amount) ==
    is_emergency_active(p) /\ p \notin triggered =>
        amount <= Share(plan[p].total_amount, EMERGENCY_TRANSFER_LIMIT_BP)

WithinEmergencyLimit(p, amount) ==
    is_emergency_active(p) =>
        amount <= Share(plan[p].total_amount, EMERGENCY_TRANSFER_LIMIT_BP)

-----------------------------------------------------------------------------
(* Plans *)

PlanStep == UNCHANGED <<claimVars, triggerVars, disputeVars, now>>

create_inheritance_plan(u, amount, roster, wait, lendable, g) ==
    LET p == next_plan_id
        net == amount - Fee(amount)
    IN  /\ p \in Plans
        /\ ~paused /\ "approved" \in kyc[u]
        /\ net > 0
        /\ ValidRoster(roster)
        /\ g # NoGuardians => g.len <= MAX_GUARDIANS /\ ValidGuardians(g)
        /\ plan' = [plan EXCEPT ![p] =
                      [owner |-> u, total_amount |-> net,
                       beneficiaries |-> Enrolled(roster),
                       total_allocation_bp |-> Allocated(roster),
                       wait |-> wait, created_at |-> now, is_active |-> TRUE,
                       is_lendable |-> lendable, waterfall_enabled |-> FALSE,
                       earn_yield |-> FALSE]]
        /\ vault' = [vault EXCEPT ![p] = net]
        /\ next_plan_id' = p + 1
        /\ user_plans' = [user_plans EXCEPT ![u] = @ \cup {p}]
        /\ guardians' = [guardians EXCEPT ![p] = g]
        /\ roles' = IF g = NoGuardians THEN roles ELSE WithRole(g.members, "Guardian")
        /\ UNCHANGED <<deactivated, kyc, blacklisted, paused, approvals, access, contacts>>
        /\ PlanStep

\* An owner's operation that only rewrites the stored plan.
OwnerEdit(u, p, edited) ==
    /\ Owns(u, p)
    /\ plan' = [plan EXCEPT ![p] = edited]
    /\ UNCHANGED <<next_plan_id, user_plans, deactivated, vault, accountVars, emergencyVars>>
    /\ PlanStep

AppendHeir(u, p, heir) ==
    LET heirs == plan[p].beneficiaries
        new_total == plan[p].total_allocation_bp + heir.allocation_bp
    IN  /\ Owns(u, p)
        /\ Len(heirs) < MAX_BENEFICIARIES
        /\ heir.allocation_bp # 0
        /\ new_total <= BPS
        /\ OwnerEdit(u, p,
              [plan[p] EXCEPT
                 !.beneficiaries = Append(heirs, create_beneficiary(heir, Len(heirs) + 1)),
                 !.total_allocation_bp = new_total])

add_beneficiary(u, p, heir) == ~paused /\ u \notin blacklisted /\ AppendHeir(u, p, heir)

\* One accepted entry; a refused one is skipped.
batch_add_beneficiaries(u, p, heir) == AppendHeir(u, p, heir)

\* Mutant: the share subtracted is read after the swap.
DropMovedShare(u, p, i) ==
    /\ Owns(u, p)
    /\ i \in DOMAIN plan[p].beneficiaries
    /\ LET heirs == plan[p].beneficiaries IN
       OwnerEdit(u, p, [plan[p] EXCEPT
                          !.beneficiaries = SwapRemove(heirs, i),
                          !.total_allocation_bp = @ - heirs[Len(heirs)].allocation_bp])

DropHeir(u, p, i) ==
    /\ Owns(u, p)
    /\ i \in DOMAIN plan[p].beneficiaries
    /\ OwnerEdit(u, p,
          [plan[p] EXCEPT
             !.beneficiaries = SwapRemove(@, i),
             !.total_allocation_bp = @ - plan[p].beneficiaries[i].allocation_bp])

remove_beneficiary(u, p, i) == ~paused /\ DropHeir(u, p, i)

\* One of its distinct indices, taken from the highest down.
batch_remove_beneficiaries(u, p, i) == DropHeir(u, p, i)

batch_update_allocations(u, p, bps) ==
    /\ Owns(u, p)
    /\ Len(bps) = Len(plan[p].beneficiaries)
    /\ \A i \in DOMAIN bps : bps[i] # 0
    /\ SumFunction(bps) = BPS
    /\ OwnerEdit(u, p,
          [plan[p] EXCEPT
             !.beneficiaries = [i \in DOMAIN bps |->
                  [plan[p].beneficiaries[i] EXCEPT !.allocation_bp = bps[i]]],
             !.total_allocation_bp = BPS])

set_beneficiary_priority(u, p, i, priority) ==
    /\ Owns(u, p)
    /\ i \in DOMAIN plan[p].beneficiaries
    /\ priority # 0
    /\ \A j \in DOMAIN plan[p].beneficiaries \ {i} :
          plan[p].beneficiaries[j].priority # priority
    /\ OwnerEdit(u, p, [plan[p] EXCEPT !.beneficiaries[i].priority = priority])

enable_waterfall_distribution(u, p) ==
    Owns(u, p) /\ OwnerEdit(u, p, [plan[p] EXCEPT !.waterfall_enabled = TRUE])

set_lendable(u, p, lendable) ==
    Owns(u, p) /\ OwnerEdit(u, p, [plan[p] EXCEPT !.is_lendable = lendable])

\* Its grace_period is not in the state.
update_plan(u, p, roster, earn_yield) ==
    /\ ~paused
    /\ Owns(u, p)
    /\ p \notin triggered
    /\ ValidRoster(roster)
    /\ OwnerEdit(u, p, [plan[p] EXCEPT !.beneficiaries = Enrolled(roster),
                                       !.total_allocation_bp = Allocated(roster),
                                       !.earn_yield = earn_yield])

deactivate_inheritance_plan(u, p) ==
    /\ ~paused
    /\ Owns(u, p)
    /\ plan[p].is_active
    /\ plan' = [plan EXCEPT ![p].is_active = FALSE]
    /\ deactivated' = deactivated \cup {p}
    /\ UNCHANGED <<next_plan_id, user_plans, vault, accountVars, emergencyVars>>
    /\ PlanStep

transfer_plan_ownership(u, new_owner, p) ==
    /\ Owns(u, p)
    /\ p \notin triggered /\ p \notin frozen
    /\ user_plans' = [v \in Users |->
                        (user_plans[v] \ (IF v = u THEN {p} ELSE {}))
                           \cup (IF v = new_owner THEN {p} ELSE {})]
    /\ plan' = [plan EXCEPT ![p].owner = new_owner]
    /\ UNCHANGED <<next_plan_id, deactivated, vault, accountVars, emergencyVars>>
    /\ PlanStep

-----------------------------------------------------------------------------
(* Funds *)

deposit(u, p, amount) ==
    /\ ~paused
    /\ amount # 0
    /\ Owns(u, p) /\ plan[p].is_active
    /\ p \notin frozen
    /\ plan[p].total_amount + amount <= U64_MAX
    /\ plan' = [plan EXCEPT ![p].total_amount = @ + amount]
    /\ vault' = [vault EXCEPT ![p] = @ + amount]
    /\ UNCHANGED <<next_plan_id, user_plans, deactivated, accountVars, emergencyVars>>
    /\ PlanStep

withdraw(u, p, amount) ==
    /\ ~paused
    /\ amount # 0
    /\ Owns(u, p)
    /\ p \notin frozen
    /\ WithinEmergencyLimit(p, amount)
    /\ amount <= plan[p].total_amount
    /\ amount <= vault[p]
    /\ plan' = [plan EXCEPT ![p].total_amount = @ - amount]
    /\ vault' = [vault EXCEPT ![p] = @ - amount]
    /\ access' = AfterExpiry(p)
    /\ UNCHANGED <<next_plan_id, user_plans, deactivated, accountVars,
                   guardians, approvals, contacts>>
    /\ PlanStep

-----------------------------------------------------------------------------
(* Accounts: KYC, roles, the blacklist, the pause switch *)

AccountStep == UNCHANGED <<planVars, vault, claimVars, triggerVars, emergencyVars,
                           disputeVars, now>>

submit_kyc(u) ==
    /\ u \notin blacklisted
    /\ "approved" \notin kyc[u]
    /\ kyc' = [kyc EXCEPT ![u] = @ \cup {"submitted"}]
    /\ UNCHANGED <<roles, blacklisted, paused>>
    /\ AccountStep

ApproveKyc(u) ==
    /\ RequireAdmin
    /\ "submitted" \in kyc[u] /\ "approved" \notin kyc[u]
    /\ kyc' = [kyc EXCEPT ![u] = @ \cup {"approved"}]
    /\ UNCHANGED <<roles, blacklisted, paused>>
    /\ AccountStep

approve_kyc(u) == u \notin blacklisted /\ ApproveKyc(u)

\* One accepted entry; the batch does not look at the blacklist.
batch_approve_kyc(u) == ApproveKyc(u)

\* The approved flag survives a rejection.
reject_kyc(u) ==
    /\ RequireAdmin
    /\ u \notin blacklisted
    /\ "submitted" \in kyc[u] /\ "rejected" \notin kyc[u]
    /\ kyc' = [kyc EXCEPT ![u] = @ \cup {"rejected"}]
    /\ UNCHANGED <<roles, blacklisted, paused>>
    /\ AccountStep

assign_role(u, role) ==
    /\ RequireAdmin
    /\ u \notin blacklisted
    /\ roles' = WithRole({u}, role)
    /\ UNCHANGED <<kyc, blacklisted, paused>>
    /\ AccountStep

revoke_role(u, role) ==
    /\ RequireAdmin
    /\ roles' = [roles EXCEPT ![u] = @ \ {role}]
    /\ UNCHANGED <<kyc, blacklisted, paused>>
    /\ AccountStep

blacklist_address(u) ==
    /\ RequireAdmin
    /\ blacklisted' = blacklisted \cup {u}
    /\ UNCHANGED <<kyc, roles, paused>>
    /\ AccountStep

unblacklist_address(u) ==
    /\ RequireAdmin
    /\ blacklisted' = blacklisted \ {u}
    /\ UNCHANGED <<kyc, roles, paused>>
    /\ AccountStep

pause(on) ==
    /\ RequireAdmin
    /\ paused' = on
    /\ UNCHANGED <<kyc, roles, blacklisted>>
    /\ AccountStep

-----------------------------------------------------------------------------
PlanNext ==
    \/ \E u \in Owners, x \in CreateAmounts, r \in Rosters, w \in Waits,
          g \in CreateGuardians, lendable \in BOOLEAN :
          create_inheritance_plan(u, x, r, w, lendable, g)
    \/ \E u \in Users, p \in Plans :
          \/ \E h \in NewHeirs : add_beneficiary(u, p, h) \/ batch_add_beneficiaries(u, p, h)
          \/ \E i \in Removals : remove_beneficiary(u, p, i) \/ batch_remove_beneficiaries(u, p, i)
          \/ \E bps \in Allocations : batch_update_allocations(u, p, bps)
          \/ \E i \in 1..MAX_BENEFICIARIES, k \in Priorities :
                set_beneficiary_priority(u, p, i, k)
          \/ "waterfall" \in Switches /\ enable_waterfall_distribution(u, p)
          \/ \E lendable \in Lendable : set_lendable(u, p, lendable)
          \/ \E r \in UpdateRosters, y \in EarnYields : update_plan(u, p, r, y)
          \/ "deactivate" \in Switches /\ deactivate_inheritance_plan(u, p)
          \/ \E v \in NewOwners : transfer_plan_ownership(u, v, p)
          \/ \E x \in DepositAmounts : deposit(u, p, x)
          \/ \E x \in WithdrawAmounts : withdraw(u, p, x)

AccountNext ==
    \/ \E u \in KycUsers : \/ submit_kyc(u) \/ reject_kyc(u)
                            \/ approve_kyc(u) \/ batch_approve_kyc(u)
    \/ \E g \in RoleGrants : assign_role(g[1], g[2]) \/ revoke_role(g[1], g[2])
    \/ \E u \in Sanctioned : blacklist_address(u) \/ unblacklist_address(u)
    \/ \E on \in Pauses : pause(on)

Tick ==
    /\ \E d \in TimeSteps : d > 0 /\ now + d <= MaxTime /\ now' = now + d
    /\ UNCHANGED <<planVars, vault, claimVars, accountVars, triggerVars,
                   emergencyVars, disputeVars>>

=============================================================================
