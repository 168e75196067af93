---------------------------- MODULE Inheritance ----------------------------
(***************************************************************************)
(* What the inheritance contract promises its owners and heirs.            *)
(***************************************************************************)
EXTENDS InheritanceClaims

InheritanceTypeOK ==
    /\ plan \in [Plans -> Plan \cup {NoPlan}]
    /\ next_plan_id \in 1..(MaxPlans + 1)
    /\ user_plans \in [Users -> SUBSET Plans]
    /\ deactivated \subseteq Plans
    /\ vault \in [Plans -> Nat]      \* a token balance, wider than u64
    /\ claimed \in [Plans -> SUBSET Emails]
    /\ attempts \in [Plans -> [Users ->
          [start : 0..MaxTime, count : 0..CLAIM_MAX_ATTEMPTS_PER_WINDOW]]]
    /\ user_claimed \in [Users -> SUBSET Plans]
    /\ all_claimed \subseteq Plans
    /\ kyc \in [Users -> SUBSET KycFlag]
    /\ roles \in [Users -> SUBSET Role]
    /\ blacklisted \subseteq Users
    /\ paused \in BOOLEAN
    /\ triggered \subseteq Plans
    /\ config \in [Plans -> TriggerConfig \cup {NoConfig}]
    /\ guardians \in [Plans -> GuardianConfig \cup {NoGuardians}]
    /\ approvals \in [Plans -> [Users -> SUBSET Users]]
    /\ access \in [Plans -> EmergencyAccess \cup {NoAccess}]
    /\ contacts \in [Plans -> SUBSET Users]
    /\ disputes \in [DisputeIds -> Dispute \cup {NoDispute}]
    /\ next_dispute_id \in 0..MaxDisputes
    /\ frozen \subseteq Plans
    /\ arbitrators \subseteq Users
    /\ now \in 1..MaxTime

-----------------------------------------------------------------------------
(* Plans and their registries *)

\* total_allocation_bp, which add_beneficiary trusts, is the sum of the heirs'
\* shares and never above 100%, and no list of heirs outgrows its limit,
\* however heirs are added, swapped out, re-weighted or replaced.
AllocationsAddUp ==
    \A p \in Plans : Exists(p) =>
        /\ Len(plan[p].beneficiaries) <= MAX_BENEFICIARIES
        /\ plan[p].total_allocation_bp = Allocated(plan[p].beneficiaries)
        /\ plan[p].total_allocation_bp <= BPS

\* A plan is listed under its owner and nobody else, through creations and
\* transfers (including a transfer to oneself), and Dp lists the inactive plans.
RegistryMatchesOwners ==
    /\ \A u \in Users : user_plans[u] = {p \in Plans : Owns(u, p)}
    /\ deactivated = {p \in Plans : Exists(p) /\ ~plan[p].is_active}

\* The vault holds exactly what the plan's books say.
VaultMatchesBooks ==
    \A p \in Plans : vault[p] = IF Exists(p) THEN plan[p].total_amount ELSE 0

\* The vault never holds less than the plan's books, which are what claims and
\* withdrawals are measured against; batch_claim reduces only the books.
VaultCoversBooks ==
    \A p \in Plans : Exists(p) => plan[p].total_amount <= vault[p]

\* An accepted entry of some batch, the only step that parts the two.
BatchClaims ==
    \E u \in BatchClaimers, p \in Plans, e \in ClaimEmails, c \in ClaimCodes :
        batch_claim(u, p, e, c)

DeadStayDead ==
    \A p \in deactivated :
        /\ p \in deactivated' /\ ~plan[p].is_active'
        /\ vault'[p] <= vault[p]
        /\ claimed'[p] = claimed[p]
        /\ p \in triggered' => p \in triggered

\* A deactivated plan stays so, is never triggered and pays no heir; only its
\* owner can still take funds out.
DeactivatedPlanIsDead == [][DeadStayDead]_vars

-----------------------------------------------------------------------------
(* Claims *)

\* The per-owner and global lists of claimed plans are those of the plans
\* with a claim record, though the owner may have changed since.
ClaimRegistry ==
    LET withClaims == {p \in Plans : claimed[p] # {}} IN
    /\ all_claimed = withClaims
    /\ UNION {user_claimed[u] : u \in Users} = withClaims

\* An heir marked as paid has a claim record, which bars its email for good,
\* whatever the owner does to the list of heirs.
ClaimedFlagHasRecord ==
    \A p \in Plans : Exists(p) =>
        \A i \in DOMAIN plan[p].beneficiaries :
            plan[p].beneficiaries[i].is_claimed =>
                plan[p].beneficiaries[i].email \in claimed[p]

\* The contract's redundant records agree after any sequence of calls: shares
\* with their total, plans with their owners' lists, claims with the global
\* and per-owner lists, and paid heirs with their claim records.
PlanBooks ==
    AllocationsAddUp /\ RegistryMatchesOwners /\ ClaimRegistry /\ ClaimedFlagHasRecord

PaysNewClaimsOnly ==
    \A p \in Plans :
        /\ claimed[p] \subseteq claimed'[p]
        /\ vault'[p] < vault[p] /\ attempts' # attempts =>
              \E e \in claimed'[p] \ claimed[p] :
                 \E i \in DOMAIN plan[p].beneficiaries :
                    /\ plan[p].beneficiaries[i].email = e
                    /\ (vault[p] - vault'[p]) * BPS <=
                          plan[p].total_amount * plan[p].beneficiaries[i].allocation_bp

\* A claim record is never lost, and nobody is paid without a new one: what
\* leaves the vault in a claim is at most the heir's share of what was left.
OneClaimPerHeir == [][PaysNewClaimsOnly]_vars

SeniorsHaveClaimed ==
    \A p \in Plans : \A e \in claimed'[p] \ claimed[p] :
        plan[p].waterfall_enabled =>
           \E i \in DOMAIN plan[p].beneficiaries :
              /\ plan[p].beneficiaries[i].email = e
              /\ \A j \in DOMAIN plan[p].beneficiaries :
                    LET b == plan[p].beneficiaries[j] IN
                    b.priority \in 1..(plan[p].beneficiaries[i].priority - 1) =>
                       b.email \in claimed[p]

\* With the waterfall on, a new claim is that of an heir all of whose seniors
\* (smaller non-zero priority) have claimed before.
WaterfallRespected == [][SeniorsHaveClaimed]_vars

ClaimsByVetted ==
    \A p \in Plans : claimed'[p] # claimed[p] =>
        \E u \in Users \ blacklisted :
           "approved" \in kyc[u] /\ attempts'[p][u] # attempts[p][u]

\* Whoever a claim is recorded for, by either entry point, is a KYC-approved
\* address that is not on the blacklist.
ClaimantsAreVetted == [][ClaimsByVetted]_vars

-----------------------------------------------------------------------------
(* Triggers, emergency access, disputes *)

\* Before its distribution date a plan is claimed from only once triggered.
EarlyClaimNeedsTrigger ==
    \A p \in Plans :
        claimed[p] # {} /\ now - plan[p].created_at < plan[p].wait => p \in triggered

TriggersStay == \A p \in triggered : p \in triggered' /\ plan'[p].owner = plan[p].owner

\* A trigger is for good, and from then on the plan cannot change hands.
TriggerIsFinal == [][TriggersStay]_vars

DrainsWithinLimit ==
    \A p \in Plans : is_emergency_active(p) =>
        LET limit == Share(plan[p].total_amount, EMERGENCY_TRANSFER_LIMIT_BP) IN
        /\ vault[p] - vault'[p] <= limit
        /\ plan[p].total_amount - plan'[p].total_amount <= limit

\* In the cool-down after emergency access is opened, no single call takes
\* more than the emergency limit out of the vault or off the books.
EmergencyDrainLimited == [][DrainsWithinLimit]_vars

FrozenStayPut ==
    \A p \in frozen :
        /\ vault'[p] = vault[p]
        /\ plan'[p].total_amount = plan[p].total_amount
        /\ plan'[p].owner = plan[p].owner
        /\ claimed'[p] = claimed[p]
        /\ p \in triggered' \ triggered => ConditionsMet(p)

\* While a plan is frozen its funds do not move, no claim is recorded, it does
\* not change hands, and only its own conditions can trigger it.
FrozenPlanKeepsFunds == [][FrozenStayPut]_vars

\* What trigger_inheritance answers by: trigger info, is_active, the freeze mark
\* and the pause switch.
FateOf(p) ==
    IF p \in triggered THEN "triggered"
    ELSE IF ~Exists(p) THEN "absent"
    ELSE IF ~plan[p].is_active THEN "closed"
    ELSE IF p \in frozen \/ paused THEN "barred" ELSE "open"

fates == [p \in Plans |-> FateOf(p)]

Life == INSTANCE PlanFate WITH fate <- fates

\* The contract implements the life of a plan its callers count on.
ImplementsPlanFate == Life!FateSpec

\* Both ways a plan's fate can be sealed are for good, whatever is disputed,
\* transferred, paused or resolved afterwards: every plan goes through its life
\* as PlanFate has it, a deactivated plan pays nobody and a triggered one keeps
\* its owner.
FateIsSealed == ImplementsPlanFate /\ DeactivatedPlanIsDead /\ TriggerIsFinal

=============================================================================
