------------------------- MODULE InheritanceProofs -------------------------
(***************************************************************************)
(* What the inheritance contract keeps true of its plans, vaults, claims   *)
(* and triggers, and of the yield, the wills, the messages and the notices *)
(* kept beside them, for every set of users, roster and bound: proofs of   *)
(* the properties of Inheritance, then of InheritanceEstate.               *)
(***************************************************************************)
EXTENDS InheritanceEstate, ArithmeticProofs, SequenceTheorems

-----------------------------------------------------------------------------
(* Shares and the least index *)

LEMMA MinFacts ==
    ASSUME NEW T \in SUBSET Nat, T # {}
    PROVE  Min(T) \in T /\ \A x \in T : Min(T) <= x
BY LeastNat DEF Min

\* A share of an amount, rounded down.
LEMMA ShareFacts ==
    ASSUME NEW amount \in Nat, NEW bp \in Nat
    PROVE  /\ Share(amount, bp) \in Nat
           /\ Share(amount, bp) * BPS <= amount * bp
           /\ bp <= BPS => Share(amount, bp) <= amount
<1>1. BPS \in Nat /\ BPS > 0
  BY InheritanceAssumption
<1>2. amount * bp \in Nat
  BY MulNat
<1>3. Share(amount, bp) \in Nat /\ Share(amount, bp) * BPS <= amount * bp
  BY <1>1, <1>2, DivFloor DEF Share
<1>4. ASSUME bp <= BPS PROVE Share(amount, bp) <= amount
  <2>1. amount * bp <= amount * BPS
    <3>1. bp * amount <= BPS * amount
      BY <1>1, <1>4, MulMono
    <3>2. QED
      BY <1>1, <3>1
  <2>2. Share(amount, bp) * BPS <= amount * BPS
    <3>1. amount * BPS \in Nat /\ Share(amount, bp) * BPS \in Nat
      BY <1>1, <1>3, MulNat
    <3>2. QED
      BY <1>2, <1>3, <2>1, <3>1
  <2>3. QED
    BY <1>1, <1>3, <2>2, MulCancel
<1>5. QED
  BY <1>3, <1>4

-----------------------------------------------------------------------------
(* The shares of a list of heirs *)

Shares(heirs) == [i \in DOMAIN heirs |-> heirs[i].allocation_bp]

\* A list, of heirs or of what an heir is created from.
IsRoster(heirs, n) ==
    n \in Nat /\ DOMAIN heirs = 1..n /\ \A i \in 1..n : heirs[i].allocation_bp \in Nat

LEMMA RosterOf ==
    /\ \A heirs \in Seq(Beneficiary) : IsRoster(heirs, Len(heirs))
    /\ \A heirs \in Seq(HeirInput) : IsRoster(heirs, Len(heirs))
<1>1. ASSUME NEW heirs \in Seq(Beneficiary) PROVE IsRoster(heirs, Len(heirs))
  <2>1. \A i \in 1..Len(heirs) : heirs[i] \in Beneficiary
    BY ElementOfSeq
  <2>2. QED
    BY <2>1, LenProperties DEF IsRoster, Beneficiary
<1>2. ASSUME NEW heirs \in Seq(HeirInput) PROVE IsRoster(heirs, Len(heirs))
  <2>1. \A i \in 1..Len(heirs) : heirs[i] \in HeirInput
    BY ElementOfSeq
  <2>2. QED
    BY <2>1, LenProperties DEF IsRoster, HeirInput
<1>3. QED
  BY <1>1, <1>2

LEMMA AllocatedIsSum ==
    ASSUME NEW n, NEW heirs, IsRoster(heirs, n)
    PROVE  /\ IsFiniteSet(1..n)
           /\ \A i \in 1..n : Shares(heirs)[i] = heirs[i].allocation_bp
           /\ \A i \in 1..n : Shares(heirs)[i] \in Nat
           /\ Allocated(heirs) = SumOver(Shares(heirs), 1..n)
           /\ Allocated(heirs) \in Nat
           /\ \A i \in 1..n : heirs[i].allocation_bp <= Allocated(heirs)
<1> DEFINE f == Shares(heirs)
           T == 1..n
<1>1. IsFiniteSet(T)
  <2>1. 1 \in Int /\ n \in Int
    BY DEF IsRoster
  <2>2. QED
    BY <2>1, FS_Interval
<1>2. \A i \in T : f[i] = heirs[i].allocation_bp /\ f[i] \in Nat
  BY DEF IsRoster, Shares
<1>3. DOMAIN heirs = T /\ f = [i \in T |-> f[i]]
  BY DEF IsRoster, Shares
<1>4. Allocated(heirs) = SumFunction(f)
  BY DEF Allocated, Shares
<1> HIDE DEF f, T
<1>5. SumFunction(f) = SumOver(f, T)
  BY <1>3, SumIsSumOver
<1>6. SumOver(f, T) \in Nat /\ \A i \in T : f[i] <= SumOver(f, T)
  BY <1>1, <1>2, SumOverNat
<1>7. QED
  BY <1>1, <1>2, <1>4, <1>5, <1>6 DEF f, T

\* Only the shares count.
LEMMA AllocatedSame ==
    ASSUME NEW n, NEW heirs, NEW others, IsRoster(heirs, n), IsRoster(others, n),
           \A i \in 1..n : others[i].allocation_bp = heirs[i].allocation_bp
    PROVE  Allocated(others) = Allocated(heirs)
<1> DEFINE T == 1..n
<1>1. \A i \in T : Shares(others)[i] = Shares(heirs)[i]
  BY AllocatedIsSum
<1>2. Allocated(others) = SumOver(Shares(others), T) /\ Allocated(heirs) = SumOver(Shares(heirs), T)
  BY AllocatedIsSum
<1> HIDE DEF T
<1>3. QED
  BY <1>1, <1>2, SumOverSame

LEMMA AllocatedAppend ==
    ASSUME NEW heirs \in Seq(Beneficiary), NEW b \in Beneficiary
    PROVE  /\ Append(heirs, b) \in Seq(Beneficiary)
           /\ Allocated(Append(heirs, b)) = Allocated(heirs) + b.allocation_bp
<1> DEFINE longer == Append(heirs, b)
           n == Len(heirs)
           f == Shares(heirs)
           g == Shares(longer)
<1>1. /\ n \in Nat /\ longer \in Seq(Beneficiary) /\ Len(longer) = n + 1
      /\ \A i \in 1..n : longer[i] = heirs[i]
      /\ longer[n + 1] = b
  BY LenProperties, AppendProperties
<1>2. IsRoster(heirs, n) /\ IsRoster(longer, n + 1) /\ b.allocation_bp \in Nat
  BY <1>1, RosterOf DEF Beneficiary
<1> HIDE DEF longer, n
<1>3. /\ Allocated(heirs) = SumOver(f, 1..n) /\ \A i \in 1..n : f[i] = heirs[i].allocation_bp
      /\ \A i \in 1..n : f[i] \in Nat
  BY <1>2, AllocatedIsSum
<1>4. /\ Allocated(longer) = SumOver(g, 1..(n + 1)) /\ IsFiniteSet(1..(n + 1))
      /\ \A i \in 1..(n + 1) : g[i] = longer[i].allocation_bp
      /\ \A i \in 1..(n + 1) : g[i] \in Nat
  BY <1>2, AllocatedIsSum
<1> HIDE DEF f, g
<1>5. n + 1 \in 1..(n + 1) /\ (1..(n + 1)) \ {n + 1} = 1..n
  BY <1>1
<1>6. SumOver(g, 1..(n + 1)) = g[n + 1] + SumOver(g, 1..n)
  <2> DEFINE T == 1..(n + 1)
             y == n + 1
  <2>1. IsFiniteSet(T) /\ (\A i \in T : g[i] \in Int) /\ y \in T /\ T \ {y} = 1..n
    BY <1>4, <1>5
  <2> HIDE DEF T, y
  <2>2. SumOver(g, T) = g[y] + SumOver(g, T \ {y})
    BY <2>1, SumOverFacts
  <2>3. QED
    BY <2>1, <2>2 DEF T, y
<1>7. \A i \in 1..n : g[i] = f[i]
  BY <1>1, <1>3, <1>4
<1>8. SumOver(g, 1..n) = SumOver(f, 1..n)
  BY <1>7, SumOverSame
<1>9. g[n + 1] = b.allocation_bp
  BY <1>1, <1>4, <1>5
<1>10. Allocated(heirs) \in Nat
  BY <1>2, AllocatedIsSum
<1>11. QED
  BY <1>1, <1>2, <1>3, <1>4, <1>6, <1>8, <1>9, <1>10 DEF longer

\* The last heir moves into the place of the one removed.
LEMMA SwapRemoveList ==
    ASSUME NEW heirs \in Seq(Beneficiary), NEW i \in DOMAIN heirs
    PROVE  /\ SwapRemove(heirs, i) \in Seq(Beneficiary)
           /\ Len(heirs) \in Nat /\ Len(heirs) >= 1 /\ i \in 1..Len(heirs)
           /\ Len(SwapRemove(heirs, i)) = Len(heirs) - 1
           /\ \A j \in 1..(Len(heirs) - 1) :
                 SwapRemove(heirs, i)[j] = IF j = i THEN heirs[Len(heirs)] ELSE heirs[j]
<1> DEFINE n == Len(heirs)
           swapped == [heirs EXCEPT ![i] = heirs[n]]
<1>1. n \in Nat /\ DOMAIN heirs = 1..n /\ i \in 1..n /\ n >= 1
  BY LenProperties
<1>2. heirs[n] \in Beneficiary
  BY <1>1, ElementOfSeq
<1>3. /\ swapped \in Seq(Beneficiary) /\ Len(swapped) = n
      /\ \A j \in 1..n : swapped[j] = IF j = i THEN heirs[n] ELSE heirs[j]
  BY <1>1, <1>2, ExceptSeq
<1>4. SwapRemove(heirs, i) = SubSeq(swapped, 1, n - 1)
  BY DEF SwapRemove
<1> HIDE DEF swapped, n
<1>5. \A j \in 1..(n - 1) : swapped[j] \in Beneficiary
  BY <1>1, <1>3, ElementOfSeq
<1>6. /\ SubSeq(swapped, 1, n - 1) \in Seq(Beneficiary)
      /\ Len(SubSeq(swapped, 1, n - 1)) = IF 1 <= n - 1 THEN (n - 1) - 1 + 1 ELSE 0
      /\ \A j \in 1..((n - 1) - 1 + 1) : SubSeq(swapped, 1, n - 1)[j] = swapped[1 + j - 1]
  BY <1>1, <1>5, SubSeqProperties
<1>7. QED
  BY <1>1, <1>3, <1>4, <1>6 DEF n

LEMMA AllocatedSwapRemove ==
    ASSUME NEW heirs \in Seq(Beneficiary), NEW i \in DOMAIN heirs
    PROVE  Allocated(SwapRemove(heirs, i)) = Allocated(heirs) - heirs[i].allocation_bp
<1> DEFINE n == Len(heirs)
           shorter == SwapRemove(heirs, i)
           f == Shares(heirs)
           g == Shares(shorter)
           last == heirs[n].allocation_bp
<1>1. /\ n \in Nat /\ n >= 1 /\ i \in 1..n /\ shorter \in Seq(Beneficiary)
      /\ Len(shorter) = n - 1
      /\ \A j \in 1..(n - 1) : shorter[j] = IF j = i THEN heirs[n] ELSE heirs[j]
  BY SwapRemoveList
<1>2. IsRoster(heirs, n) /\ IsRoster(shorter, n - 1)
  BY <1>1, RosterOf
<1> HIDE DEF shorter, n
<1>3. /\ Allocated(heirs) = SumOver(f, 1..n) /\ IsFiniteSet(1..n)
      /\ \A j \in 1..n : f[j] = heirs[j].allocation_bp
      /\ \A j \in 1..n : f[j] \in Int
      /\ Allocated(heirs) \in Int
  BY <1>2, AllocatedIsSum
<1>4. /\ Allocated(shorter) = SumOver(g, 1..(n - 1)) /\ IsFiniteSet(1..(n - 1))
      /\ \A j \in 1..(n - 1) : g[j] = shorter[j].allocation_bp
      /\ \A j \in 1..(n - 1) : g[j] \in Int
      /\ Allocated(shorter) \in Int
  BY <1>2, AllocatedIsSum
<1> HIDE DEF f, g
<1> DEFINE T == 1..n
           S == 1..(n - 1)
<1>5. n \in T /\ T \ {n} = S /\ \A j \in S : j \in T /\ j # n
  BY <1>1
<1>6. SumOver(f, T) = f[n] + SumOver(f, S)
  <2>1. IsFiniteSet(T) /\ \A j \in T : f[j] \in Int
    BY <1>3
  <2> HIDE DEF T, S
  <2>2. SumOver(f, T) = f[n] + SumOver(f, T \ {n})
    BY <1>5, <2>1, SumOverFacts
  <2>3. QED
    BY <1>5, <2>2
<1>7. CASE i = n
  <2>1. \A j \in S : g[j] = f[j]
    BY <1>1, <1>3, <1>4, <1>5, <1>7
  <2>2. SumOver(g, S) = SumOver(f, S)
    BY <2>1, SumOverSame
  <2>3. f[n] = heirs[i].allocation_bp /\ SumOver(f, S) \in Int /\ f[n] \in Int
    BY <1>3, <1>4, <1>5, <1>7, <2>2
  <2>4. QED
    BY <1>3, <1>4, <1>6, <2>2, <2>3 DEF shorter
<1>8. CASE i # n
  <2>1. i \in S
    BY <1>1, <1>8
  <2>2. \A j \in S \ {i} : g[j] = f[j]
    BY <1>1, <1>3, <1>4, <1>5, <2>1
  <2>3. g[i] = f[n] /\ g[i] \in Int
    BY <1>1, <1>3, <1>4, <1>5, <2>1
  <2>4. IsFiniteSet(S)
    BY <1>4
  <2>5. \A j \in S : f[j] \in Int
    BY <1>3, <1>5
  <2> HIDE DEF S, T
  <2>6. SumOver(g, S) = SumOver(f, S) - f[i] + g[i]
    <3>1. \A j \in S : g[j] \in Int
      BY <2>2, <2>3, <2>5
    <3>2. SumOver(f, S) = f[i] + SumOver(f, S \ {i})
      BY <2>1, <2>4, <2>5, SumOverFacts
    <3>3. SumOver(g, S) = g[i] + SumOver(g, S \ {i})
      BY <2>1, <2>4, <3>1, SumOverFacts
    <3>4. SumOver(g, S \ {i}) = SumOver(f, S \ {i})
      BY <2>2, SumOverSame
    <3>5. IsFiniteSet(S \ {i}) /\ \A j \in S \ {i} : f[j] \in Int
      BY <2>4, <2>5, FS_Subset
    <3>6. SumOver(f, S \ {i}) \in Int
      BY <3>5, SumOverFacts
    <3>7. QED
      BY <2>1, <2>3, <2>5, <3>2, <3>3, <3>4, <3>6
  <2>7. SumOver(f, S) \in Int
    BY <2>4, <2>5, SumOverFacts
  <2>8. f[i] = heirs[i].allocation_bp /\ f[i] \in Int /\ f[n] \in Int
    BY <1>1, <1>3
  <2>9. Allocated(heirs) = SumOver(f, T) /\ Allocated(shorter) = SumOver(g, S)
    BY <1>3, <1>4 DEF T, S
  <2>10. QED
    BY <1>6, <2>3, <2>6, <2>7, <2>8, <2>9 DEF shorter
<1>9. QED
  BY <1>7, <1>8

-----------------------------------------------------------------------------
(* The inductive invariant *)

\* A plan whose total is that of its heirs, who are not too many.
AddsUp(q) ==
    /\ Len(q.beneficiaries) <= MAX_BENEFICIARIES
    /\ q.total_allocation_bp = Allocated(q.beneficiaries)
    /\ q.total_allocation_bp <= BPS

\* Ids are given out in order, and a plan that does not exist has left no
\* trace: no claim, trigger, freeze, emergency access, dispute or token.
IdsInOrder == \A p \in Plans : Exists(p) <=> p < next_plan_id

NoTraces ==
    \A p \in Plans : ~Exists(p) =>
        /\ claimed[p] = {} /\ vault[p] = 0
        /\ p \notin triggered /\ p \notin frozen /\ access[p] = NoAccess

DisputesHavePlans ==
    \A d \in DisputeIds : disputes[d] # NoDispute => Exists(disputes[d].plan_id)

Books == AllocationsAddUp /\ RegistryMatchesOwners /\ ClaimedFlagHasRecord
            /\ IdsInOrder

Inv == InheritanceTypeOK /\ Books /\ ClaimRegistry /\ NoTraces /\ DisputesHavePlans

-----------------------------------------------------------------------------
(* The type invariant, by groups of variables *)

PlanTypes ==
    /\ plan \in [Plans -> Plan \cup {NoPlan}]
    /\ next_plan_id \in 1..(MaxPlans + 1)
    /\ user_plans \in [Users -> SUBSET Plans]
    /\ deactivated \subseteq Plans
    /\ vault \in [Plans -> Nat]

Attempt == [start : 0..MaxTime, count : 0..CLAIM_MAX_ATTEMPTS_PER_WINDOW]

ClaimTypes ==
    /\ claimed \in [Plans -> SUBSET Emails]
    /\ attempts \in [Plans -> [Users -> Attempt]]
    /\ user_claimed \in [Users -> SUBSET Plans]
    /\ all_claimed \subseteq Plans

AccountTypes ==
    /\ kyc \in [Users -> SUBSET KycFlag]
    /\ roles \in [Users -> SUBSET Role]
    /\ blacklisted \subseteq Users
    /\ paused \in BOOLEAN

TriggerTypes ==
    /\ triggered \subseteq Plans
    /\ config \in [Plans -> TriggerConfig \cup {NoConfig}]

EmergencyTypes ==
    /\ guardians \in [Plans -> GuardianConfig \cup {NoGuardians}]
    /\ approvals \in [Plans -> [Users -> SUBSET Users]]
    /\ access \in [Plans -> EmergencyAccess \cup {NoAccess}]
    /\ contacts \in [Plans -> SUBSET Users]

DisputeTypes ==
    /\ disputes \in [DisputeIds -> Dispute \cup {NoDispute}]
    /\ next_dispute_id \in 0..MaxDisputes
    /\ frozen \subseteq Plans
    /\ arbitrators \subseteq Users

LEMMA TypeGroups ==
    InheritanceTypeOK <=> /\ PlanTypes /\ ClaimTypes /\ AccountTypes /\ TriggerTypes
                          /\ EmergencyTypes /\ DisputeTypes /\ now \in 1..MaxTime
BY DEF InheritanceTypeOK, PlanTypes, ClaimTypes, Attempt, AccountTypes, TriggerTypes,
   EmergencyTypes, DisputeTypes

LEMMA TypeGroupsNext ==
    InheritanceTypeOK' <=> /\ PlanTypes' /\ ClaimTypes' /\ AccountTypes' /\ TriggerTypes'
                           /\ EmergencyTypes' /\ DisputeTypes' /\ now' \in 1..MaxTime
BY DEF InheritanceTypeOK, PlanTypes, ClaimTypes, Attempt, AccountTypes, TriggerTypes,
   EmergencyTypes, DisputeTypes

LEMMA IdleTypes ==
    /\ PlanTypes /\ UNCHANGED <<planVars, vault>> => PlanTypes'
    /\ ClaimTypes /\ UNCHANGED claimVars => ClaimTypes'
    /\ AccountTypes /\ UNCHANGED accountVars => AccountTypes'
    /\ TriggerTypes /\ UNCHANGED triggerVars => TriggerTypes'
    /\ EmergencyTypes /\ UNCHANGED emergencyVars => EmergencyTypes'
    /\ DisputeTypes /\ UNCHANGED disputeVars => DisputeTypes'
<1>1. PlanTypes /\ UNCHANGED <<planVars, vault>> => PlanTypes'
  BY DEF PlanTypes, planVars
<1>2. ClaimTypes /\ UNCHANGED claimVars => ClaimTypes'
  BY DEF ClaimTypes, claimVars
<1>3. AccountTypes /\ UNCHANGED accountVars => AccountTypes'
  BY DEF AccountTypes, accountVars
<1>4. TriggerTypes /\ UNCHANGED triggerVars => TriggerTypes'
  BY DEF TriggerTypes, triggerVars
<1>5. EmergencyTypes /\ UNCHANGED emergencyVars => EmergencyTypes'
  BY DEF EmergencyTypes, emergencyVars
<1>6. DisputeTypes /\ UNCHANGED disputeVars => DisputeTypes'
  BY DEF DisputeTypes, disputeVars
<1>7. QED
  BY <1>1, <1>2, <1>3, <1>4, <1>5, <1>6

(* What is known of a stored plan. *)
LEMMA StoredPlan ==
    ASSUME PlanTypes, NEW p \in Plans, Exists(p)
    PROVE  /\ plan[p] \in Plan /\ plan[p] # NoPlan
           /\ plan[p].owner \in Users
           /\ plan[p].total_amount \in Nat /\ plan[p].total_amount <= U64_MAX
           /\ plan[p].beneficiaries \in Seq(Beneficiary)
           /\ plan[p].total_allocation_bp \in Nat
           /\ plan[p].wait \in Nat /\ plan[p].created_at \in Nat
           /\ \A i \in DOMAIN plan[p].beneficiaries :
                 plan[p].beneficiaries[i] \in Beneficiary
<1>1. plan[p] \in Plan /\ plan[p] # NoPlan
  BY DEF PlanTypes, Exists
<1>2. plan[p].beneficiaries \in Seq(Beneficiary)
  BY <1>1 DEF Plan
<1>3. \A i \in DOMAIN plan[p].beneficiaries : plan[p].beneficiaries[i] \in Beneficiary
  BY <1>2, LenProperties, ElementOfSeq
<1>4. /\ plan[p].owner \in Users /\ plan[p].total_allocation_bp \in Nat
      /\ plan[p].wait \in Nat /\ plan[p].created_at \in Nat
      /\ plan[p].total_amount \in 0..U64_MAX
  BY <1>1 DEF Plan, U64
<1>5. plan[p].total_amount \in Nat /\ plan[p].total_amount <= U64_MAX
  BY <1>4, InheritanceAssumption
<1>6. QED
  BY <1>1, <1>2, <1>3, <1>4, <1>5

LEMMA Ids ==
    ASSUME PlanTypes
    PROVE  next_plan_id \in Nat /\ \A p \in Plans : p \in Nat /\ p <= MaxPlans
BY InheritanceAssumption DEF PlanTypes, Plans

-----------------------------------------------------------------------------
(* Steps that rewrite one stored plan *)

\* Plan p is stored as q; no other plan, and no registry, is touched.
Rewrites(p, q) ==
    /\ q \in Plan
    /\ plan' = [plan EXCEPT ![p] = q]
    /\ UNCHANGED <<next_plan_id, user_plans, deactivated>>

LEMMA RewriteFacts ==
    ASSUME PlanTypes, NEW p \in Plans, Exists(p), NEW q, Rewrites(p, q)
    PROVE  /\ plan'[p] = q /\ q # NoPlan /\ Exists(p)'
           /\ \A r \in Plans \ {p} : plan'[r] = plan[r]
           /\ \A r \in Plans : Exists(r)' <=> Exists(r)
           /\ vault' \in [Plans -> Nat] => PlanTypes'
<1>1. q # NoPlan
  BY InheritanceAssumption DEF Rewrites
<1>2. plan'[p] = q /\ \A r \in Plans \ {p} : plan'[r] = plan[r]
  BY DEF Rewrites, PlanTypes
<1>3. plan' \in [Plans -> Plan \cup {NoPlan}]
  BY DEF Rewrites, PlanTypes
<1>4. QED
  BY <1>1, <1>2, <1>3 DEF Exists, PlanTypes, Rewrites

LEMMA RewriteKeepsBooks ==
    ASSUME PlanTypes, Books, NEW p \in Plans, Exists(p), NEW q, Rewrites(p, q),
           q.owner = plan[p].owner, q.is_active = plan[p].is_active, AddsUp(q),
           \A i \in DOMAIN q.beneficiaries :
              q.beneficiaries[i].is_claimed => q.beneficiaries[i].email \in claimed'[p],
           \A r \in Plans \ {p} : claimed'[r] = claimed[r]
    PROVE  Books'
<1>1. /\ plan'[p] = q /\ Exists(p)'
      /\ \A r \in Plans \ {p} : plan'[r] = plan[r]
      /\ \A r \in Plans : Exists(r)' <=> Exists(r)
  BY RewriteFacts
<1>2. AllocationsAddUp'
  BY <1>1 DEF Books, AllocationsAddUp, AddsUp
<1>3. RegistryMatchesOwners'
  <2>1. \A u \in Users, r \in Plans : Owns(u, r)' <=> Owns(u, r)
    BY <1>1 DEF Owns
  <2>2. \A r \in Plans : Exists(r) => plan'[r].is_active = plan[r].is_active
    BY <1>1
  <2>3. UNCHANGED <<user_plans, deactivated>>
    BY DEF Rewrites
  <2>4. \A u \in Users : user_plans'[u] = {r \in Plans : Owns(u, r)'}
    BY <2>1, <2>3 DEF Books, RegistryMatchesOwners
  <2>5. deactivated' = {r \in Plans : Exists(r)' /\ ~plan'[r].is_active}
    BY <1>1, <2>2, <2>3 DEF Books, RegistryMatchesOwners
  <2>6. QED
    BY <2>4, <2>5 DEF RegistryMatchesOwners
<1>4. ClaimedFlagHasRecord'
  BY <1>1 DEF Books, ClaimedFlagHasRecord
<1>5. IdsInOrder'
  BY <1>1 DEF Books, IdsInOrder, Rewrites
<1>6. QED
  BY <1>2, <1>3, <1>4, <1>5 DEF Books

\* Neither a plan nor anything its books are compared with.
LEMMA IdleBooks ==
    ASSUME Books, UNCHANGED <<planVars, claimed>>
    PROVE  Books' /\ \A p \in Plans : Exists(p)' <=> Exists(p)
<1> USE DEF planVars, Exists, Owns
<1>1. AllocationsAddUp'
  BY DEF Books, AllocationsAddUp
<1>2. RegistryMatchesOwners'
  BY DEF Books, RegistryMatchesOwners
<1>3. ClaimedFlagHasRecord'
  BY DEF Books, ClaimedFlagHasRecord
<1>4. IdsInOrder'
  BY DEF Books, IdsInOrder
<1>5. QED
  BY <1>1, <1>2, <1>3, <1>4 DEF Books

LEMMA IdleRegistry ==
    ASSUME ClaimRegistry, UNCHANGED <<claimed, user_claimed, all_claimed>>
    PROVE  ClaimRegistry'
BY DEF ClaimRegistry

\* Traces appear only on plans that exist.
LEMMA TracesStep ==
    ASSUME NoTraces, \A p \in Plans : Exists(p) => Exists(p)',
           \A p \in Plans : ~Exists(p)' =>
              /\ claimed'[p] = claimed[p] /\ vault'[p] = vault[p]
              /\ p \in triggered' => p \in triggered
              /\ p \in frozen' => p \in frozen
              /\ access'[p] # NoAccess => access[p] # NoAccess
    PROVE  NoTraces'
BY DEF NoTraces

LEMMA IdleDisputes ==
    ASSUME DisputeTypes, DisputesHavePlans, UNCHANGED disputes,
           \A p \in Plans : Exists(p) => Exists(p)'
    PROVE  DisputesHavePlans'
BY DEF DisputeTypes, DisputesHavePlans, Dispute

-----------------------------------------------------------------------------
(* The owner's edits of a plan *)

\* Heirs marked as paid are those of the list before, or recorded.
FlagsKept(p, heirs) ==
    \A i \in DOMAIN heirs : heirs[i].is_claimed => heirs[i].email \in claimed[p]

LEMMA OwnerEditKeepsInv ==
    ASSUME Inv, NEW u \in Users, NEW p \in Plans, NEW q \in Plan, OwnerEdit(u, p, q),
           q.owner = plan[p].owner, q.is_active = plan[p].is_active,
           q.total_amount = plan[p].total_amount, AddsUp(q), FlagsKept(p, q.beneficiaries)
    PROVE  Inv'
<1>1. /\ Exists(p) /\ Rewrites(p, q)
      /\ UNCHANGED <<vault, claimVars, accountVars, triggerVars, emergencyVars,
                     disputeVars, now>>
  BY DEF OwnerEdit, Owns, PlanStep, Rewrites
<1>2. /\ PlanTypes /\ ClaimTypes /\ AccountTypes /\ TriggerTypes /\ EmergencyTypes
      /\ DisputeTypes /\ now \in 1..MaxTime /\ Books /\ NoTraces
  BY TypeGroups DEF Inv
<1>3. UNCHANGED <<vault, claimed, triggered, frozen, access, disputes, now>>
  BY <1>1 DEF claimVars, triggerVars, disputeVars, emergencyVars
<1>4. InheritanceTypeOK'
  <2>1. PlanTypes'
    <3>1. vault' \in [Plans -> Nat]
      BY <1>2, <1>3 DEF PlanTypes
    <3>2. QED
      BY <1>1, <1>2, <3>1, RewriteFacts
  <2>2. QED
    BY <1>1, <1>2, <1>3, <2>1, IdleTypes, TypeGroupsNext
<1>5. Books'
  <2>1. \A i \in DOMAIN q.beneficiaries :
           q.beneficiaries[i].is_claimed => q.beneficiaries[i].email \in claimed'[p]
    BY <1>3 DEF FlagsKept
  <2>2. QED
    BY <1>1, <1>2, <1>3, <2>1, RewriteKeepsBooks
<1>6. \A r \in Plans : Exists(r)' <=> Exists(r)
  BY <1>1, <1>2, RewriteFacts
<1>7. NoTraces' /\ DisputesHavePlans'
  BY <1>2, <1>3, <1>6, TracesStep, IdleDisputes DEF Inv
<1>8. ClaimRegistry'
  BY <1>1, IdleRegistry DEF Inv, claimVars
<1>9. QED
  BY <1>4, <1>5, <1>7, <1>8 DEF Inv

\* What the invariant says of a stored plan.
LEMMA PlanFacts ==
    ASSUME Inv, NEW p \in Plans, Exists(p)
    PROVE  /\ AddsUp(plan[p]) /\ FlagsKept(p, plan[p].beneficiaries)
           /\ vault[p] \in Nat /\ PlanTypes /\ plan[p] \in Plan /\ plan[p].owner \in Users
           /\ plan[p].beneficiaries \in Seq(Beneficiary)
           /\ IsRoster(plan[p].beneficiaries, Len(plan[p].beneficiaries))
<1>1. PlanTypes
  BY TypeGroups DEF Inv
<1>2. plan[p].beneficiaries \in Seq(Beneficiary) /\ plan[p] \in Plan /\ plan[p].owner \in Users
  BY <1>1, StoredPlan
<1>3. AddsUp(plan[p])
  BY DEF Inv, Books, AllocationsAddUp, AddsUp
<1>4. FlagsKept(p, plan[p].beneficiaries)
  BY DEF Inv, Books, ClaimedFlagHasRecord, FlagsKept
<1>5. vault[p] \in Nat
  BY <1>1 DEF PlanTypes
<1>6. QED
  BY <1>1, <1>2, <1>3, <1>4, <1>5, RosterOf

LEMMA AppendKeepsInv ==
    ASSUME Inv, NEW u \in Users, NEW p \in Plans, NEW h \in NewHeirs, AppendHeir(u, p, h)
    PROVE  Inv'
<1> DEFINE heirs == plan[p].beneficiaries
           b == create_beneficiary(h, Len(heirs) + 1)
           q == [plan[p] EXCEPT !.beneficiaries = Append(heirs, b),
                                !.total_allocation_bp =
                                    plan[p].total_allocation_bp + h.allocation_bp]
<1>1. /\ Owns(u, p) /\ Exists(p) /\ Len(heirs) < MAX_BENEFICIARIES
      /\ plan[p].total_allocation_bp + h.allocation_bp <= BPS
      /\ OwnerEdit(u, p, q)
  BY DEF AppendHeir, Owns
<1>2. /\ AddsUp(plan[p]) /\ FlagsKept(p, heirs) /\ plan[p] \in Plan
      /\ heirs \in Seq(Beneficiary) /\ IsRoster(heirs, Len(heirs))
  BY <1>1, PlanFacts
<1>3. h \in HeirInput /\ h.allocation_bp \in Nat
  BY InheritanceAssumption DEF HeirInput
<1>4. b \in Beneficiary /\ ~b.is_claimed /\ b.allocation_bp = h.allocation_bp
  <2>1. Len(heirs) + 1 \in 1..MAX_BENEFICIARIES
    <3>1. MAX_BENEFICIARIES \in Nat
      BY InheritanceAssumption
    <3>2. Len(heirs) \in Nat
      BY <1>2 DEF IsRoster
    <3>3. QED
      BY <1>1, <3>1, <3>2
  <2>2. QED
    BY <1>3, <2>1 DEF create_beneficiary, Beneficiary, HeirInput
<1> HIDE DEF b
<1>5. /\ Append(heirs, b) \in Seq(Beneficiary)
      /\ Allocated(Append(heirs, b)) = Allocated(heirs) + h.allocation_bp
  BY <1>2, <1>4, AllocatedAppend
<1>6. /\ q.owner = plan[p].owner /\ q.is_active = plan[p].is_active
      /\ q.total_amount = plan[p].total_amount
      /\ q.beneficiaries = Append(heirs, b)
      /\ q.total_allocation_bp = plan[p].total_allocation_bp + h.allocation_bp
      /\ q \in Plan
  <2>1. plan[p].total_allocation_bp + h.allocation_bp \in Nat
    BY <1>2, <1>3 DEF Plan
  <2>2. QED
    BY <1>2, <1>5, <2>1 DEF Plan
<1>7. AddsUp(q)
  <2>1. Len(Append(heirs, b)) = Len(heirs) + 1 /\ Len(heirs) \in Nat
    BY <1>2, <1>4, LenProperties, AppendProperties
  <2>2. Len(q.beneficiaries) <= MAX_BENEFICIARIES
    <3>1. MAX_BENEFICIARIES \in Nat /\ Len(heirs) < MAX_BENEFICIARIES
      BY <1>1, InheritanceAssumption
    <3>2. Len(Append(heirs, b)) <= MAX_BENEFICIARIES
      BY <2>1, <3>1
    <3>3. QED
      BY <1>6, <3>2
  <2>3. QED
    BY <1>1, <1>2, <1>5, <1>6, <2>2 DEF AddsUp
<1>8. FlagsKept(p, q.beneficiaries)
  <2>1. /\ Len(Append(heirs, b)) = Len(heirs) + 1
        /\ DOMAIN Append(heirs, b) = 1..(Len(heirs) + 1)
        /\ \A i \in 1..Len(heirs) : Append(heirs, b)[i] = heirs[i]
        /\ Append(heirs, b)[Len(heirs) + 1] = b
    BY <1>2, <1>4, <1>5, AppendProperties, LenProperties
  <2>2. DOMAIN heirs = 1..Len(heirs) /\ Len(heirs) \in Nat
    BY <1>2, LenProperties
  <2>3. QED
    BY <1>2, <1>4, <1>6, <2>1, <2>2 DEF FlagsKept
<1> HIDE DEF q
<1>9. QED
  BY <1>1, <1>6, <1>7, <1>8, OwnerEditKeepsInv

LEMMA DropKeepsInv ==
    ASSUME Inv, NEW u \in Users, NEW p \in Plans, NEW i \in Removals, DropHeir(u, p, i)
    PROVE  Inv'
<1> DEFINE heirs == plan[p].beneficiaries
           q == [plan[p] EXCEPT !.beneficiaries = SwapRemove(plan[p].beneficiaries, i),
                                !.total_allocation_bp =
                                    plan[p].total_allocation_bp
                                       - plan[p].beneficiaries[i].allocation_bp]
<1>1. Owns(u, p) /\ Exists(p) /\ i \in DOMAIN heirs /\ OwnerEdit(u, p, q)
  BY DEF DropHeir, Owns
<1>2. /\ AddsUp(plan[p]) /\ FlagsKept(p, heirs) /\ plan[p] \in Plan
      /\ heirs \in Seq(Beneficiary) /\ IsRoster(heirs, Len(heirs))
  BY <1>1, PlanFacts
<1>3. /\ SwapRemove(heirs, i) \in Seq(Beneficiary)
      /\ Len(heirs) \in Nat /\ Len(heirs) >= 1 /\ i \in 1..Len(heirs)
      /\ Len(SwapRemove(heirs, i)) = Len(heirs) - 1
      /\ \A j \in 1..(Len(heirs) - 1) :
            SwapRemove(heirs, i)[j] = IF j = i THEN heirs[Len(heirs)] ELSE heirs[j]
  BY <1>1, <1>2, SwapRemoveList
<1>4. Allocated(SwapRemove(heirs, i)) = Allocated(heirs) - heirs[i].allocation_bp
  BY <1>1, <1>2, AllocatedSwapRemove
<1>5. /\ heirs[i].allocation_bp \in Nat /\ Allocated(heirs) \in Nat
      /\ heirs[i].allocation_bp <= Allocated(heirs)
  BY <1>2, <1>3, AllocatedIsSum DEF IsRoster
<1>6. plan[p].total_allocation_bp = Allocated(heirs) /\ plan[p].total_allocation_bp <= BPS
  BY <1>2 DEF AddsUp
<1>7. /\ q.owner = plan[p].owner /\ q.is_active = plan[p].is_active
      /\ q.total_amount = plan[p].total_amount
      /\ q.beneficiaries = SwapRemove(heirs, i)
      /\ q.total_allocation_bp = plan[p].total_allocation_bp - heirs[i].allocation_bp
      /\ q \in Plan
  <2>1. plan[p].total_allocation_bp - heirs[i].allocation_bp \in Nat
    BY <1>5, <1>6
  <2>2. QED
    BY <1>2, <1>3, <2>1 DEF Plan
<1>8. AddsUp(q)
  <2>1. BPS \in Nat
    BY InheritanceAssumption
  <2>2. Len(SwapRemove(heirs, i)) <= Len(heirs) /\ Len(heirs) \in Nat
    BY <1>2, <1>3, LenProperties
  <2>3. Len(q.beneficiaries) <= MAX_BENEFICIARIES
    <3>1. Len(heirs) <= MAX_BENEFICIARIES /\ MAX_BENEFICIARIES \in Nat
      BY <1>2, InheritanceAssumption DEF AddsUp
    <3>2. Len(SwapRemove(heirs, i)) \in Nat
      BY <1>3, LenProperties
    <3>3. QED
      BY <1>7, <2>2, <3>1, <3>2
  <2>4. QED
    BY <1>4, <1>5, <1>6, <1>7, <2>1, <2>3 DEF AddsUp
<1>9. FlagsKept(p, q.beneficiaries)
  <2>1. DOMAIN SwapRemove(heirs, i) = 1..(Len(heirs) - 1) /\ DOMAIN heirs = 1..Len(heirs)
    BY <1>2, <1>3, LenProperties
  <2>2. QED
    <3>1. ASSUME NEW j \in 1..(Len(heirs) - 1)
          PROVE  \E k \in DOMAIN heirs : SwapRemove(heirs, i)[j] = heirs[k]
      <4>1. j \in DOMAIN heirs /\ Len(heirs) \in DOMAIN heirs
        BY <1>3, <2>1, <3>1
      <4>2. SwapRemove(heirs, i)[j] = IF j = i THEN heirs[Len(heirs)] ELSE heirs[j]
        BY <1>3, <3>1
      <4>3. QED
        BY <4>1, <4>2
    <3>2. QED
      BY <1>2, <1>7, <2>1, <3>1 DEF FlagsKept
<1> HIDE DEF q
<1>10. QED
  BY <1>1, <1>7, <1>8, <1>9, OwnerEditKeepsInv

LEMMA ReweighKeepsInv ==
    ASSUME Inv, NEW u \in Users, NEW p \in Plans, NEW bps \in Allocations,
           batch_update_allocations(u, p, bps)
    PROVE  Inv'
<1> DEFINE heirs == plan[p].beneficiaries
           n == Len(heirs)
           list == [i \in DOMAIN bps |-> [plan[p].beneficiaries[i] EXCEPT !.allocation_bp = bps[i]]]
           q == [plan[p] EXCEPT !.beneficiaries = list, !.total_allocation_bp = BPS]
<1>1. /\ Owns(u, p) /\ Exists(p) /\ Len(bps) = n /\ SumFunction(bps) = BPS
      /\ OwnerEdit(u, p, q)
  BY DEF batch_update_allocations, Owns
<1>2. /\ AddsUp(plan[p]) /\ FlagsKept(p, heirs) /\ plan[p] \in Plan
      /\ heirs \in Seq(Beneficiary) /\ IsRoster(heirs, Len(heirs))
  BY <1>1, PlanFacts
<1>3. /\ n \in Nat /\ DOMAIN heirs = 1..n /\ \A i \in 1..n : heirs[i] \in Beneficiary
      /\ bps \in Seq(Nat) /\ DOMAIN bps = 1..n /\ bps = [i \in 1..n |-> bps[i]]
      /\ \A i \in 1..n : bps[i] \in Nat
  <2>1. bps \in Seq(Nat)
    BY InheritanceAssumption
  <2>2. QED
    BY <1>1, <1>2, <2>1, LenProperties, ElementOfSeq
<1>4. /\ DOMAIN list = 1..n
      /\ \A i \in 1..n : /\ list[i] \in Beneficiary /\ list[i].allocation_bp = bps[i]
                         /\ list[i].email = heirs[i].email
                         /\ list[i].is_claimed = heirs[i].is_claimed
  BY <1>3 DEF Beneficiary
<1>5. list \in Seq(Beneficiary) /\ IsRoster(list, n)
  <2>1. list \in [1..n -> Beneficiary]
    BY <1>3, <1>4
  <2> HIDE DEF list, n
  <2>2. list \in Seq(Beneficiary)
    BY <1>3, <2>1, SeqDef
  <2>3. QED
    BY <1>3, <1>4, <2>2 DEF IsRoster
<1>6. Allocated(list) = BPS
  <2>1. Shares(list) = bps
    BY <1>3, <1>4 DEF Shares
  <2>2. QED
    BY <1>1, <2>1 DEF Allocated, Shares
<1> HIDE DEF list
<1>7. /\ q.owner = plan[p].owner /\ q.is_active = plan[p].is_active
      /\ q.total_amount = plan[p].total_amount
      /\ q.beneficiaries = list /\ q.total_allocation_bp = BPS
      /\ q \in Plan
  <2>1. BPS \in Nat
    BY InheritanceAssumption
  <2>2. QED
    BY <1>2, <1>5, <2>1 DEF Plan
<1>8. AddsUp(q)
  <2>1. BPS \in Nat
    BY InheritanceAssumption
  <2>2. Len(list) = n
    BY <1>3, <1>4, <1>5, LenProperties
  <2>3. Len(q.beneficiaries) <= MAX_BENEFICIARIES
    BY <1>2, <1>7, <2>2 DEF AddsUp
  <2>4. QED
    BY <1>6, <1>7, <2>1, <2>3 DEF AddsUp
<1>9. FlagsKept(p, q.beneficiaries)
  BY <1>2, <1>3, <1>4, <1>7 DEF FlagsKept
<1> HIDE DEF q
<1>10. QED
  BY <1>1, <1>7, <1>8, <1>9, OwnerEditKeepsInv

\* An edit that leaves the heirs, the amount and the owner alone.
LEMMA SmallEditKeepsInv ==
    ASSUME Inv, NEW u \in Users, NEW p \in Plans, NEW q \in Plan, OwnerEdit(u, p, q),
           q.owner = plan[p].owner, q.is_active = plan[p].is_active,
           q.total_amount = plan[p].total_amount,
           q.beneficiaries = plan[p].beneficiaries,
           q.total_allocation_bp = plan[p].total_allocation_bp
    PROVE  Inv'
<1>1. Exists(p)
  BY DEF OwnerEdit, Owns
<1>2. AddsUp(plan[p]) /\ FlagsKept(p, plan[p].beneficiaries)
  BY <1>1, PlanFacts
<1>3. AddsUp(q) /\ FlagsKept(p, q.beneficiaries)
  BY <1>2 DEF AddsUp, FlagsKept
<1>4. QED
  BY <1>3, OwnerEditKeepsInv

LEMMA FlagEditsKeepInv ==
    ASSUME Inv, NEW u \in Users, NEW p \in Plans,
           \/ enable_waterfall_distribution(u, p)
           \/ \E lendable \in BOOLEAN : set_lendable(u, p, lendable)
    PROVE  Inv'
<1>1. Exists(p)
  BY DEF enable_waterfall_distribution, set_lendable, Owns
<1>2. plan[p] \in Plan
  BY <1>1, PlanFacts
<1>3. CASE enable_waterfall_distribution(u, p)
  <2> DEFINE q == [plan[p] EXCEPT !.waterfall_enabled = TRUE]
  <2>1. OwnerEdit(u, p, q)
    BY <1>3 DEF enable_waterfall_distribution
  <2>2. /\ q \in Plan /\ q.owner = plan[p].owner /\ q.is_active = plan[p].is_active
        /\ q.total_amount = plan[p].total_amount /\ q.beneficiaries = plan[p].beneficiaries
        /\ q.total_allocation_bp = plan[p].total_allocation_bp
    BY <1>2 DEF Plan
  <2> HIDE DEF q
  <2>3. QED
    BY <2>1, <2>2, SmallEditKeepsInv
<1>4. ASSUME NEW lendable \in BOOLEAN, set_lendable(u, p, lendable)
      PROVE  Inv'
  <2> DEFINE q == [plan[p] EXCEPT !.is_lendable = lendable]
  <2>1. OwnerEdit(u, p, q)
    BY <1>4 DEF set_lendable
  <2>2. /\ q \in Plan /\ q.owner = plan[p].owner /\ q.is_active = plan[p].is_active
        /\ q.total_amount = plan[p].total_amount /\ q.beneficiaries = plan[p].beneficiaries
        /\ q.total_allocation_bp = plan[p].total_allocation_bp
    BY <1>2 DEF Plan
  <2> HIDE DEF q
  <2>3. QED
    BY <2>1, <2>2, SmallEditKeepsInv
<1>5. QED
  BY <1>3, <1>4

LEMMA PriorityKeepsInv ==
    ASSUME Inv, NEW u \in Users, NEW p \in Plans, NEW i \in 1..MAX_BENEFICIARIES,
           NEW k \in Priorities, set_beneficiary_priority(u, p, i, k)
    PROVE  Inv'
<1> DEFINE heirs == plan[p].beneficiaries
           n == Len(heirs)
           b == [heirs[i] EXCEPT !.priority = k]
           list == [heirs EXCEPT ![i] = b]
           q == [plan[p] EXCEPT !.beneficiaries = list]
<1>1. Owns(u, p) /\ Exists(p) /\ i \in DOMAIN heirs
  BY DEF set_beneficiary_priority, Owns
<1>2. OwnerEdit(u, p, q)
  BY DEF set_beneficiary_priority
<1>3. /\ AddsUp(plan[p]) /\ FlagsKept(p, heirs) /\ plan[p] \in Plan
      /\ heirs \in Seq(Beneficiary) /\ IsRoster(heirs, n)
  BY <1>1, PlanFacts
<1>4. n \in Nat /\ DOMAIN heirs = 1..n /\ i \in 1..n /\ \A j \in 1..n : heirs[j] \in Beneficiary
  BY <1>1, <1>3, LenProperties, ElementOfSeq
<1>5. /\ b \in Beneficiary /\ b.allocation_bp = heirs[i].allocation_bp
      /\ b.email = heirs[i].email /\ b.is_claimed = heirs[i].is_claimed
  <2>1. k \in Nat
    BY InheritanceAssumption
  <2>2. QED
    BY <1>4, <2>1 DEF Beneficiary
<1> HIDE DEF b
<1>6. /\ list \in Seq(Beneficiary) /\ Len(list) = n /\ DOMAIN list = 1..n
      /\ \A j \in 1..n : list[j] = IF j = i THEN b ELSE heirs[j]
  <2>1. /\ list \in Seq(Beneficiary) /\ Len(list) = n
        /\ \A j \in 1..n : list[j] = IF j = i THEN b ELSE heirs[j]
    BY <1>3, <1>4, <1>5, ExceptSeq
  <2>2. QED
    BY <2>1, LenProperties
<1>7. IsRoster(list, n) /\ Allocated(list) = Allocated(heirs)
  <2>1. IsRoster(list, n)
    BY <1>6, RosterOf
  <2>2. \A j \in 1..n : list[j].allocation_bp = heirs[j].allocation_bp
    BY <1>5, <1>6
  <2>3. QED
    BY <1>3, <2>1, <2>2, AllocatedSame
<1> HIDE DEF list
<1>8. /\ q.owner = plan[p].owner /\ q.is_active = plan[p].is_active
      /\ q.total_amount = plan[p].total_amount
      /\ q.beneficiaries = list /\ q.total_allocation_bp = plan[p].total_allocation_bp
      /\ q \in Plan
  BY <1>3, <1>6 DEF Plan
<1>9. AddsUp(q) /\ FlagsKept(p, q.beneficiaries)
  <2>1. AddsUp(q)
    BY <1>3, <1>6, <1>7, <1>8 DEF AddsUp
  <2>2. FlagsKept(p, q.beneficiaries)
    BY <1>3, <1>4, <1>5, <1>6, <1>8 DEF FlagsKept
  <2>3. QED
    BY <2>1, <2>2
<1> HIDE DEF q
<1>10. QED
  BY <1>2, <1>8, <1>9, OwnerEditKeepsInv

\* A roster as it is stored: none of its heirs is marked as paid.
LEMMA EnrolledFacts ==
    ASSUME NEW roster \in Seq(HeirInput), ValidRoster(roster)
    PROVE  /\ Enrolled(roster) \in Seq(Beneficiary)
           /\ Len(Enrolled(roster)) <= MAX_BENEFICIARIES
           /\ Allocated(Enrolled(roster)) = Allocated(roster) /\ Allocated(roster) = BPS
           /\ \A i \in DOMAIN Enrolled(roster) : ~Enrolled(roster)[i].is_claimed
<1> DEFINE n == Len(roster)
<1>1. /\ n \in 1..MAX_BENEFICIARIES /\ n \in Nat /\ Allocated(roster) = BPS
      /\ DOMAIN roster = 1..n
      /\ \A i \in 1..n : roster[i] \in HeirInput
  BY LenProperties, ElementOfSeq DEF ValidRoster
<1>2. /\ DOMAIN Enrolled(roster) = 1..n
      /\ \A i \in 1..n : /\ Enrolled(roster)[i] \in Beneficiary
                         /\ ~Enrolled(roster)[i].is_claimed
                         /\ Enrolled(roster)[i].allocation_bp = roster[i].allocation_bp
  <2>1. \A i \in 1..n : i \in 1..MAX_BENEFICIARIES
    BY <1>1, InheritanceAssumption
  <2>2. QED
    BY <1>1, <2>1 DEF Enrolled, create_beneficiary, Beneficiary, HeirInput
<1>3. Enrolled(roster) \in Seq(Beneficiary)
  <2>1. Enrolled(roster) \in [1..n -> Beneficiary]
    BY <1>1, <1>2 DEF Enrolled
  <2>2. QED
    BY <1>1, <2>1, SeqDef
<1>4. IsRoster(roster, n) /\ IsRoster(Enrolled(roster), n)
  <2>1. IsRoster(roster, n)
    BY RosterOf
  <2>2. IsRoster(Enrolled(roster), n)
    BY <1>1, <1>2 DEF IsRoster, Beneficiary
  <2>3. QED
    BY <2>1, <2>2
<1>5. Allocated(Enrolled(roster)) = Allocated(roster)
  BY <1>2, <1>4, AllocatedSame
<1>6. Len(Enrolled(roster)) <= MAX_BENEFICIARIES
  BY <1>1, <1>2, <1>3, LenProperties
<1>7. QED
  BY <1>1, <1>2, <1>3, <1>5, <1>6

LEMMA UpdateKeepsInv ==
    ASSUME Inv, NEW u \in Users, NEW p \in Plans, NEW r \in UpdateRosters,
           NEW y \in EarnYields, update_plan(u, p, r, y)
    PROVE  Inv'
<1> DEFINE q == [plan[p] EXCEPT !.beneficiaries = Enrolled(r),
                                !.total_allocation_bp = Allocated(r),
                                !.earn_yield = y]
<1>1. Exists(p) /\ ValidRoster(r) /\ OwnerEdit(u, p, q)
  BY DEF update_plan, Owns
<1>2. plan[p] \in Plan
  BY <1>1, PlanFacts
<1>3. r \in Seq(HeirInput) /\ y \in BOOLEAN /\ BPS \in Nat
  BY InheritanceAssumption
<1>4. /\ Enrolled(r) \in Seq(Beneficiary)
      /\ Len(Enrolled(r)) <= MAX_BENEFICIARIES
      /\ Allocated(Enrolled(r)) = Allocated(r) /\ Allocated(r) = BPS
      /\ \A i \in DOMAIN Enrolled(r) : ~Enrolled(r)[i].is_claimed
  BY <1>1, <1>3, EnrolledFacts
<1>5. /\ q.owner = plan[p].owner /\ q.is_active = plan[p].is_active
      /\ q.total_amount = plan[p].total_amount
      /\ q.beneficiaries = Enrolled(r) /\ q.total_allocation_bp = BPS
      /\ q \in Plan
  BY <1>2, <1>3, <1>4 DEF Plan
<1>6. AddsUp(q) /\ FlagsKept(p, q.beneficiaries)
  <2>1. AddsUp(q)
    BY <1>3, <1>4, <1>5 DEF AddsUp
  <2>2. FlagsKept(p, q.beneficiaries)
    BY <1>4, <1>5 DEF FlagsKept
  <2>3. QED
    BY <2>1, <2>2
<1> HIDE DEF q
<1>7. QED
  BY <1>1, <1>5, <1>6, OwnerEditKeepsInv

-----------------------------------------------------------------------------
(* Plans come and change hands; funds move *)

\* Every type but those of the plans.
OtherTypes == /\ ClaimTypes /\ AccountTypes /\ TriggerTypes /\ EmergencyTypes
              /\ DisputeTypes /\ now \in 1..MaxTime

LEMMA RolesTyped ==
    ASSUME AccountTypes, NEW who \in SUBSET Users, NEW role \in Role
    PROVE  WithRole(who, role) \in [Users -> SUBSET Role]
BY DEF AccountTypes, WithRole

LEMMA FeeFacts ==
    ASSUME NEW amount \in U64
    PROVE  /\ amount \in Nat /\ amount <= U64_MAX
           /\ Fee(amount) \in Nat /\ amount - Fee(amount) <= U64_MAX
<1>1. amount \in Nat /\ amount <= U64_MAX /\ CREATION_FEE_BP \in Nat
  BY InheritanceAssumption DEF U64
<1>2. Share(amount, CREATION_FEE_BP) \in Nat
  BY <1>1, ShareFacts
<1>3. Fee(amount) \in Nat
  BY <1>2 DEF Fee
<1>4. QED
  BY <1>1, <1>3, InheritanceAssumption

LEMMA CreateKeepsInv ==
    ASSUME Inv, NEW u \in Owners, NEW x \in CreateAmounts, NEW r \in Rosters, NEW w \in Waits,
           NEW g \in CreateGuardians, NEW lendable \in BOOLEAN,
           create_inheritance_plan(u, x, r, w, lendable, g)
    PROVE  Inv'
<1>1. PICK p \in Plans : p = next_plan_id
  BY DEF create_inheritance_plan
<1> DEFINE net == x - Fee(x)
           q == [owner |-> u, total_amount |-> net, beneficiaries |-> Enrolled(r),
                 total_allocation_bp |-> Allocated(r), wait |-> w, created_at |-> now,
                 is_active |-> TRUE, is_lendable |-> lendable,
                 waterfall_enabled |-> FALSE, earn_yield |-> FALSE]
<1>2. /\ p \in Plans /\ net > 0 /\ ValidRoster(r)
      /\ plan' = [plan EXCEPT ![p] = q]
      /\ vault' = [vault EXCEPT ![p] = net]
      /\ next_plan_id' = p + 1
      /\ user_plans' = [user_plans EXCEPT ![u] = user_plans[u] \cup {p}]
      /\ guardians' = [guardians EXCEPT ![p] = g]
      /\ roles' = IF g = NoGuardians THEN roles ELSE WithRole(g.members, "Guardian")
      /\ UNCHANGED <<deactivated, kyc, blacklisted, paused, approvals, access, contacts>>
  BY <1>1 DEF create_inheritance_plan
<1>3. UNCHANGED <<claimVars, triggerVars, disputeVars, now>>
  BY DEF create_inheritance_plan, PlanStep
<1>4. PlanTypes /\ OtherTypes /\ Books /\ NoTraces /\ DisputesHavePlans /\ ClaimRegistry
  BY TypeGroups DEF Inv, OtherTypes
<1>5. /\ u \in Users /\ x \in U64 /\ r \in Seq(HeirInput) /\ w \in Nat
      /\ g \in GuardianConfig \cup {NoGuardians} /\ BPS \in Nat
  BY InheritanceAssumption
<1>6. net \in U64 /\ net \in Nat
  <2>1. x \in Nat /\ Fee(x) \in Nat /\ net <= U64_MAX /\ net > 0
    BY <1>2, <1>5, FeeFacts
  <2>2. net \in Nat
    BY <2>1
  <2> HIDE DEF net
  <2>3. QED
    BY <2>1, <2>2, InheritanceAssumption DEF U64
<1>7. /\ Enrolled(r) \in Seq(Beneficiary)
      /\ Len(Enrolled(r)) <= MAX_BENEFICIARIES
      /\ Allocated(Enrolled(r)) = Allocated(r) /\ Allocated(r) = BPS
      /\ \A i \in DOMAIN Enrolled(r) : ~Enrolled(r)[i].is_claimed
  BY <1>2, <1>5, EnrolledFacts
<1>8. q \in Plan /\ q # NoPlan
  <2>1. now \in Nat
    BY <1>4, InheritanceAssumption DEF OtherTypes
  <2>2. q \in Plan
    BY <1>5, <1>6, <1>7, <2>1 DEF Plan
  <2>3. QED
    BY <2>2, InheritanceAssumption
<1>9. /\ q.owner = u /\ q.total_amount = net /\ q.beneficiaries = Enrolled(r)
      /\ q.total_allocation_bp = BPS /\ q.is_active
  BY <1>7
<1> HIDE DEF q, net
<1>10. /\ plan'[p] = q /\ \A s \in Plans \ {p} : plan'[s] = plan[s]
      /\ vault'[p] = net /\ \A s \in Plans \ {p} : vault'[s] = vault[s]
  BY <1>2, <1>4 DEF PlanTypes
<1>11. /\ ~Exists(p) /\ Exists(p)'
       /\ \A s \in Plans \ {p} : Exists(s)' <=> Exists(s)
  <2>1. ~Exists(p)
    <3>1. p \in Nat /\ (Exists(p) <=> p < p)
      BY <1>1, <1>4, Ids DEF Books, IdsInOrder
    <3>2. QED
      BY <3>1
  <2>2. Exists(p)'
    BY <1>8, <1>10 DEF Exists
  <2>3. \A s \in Plans \ {p} : Exists(s)' <=> Exists(s)
    BY <1>10 DEF Exists
  <2>4. QED
    BY <2>1, <2>2, <2>3
<1>12. UNCHANGED <<claimed, triggered, frozen, access, disputes, now>>
  BY <1>2, <1>3 DEF claimVars, triggerVars, disputeVars
<1>13. InheritanceTypeOK'
  <2>1. PlanTypes'
    <3>1. p + 1 \in 1..(MaxPlans + 1)
      <4>1. MaxPlans \in Nat
        BY InheritanceAssumption
      <4>2. QED
        BY <4>1 DEF Plans
    <3>2. plan' \in [Plans -> Plan \cup {NoPlan}] /\ vault' \in [Plans -> Nat]
      BY <1>2, <1>4, <1>6, <1>8 DEF PlanTypes
    <3>3. user_plans' \in [Users -> SUBSET Plans] /\ deactivated' \subseteq Plans
      BY <1>2, <1>4, <1>5 DEF PlanTypes
    <3>4. QED
      BY <1>2, <3>1, <3>2, <3>3 DEF PlanTypes
  <2>2. AccountTypes'
    <3>1. roles' \in [Users -> SUBSET Role]
      <4>1. CASE g = NoGuardians
        BY <1>2, <1>4, <4>1 DEF OtherTypes, AccountTypes
      <4>2. CASE g # NoGuardians
        <5>1. g.members \in SUBSET Users /\ "Guardian" \in Role
          BY <1>5, <4>2 DEF GuardianConfig, Role
        <5>2. QED
          BY <1>2, <1>4, <4>2, <5>1, RolesTyped DEF OtherTypes
      <4>3. QED
        BY <4>1, <4>2
    <3>2. QED
      BY <1>2, <1>4, <3>1 DEF OtherTypes, AccountTypes
  <2>3. EmergencyTypes'
    BY <1>2, <1>4, <1>5 DEF OtherTypes, EmergencyTypes
  <2>4. ClaimTypes' /\ TriggerTypes' /\ DisputeTypes' /\ now' \in 1..MaxTime
    BY <1>3, <1>4, IdleTypes DEF OtherTypes
  <2>5. QED
    BY <2>1, <2>2, <2>3, <2>4, TypeGroupsNext
<1>14. Books'
  <2>1. AllocationsAddUp'
    BY <1>4, <1>5, <1>7, <1>9, <1>10, <1>11 DEF Books, AllocationsAddUp
  <2>2. RegistryMatchesOwners'
    <3>1. ASSUME NEW v \in Users PROVE user_plans'[v] = {s \in Plans : Owns(v, s)'}
      <4>1. user_plans[v] = {s \in Plans : Owns(v, s)}
        BY <1>4 DEF Books, RegistryMatchesOwners
      <4>2. \A s \in Plans \ {p} : Owns(v, s)' <=> Owns(v, s)
        BY <1>10, <1>11 DEF Owns
      <4>3. Owns(v, p)' <=> v = u
        BY <1>9, <1>10, <1>11 DEF Owns
      <4>4. ~Owns(v, p)
        BY <1>11 DEF Owns
      <4>5. user_plans'[v] = IF v = u THEN user_plans[v] \cup {p} ELSE user_plans[v]
        BY <1>2, <1>4, <1>5 DEF PlanTypes
      <4>6. QED
        BY <1>2, <4>1, <4>2, <4>3, <4>4, <4>5
    <3>2. deactivated' = {s \in Plans : Exists(s)' /\ ~plan'[s].is_active}
      <4>1. deactivated = {s \in Plans : Exists(s) /\ ~plan[s].is_active}
        BY <1>4 DEF Books, RegistryMatchesOwners
      <4>2. QED
        BY <1>2, <1>9, <1>10, <1>11, <4>1
    <3>3. QED
      BY <3>1, <3>2 DEF RegistryMatchesOwners
  <2>3. ClaimedFlagHasRecord'
    BY <1>4, <1>7, <1>9, <1>10, <1>11, <1>12 DEF Books, ClaimedFlagHasRecord
  <2>4. IdsInOrder'
    <3>1. p \in Nat /\ \A s \in Plans : s \in Nat /\ (s < p + 1 <=> s = p \/ s < p)
      BY <1>1, <1>4, Ids
    <3>2. \A s \in Plans : Exists(s) <=> s < p
      BY <1>1, <1>4 DEF Books, IdsInOrder
    <3>3. QED
      BY <1>2, <1>11, <3>1, <3>2 DEF IdsInOrder
  <2>5. QED
    BY <2>1, <2>2, <2>3, <2>4 DEF Books
<1>15. \A s \in Plans : Exists(s) => Exists(s)'
  BY <1>11
<1>16. NoTraces'
  BY <1>4, <1>10, <1>11, <1>12, <1>15, TracesStep
<1>17. DisputesHavePlans'
  BY <1>4, <1>12, <1>15, IdleDisputes DEF OtherTypes
<1>18. ClaimRegistry'
  BY <1>3, <1>4, IdleRegistry DEF claimVars
<1>19. QED
  BY <1>13, <1>14, <1>16, <1>17, <1>18 DEF Inv

\* A step that rewrites plan p, with its vault, claims, trigger and access.
LEMMA RewriteKeepsInv ==
    ASSUME Inv, NEW p \in Plans, Exists(p), NEW q, Rewrites(p, q),
           q.owner = plan[p].owner, q.is_active = plan[p].is_active, AddsUp(q),
           \A i \in DOMAIN q.beneficiaries :
              q.beneficiaries[i].is_claimed => q.beneficiaries[i].email \in claimed'[p],
           \A r \in Plans \ {p} :
              /\ claimed'[r] = claimed[r] /\ vault'[r] = vault[r]
              /\ r \in triggered' => r \in triggered
              /\ access'[r] # NoAccess => access[r] # NoAccess,
           vault' \in [Plans -> Nat],
           UNCHANGED disputeVars, OtherTypes', ClaimRegistry'
    PROVE  Inv'
<1>1. PlanTypes /\ OtherTypes /\ Books /\ NoTraces /\ DisputesHavePlans
  BY TypeGroups DEF Inv, OtherTypes
<1>2. PlanTypes' /\ Exists(p)' /\ \A r \in Plans : Exists(r)' <=> Exists(r)
  BY <1>1, RewriteFacts
<1>3. InheritanceTypeOK'
  BY <1>2, TypeGroupsNext DEF OtherTypes
<1>4. Books'
  BY <1>1, RewriteKeepsBooks
<1>5. UNCHANGED <<frozen, disputes>>
  BY DEF disputeVars
<1>6. NoTraces'
  BY <1>1, <1>2, <1>5, TracesStep
<1>7. DisputesHavePlans'
  BY <1>1, <1>2, <1>5, IdleDisputes DEF OtherTypes
<1>8. QED
  BY <1>3, <1>4, <1>6, <1>7 DEF Inv

LEMMA ExpiryFacts ==
    ASSUME EmergencyTypes, NEW p \in Plans
    PROVE  /\ AfterExpiry(p) \in [Plans -> EmergencyAccess \cup {NoAccess}]
           /\ \A r \in Plans : AfterExpiry(p)[r] # NoAccess => AfterExpiry(p)[r] = access[r]
           /\ AfterExpiry(p)[p] = IF AccessExpired(p) THEN NoAccess ELSE access[p]
BY DEF EmergencyTypes, AfterExpiry

LEMMA DepositKeepsInv ==
    ASSUME Inv, NEW u \in Users, NEW p \in Plans, NEW x \in DepositAmounts, deposit(u, p, x)
    PROVE  Inv'
<1> DEFINE q == [plan[p] EXCEPT !.total_amount = plan[p].total_amount + x]
<1>1. /\ Exists(p) /\ plan[p].total_amount + x <= U64_MAX
      /\ plan' = [plan EXCEPT ![p] = q]
      /\ vault' = [vault EXCEPT ![p] = vault[p] + x]
      /\ UNCHANGED <<next_plan_id, user_plans, deactivated, accountVars, emergencyVars>>
      /\ UNCHANGED <<claimVars, triggerVars, disputeVars, now>>
  BY DEF deposit, Owns, PlanStep
<1>2. /\ AddsUp(plan[p]) /\ FlagsKept(p, plan[p].beneficiaries) /\ plan[p] \in Plan
      /\ vault[p] \in Nat /\ PlanTypes
      /\ plan[p].total_amount \in Nat
  BY <1>1, PlanFacts, StoredPlan
<1>3. x \in Nat /\ U64_MAX \in Nat
  BY InheritanceAssumption DEF U64
<1>4. /\ q.owner = plan[p].owner /\ q.is_active = plan[p].is_active
      /\ q.total_amount = plan[p].total_amount + x
      /\ q.beneficiaries = plan[p].beneficiaries
      /\ q.total_allocation_bp = plan[p].total_allocation_bp
      /\ q \in Plan
  <2>1. plan[p].total_amount + x \in U64
    BY <1>1, <1>2, <1>3 DEF U64
  <2>2. QED
    BY <1>2, <2>1 DEF Plan
<1> HIDE DEF q
<1>5. UNCHANGED <<claimed, triggered, access>>
  BY <1>1 DEF claimVars, triggerVars, emergencyVars
<1>6. OtherTypes' /\ ClaimRegistry'
  <2>1. OtherTypes /\ ClaimRegistry
    BY TypeGroups DEF Inv, OtherTypes
  <2>2. OtherTypes'
    BY <1>1, <2>1, IdleTypes DEF OtherTypes
  <2>3. ClaimRegistry'
    BY <1>1, <2>1, IdleRegistry DEF claimVars
  <2>4. QED
    BY <2>2, <2>3
<1>7. /\ vault' \in [Plans -> Nat] /\ vault'[p] = vault[p] + x
      /\ \A r \in Plans \ {p} : vault'[r] = vault[r]
  BY <1>1, <1>2, <1>3 DEF PlanTypes
<1>8. Rewrites(p, q) /\ AddsUp(q)
  BY <1>1, <1>2, <1>3, <1>4, <1>7 DEF Rewrites, AddsUp
<1>9. \A i \in DOMAIN q.beneficiaries :
         q.beneficiaries[i].is_claimed => q.beneficiaries[i].email \in claimed'[p]
  BY <1>2, <1>4, <1>5 DEF FlagsKept
<1>10. QED
  BY <1>1, <1>4, <1>5, <1>6, <1>7, <1>8, <1>9, RewriteKeepsInv

LEMMA WithdrawKeepsInv ==
    ASSUME Inv, NEW u \in Users, NEW p \in Plans, NEW x \in WithdrawAmounts, withdraw(u, p, x)
    PROVE  Inv'
<1> DEFINE q == [plan[p] EXCEPT !.total_amount = plan[p].total_amount - x]
<1>1. /\ Exists(p) /\ x <= plan[p].total_amount /\ x <= vault[p]
      /\ plan' = [plan EXCEPT ![p] = q]
      /\ vault' = [vault EXCEPT ![p] = vault[p] - x]
      /\ access' = AfterExpiry(p)
      /\ UNCHANGED <<next_plan_id, user_plans, deactivated, accountVars,
                     guardians, approvals, contacts>>
      /\ UNCHANGED <<claimVars, triggerVars, disputeVars, now>>
  BY DEF withdraw, Owns, PlanStep
<1>2. /\ AddsUp(plan[p]) /\ FlagsKept(p, plan[p].beneficiaries) /\ plan[p] \in Plan
      /\ vault[p] \in Nat /\ PlanTypes
      /\ plan[p].total_amount \in Nat /\ plan[p].total_amount <= U64_MAX
  BY <1>1, PlanFacts, StoredPlan
<1>3. x \in Nat /\ U64_MAX \in Nat
  BY InheritanceAssumption DEF U64
<1>4. /\ q.owner = plan[p].owner /\ q.is_active = plan[p].is_active
      /\ q.total_amount = plan[p].total_amount - x
      /\ q.beneficiaries = plan[p].beneficiaries
      /\ q.total_allocation_bp = plan[p].total_allocation_bp
      /\ q \in Plan
  <2>1. plan[p].total_amount - x \in U64
    BY <1>1, <1>2, <1>3 DEF U64
  <2>2. QED
    BY <1>2, <2>1 DEF Plan
<1> HIDE DEF q
<1>5. UNCHANGED <<claimed, triggered>>
  BY <1>1 DEF claimVars, triggerVars
<1>6. /\ OtherTypes' /\ ClaimRegistry'
      /\ \A r \in Plans : access'[r] # NoAccess => access[r] # NoAccess
  <2>1. OtherTypes /\ ClaimRegistry
    BY TypeGroups DEF Inv, OtherTypes
  <2>2. /\ AfterExpiry(p) \in [Plans -> EmergencyAccess \cup {NoAccess}]
        /\ \A r \in Plans : AfterExpiry(p)[r] # NoAccess => AfterExpiry(p)[r] = access[r]
    BY <2>1, ExpiryFacts DEF OtherTypes
  <2>3. EmergencyTypes'
    BY <1>1, <2>1, <2>2 DEF OtherTypes, EmergencyTypes
  <2>4. OtherTypes'
    BY <1>1, <2>1, <2>3, IdleTypes DEF OtherTypes
  <2>5. ClaimRegistry'
    BY <1>1, <2>1, IdleRegistry DEF claimVars
  <2>6. QED
    BY <1>1, <2>2, <2>4, <2>5
<1>7. /\ vault' \in [Plans -> Nat] /\ vault'[p] = vault[p] - x
      /\ \A r \in Plans \ {p} : vault'[r] = vault[r]
  <2>1. vault[p] - x \in Nat
    BY <1>1, <1>2, <1>3
  <2>2. QED
    BY <1>1, <1>2, <2>1 DEF PlanTypes
<1>8. Rewrites(p, q) /\ AddsUp(q)
  BY <1>1, <1>2, <1>3, <1>4, <1>7 DEF Rewrites, AddsUp
<1>9. \A i \in DOMAIN q.beneficiaries :
         q.beneficiaries[i].is_claimed => q.beneficiaries[i].email \in claimed'[p]
  BY <1>2, <1>4, <1>5 DEF FlagsKept
<1>10. QED
  BY <1>1, <1>4, <1>5, <1>6, <1>7, <1>8, <1>9, RewriteKeepsInv

\* A plan's owner or status changes, and with it the list it is kept in.
LEMMA RelistKeepsInv ==
    ASSUME Inv, NEW p \in Plans, Exists(p), NEW q \in Plan,
           plan' = [plan EXCEPT ![p] = q],
           q.total_amount = plan[p].total_amount,
           q.beneficiaries = plan[p].beneficiaries,
           q.total_allocation_bp = plan[p].total_allocation_bp,
           user_plans' \in [Users -> SUBSET Plans], deactivated' \subseteq Plans,
           RegistryMatchesOwners',
           UNCHANGED <<next_plan_id, vault, claimVars, accountVars, triggerVars,
                       emergencyVars, disputeVars, now>>
    PROVE  Inv'
<1>1. PlanTypes /\ OtherTypes /\ Books /\ NoTraces /\ DisputesHavePlans /\ ClaimRegistry
  BY TypeGroups DEF Inv, OtherTypes
<1>2. /\ plan'[p] = q /\ \A r \in Plans \ {p} : plan'[r] = plan[r]
      /\ \A r \in Plans : Exists(r)' <=> Exists(r)
  BY <1>1, InheritanceAssumption DEF PlanTypes, Exists
<1>3. PlanTypes'
  BY <1>1 DEF PlanTypes
<1>4. UNCHANGED <<claimed, triggered, frozen, access, disputes, now>>
  BY DEF claimVars, triggerVars, disputeVars, emergencyVars
<1>5. InheritanceTypeOK'
  BY <1>1, <1>3, IdleTypes, TypeGroupsNext DEF OtherTypes
<1>6. Books'
  <2>1. AllocationsAddUp'
    BY <1>1, <1>2 DEF Books, AllocationsAddUp
  <2>2. ClaimedFlagHasRecord'
    BY <1>1, <1>2, <1>4 DEF Books, ClaimedFlagHasRecord
  <2>3. IdsInOrder'
    BY <1>1, <1>2 DEF Books, IdsInOrder
  <2>4. QED
    BY <2>1, <2>2, <2>3 DEF Books
<1>7. NoTraces' /\ DisputesHavePlans'
  BY <1>1, <1>2, <1>4, TracesStep, IdleDisputes DEF OtherTypes
<1>8. ClaimRegistry'
  BY <1>1, IdleRegistry DEF claimVars
<1>9. QED
  BY <1>5, <1>6, <1>7, <1>8 DEF Inv

LEMMA DeactivateKeepsInv ==
    ASSUME Inv, NEW u \in Users, NEW p \in Plans, deactivate_inheritance_plan(u, p)
    PROVE  Inv'
<1> DEFINE q == [plan[p] EXCEPT !.is_active = FALSE]
<1>1. /\ Exists(p) /\ plan' = [plan EXCEPT ![p] = q]
      /\ deactivated' = deactivated \cup {p}
      /\ UNCHANGED <<next_plan_id, user_plans, vault, accountVars, emergencyVars>>
      /\ UNCHANGED <<claimVars, triggerVars, disputeVars, now>>
  BY DEF deactivate_inheritance_plan, Owns, PlanStep
<1>2. PlanTypes /\ plan[p] \in Plan /\ Books
  BY <1>1, PlanFacts DEF Inv
<1>3. /\ q \in Plan /\ q.owner = plan[p].owner /\ ~q.is_active
      /\ q.total_amount = plan[p].total_amount
      /\ q.beneficiaries = plan[p].beneficiaries
      /\ q.total_allocation_bp = plan[p].total_allocation_bp
  BY <1>2 DEF Plan
<1> HIDE DEF q
<1>4. /\ plan'[p] = q /\ \A r \in Plans \ {p} : plan'[r] = plan[r]
      /\ \A r \in Plans : Exists(r)' <=> Exists(r)
  BY <1>1, <1>2, <1>3, InheritanceAssumption DEF PlanTypes, Exists
<1>5. RegistryMatchesOwners'
  <2>1. \A v \in Users, r \in Plans : Owns(v, r)' <=> Owns(v, r)
    BY <1>3, <1>4 DEF Owns
  <2>2. \A v \in Users : user_plans'[v] = {r \in Plans : Owns(v, r)'}
    BY <1>1, <1>2, <2>1 DEF Books, RegistryMatchesOwners
  <2>3. deactivated' = {r \in Plans : Exists(r)' /\ ~plan'[r].is_active}
    <3>1. deactivated = {r \in Plans : Exists(r) /\ ~plan[r].is_active}
      BY <1>2 DEF Books, RegistryMatchesOwners
    <3>2. QED
      BY <1>1, <1>3, <1>4, <3>1
  <2>4. QED
    BY <2>2, <2>3 DEF RegistryMatchesOwners
<1>6. user_plans' \in [Users -> SUBSET Plans] /\ deactivated' \subseteq Plans
  BY <1>1, <1>2 DEF PlanTypes
<1>7. QED
  BY <1>1, <1>3, <1>5, <1>6, RelistKeepsInv

\* The lists follow the plan, to oneself included.
LEMMA TransferKeepsInv ==
    ASSUME Inv, NEW u \in Users, NEW v \in NewOwners, NEW p \in Plans,
           transfer_plan_ownership(u, v, p)
    PROVE  Inv'
<1> DEFINE q == [plan[p] EXCEPT !.owner = v]
<1>1. /\ Exists(p) /\ plan[p].owner = u /\ plan' = [plan EXCEPT ![p] = q]
      /\ user_plans' = [w \in Users |-> (user_plans[w] \ (IF w = u THEN {p} ELSE {}))
                                           \cup (IF w = v THEN {p} ELSE {})]
      /\ UNCHANGED <<next_plan_id, deactivated, vault, accountVars, emergencyVars>>
      /\ UNCHANGED <<claimVars, triggerVars, disputeVars, now>>
  BY DEF transfer_plan_ownership, Owns, PlanStep
<1>2. PlanTypes /\ plan[p] \in Plan /\ Books /\ v \in Users
  BY <1>1, PlanFacts, InheritanceAssumption DEF Inv
<1>3. /\ q \in Plan /\ q.owner = v /\ q.is_active = plan[p].is_active
      /\ q.total_amount = plan[p].total_amount
      /\ q.beneficiaries = plan[p].beneficiaries
      /\ q.total_allocation_bp = plan[p].total_allocation_bp
  BY <1>2 DEF Plan
<1> HIDE DEF q
<1>4. /\ plan'[p] = q /\ \A r \in Plans \ {p} : plan'[r] = plan[r]
      /\ \A r \in Plans : Exists(r)' <=> Exists(r)
  BY <1>1, <1>2, <1>3, InheritanceAssumption DEF PlanTypes, Exists
<1>5. RegistryMatchesOwners'
  <2>1. ASSUME NEW w \in Users PROVE user_plans'[w] = {r \in Plans : Owns(w, r)'}
    <3>1. user_plans[w] = {r \in Plans : Owns(w, r)}
      BY <1>2 DEF Books, RegistryMatchesOwners
    <3>2. \A r \in Plans \ {p} : Owns(w, r)' <=> Owns(w, r)
      BY <1>4 DEF Owns
    <3>3. (Owns(w, p)' <=> w = v) /\ (Owns(w, p) <=> w = u)
      BY <1>1, <1>3, <1>4 DEF Owns
    <3>4. user_plans'[w] = (user_plans[w] \ (IF w = u THEN {p} ELSE {}))
                              \cup (IF w = v THEN {p} ELSE {})
      BY <1>1
    <3>5. QED
      BY <3>1, <3>2, <3>3, <3>4
  <2>2. deactivated' = {r \in Plans : Exists(r)' /\ ~plan'[r].is_active}
    <3>1. deactivated = {r \in Plans : Exists(r) /\ ~plan[r].is_active}
      BY <1>2 DEF Books, RegistryMatchesOwners
    <3>2. \A r \in Plans : Exists(r) => plan'[r].is_active = plan[r].is_active
      BY <1>3, <1>4
    <3>3. QED
      BY <1>1, <1>4, <3>1, <3>2
  <2>3. QED
    BY <2>1, <2>2 DEF RegistryMatchesOwners
<1>6. user_plans' \in [Users -> SUBSET Plans] /\ deactivated' \subseteq Plans
  BY <1>1, <1>2 DEF PlanTypes
<1>7. QED
  BY <1>1, <1>3, <1>5, <1>6, RelistKeepsInv

LEMMA PlanNextKeepsInv ==
    ASSUME Inv, PlanNext
    PROVE  Inv'
<1>1. CASE \E u \in Owners, x \in CreateAmounts, r \in Rosters, w \in Waits,
              g \in CreateGuardians, lendable \in BOOLEAN :
              create_inheritance_plan(u, x, r, w, lendable, g)
  BY <1>1, CreateKeepsInv
<1>2. ASSUME NEW u \in Users, NEW p \in Plans,
             \E h \in NewHeirs : add_beneficiary(u, p, h) \/ batch_add_beneficiaries(u, p, h)
      PROVE  Inv'
  BY <1>2, AppendKeepsInv DEF add_beneficiary, batch_add_beneficiaries
<1>3. ASSUME NEW u \in Users, NEW p \in Plans,
             \E i \in Removals : remove_beneficiary(u, p, i) \/ batch_remove_beneficiaries(u, p, i)
      PROVE  Inv'
  BY <1>3, DropKeepsInv DEF remove_beneficiary, batch_remove_beneficiaries
<1>4. ASSUME NEW u \in Users, NEW p \in Plans, NEW lendable \in Lendable,
             set_lendable(u, p, lendable)
      PROVE  Inv'
  <2>1. lendable \in BOOLEAN
    BY InheritanceAssumption
  <2>2. QED
    BY <1>4, <2>1, FlagEditsKeepInv
<1>5. ASSUME NEW u \in Users, NEW p \in Plans,
             \/ \E bps \in Allocations : batch_update_allocations(u, p, bps)
             \/ \E i \in 1..MAX_BENEFICIARIES, k \in Priorities :
                   set_beneficiary_priority(u, p, i, k)
             \/ "waterfall" \in Switches /\ enable_waterfall_distribution(u, p)
             \/ \E r \in UpdateRosters, y \in EarnYields : update_plan(u, p, r, y)
             \/ "deactivate" \in Switches /\ deactivate_inheritance_plan(u, p)
             \/ \E v \in NewOwners : transfer_plan_ownership(u, v, p)
             \/ \E x \in DepositAmounts : deposit(u, p, x)
             \/ \E x \in WithdrawAmounts : withdraw(u, p, x)
      PROVE  Inv'
  BY <1>5, ReweighKeepsInv, PriorityKeepsInv, FlagEditsKeepInv, UpdateKeepsInv,
     DeactivateKeepsInv, TransferKeepsInv, DepositKeepsInv, WithdrawKeepsInv
<1>6. QED
  BY <1>1, <1>2, <1>3, <1>4, <1>5 DEF PlanNext

-----------------------------------------------------------------------------
(* Accounts, triggers, emergency access, disputes *)

\* A step that leaves plans, vaults and claims alone.
LEMMA QuietKeepsInv ==
    ASSUME Inv, UNCHANGED <<planVars, vault, claimVars, triggered>>, OtherTypes',
           \A p \in frozen' : p \in frozen \/ Exists(p),
           \A p \in Plans : access'[p] # NoAccess => access[p] # NoAccess \/ Exists(p),
           DisputesHavePlans'
    PROVE  Inv'
<1>1. PlanTypes /\ Books /\ NoTraces /\ ClaimRegistry
  BY TypeGroups DEF Inv
<1>2. UNCHANGED <<plan, vault, claimed, user_claimed, all_claimed, triggered>>
  BY DEF planVars, claimVars
<1>3. InheritanceTypeOK'
  BY <1>1, IdleTypes, TypeGroupsNext DEF OtherTypes
<1>4. Books' /\ \A p \in Plans : Exists(p)' <=> Exists(p)
  BY <1>1, <1>2, IdleBooks
<1>5. NoTraces'
  BY <1>1, <1>2, <1>4, TracesStep
<1>6. ClaimRegistry'
  BY <1>1, <1>2, IdleRegistry
<1>7. QED
  BY <1>3, <1>4, <1>5, <1>6 DEF Inv

LEMMA IdleDisputesToo ==
    ASSUME Inv, UNCHANGED <<planVars, disputes>>
    PROVE  DisputesHavePlans'
<1>1. UNCHANGED plan /\ DisputeTypes /\ DisputesHavePlans
  BY TypeGroups DEF planVars, Inv
<1>2. QED
  BY <1>1, IdleDisputes DEF Exists

LEMMA AccountNextKeepsInv ==
    ASSUME Inv, AccountNext
    PROVE  Inv'
<1>1. OtherTypes
  BY TypeGroups DEF Inv, OtherTypes
<1>2. AccountStep /\ AccountTypes'
  <2>1. ASSUME NEW u \in KycUsers,
               submit_kyc(u) \/ reject_kyc(u) \/ approve_kyc(u) \/ batch_approve_kyc(u)
        PROVE  AccountStep /\ AccountTypes'
    <3>1. u \in Users
      BY InheritanceAssumption
    <3>2. /\ AccountStep /\ UNCHANGED <<roles, blacklisted, paused>>
          /\ \E flag \in KycFlag : kyc' = [kyc EXCEPT ![u] = @ \cup {flag}]
      BY <2>1 DEF submit_kyc, reject_kyc, approve_kyc, batch_approve_kyc, ApproveKyc, KycFlag
    <3>3. QED
      BY <1>1, <3>1, <3>2 DEF OtherTypes, AccountTypes
  <2>2. ASSUME NEW g \in RoleGrants, assign_role(g[1], g[2]) \/ revoke_role(g[1], g[2])
        PROVE  AccountStep /\ AccountTypes'
    <3>1. g[1] \in Users /\ g[2] \in Role
      BY InheritanceAssumption
    <3>2. AccountStep /\ UNCHANGED <<kyc, blacklisted, paused>>
      BY <2>2 DEF assign_role, revoke_role
    <3>3. roles' \in [Users -> SUBSET Role]
      <4>1. CASE assign_role(g[1], g[2])
        <5>1. roles' = WithRole({g[1]}, g[2])
          BY <4>1 DEF assign_role
        <5>2. QED
          BY <1>1, <3>1, <5>1, RolesTyped DEF OtherTypes
      <4>2. CASE revoke_role(g[1], g[2])
        BY <1>1, <3>1, <4>2 DEF revoke_role, OtherTypes, AccountTypes
      <4>3. QED
        BY <2>2, <4>1, <4>2
    <3>4. QED
      BY <1>1, <3>2, <3>3 DEF OtherTypes, AccountTypes
  <2>3. ASSUME NEW u \in Sanctioned, blacklist_address(u) \/ unblacklist_address(u)
        PROVE  AccountStep /\ AccountTypes'
    <3>1. u \in Users
      BY InheritanceAssumption
    <3>2. QED
      BY <1>1, <2>3, <3>1 DEF blacklist_address, unblacklist_address, OtherTypes, AccountTypes
  <2>4. ASSUME NEW on \in Pauses, pause(on)
        PROVE  AccountStep /\ AccountTypes'
    <3>1. on \in BOOLEAN
      BY InheritanceAssumption
    <3>2. QED
      BY <1>1, <2>4, <3>1 DEF pause, OtherTypes, AccountTypes
  <2>5. QED
    BY <2>1, <2>2, <2>3, <2>4 DEF AccountNext
<1>3. OtherTypes'
  BY <1>1, <1>2, IdleTypes DEF OtherTypes, AccountStep
<1>4. UNCHANGED <<planVars, vault, claimVars, triggered, frozen, access, disputes>>
  BY <1>2 DEF AccountStep, triggerVars, emergencyVars, disputeVars
<1>5. QED
  BY <1>3, <1>4, QuietKeepsInv, IdleDisputesToo

\* Only the stored conditions of plan p change.
LEMMA SaveConfigKeepsInv ==
    ASSUME Inv, NEW p \in Plans, NEW c \in TriggerConfig, SaveConfig(p, c)
    PROVE  Inv'
<1>1. OtherTypes
  BY TypeGroups DEF Inv, OtherTypes
<1>2. /\ config' = [config EXCEPT ![p] = c]
      /\ UNCHANGED <<planVars, vault, claimVars, accountVars, triggered, emergencyVars,
                     disputeVars, now>>
  BY DEF SaveConfig, TriggerStep, planVars
<1>3. TriggerTypes'
  BY <1>1, <1>2 DEF OtherTypes, TriggerTypes
<1>4. OtherTypes'
  BY <1>1, <1>2, <1>3, IdleTypes DEF OtherTypes
<1>5. UNCHANGED <<frozen, access, disputes>>
  BY <1>2 DEF emergencyVars, disputeVars
<1>6. QED
  BY <1>2, <1>4, <1>5, QuietKeepsInv, IdleDisputesToo

LEMMA TriggerKeepsInv ==
    ASSUME Inv, NEW p \in Plans, Exists(p), Trigger(p)
    PROVE  Inv'
<1> DEFINE q == [plan[p] EXCEPT !.is_lendable = FALSE]
<1>1. /\ triggered' = triggered \cup {p} /\ plan' = [plan EXCEPT ![p] = q]
      /\ UNCHANGED <<config, next_plan_id, user_plans, deactivated, vault, claimVars,
                     accountVars, emergencyVars, disputeVars, now>>
  BY DEF Trigger, TriggerStep
<1>2. /\ AddsUp(plan[p]) /\ FlagsKept(p, plan[p].beneficiaries) /\ plan[p] \in Plan
      /\ PlanTypes
  BY PlanFacts
<1>3. /\ q \in Plan /\ q.owner = plan[p].owner /\ q.is_active = plan[p].is_active
      /\ q.total_amount = plan[p].total_amount
      /\ q.beneficiaries = plan[p].beneficiaries
      /\ q.total_allocation_bp = plan[p].total_allocation_bp
  BY <1>2 DEF Plan
<1> HIDE DEF q
<1>4. UNCHANGED <<claimed, access>>
  BY <1>1 DEF claimVars, emergencyVars
<1>5. OtherTypes' /\ ClaimRegistry'
  <2>1. OtherTypes /\ ClaimRegistry
    BY TypeGroups DEF Inv, OtherTypes
  <2>2. TriggerTypes'
    BY <1>1, <2>1 DEF OtherTypes, TriggerTypes
  <2>3. OtherTypes'
    BY <1>1, <2>1, <2>2, IdleTypes DEF OtherTypes
  <2>4. ClaimRegistry'
    BY <1>1, <2>1, IdleRegistry DEF claimVars
  <2>5. QED
    BY <2>3, <2>4
<1>6. Rewrites(p, q) /\ AddsUp(q) /\ vault' \in [Plans -> Nat]
  BY <1>1, <1>2, <1>3 DEF Rewrites, AddsUp, PlanTypes
<1>7. \A i \in DOMAIN q.beneficiaries :
         q.beneficiaries[i].is_claimed => q.beneficiaries[i].email \in claimed'[p]
  BY <1>2, <1>3, <1>4 DEF FlagsKept
<1>8. QED
  BY <1>1, <1>3, <1>4, <1>5, <1>6, <1>7, RewriteKeepsInv

LEMMA ConfigFacts ==
    ASSUME Inv, NEW p \in Plans
    PROVE  /\ EmptyConfig \in TriggerConfig /\ ConfigOrEmpty(p) \in TriggerConfig
           /\ config[p] # NoConfig => config[p] \in TriggerConfig
           /\ now \in Nat
<1>1. now \in Nat /\ TriggerTypes
  BY TypeGroups, InheritanceAssumption DEF Inv
<1>2. EmptyConfig \in TriggerConfig
  BY <1>1 DEF EmptyConfig, TriggerConfig
<1>3. QED
  BY <1>1, <1>2 DEF ConfigOrEmpty, TriggerTypes

LEMMA ConditionsKeepInv ==
    ASSUME Inv, NEW p \in Plans,
           \/ \E u \in Users :
                 \/ \E s \in TriggerSetups : set_trigger_conditions(u, p, s)
                 \/ \E x \in TriggerDates : add_time_trigger(u, p, x)
                 \/ \E x \in InactivityPeriods : add_inactivity_trigger(u, p, x)
                 \/ \E o \in Oracles : add_oracle_trigger(u, p, o) \/ add_health_trigger(u, p, o)
                 \/ record_activity(u, p)
           \/ \E o \in Oracles : submit_oracle_trigger(o, p) \/ submit_health_trigger(o, p)
    PROVE  Inv'
<1> DEFINE b == ConfigOrEmpty(p)
<1>1. SUFFICES \E c \in TriggerConfig : SaveConfig(p, c)
  BY SaveConfigKeepsInv
<1>2. /\ EmptyConfig \in TriggerConfig /\ b \in TriggerConfig
      /\ config[p] # NoConfig => config[p] \in TriggerConfig
      /\ now \in Nat
  BY ConfigFacts
<1>3. /\ \A s \in TriggerSetups : s \in TriggerSetup
      /\ TriggerDates \cup InactivityPeriods \subseteq Nat
      /\ \A o \in Oracles : o \in Users
  BY TriggerAssumption
<1>4. ASSUME NEW u \in Users, NEW s \in TriggerSetups, set_trigger_conditions(u, p, s)
      PROVE  \E c \in TriggerConfig : SaveConfig(p, c)
  <2> DEFINE c == [EmptyConfig EXCEPT
                     !.conditions = s.conditions, !.trigger_date = s.trigger_date,
                     !.inactivity_period = s.inactivity_period,
                     !.oracle_address = s.oracle_address]
  <2>1. SaveConfig(p, c)
    BY <1>4 DEF set_trigger_conditions
  <2>2. c \in TriggerConfig
    BY <1>2, <1>3 DEF TriggerConfig, TriggerSetup
  <2>3. QED
    BY <2>1, <2>2
<1>5. ASSUME NEW u \in Users, NEW x \in TriggerDates, add_time_trigger(u, p, x)
      PROVE  \E c \in TriggerConfig : SaveConfig(p, c)
  <2> DEFINE c == [b EXCEPT !.conditions = b.conditions \cup {"Time"}, !.trigger_date = x]
  <2>1. SaveConfig(p, c)
    BY <1>5 DEF add_time_trigger
  <2>2. c \in TriggerConfig
    BY <1>2, <1>3 DEF TriggerConfig, Condition
  <2>3. QED
    BY <2>1, <2>2
<1>6. ASSUME NEW u \in Users, NEW x \in InactivityPeriods, add_inactivity_trigger(u, p, x)
      PROVE  \E c \in TriggerConfig : SaveConfig(p, c)
  <2> DEFINE c == [b EXCEPT !.conditions = b.conditions \cup {"Inactivity"},
                            !.inactivity_period = x,
                            !.last_activity = IF b.last_activity = 0 THEN now
                                              ELSE b.last_activity]
  <2>1. SaveConfig(p, c)
    BY <1>6 DEF add_inactivity_trigger
  <2>2. c \in TriggerConfig
    BY <1>2, <1>3 DEF TriggerConfig, Condition
  <2>3. QED
    BY <2>1, <2>2
<1>7. ASSUME NEW u \in Users, NEW o \in Oracles,
             add_oracle_trigger(u, p, o) \/ add_health_trigger(u, p, o)
      PROVE  \E c \in TriggerConfig : SaveConfig(p, c)
  <2> DEFINE c(cond) == [b EXCEPT !.conditions = b.conditions \cup {cond},
                                  !.oracle_address = o]
  <2>1. SaveConfig(p, c("Oracle")) \/ SaveConfig(p, c("Health"))
    BY <1>7 DEF add_oracle_trigger, add_health_trigger
  <2>2. c("Oracle") \in TriggerConfig /\ c("Health") \in TriggerConfig
    BY <1>2, <1>3 DEF TriggerConfig, Condition
  <2>3. QED
    BY <2>1, <2>2
<1>8. ASSUME NEW u \in Users, record_activity(u, p)
      PROVE  \E c \in TriggerConfig : SaveConfig(p, c)
  <2> DEFINE c == [config[p] EXCEPT !.last_activity = now]
  <2>1. SaveConfig(p, c) /\ config[p] # NoConfig
    BY <1>8 DEF record_activity
  <2>2. c \in TriggerConfig
    BY <1>2, <2>1 DEF TriggerConfig
  <2>3. QED
    BY <2>1, <2>2
<1>9. ASSUME NEW o \in Oracles, submit_oracle_trigger(o, p) \/ submit_health_trigger(o, p)
      PROVE  \E c \in TriggerConfig : SaveConfig(p, c)
  <2> DEFINE c == [config[p] EXCEPT !.oracle_triggered = TRUE]
             d == [config[p] EXCEPT !.health_triggered = TRUE]
  <2>1. (SaveConfig(p, c) \/ SaveConfig(p, d)) /\ config[p] # NoConfig
    BY <1>9 DEF submit_oracle_trigger, submit_health_trigger
  <2>2. c \in TriggerConfig /\ d \in TriggerConfig
    BY <1>2, <2>1 DEF TriggerConfig
  <2>3. QED
    BY <2>1, <2>2
<1>10. QED
  BY <1>4, <1>5, <1>6, <1>7, <1>8, <1>9

LEMMA TriggerNextKeepsInv ==
    ASSUME Inv, TriggerNext
    PROVE  Inv'
<1>1. PICK p \in Plans :
         \/ \E u \in Users :
               \/ \E s \in TriggerSetups : set_trigger_conditions(u, p, s)
               \/ \E x \in TriggerDates : add_time_trigger(u, p, x)
               \/ \E x \in InactivityPeriods : add_inactivity_trigger(u, p, x)
               \/ \E o \in Oracles : add_oracle_trigger(u, p, o) \/ add_health_trigger(u, p, o)
               \/ "activity" \in Switches /\ record_activity(u, p)
               \/ "trigger" \in Switches /\ trigger_inheritance(u, p)
         \/ \E o \in Oracles : submit_oracle_trigger(o, p) \/ submit_health_trigger(o, p)
         \/ auto_trigger_check(p)
         \/ \E signers \in Signers : guardian_emergency_trigger(p, signers)
         \/ "freeze_loans" \in Switches /\ freeze_loans(p)
  BY DEF TriggerNext
<1>2. CASE (\E u \in Users : trigger_inheritance(u, p)) \/ auto_trigger_check(p)
              \/ (\E signers \in Signers : guardian_emergency_trigger(p, signers))
              \/ freeze_loans(p)
  <2>1. Exists(p) /\ Trigger(p)
    BY <1>2 DEF trigger_inheritance, auto_trigger_check, guardian_emergency_trigger,
       freeze_loans, Triggerable
  <2>2. QED
    BY <2>1, TriggerKeepsInv
<1>3. QED
  BY <1>1, <1>2, ConditionsKeepInv

LEMMA EmergencyNextKeepsInv ==
    ASSUME Inv, EmergencyNext
    PROVE  Inv'
<1>1. PICK p \in Plans :
         \/ \E u \in Users :
               \/ \E g \in GuardianSets : set_guardians(u, p, g)
               \/ \E c \in EmergencyContacts :
                     add_emergency_contact(u, p, c) \/ remove_emergency_contact(u, p, c)
               \/ \E c \in TrustedContacts :
                     activate_emergency_access(u, p, c) \/ approve_emergency_access(u, p, c)
               \/ "revoke_access" \in Switches /\ deactivate_emergency_access(u, p)
         \/ get_emergency_access(p)
  BY DEF EmergencyNext
<1>2. OtherTypes /\ EmergencyTypes /\ AccountTypes
  BY TypeGroups DEF Inv, OtherTypes
<1>3. /\ AfterExpiry(p) \in [Plans -> EmergencyAccess \cup {NoAccess}]
      /\ \A r \in Plans : AfterExpiry(p)[r] # NoAccess => AfterExpiry(p)[r] = access[r]
  BY <1>2, ExpiryFacts
<1>4. \A c \in TrustedContacts :
         /\ Grant(p, c) \in [Plans -> EmergencyAccess \cup {NoAccess}]
         /\ \A r \in Plans \ {p} : Grant(p, c)[r] = AfterExpiry(p)[r]
  <2>1. now \in Nat
    BY <1>2, InheritanceAssumption DEF OtherTypes
  <2>2. ASSUME NEW c \in TrustedContacts
        PROVE  [trusted_contact |-> c, activated_at |-> now] \in EmergencyAccess
    BY <2>1, TriggerAssumption DEF EmergencyAccess
  <2>3. QED
    BY <1>3, <2>2 DEF Grant
<1>5. SUFFICES /\ EmergencyStep /\ EmergencyTypes' /\ roles' \in [Users -> SUBSET Role]
               /\ \A r \in Plans : access'[r] # NoAccess => access[r] # NoAccess \/ Exists(r)
  <2>1. ASSUME EmergencyStep, EmergencyTypes', roles' \in [Users -> SUBSET Role],
               \A r \in Plans : access'[r] # NoAccess => access[r] # NoAccess \/ Exists(r)
        PROVE  Inv'
    <3>1. AccountTypes'
      BY <1>2, <2>1 DEF EmergencyStep, AccountTypes
    <3>2. OtherTypes'
      BY <1>2, <2>1, <3>1, IdleTypes DEF OtherTypes, EmergencyStep
    <3>3. UNCHANGED <<planVars, vault, claimVars, triggered, frozen, disputes>>
      BY <2>1 DEF EmergencyStep, triggerVars, disputeVars
    <3>4. QED
      BY <2>1, <3>2, <3>3, QuietKeepsInv, IdleDisputesToo
  <2>2. QED
    BY <2>1
<1>6. ASSUME NEW u \in Users, NEW g \in GuardianSets, set_guardians(u, p, g)
      PROVE  /\ EmergencyStep /\ EmergencyTypes' /\ roles' \in [Users -> SUBSET Role]
             /\ \A r \in Plans : access'[r] # NoAccess => access[r] # NoAccess
  <2>1. /\ guardians' = [guardians EXCEPT ![p] = g] /\ roles' = WithRole(g.members, "Guardian")
        /\ UNCHANGED <<approvals, access, contacts>> /\ EmergencyStep
    BY <1>6 DEF set_guardians
  <2>2. g \in GuardianConfig /\ g.members \in SUBSET Users /\ "Guardian" \in Role
    BY TriggerAssumption DEF GuardianConfig, Role
  <2>3. roles' \in [Users -> SUBSET Role]
    BY <1>2, <2>1, <2>2, RolesTyped
  <2>4. EmergencyTypes'
    BY <1>2, <2>1, <2>2 DEF EmergencyTypes
  <2>5. QED
    BY <2>1, <2>3, <2>4
<1>7. ASSUME NEW u \in Users, NEW c \in EmergencyContacts,
             add_emergency_contact(u, p, c) \/ remove_emergency_contact(u, p, c)
      PROVE  /\ EmergencyStep /\ EmergencyTypes' /\ roles' \in [Users -> SUBSET Role]
             /\ \A r \in Plans : access'[r] # NoAccess => access[r] # NoAccess
  <2>1. /\ UNCHANGED <<roles, guardians, approvals, access>> /\ EmergencyStep
        /\ \/ contacts' = [contacts EXCEPT ![p] = contacts[p] \cup {c}]
           \/ contacts' = [contacts EXCEPT ![p] = contacts[p] \ {c}]
    BY <1>7 DEF add_emergency_contact, remove_emergency_contact
  <2>2. c \in Users
    BY TriggerAssumption
  <2>3. EmergencyTypes'
    BY <1>2, <2>1, <2>2 DEF EmergencyTypes
  <2>4. QED
    BY <1>2, <2>1, <2>3 DEF AccountTypes
<1>8. ASSUME NEW u \in Users, NEW c \in TrustedContacts,
             activate_emergency_access(u, p, c) \/ approve_emergency_access(u, p, c)
      PROVE  /\ EmergencyStep /\ EmergencyTypes' /\ roles' \in [Users -> SUBSET Role]
             /\ \A r \in Plans : access'[r] # NoAccess => access[r] # NoAccess \/ Exists(r)
  <2>1. /\ UNCHANGED <<roles, guardians, contacts>> /\ EmergencyStep /\ Exists(p)
        /\ access' = Grant(p, c) \/ access' = AfterExpiry(p)
    BY <1>8 DEF activate_emergency_access, approve_emergency_access, Owns
  <2>2. c \in Users
    BY TriggerAssumption
  <2>3. approvals' \in [Plans -> [Users -> SUBSET Users]]
    <3>1. CASE activate_emergency_access(u, p, c)
      BY <1>2, <3>1 DEF activate_emergency_access, EmergencyTypes
    <3>2. CASE approve_emergency_access(u, p, c)
      <4>1. approvals' = [approvals EXCEPT ![p] =
                            [approvals[p] EXCEPT ![c] = approvals[p][c] \cup {u}]]
        BY <3>2 DEF approve_emergency_access
      <4>2. [approvals[p] EXCEPT ![c] = approvals[p][c] \cup {u}] \in [Users -> SUBSET Users]
        BY <1>2, <2>2 DEF EmergencyTypes
      <4>3. QED
        BY <1>2, <4>1, <4>2 DEF EmergencyTypes
    <3>3. QED
      BY <1>8, <3>1, <3>2
  <2>4. access' \in [Plans -> EmergencyAccess \cup {NoAccess}]
    BY <1>3, <1>4, <2>1
  <2>5. EmergencyTypes'
    BY <1>2, <2>1, <2>3, <2>4 DEF EmergencyTypes
  <2>6. \A r \in Plans : access'[r] # NoAccess => access[r] # NoAccess \/ Exists(r)
    BY <1>3, <1>4, <2>1
  <2>7. QED
    BY <1>2, <2>1, <2>5, <2>6 DEF AccountTypes
<1>9. ASSUME get_emergency_access(p) \/ \E u \in Users : deactivate_emergency_access(u, p)
      PROVE  /\ EmergencyStep /\ EmergencyTypes' /\ roles' \in [Users -> SUBSET Role]
             /\ \A r \in Plans : access'[r] # NoAccess => access[r] # NoAccess
  <2>1. /\ UNCHANGED <<roles, guardians, approvals, contacts>> /\ EmergencyStep
        /\ access' = AfterExpiry(p) \/ access' = [access EXCEPT ![p] = NoAccess]
    BY <1>9 DEF get_emergency_access, deactivate_emergency_access
  <2>2. /\ access' \in [Plans -> EmergencyAccess \cup {NoAccess}]
        /\ \A r \in Plans : access'[r] # NoAccess => access[r] # NoAccess
    BY <1>2, <1>3, <2>1 DEF EmergencyTypes
  <2>3. QED
    BY <1>2, <2>1, <2>2 DEF AccountTypes, EmergencyTypes
<1>10. QED
  BY <1>1, <1>6, <1>7, <1>8, <1>9

\* A dispute is on record only for a plan that exists, which is all that is
\* ever frozen.
LEMMA DisputeNextKeepsInv ==
    ASSUME Inv, DisputeNext
    PROVE  Inv'
<1>1. OtherTypes /\ DisputeTypes /\ DisputesHavePlans
  BY TypeGroups DEF Inv, OtherTypes
<1>2. \A p \in Plans, s \in DisputeStatus : [plan_id |-> p, status |-> s] \in Dispute
  BY DEF Dispute
<1>3. \A d \in DisputeIds, s \in DisputeStatus :
         disputes[d] # NoDispute =>
            /\ disputes[d].plan_id \in Plans
            /\ [disputes[d] EXCEPT !.status = s] \in Dispute
            /\ [disputes[d] EXCEPT !.status = s].plan_id = disputes[d].plan_id
  BY <1>1 DEF DisputeTypes, Dispute
<1>4. SUFFICES /\ DisputeStep /\ DisputeTypes'
               /\ \A p \in frozen' : p \in frozen \/ Exists(p)
               /\ \A d \in DisputeIds : disputes'[d] # NoDispute =>
                     \/ disputes[d] # NoDispute /\ disputes'[d].plan_id = disputes[d].plan_id
                     \/ Exists(disputes'[d].plan_id)
  <2>1. ASSUME DisputeStep, DisputeTypes', \A p \in frozen' : p \in frozen \/ Exists(p),
               \A d \in DisputeIds : disputes'[d] # NoDispute =>
                  \/ disputes[d] # NoDispute /\ disputes'[d].plan_id = disputes[d].plan_id
                  \/ Exists(disputes'[d].plan_id)
        PROVE  Inv'
    <3>1. OtherTypes'
      BY <1>1, <2>1, IdleTypes DEF OtherTypes, DisputeStep
    <3>2. UNCHANGED <<planVars, plan, vault, claimVars, triggered, access>>
      BY <2>1 DEF DisputeStep, planVars, triggerVars, emergencyVars
    <3>3. DisputesHavePlans'
      BY <1>1, <2>1, <3>2 DEF DisputesHavePlans, Exists
    <3>4. QED
      BY <2>1, <3>1, <3>2, <3>3, QuietKeepsInv
  <2>2. QED
    BY <2>1
<1>5. ASSUME NEW p \in Plans, file_dispute(p) \/ raise_dispute(p)
      PROVE  /\ DisputeStep /\ DisputeTypes'
             /\ \A r \in frozen' : r \in frozen \/ Exists(r)
             /\ \A d \in DisputeIds : disputes'[d] # NoDispute =>
                   \/ disputes[d] # NoDispute /\ disputes'[d].plan_id = disputes[d].plan_id
                   \/ Exists(disputes'[d].plan_id)
  <2> DEFINE new == [plan_id |-> p, status |-> "Filed"]
  <2>1. /\ DisputeStep /\ Exists(p) /\ next_dispute_id \in DisputeIds
        /\ disputes' = [disputes EXCEPT ![next_dispute_id] = new]
        /\ next_dispute_id' = next_dispute_id + 1
        /\ UNCHANGED arbitrators
        /\ frozen' = frozen \/ frozen' = frozen \cup {p}
    BY <1>5 DEF file_dispute, raise_dispute, Record
  <2>2. new \in Dispute /\ new.plan_id = p
    BY <1>2 DEF DisputeStatus, OPEN
  <2> HIDE DEF new
  <2>3. next_dispute_id' \in 0..MaxDisputes
    BY <2>1, InheritanceAssumption DEF DisputeIds
  <2>4. disputes' \in [DisputeIds -> Dispute \cup {NoDispute}]
    BY <1>1, <2>1, <2>2 DEF DisputeTypes
  <2>5. DisputeTypes'
    BY <1>1, <2>1, <2>3, <2>4 DEF DisputeTypes
  <2>6. \A d \in DisputeIds : disputes'[d] = IF d = next_dispute_id THEN new ELSE disputes[d]
    BY <1>1, <2>1 DEF DisputeTypes
  <2>7. QED
    BY <2>1, <2>2, <2>5, <2>6
<1>6. ASSUME NEW p \in Plans, NEW verdict \in {"Resolved", "Rejected"}, resolve_dispute(p, verdict)
      PROVE  /\ DisputeStep /\ DisputeTypes'
             /\ \A r \in frozen' : r \in frozen
             /\ \A d \in DisputeIds : disputes'[d] # NoDispute =>
                   disputes[d] # NoDispute /\ disputes'[d].plan_id = disputes[d].plan_id
  <2>1. /\ DisputeStep /\ frozen' = frozen \ {p} /\ UNCHANGED <<next_dispute_id, arbitrators>>
        /\ disputes' = [d \in DisputeIds |->
                          IF d \in PlanDisputes(p) /\ disputes[d].status \in OPEN
                          THEN [disputes[d] EXCEPT !.status = verdict] ELSE disputes[d]]
    BY <1>6 DEF resolve_dispute
  <2>2. verdict \in DisputeStatus
    BY DEF DisputeStatus
  <2>3. \A d \in PlanDisputes(p) : disputes[d] # NoDispute
    BY DEF PlanDisputes
  <2>4. \A d \in DisputeIds :
           disputes'[d] = IF d \in PlanDisputes(p) /\ disputes[d].status \in OPEN
                          THEN [disputes[d] EXCEPT !.status = verdict] ELSE disputes[d]
    BY <2>1
  <2>5. ASSUME NEW d \in DisputeIds
        PROVE  /\ disputes'[d] \in Dispute \cup {NoDispute}
               /\ disputes'[d] # NoDispute =>
                     disputes[d] # NoDispute /\ disputes'[d].plan_id = disputes[d].plan_id
    BY <1>1, <1>3, <2>2, <2>3, <2>4 DEF DisputeTypes
  <2>6. DisputeTypes'
    BY <1>1, <2>1, <2>5 DEF DisputeTypes
  <2>7. QED
    BY <2>1, <2>5, <2>6
<1>7. ASSUME NEW a \in Arbitrators, NEW d \in DisputeIds, NEW verdict \in Verdicts,
             NEW freeze \in BOOLEAN, review_dispute(a, d, verdict, freeze)
      PROVE  /\ DisputeStep /\ DisputeTypes'
             /\ \A r \in frozen' : r \in frozen \/ Exists(r)
             /\ \A k \in DisputeIds : disputes'[k] # NoDispute =>
                   disputes[k] # NoDispute /\ disputes'[k].plan_id = disputes[k].plan_id
  <2> DEFINE new == [disputes[d] EXCEPT !.status = verdict]
  <2>1. /\ DisputeStep /\ disputes[d] # NoDispute
        /\ disputes' = [disputes EXCEPT ![d] = new]
        /\ frozen' = IF freeze THEN frozen \cup {disputes[d].plan_id} ELSE frozen
        /\ UNCHANGED <<next_dispute_id, arbitrators>>
    BY <1>7 DEF review_dispute
  <2>2. verdict \in DisputeStatus
    BY TriggerAssumption
  <2>3. new \in Dispute /\ new.plan_id = disputes[d].plan_id /\ disputes[d].plan_id \in Plans
    BY <1>3, <2>1, <2>2
  <2> HIDE DEF new
  <2>4. Exists(disputes[d].plan_id)
    BY <1>1, <2>1 DEF DisputesHavePlans
  <2>5. DisputeTypes'
    BY <1>1, <2>1, <2>3 DEF DisputeTypes
  <2>6. \A k \in DisputeIds : disputes'[k] = IF k = d THEN new ELSE disputes[k]
    BY <1>1, <2>1 DEF DisputeTypes
  <2>7. QED
    BY <2>1, <2>3, <2>4, <2>5, <2>6
<1>8. ASSUME \/ \E p \in Plans : unfreeze_plan(p)
             \/ \E a \in Arbitrators : add_arbitrator(a) \/ remove_arbitrator(a)
      PROVE  DisputeStep /\ DisputeTypes' /\ frozen' \subseteq frozen /\ disputes' = disputes
  <2>1. /\ DisputeStep /\ UNCHANGED <<disputes, next_dispute_id>> /\ frozen' \subseteq frozen
        /\ arbitrators' \subseteq arbitrators \cup Arbitrators
    BY <1>8 DEF unfreeze_plan, add_arbitrator, remove_arbitrator
  <2>2. Arbitrators \subseteq Users
    BY TriggerAssumption
  <2>3. QED
    BY <1>1, <2>1, <2>2 DEF DisputeTypes
<1>9. CASE \E p \in Plans : \/ "dispute" \in Switches /\ (file_dispute(p) \/ raise_dispute(p))
                            \/ \E verdict \in {"Resolved", "Rejected"} : resolve_dispute(p, verdict)
  BY <1>5, <1>6, <1>9
<1>10. CASE \E a \in Arbitrators, d \in DisputeIds, verdict \in Verdicts, freeze \in BOOLEAN :
               review_dispute(a, d, verdict, freeze)
  BY <1>7, <1>10
<1>11. CASE \/ \E p \in Plans : unfreeze_plan(p)
            \/ \E a \in Arbitrators : add_arbitrator(a) \/ remove_arbitrator(a)
  BY <1>8, <1>11
<1>12. QED
  BY <1>9, <1>10, <1>11 DEF DisputeNext

-----------------------------------------------------------------------------
(* Claims *)

LEMMA MatchFacts ==
    ASSUME PlanTypes, NEW p \in Plans, Exists(p), NEW e, NEW c, Matching(p, e, c) # {}
    PROVE  /\ Min(Matching(p, e, c)) \in DOMAIN plan[p].beneficiaries
           /\ plan[p].beneficiaries[Min(Matching(p, e, c))].email = e
<1>1. Matching(p, e, c) \subseteq DOMAIN plan[p].beneficiaries
  BY DEF Matching
<1>2. \A i \in Matching(p, e, c) : plan[p].beneficiaries[i].email = e
  BY DEF Matching
<1>3. DOMAIN plan[p].beneficiaries \subseteq Nat
  BY StoredPlan, LenProperties
<1>4. Min(Matching(p, e, c)) \in Matching(p, e, c)
  BY <1>1, <1>3, MinFacts
<1>5. QED
  BY <1>1, <1>2, <1>4

\* An heir gets at most its share, and never more than there is.
LEMMA PayoutFacts ==
    ASSUME PlanTypes, NEW p \in Plans, Exists(p), AddsUp(plan[p]),
           NEW i \in DOMAIN plan[p].beneficiaries
    PROVE  /\ plan[p].beneficiaries[i].allocation_bp \in Nat
           /\ Share(plan[p].total_amount, plan[p].beneficiaries[i].allocation_bp) \in Nat
           /\ Share(plan[p].total_amount, plan[p].beneficiaries[i].allocation_bp)
                 <= plan[p].total_amount
           /\ Payout(p, i) = Share(plan[p].total_amount, plan[p].beneficiaries[i].allocation_bp)
<1> DEFINE heirs == plan[p].beneficiaries
           amount == plan[p].total_amount
           bp == heirs[i].allocation_bp
           share == Share(amount, bp)
<1>1. amount \in Nat /\ heirs \in Seq(Beneficiary)
  BY StoredPlan
<1>2. IsRoster(heirs, Len(heirs)) /\ i \in 1..Len(heirs)
  BY <1>1, RosterOf, LenProperties
<1>3. bp \in Nat /\ bp <= Allocated(heirs) /\ Allocated(heirs) \in Nat
  BY <1>2, AllocatedIsSum DEF IsRoster
<1>4. bp <= BPS
  <2>1. BPS \in Nat /\ Allocated(heirs) <= BPS
    BY InheritanceAssumption DEF AddsUp
  <2>2. QED
    BY <1>3, <2>1
<1>5. share \in Nat /\ share <= amount
  BY <1>1, <1>3, <1>4, ShareFacts
<1>6. Min({share, amount}) = share
  <2> HIDE DEF share, amount
  <2>1. {share, amount} \in SUBSET Nat /\ {share, amount} # {}
    BY <1>1, <1>5
  <2>2. Min({share, amount}) \in {share, amount} /\ Min({share, amount}) <= share
    BY <2>1, MinFacts
  <2>3. QED
    BY <1>1, <1>5, <2>2
<1>7. QED
  BY <1>3, <1>5, <1>6 DEF Payout

\* The plan a claim stores.
Settled(p, i, payout) ==
    [plan[p] EXCEPT
        !.beneficiaries = [plan[p].beneficiaries EXCEPT
                             ![i] = [plan[p].beneficiaries[i] EXCEPT !.is_claimed = TRUE]],
        !.total_amount = plan[p].total_amount - payout]

LEMMA SettleFacts ==
    ASSUME PlanTypes, NEW p \in Plans, Exists(p), NEW i \in DOMAIN plan[p].beneficiaries,
           NEW payout, Settle(p, i, payout)
    PROVE  plan' = [plan EXCEPT ![p] = Settled(p, i, payout)]
<1>1. plan[p] \in Plan
  BY StoredPlan
<1>2. plan' = [plan EXCEPT ![p].beneficiaries[i].is_claimed = TRUE,
                           ![p].total_amount = @ - payout]
  BY DEF Settle
<1>3. QED
  BY <1>1, <1>2 DEF Settled, PlanTypes, Plan

LEMMA AttemptFacts ==
    ASSUME ClaimTypes, now \in 1..MaxTime, NEW p \in Plans, NEW u \in Users,
           MayAttempt(p, u), RecordAttempt(p, u)
    PROVE  /\ attempts' \in [Plans -> [Users -> Attempt]]
           /\ attempts'[p][u] = [start |-> Window(p, u).start, count |-> Window(p, u).count + 1]
           /\ attempts'[p][u] # attempts[p][u]
<1> DEFINE w == attempts[p][u]
           new == [start |-> Window(p, u).start, count |-> Window(p, u).count + 1]
<1>1. w \in Attempt
  BY DEF ClaimTypes
<1>2. /\ w.start \in 0..MaxTime /\ w.count \in 0..CLAIM_MAX_ATTEMPTS_PER_WINDOW
      /\ MaxTime \in Nat /\ CLAIM_MAX_ATTEMPTS_PER_WINDOW \in Nat
      /\ CLAIM_ATTEMPT_WINDOW_SECONDS \in Nat /\ CLAIM_ATTEMPT_WINDOW_SECONDS > 0
  <2>1. w.start \in 0..MaxTime /\ w.count \in 0..CLAIM_MAX_ATTEMPTS_PER_WINDOW
    <3> HIDE DEF w
    <3> QED BY <1>1 DEF Attempt
  <2>2. /\ MaxTime \in Nat /\ CLAIM_MAX_ATTEMPTS_PER_WINDOW \in Nat
        /\ CLAIM_ATTEMPT_WINDOW_SECONDS \in Nat /\ CLAIM_ATTEMPT_WINDOW_SECONDS > 0
    BY InheritanceAssumption
  <2>3. QED
    BY <2>1, <2>2
<1>3. Window(p, u) = IF w.count = 0 \/ now - w.start >= CLAIM_ATTEMPT_WINDOW_SECONDS
                     THEN [start |-> now, count |-> 0] ELSE w
  BY DEF Window
<1>4. /\ Window(p, u).start \in 0..MaxTime
      /\ Window(p, u).count \in 0..CLAIM_MAX_ATTEMPTS_PER_WINDOW
      /\ Window(p, u).count < CLAIM_MAX_ATTEMPTS_PER_WINDOW
  BY <1>2, <1>3 DEF MayAttempt
<1>5. new \in Attempt
  <2>1. Window(p, u).count + 1 \in 0..CLAIM_MAX_ATTEMPTS_PER_WINDOW
    BY <1>2, <1>4
  <2>2. QED
    BY <1>4, <2>1 DEF Attempt
<1>6. new # w
  <2>1. new.start = Window(p, u).start /\ new.count = Window(p, u).count + 1
    OBVIOUS
  <2> HIDE DEF new
  <2>2. CASE w.count = 0 \/ now - w.start >= CLAIM_ATTEMPT_WINDOW_SECONDS
    <3>1. Window(p, u).start = now /\ Window(p, u).count = 0
      BY <1>3, <2>2
    <3>2. new.start = now /\ new.count = 1
      BY <2>1, <3>1
    <3>3. w.count = 0 \/ w.start # now
      BY <1>2, <2>2
    <3>4. QED
      BY <3>2, <3>3
  <2>3. CASE ~(w.count = 0 \/ now - w.start >= CLAIM_ATTEMPT_WINDOW_SECONDS)
    <3>1. new.count = w.count + 1
      BY <1>3, <2>1, <2>3
    <3>2. QED
      BY <1>2, <3>1
  <2>4. QED
    BY <2>2, <2>3
<1>7. attempts' = [attempts EXCEPT ![p] = [attempts[p] EXCEPT ![u] = new]]
  BY DEF RecordAttempt
<1> HIDE DEF new
<1>8. /\ [attempts[p] EXCEPT ![u] = new] \in [Users -> Attempt]
      /\ [attempts[p] EXCEPT ![u] = new][u] = new
  BY <1>5 DEF ClaimTypes
<1>9. attempts' \in [Plans -> [Users -> Attempt]] /\ attempts'[p][u] = new
  BY <1>7, <1>8 DEF ClaimTypes
<1>10. QED
  BY <1>6, <1>9 DEF new

\* Recording a claim keeps the three claim lists in step.
LEMMA RecordClaimFacts ==
    ASSUME ClaimTypes, ClaimRegistry, NEW p \in Plans, plan[p].owner \in Users,
           NEW e \in Emails, RecordClaim(p, e)
    PROVE  /\ claimed' \in [Plans -> SUBSET Emails]
           /\ user_claimed' \in [Users -> SUBSET Plans]
           /\ all_claimed' \subseteq Plans
           /\ ClaimRegistry'
           /\ claimed'[p] = claimed[p] \cup {e}
           /\ \A r \in Plans \ {p} : claimed'[r] = claimed[r]
<1> DEFINE owner == plan[p].owner
<1>1. /\ claimed' = [claimed EXCEPT ![p] = claimed[p] \cup {e}]
      /\ user_claimed' = [user_claimed EXCEPT ![owner] = user_claimed[owner] \cup {p}]
      /\ all_claimed' = all_claimed \cup {p}
  BY DEF RecordClaim, add_plan_to_claimed
<1>2. owner \in Users
  OBVIOUS
<1> HIDE DEF owner
<1>3. /\ claimed'[p] = claimed[p] \cup {e}
      /\ \A r \in Plans \ {p} : claimed'[r] = claimed[r]
  BY <1>1 DEF ClaimTypes
<1>4. {r \in Plans : claimed'[r] # {}} = {r \in Plans : claimed[r] # {}} \cup {p}
  BY <1>3
<1>5. \A u \in Users :
         user_claimed'[u] = IF u = owner THEN user_claimed[u] \cup {p} ELSE user_claimed[u]
  BY <1>1, <1>2 DEF ClaimTypes
<1>6. UNION {user_claimed'[u] : u \in Users} = (UNION {user_claimed[u] : u \in Users}) \cup {p}
  <2> DEFINE lists == {user_claimed[u] : u \in Users}
             after == {user_claimed'[u] : u \in Users}
  <2>1. ASSUME NEW r, r \in UNION after PROVE r \in (UNION lists) \cup {p}
    <3>1. PICK u \in Users : r \in user_claimed'[u]
      BY <2>1
    <3>2. QED
      BY <1>5, <3>1
  <2>2. ASSUME NEW r, r \in UNION lists PROVE r \in UNION after
    <3>1. PICK u \in Users : r \in user_claimed[u]
      BY <2>2
    <3>2. r \in user_claimed'[u]
      BY <1>5, <3>1
    <3>3. QED
      BY <3>2
  <2>3. p \in UNION after
    BY <1>2, <1>5
  <2> HIDE DEF lists, after
  <2>4. UNION after = (UNION lists) \cup {p}
    BY <2>1, <2>2, <2>3
  <2>5. QED
    BY <2>4 DEF lists, after
<1>7. /\ claimed' \in [Plans -> SUBSET Emails]
      /\ user_claimed' \in [Users -> SUBSET Plans]
      /\ all_claimed' \subseteq Plans
  BY <1>1, <1>2 DEF ClaimTypes
<1>8. ClaimRegistry'
  BY <1>1, <1>4, <1>6 DEF ClaimRegistry
<1>9. QED
  BY <1>3, <1>7, <1>8

LEMMA AutoTriggerFacts ==
    ASSUME NEW p \in Plans
    PROVE  /\ triggered \subseteq AfterAutoTrigger(p)
           /\ AfterAutoTrigger(p) \subseteq triggered \cup {p}
BY DEF AfterAutoTrigger

\* The types after a claim, accepted or counted.
LEMMA ClaimTypesKept ==
    ASSUME Inv, NEW p \in Plans, ClaimStep,
           triggered' = AfterAutoTrigger(p),
           access' = AfterExpiry(p) \/ access' = access,
           attempts' \in [Plans -> [Users -> Attempt]],
           claimed' \in [Plans -> SUBSET Emails],
           user_claimed' \in [Users -> SUBSET Plans],
           all_claimed' \subseteq Plans
    PROVE  /\ OtherTypes' /\ UNCHANGED disputeVars
           /\ \A r \in Plans \ {p} :
                 /\ r \in triggered' => r \in triggered
                 /\ access'[r] # NoAccess => access[r] # NoAccess
<1>1. OtherTypes /\ EmergencyTypes /\ TriggerTypes
  BY TypeGroups DEF Inv, OtherTypes
<1>2. /\ AfterExpiry(p) \in [Plans -> EmergencyAccess \cup {NoAccess}]
      /\ \A r \in Plans : AfterExpiry(p)[r] # NoAccess => AfterExpiry(p)[r] = access[r]
  BY <1>1, ExpiryFacts
<1>3. UNCHANGED <<accountVars, config, guardians, approvals, contacts, disputeVars, now>>
  BY DEF ClaimStep
<1>4. ClaimTypes'
  BY DEF ClaimTypes
<1>5. TriggerTypes'
  BY <1>1, <1>3, AutoTriggerFacts DEF TriggerTypes
<1>6. EmergencyTypes'
  BY <1>1, <1>2, <1>3 DEF EmergencyTypes
<1>7. OtherTypes'
  BY <1>1, <1>3, <1>4, <1>5, <1>6, IdleTypes DEF OtherTypes
<1>8. \A r \in Plans \ {p} : r \in triggered' => r \in triggered
  BY AutoTriggerFacts
<1>9. \A r \in Plans : access'[r] # NoAccess => access[r] # NoAccess
  BY <1>2
<1>10. QED
  BY <1>3, <1>7, <1>8, <1>9

LEMMA ClaimKeepsInv ==
    ASSUME Inv, NEW u \in Claimers, NEW p \in Plans, NEW e \in ClaimEmails,
           NEW c \in ClaimCodes, claim_inheritance_plan(u, p, e, c)
    PROVE  Inv'
<1> DEFINE heirs == plan[p].beneficiaries
           i == Min(Matching(p, e, c))
           payout == Payout(p, i)
           b == [heirs[i] EXCEPT !.is_claimed = TRUE]
           list == [heirs EXCEPT ![i] = b]
           q == Settled(p, i, payout)
<1>1. /\ Exists(p) /\ MayAttempt(p, u) /\ Matching(p, e, c) # {}
      /\ payout <= vault[p] /\ Settle(p, i, payout)
      /\ RecordClaim(p, e) /\ RecordAttempt(p, u)
      /\ triggered' = AfterAutoTrigger(p) /\ access' = AfterExpiry(p) /\ ClaimStep
  BY DEF claim_inheritance_plan
<1>2. u \in Users /\ e \in Emails
  BY ClaimAssumption
<1>3. /\ AddsUp(plan[p]) /\ FlagsKept(p, heirs) /\ plan[p] \in Plan
      /\ vault[p] \in Nat
      /\ PlanTypes /\ plan[p].owner \in Users
      /\ heirs \in Seq(Beneficiary) /\ IsRoster(heirs, Len(heirs))
  BY <1>1, PlanFacts
<1>4. ClaimTypes /\ ClaimRegistry /\ now \in 1..MaxTime
  BY TypeGroups DEF Inv
<1>5. i \in DOMAIN heirs /\ heirs[i].email = e
  BY <1>1, <1>3, MatchFacts
<1> HIDE DEF i
<1>6. payout \in Nat /\ payout <= plan[p].total_amount /\ plan[p].total_amount \in Nat
      /\ plan[p].total_amount <= U64_MAX /\ U64_MAX \in Nat
  BY <1>1, <1>3, <1>5, PayoutFacts, StoredPlan, InheritanceAssumption
<1>7. plan' = [plan EXCEPT ![p] = q]
  BY <1>1, <1>3, <1>5, SettleFacts
<1> HIDE DEF payout
<1>8. /\ b \in Beneficiary /\ b.email = e /\ b.allocation_bp = heirs[i].allocation_bp
      /\ DOMAIN heirs = 1..Len(heirs) /\ Len(heirs) \in Nat
  <2>1. heirs[i] \in Beneficiary
    BY <1>1, <1>3, <1>5, StoredPlan
  <2>2. QED
    BY <1>3, <1>5, <2>1, LenProperties DEF Beneficiary
<1> HIDE DEF b
<1>9. /\ list \in Seq(Beneficiary) /\ Len(list) = Len(heirs) /\ DOMAIN list = 1..Len(heirs)
      /\ \A j \in 1..Len(heirs) : list[j] = IF j = i THEN b ELSE heirs[j]
  <2>1. /\ list \in Seq(Beneficiary) /\ Len(list) = Len(heirs)
        /\ \A j \in 1..Len(heirs) : list[j] = IF j = i THEN b ELSE heirs[j]
    BY <1>3, <1>5, <1>8, ExceptSeq
  <2>2. QED
    BY <2>1, LenProperties
<1>10. Allocated(list) = Allocated(heirs)
  <2>1. IsRoster(list, Len(heirs))
    BY <1>9, RosterOf
  <2>2. \A j \in 1..Len(heirs) : list[j].allocation_bp = heirs[j].allocation_bp
    BY <1>8, <1>9
  <2>3. QED
    BY <1>3, <2>1, <2>2, AllocatedSame
<1>11. q = [plan[p] EXCEPT !.beneficiaries = list, !.total_amount = plan[p].total_amount - payout]
  BY DEF Settled, b
<1> HIDE DEF q, list
<1>12. /\ q.owner = plan[p].owner /\ q.is_active = plan[p].is_active
       /\ q.total_amount = plan[p].total_amount - payout
       /\ q.beneficiaries = list
       /\ q.total_allocation_bp = plan[p].total_allocation_bp
       /\ q \in Plan
  <2>1. plan[p].total_amount - payout \in U64
    BY <1>6 DEF U64
  <2>2. QED
    BY <1>3, <1>9, <1>11, <2>1 DEF Plan
<1>13. /\ claimed' \in [Plans -> SUBSET Emails]
       /\ user_claimed' \in [Users -> SUBSET Plans]
       /\ all_claimed' \subseteq Plans
       /\ ClaimRegistry'
       /\ claimed'[p] = claimed[p] \cup {e}
       /\ \A r \in Plans \ {p} : claimed'[r] = claimed[r]
  BY <1>1, <1>2, <1>3, <1>4, RecordClaimFacts
<1>14. attempts' \in [Plans -> [Users -> Attempt]]
  BY <1>1, <1>2, <1>4, AttemptFacts
<1>15. /\ OtherTypes' /\ UNCHANGED disputeVars
       /\ \A r \in Plans \ {p} : /\ r \in triggered' => r \in triggered
                                 /\ access'[r] # NoAccess => access[r] # NoAccess
  BY <1>1, <1>13, <1>14, ClaimTypesKept
<1>16. /\ vault' \in [Plans -> Nat] /\ vault'[p] = vault[p] - payout
       /\ \A r \in Plans \ {p} : vault'[r] = vault[r]
  <2>1. vault[p] - payout \in Nat
    BY <1>1, <1>3, <1>6
  <2>2. vault' = [vault EXCEPT ![p] = vault[p] - payout]
    BY <1>1 DEF Settle
  <2>3. QED
    BY <1>3, <2>1, <2>2 DEF PlanTypes
<1>17. Rewrites(p, q) /\ AddsUp(q)
  <2>1. Rewrites(p, q)
    BY <1>1, <1>7, <1>12 DEF Rewrites, ClaimStep
  <2>2. AddsUp(q)
    BY <1>3, <1>9, <1>10, <1>12 DEF AddsUp
  <2>3. QED
    BY <2>1, <2>2
<1>18. ASSUME NEW j \in DOMAIN q.beneficiaries, q.beneficiaries[j].is_claimed
       PROVE  q.beneficiaries[j].email \in claimed'[p]
  BY <1>3, <1>8, <1>9, <1>12, <1>13, <1>18 DEF FlagsKept
<1>19. QED
  BY <1>1, <1>12, <1>13, <1>15, <1>16, <1>17, <1>18, RewriteKeepsInv

LEMMA FreshlyFacts ==
    ASSUME NEW p \in Plans, plan[p] \in Plan
    PROVE  /\ Freshly(p) \in Plan
           /\ Freshly(p).owner = plan[p].owner /\ Freshly(p).is_active = plan[p].is_active
           /\ Freshly(p).total_amount = plan[p].total_amount
           /\ Freshly(p).beneficiaries = plan[p].beneficiaries
           /\ Freshly(p).total_allocation_bp = plan[p].total_allocation_bp
           /\ Freshly(p).created_at = plan[p].created_at
           /\ Freshly(p).wait = plan[p].wait
           /\ Freshly(p).waterfall_enabled = plan[p].waterfall_enabled
BY DEF Freshly, Plan

LEMMA BatchClaimKeepsInv ==
    ASSUME Inv, NEW u \in BatchClaimers, NEW p \in Plans, NEW e \in ClaimEmails,
           NEW c \in ClaimCodes, batch_claim(u, p, e, c)
    PROVE  Inv'
<1> DEFINE heirs == plan[p].beneficiaries
           i == Min(Matching(p, e, c))
           payout == Share(plan[p].total_amount, heirs[i].allocation_bp)
           q == [Freshly(p) EXCEPT !.total_amount = plan[p].total_amount - payout]
<1>1. /\ Exists(p) /\ MayAttempt(p, u) /\ Matching(p, e, c) # {}
      /\ plan' = [plan EXCEPT ![p] = q] /\ vault' = vault
      /\ RecordClaim(p, e) /\ RecordAttempt(p, u)
      /\ triggered' = AfterAutoTrigger(p) /\ access' = AfterExpiry(p) /\ ClaimStep
  BY DEF batch_claim, BatchOpen, BatchMatch
<1>2. u \in Users /\ e \in Emails
  BY ClaimAssumption
<1>3. /\ AddsUp(plan[p]) /\ FlagsKept(p, heirs) /\ plan[p] \in Plan
      /\ vault[p] \in Nat
      /\ PlanTypes /\ plan[p].owner \in Users
  BY <1>1, PlanFacts
<1>4. ClaimTypes /\ ClaimRegistry /\ now \in 1..MaxTime
  BY TypeGroups DEF Inv
<1>5. i \in DOMAIN heirs
  BY <1>1, <1>3, MatchFacts
<1> HIDE DEF i
<1>6. payout \in Nat /\ payout <= plan[p].total_amount /\ plan[p].total_amount \in Nat
      /\ plan[p].total_amount <= U64_MAX /\ U64_MAX \in Nat
  BY <1>1, <1>3, <1>5, PayoutFacts, StoredPlan, InheritanceAssumption
<1> HIDE DEF payout
<1>7. /\ q.owner = plan[p].owner /\ q.is_active = plan[p].is_active
      /\ q.total_amount = plan[p].total_amount - payout
      /\ q.beneficiaries = heirs
      /\ q.total_allocation_bp = plan[p].total_allocation_bp
      /\ q \in Plan
  <2>1. plan[p].total_amount - payout \in U64
    BY <1>6 DEF U64
  <2>2. QED
    BY <1>3, <2>1, FreshlyFacts DEF Plan
<1> HIDE DEF q
<1>8. /\ claimed' \in [Plans -> SUBSET Emails]
      /\ user_claimed' \in [Users -> SUBSET Plans]
      /\ all_claimed' \subseteq Plans
      /\ ClaimRegistry'
      /\ claimed'[p] = claimed[p] \cup {e}
      /\ \A r \in Plans \ {p} : claimed'[r] = claimed[r]
  BY <1>1, <1>2, <1>3, <1>4, RecordClaimFacts
<1>9. attempts' \in [Plans -> [Users -> Attempt]]
  BY <1>1, <1>2, <1>4, AttemptFacts
<1>10. /\ OtherTypes' /\ UNCHANGED disputeVars
       /\ \A r \in Plans \ {p} : /\ r \in triggered' => r \in triggered
                                 /\ access'[r] # NoAccess => access[r] # NoAccess
  BY <1>1, <1>8, <1>9, ClaimTypesKept
<1>11. /\ Rewrites(p, q) /\ AddsUp(q) /\ vault' \in [Plans -> Nat]
  <2>1. Rewrites(p, q) /\ vault' \in [Plans -> Nat]
    BY <1>1, <1>3, <1>7 DEF Rewrites, ClaimStep, PlanTypes
  <2>2. AddsUp(q)
    BY <1>3, <1>7 DEF AddsUp
  <2>3. QED
    BY <2>1, <2>2
<1>12. \A j \in DOMAIN q.beneficiaries :
          q.beneficiaries[j].is_claimed => q.beneficiaries[j].email \in claimed'[p]
  BY <1>3, <1>7, <1>8 DEF FlagsKept
<1>13. QED
  BY <1>1, <1>7, <1>8, <1>10, <1>11, <1>12, RewriteKeepsInv

LEMMA RefusedClaimKeepsInv ==
    ASSUME Inv, NEW u \in BatchClaimers, NEW p \in Plans, NEW e \in ClaimEmails,
           NEW c \in ClaimCodes, batch_claim_refused(u, p, e, c)
    PROVE  Inv'
<1> DEFINE q == Freshly(p)
<1>1. /\ Exists(p) /\ MayAttempt(p, u)
      /\ plan' = [plan EXCEPT ![p] = q]
      /\ UNCHANGED <<access, vault, claimed, user_claimed, all_claimed>>
      /\ RecordAttempt(p, u)
      /\ triggered' = AfterAutoTrigger(p) /\ ClaimStep
  BY DEF batch_claim_refused, BatchOpen
<1>2. u \in Users
  BY ClaimAssumption
<1>3. /\ AddsUp(plan[p]) /\ FlagsKept(p, plan[p].beneficiaries) /\ plan[p] \in Plan
      /\ PlanTypes
  BY <1>1, PlanFacts
<1>4. ClaimTypes /\ ClaimRegistry /\ now \in 1..MaxTime
  BY TypeGroups DEF Inv
<1>5. /\ q.owner = plan[p].owner /\ q.is_active = plan[p].is_active
      /\ q.total_amount = plan[p].total_amount
      /\ q.beneficiaries = plan[p].beneficiaries
      /\ q.total_allocation_bp = plan[p].total_allocation_bp
      /\ q \in Plan
  BY <1>3, FreshlyFacts
<1> HIDE DEF q
<1>6. attempts' \in [Plans -> [Users -> Attempt]]
  BY <1>1, <1>2, <1>4, AttemptFacts
<1>7. /\ claimed' \in [Plans -> SUBSET Emails] /\ user_claimed' \in [Users -> SUBSET Plans]
      /\ all_claimed' \subseteq Plans
  BY <1>1, <1>4 DEF ClaimTypes
<1>8. /\ OtherTypes' /\ UNCHANGED disputeVars
      /\ \A r \in Plans \ {p} : /\ r \in triggered' => r \in triggered
                                /\ access'[r] # NoAccess => access[r] # NoAccess
  BY <1>1, <1>6, <1>7, ClaimTypesKept
<1>9. ClaimRegistry'
  BY <1>1, <1>4, IdleRegistry
<1>10. /\ Rewrites(p, q) /\ AddsUp(q) /\ vault' \in [Plans -> Nat]
  BY <1>1, <1>3, <1>5 DEF Rewrites, ClaimStep, PlanTypes, AddsUp
<1>11. \A j \in DOMAIN q.beneficiaries :
          q.beneficiaries[j].is_claimed => q.beneficiaries[j].email \in claimed'[p]
  BY <1>1, <1>3, <1>5 DEF FlagsKept
<1>12. QED
  BY <1>1, <1>5, <1>8, <1>9, <1>10, <1>11, RewriteKeepsInv

LEMMA TickKeepsInv ==
    ASSUME Inv, Tick
    PROVE  Inv'
<1>1. OtherTypes
  BY TypeGroups DEF Inv, OtherTypes
<1>2. /\ \E d \in TimeSteps : d > 0 /\ now + d <= MaxTime /\ now' = now + d
      /\ UNCHANGED <<planVars, vault, claimVars, accountVars, triggerVars, emergencyVars,
                     disputeVars>>
  BY DEF Tick
<1>3. now' \in 1..MaxTime
  <2>1. TimeSteps \subseteq Nat /\ MaxTime \in Nat /\ now \in 1..MaxTime
    BY <1>1, InheritanceAssumption DEF OtherTypes
  <2>2. QED
    BY <1>2, <2>1
<1>4. OtherTypes'
  BY <1>1, <1>2, <1>3, IdleTypes DEF OtherTypes
<1>5. UNCHANGED <<planVars, vault, claimVars, triggered, frozen, access, disputes>>
  BY <1>2 DEF triggerVars, emergencyVars, disputeVars
<1>6. QED
  BY <1>4, <1>5, QuietKeepsInv, IdleDisputesToo

LEMMA StutterKeepsInv ==
    ASSUME Inv, UNCHANGED vars
    PROVE  Inv'
<1>1. OtherTypes
  BY TypeGroups DEF Inv, OtherTypes
<1>2. UNCHANGED <<planVars, vault, claimVars, accountVars, triggerVars, emergencyVars,
                  disputeVars, now>>
  BY DEF vars
<1>3. OtherTypes'
  BY <1>1, <1>2, IdleTypes DEF OtherTypes
<1>4. UNCHANGED <<planVars, vault, claimVars, triggered, frozen, access, disputes>>
  BY <1>2 DEF triggerVars, emergencyVars, disputeVars
<1>5. QED
  BY <1>3, <1>4, QuietKeepsInv, IdleDisputesToo

LEMMA NextKeepsInv ==
    ASSUME Inv, [Next]_vars
    PROVE  Inv'
<1>1. CASE ClaimNext
  BY <1>1, ClaimKeepsInv, BatchClaimKeepsInv, RefusedClaimKeepsInv DEF ClaimNext
<1>2. QED
  BY <1>1, PlanNextKeepsInv, AccountNextKeepsInv, TriggerNextKeepsInv, EmergencyNextKeepsInv,
     DisputeNextKeepsInv, TickKeepsInv, StutterKeepsInv DEF Next

LEMMA InitInv ==
    ASSUME Init
    PROVE  Inv
<1>1. \A p \in Plans : ~Exists(p)
  BY DEF Init, Exists
<1>2. InheritanceTypeOK
  <2>1. PlanTypes
    BY InheritanceAssumption DEF Init, PlanTypes
  <2>2. ClaimTypes
    <3>1. [start |-> 0, count |-> 0] \in Attempt
      BY InheritanceAssumption DEF Attempt
    <3>2. QED
      BY <3>1 DEF Init, ClaimTypes
  <2>3. AccountTypes /\ TriggerTypes /\ EmergencyTypes
    BY DEF Init, AccountTypes, TriggerTypes, EmergencyTypes, Role
  <2>4. DisputeTypes
    BY InheritanceAssumption DEF Init, DisputeTypes
  <2>5. now \in 1..MaxTime
    BY InheritanceAssumption DEF Init
  <2>6. QED
    BY <2>1, <2>2, <2>3, <2>4, <2>5, TypeGroups
<1>3. Books
  <2>1. AllocationsAddUp /\ ClaimedFlagHasRecord 
    BY <1>1 DEF AllocationsAddUp, ClaimedFlagHasRecord
  <2>2. RegistryMatchesOwners
    BY <1>1 DEF Init, RegistryMatchesOwners, Owns
  <2>3. IdsInOrder
    BY <1>1, InheritanceAssumption DEF Init, IdsInOrder, Plans
  <2>4. QED
    BY <2>1, <2>2, <2>3 DEF Books
<1>4. ClaimRegistry
  BY DEF Init, ClaimRegistry
<1>5. NoTraces /\ DisputesHavePlans
  BY DEF Init, NoTraces, DisputesHavePlans
<1>6. QED
  BY <1>2, <1>3, <1>4, <1>5 DEF Inv

LEMMA SpecInv == Spec => []Inv
BY InitInv, NextKeepsInv, PTL DEF Spec

-----------------------------------------------------------------------------
(* Theorems: invariants *)

\* The state never leaves its types, whatever is created, claimed, triggered
\* or disputed: amounts stay within u64 and attempts within their window.
THEOREM InheritanceIsTyped == Spec => []InheritanceTypeOK
<1>1. Inv => InheritanceTypeOK
  BY DEF Inv
<1>2. QED
  BY <1>1, SpecInv, PTL

\* The redundant records of plans, owners and claims agree after any sequence
\* of calls: add, swap-remove, re-weigh, update, transfer, deactivate, claim.
THEOREM PlanBooksAgree == Spec => []PlanBooks
<1>1. Inv => PlanBooks
  BY DEF Inv, Books, PlanBooks
<1>2. QED
  BY <1>1, SpecInv, PTL

-----------------------------------------------------------------------------
(* What one step can do to one plan *)

\* What no step but a creation or a hand-over changes; a deactivation is final.
Stays(p) ==
    /\ Exists(p) /\ Exists(p)'
    /\ plan'[p].owner = plan[p].owner
    /\ plan'[p].created_at = plan[p].created_at /\ plan'[p].wait = plan[p].wait
    /\ plan'[p].is_active => plan[p].is_active

Untouched(p) ==
    /\ plan'[p] = plan[p] /\ vault'[p] = vault[p] /\ claimed'[p] = claimed[p]
    /\ p \in triggered' <=> p \in triggered

Created(p) ==
    /\ ~Exists(p) /\ Exists(p)'
    /\ plan'[p].total_amount = vault'[p]
    /\ claimed'[p] = claimed[p]
    /\ p \in triggered' <=> p \in triggered

\* Edited, deactivated, triggered, or an entry of a batch refused.
Kept(p) ==
    /\ Stays(p)
    /\ plan'[p].total_amount = plan[p].total_amount
    /\ vault'[p] = vault[p] /\ claimed'[p] = claimed[p]
    /\ p \in triggered => p \in triggered'
    /\ p \in triggered' \ triggered =>
          plan[p].is_active /\ (ConditionsMet(p) \/ p \notin frozen)

HandedOver(p) ==
    /\ Exists(p) /\ Exists(p)' /\ p \notin triggered /\ p \notin frozen
    /\ p \notin triggered'
    /\ plan'[p].created_at = plan[p].created_at /\ plan'[p].wait = plan[p].wait
    /\ plan'[p].is_active = plan[p].is_active
    /\ plan'[p].total_amount = plan[p].total_amount
    /\ vault'[p] = vault[p] /\ claimed'[p] = claimed[p]

Funded(p) ==
    /\ Stays(p) /\ plan[p].is_active /\ p \notin frozen
    /\ claimed'[p] = claimed[p]
    /\ p \in triggered' <=> p \in triggered
    /\ \E x \in Nat : /\ plan'[p].total_amount = plan[p].total_amount + x
                      /\ vault'[p] = vault[p] + x

Withdrawn(p) ==
    /\ Stays(p) /\ p \notin frozen
    /\ claimed'[p] = claimed[p] /\ attempts' = attempts
    /\ p \in triggered' <=> p \in triggered
    /\ \E x \in Nat : /\ plan'[p].total_amount = plan[p].total_amount - x
                      /\ vault'[p] = vault[p] - x
                      /\ WithinEmergencyLimit(p, x)

Claimed(p) ==
    /\ Stays(p) /\ plan[p].is_active /\ p \notin frozen
    /\ ClaimTime(p) /\ triggered' = AfterAutoTrigger(p) /\ now' = now
    /\ \E u \in Users \ blacklisted :
          "approved" \in kyc[u] /\ attempts'[p][u] # attempts[p][u]
    /\ \E e \in Emails, i \in DOMAIN plan[p].beneficiaries :
          LET x == Share(plan[p].total_amount, plan[p].beneficiaries[i].allocation_bp) IN
          /\ plan[p].beneficiaries[i].email = e
          /\ e \notin claimed[p] /\ claimed'[p] = claimed[p] \cup {e}
          /\ plan'[p].total_amount = plan[p].total_amount - x
          /\ WithinEmergencyLimit(p, x)
          /\ \/ vault'[p] = vault[p] - x /\ MyTurn(p, i)
             \/ vault'[p] = vault[p] /\ BatchClaims

StepOn(p) ==
    /\ now' >= now
    /\ \/ Untouched(p) \/ Created(p) \/ Kept(p) \/ HandedOver(p)
       \/ Funded(p) \/ Withdrawn(p) \/ Claimed(p)

\* The plan a step stores, and those it does not store.
LEMMA StoredAt ==
    ASSUME PlanTypes, NEW p \in Plans, NEW q, plan' = [plan EXCEPT ![p] = q]
    PROVE  plan'[p] = q /\ \A r \in Plans \ {p} : plan'[r] = plan[r]
BY DEF PlanTypes

LEMMA PlansRemain ==
    ASSUME Inv, Inv', UNCHANGED next_plan_id
    PROVE  \A r \in Plans : Exists(r)' <=> Exists(r)
BY DEF Inv, Books, IdsInOrder

LEMMA StepBasics ==
    ASSUME Inv
    PROVE  PlanTypes /\ ClaimTypes /\ now \in Nat /\ \A r \in Plans : Exists(r) => plan[r] \in Plan
<1>1. PlanTypes /\ ClaimTypes /\ now \in 1..MaxTime
  BY TypeGroups DEF Inv
<1>2. QED
  BY <1>1, InheritanceAssumption, StoredPlan

\* An edited plan is still its owner's, and as much, as old and as active.
SameTerms(p, q) ==
    /\ q.owner = plan[p].owner /\ q.is_active = plan[p].is_active
    /\ q.total_amount = plan[p].total_amount
    /\ q.created_at = plan[p].created_at /\ q.wait = plan[p].wait

LEMMA EditStep ==
    ASSUME Inv, Inv', NEW u \in Users, NEW p \in Plans, NEW q, OwnerEdit(u, p, q),
           SameTerms(p, q)
    PROVE  \A r \in Plans : StepOn(r)
<1>1. /\ Exists(p) /\ plan' = [plan EXCEPT ![p] = q]
      /\ UNCHANGED <<next_plan_id, vault, claimed, triggered, now>>
  BY DEF OwnerEdit, Owns, PlanStep, claimVars, triggerVars
<1>2. plan'[p] = q /\ \A r \in Plans \ {p} : plan'[r] = plan[r]
  BY <1>1, StepBasics, StoredAt
<1>3. \A r \in Plans : Exists(r)' <=> Exists(r)
  BY <1>1, PlansRemain
<1>4. Kept(p)
  BY <1>1, <1>2, <1>3 DEF Kept, Stays, SameTerms
<1>5. \A r \in Plans \ {p} : Untouched(r)
  BY <1>1, <1>2 DEF Untouched
<1>6. now' >= now
  BY <1>1, StepBasics
<1>7. QED
  BY <1>4, <1>5, <1>6 DEF StepOn

LEMMA OwnerEditsStep ==
    ASSUME Inv, Inv', NEW u \in Users, NEW p \in Plans,
           \/ \E h \in NewHeirs : AppendHeir(u, p, h)
           \/ \E i \in Removals : DropHeir(u, p, i)
           \/ \E bps \in Allocations : batch_update_allocations(u, p, bps)
           \/ \E i \in 1..MAX_BENEFICIARIES, k \in Priorities :
                 set_beneficiary_priority(u, p, i, k)
           \/ enable_waterfall_distribution(u, p)
           \/ \E lendable \in Lendable : set_lendable(u, p, lendable)
           \/ \E r \in UpdateRosters, y \in EarnYields : update_plan(u, p, r, y)
    PROVE  \A r \in Plans : StepOn(r)
<1>1. Exists(p)
  BY DEF AppendHeir, DropHeir, batch_update_allocations, set_beneficiary_priority,
     enable_waterfall_distribution, set_lendable, update_plan, Owns
<1>2. plan[p] \in Plan
  BY <1>1, StepBasics
<1>3. SUFFICES \E q : OwnerEdit(u, p, q) /\ SameTerms(p, q)
  BY EditStep
<1>4. ASSUME NEW h \in NewHeirs, AppendHeir(u, p, h)
      PROVE  \E q : OwnerEdit(u, p, q) /\ SameTerms(p, q)
  <2> DEFINE q == [plan[p] EXCEPT
                     !.beneficiaries = Append(plan[p].beneficiaries,
                          create_beneficiary(h, Len(plan[p].beneficiaries) + 1)),
                     !.total_allocation_bp = plan[p].total_allocation_bp + h.allocation_bp]
  <2>1. OwnerEdit(u, p, q)
    BY <1>4 DEF AppendHeir
  <2>2. SameTerms(p, q)
    BY <1>2 DEF Plan, SameTerms
  <2>3. QED
    BY <2>1, <2>2
<1>5. ASSUME NEW i \in Removals, DropHeir(u, p, i)
      PROVE  \E q : OwnerEdit(u, p, q) /\ SameTerms(p, q)
  <2> DEFINE q == [plan[p] EXCEPT
                     !.beneficiaries = SwapRemove(plan[p].beneficiaries, i),
                     !.total_allocation_bp = plan[p].total_allocation_bp
                                                - plan[p].beneficiaries[i].allocation_bp]
  <2>1. OwnerEdit(u, p, q)
    BY <1>5 DEF DropHeir
  <2>2. SameTerms(p, q)
    BY <1>2 DEF Plan, SameTerms
  <2>3. QED
    BY <2>1, <2>2
<1>6. ASSUME NEW bps \in Allocations, batch_update_allocations(u, p, bps)
      PROVE  \E q : OwnerEdit(u, p, q) /\ SameTerms(p, q)
  <2> DEFINE q == [plan[p] EXCEPT
                     !.beneficiaries = [i \in DOMAIN bps |->
                        [plan[p].beneficiaries[i] EXCEPT !.allocation_bp = bps[i]]],
                     !.total_allocation_bp = BPS]
  <2>1. OwnerEdit(u, p, q)
    BY <1>6 DEF batch_update_allocations
  <2>2. SameTerms(p, q)
    BY <1>2 DEF Plan, SameTerms
  <2>3. QED
    BY <2>1, <2>2
<1>7. ASSUME NEW i \in 1..MAX_BENEFICIARIES, NEW k \in Priorities,
             set_beneficiary_priority(u, p, i, k)
      PROVE  \E q : OwnerEdit(u, p, q) /\ SameTerms(p, q)
  <2> DEFINE q == [plan[p] EXCEPT !.beneficiaries[i].priority = k]
  <2>1. OwnerEdit(u, p, q)
    BY <1>7 DEF set_beneficiary_priority
  <2>2. SameTerms(p, q)
    BY <1>2 DEF Plan, SameTerms
  <2>3. QED
    BY <2>1, <2>2
<1>8. ASSUME enable_waterfall_distribution(u, p)
      PROVE  \E q : OwnerEdit(u, p, q) /\ SameTerms(p, q)
  <2> DEFINE q == [plan[p] EXCEPT !.waterfall_enabled = TRUE]
  <2>1. OwnerEdit(u, p, q)
    BY <1>8 DEF enable_waterfall_distribution
  <2>2. SameTerms(p, q)
    BY <1>2 DEF Plan, SameTerms
  <2>3. QED
    BY <2>1, <2>2
<1>9. ASSUME NEW lendable \in Lendable, set_lendable(u, p, lendable)
      PROVE  \E q : OwnerEdit(u, p, q) /\ SameTerms(p, q)
  <2> DEFINE q == [plan[p] EXCEPT !.is_lendable = lendable]
  <2>1. OwnerEdit(u, p, q)
    BY <1>9 DEF set_lendable
  <2>2. SameTerms(p, q)
    BY <1>2 DEF Plan, SameTerms
  <2>3. QED
    BY <2>1, <2>2
<1>10. ASSUME NEW r \in UpdateRosters, NEW y \in EarnYields, update_plan(u, p, r, y)
       PROVE  \E q : OwnerEdit(u, p, q) /\ SameTerms(p, q)
  <2> DEFINE q == [plan[p] EXCEPT !.beneficiaries = Enrolled(r),
                                  !.total_allocation_bp = Allocated(r), !.earn_yield = y]
  <2>1. OwnerEdit(u, p, q)
    BY <1>10 DEF update_plan
  <2>2. SameTerms(p, q)
    BY <1>2 DEF Plan, SameTerms
  <2>3. QED
    BY <2>1, <2>2
<1>11. QED
  BY <1>4, <1>5, <1>6, <1>7, <1>8, <1>9, <1>10

LEMMA CreateStep ==
    ASSUME Inv, Inv', NEW u \in Owners, NEW x \in CreateAmounts, NEW r \in Rosters,
           NEW w \in Waits, NEW g \in CreateGuardians, NEW lendable \in BOOLEAN,
           create_inheritance_plan(u, x, r, w, lendable, g)
    PROVE  \A s \in Plans : StepOn(s)
<1>1. PICK p \in Plans : p = next_plan_id
  BY DEF create_inheritance_plan
<1> DEFINE net == x - Fee(x)
           q == [owner |-> u, total_amount |-> net, beneficiaries |-> Enrolled(r),
                 total_allocation_bp |-> Allocated(r), wait |-> w, created_at |-> now,
                 is_active |-> TRUE, is_lendable |-> lendable,
                 waterfall_enabled |-> FALSE, earn_yield |-> FALSE]
<1>2. /\ plan' = [plan EXCEPT ![p] = q] /\ vault' = [vault EXCEPT ![p] = net]
      /\ next_plan_id' = p + 1
      /\ UNCHANGED <<claimed, triggered, now>>
  BY <1>1 DEF create_inheritance_plan, PlanStep, claimVars, triggerVars
<1>3. q.total_amount = net
  OBVIOUS
<1> HIDE DEF q, net
<1>4. /\ plan'[p] = q /\ \A s \in Plans \ {p} : plan'[s] = plan[s]
      /\ vault'[p] = net /\ \A s \in Plans \ {p} : vault'[s] = vault[s]
  BY <1>2, StepBasics DEF PlanTypes
<1>5. ~Exists(p) /\ Exists(p)'
  <2>1. p \in Nat
    BY StepBasics, Ids
  <2>2. QED
    BY <1>1, <1>2, <2>1 DEF Inv, Books, IdsInOrder
<1>6. Created(p)
  BY <1>2, <1>3, <1>4, <1>5 DEF Created
<1>7. \A s \in Plans \ {p} : Untouched(s)
  BY <1>2, <1>4 DEF Untouched
<1>8. now' >= now
  BY <1>2, StepBasics
<1>9. QED
  BY <1>6, <1>7, <1>8 DEF StepOn

LEMMA ListStep ==
    ASSUME Inv, Inv', NEW u \in Users, NEW p \in Plans,
           \/ deactivate_inheritance_plan(u, p)
           \/ \E v \in NewOwners : transfer_plan_ownership(u, v, p)
    PROVE  \A s \in Plans : StepOn(s)
<1>1. /\ Exists(p) /\ UNCHANGED <<next_plan_id, vault, claimed, triggered, now>>
  BY DEF deactivate_inheritance_plan, transfer_plan_ownership, Owns, PlanStep, claimVars,
     triggerVars
<1>2. PlanTypes /\ plan[p] \in Plan /\ now' >= now
  BY <1>1, StepBasics
<1>3. \A s \in Plans : Exists(s)' <=> Exists(s)
  BY <1>1, PlansRemain
<1>4. CASE deactivate_inheritance_plan(u, p)
  <2> DEFINE q == [plan[p] EXCEPT !.is_active = FALSE]
  <2>1. plan' = [plan EXCEPT ![p] = q]
    BY <1>4 DEF deactivate_inheritance_plan
  <2>2. /\ q.owner = plan[p].owner /\ ~q.is_active /\ q.total_amount = plan[p].total_amount
        /\ q.created_at = plan[p].created_at /\ q.wait = plan[p].wait
    BY <1>2 DEF Plan
  <2> HIDE DEF q
  <2>3. plan'[p] = q /\ \A s \in Plans \ {p} : plan'[s] = plan[s]
    BY <1>2, <2>1, StoredAt
  <2>4. Kept(p)
    BY <1>1, <1>3, <2>2, <2>3 DEF Kept, Stays
  <2>5. \A s \in Plans \ {p} : Untouched(s)
    BY <1>1, <2>3 DEF Untouched
  <2>6. QED
    BY <1>2, <2>4, <2>5 DEF StepOn
<1>5. ASSUME NEW v \in NewOwners, transfer_plan_ownership(u, v, p)
      PROVE  \A s \in Plans : StepOn(s)
  <2> DEFINE q == [plan[p] EXCEPT !.owner = v]
  <2>1. plan' = [plan EXCEPT ![p] = q] /\ p \notin triggered /\ p \notin frozen
    BY <1>5 DEF transfer_plan_ownership
  <2>2. /\ q.is_active = plan[p].is_active /\ q.total_amount = plan[p].total_amount
        /\ q.created_at = plan[p].created_at /\ q.wait = plan[p].wait
    BY <1>2 DEF Plan
  <2> HIDE DEF q
  <2>3. plan'[p] = q /\ \A s \in Plans \ {p} : plan'[s] = plan[s]
    BY <1>2, <2>1, StoredAt
  <2>4. HandedOver(p)
    BY <1>1, <1>3, <2>1, <2>2, <2>3 DEF HandedOver
  <2>5. \A s \in Plans \ {p} : Untouched(s)
    BY <1>1, <2>3 DEF Untouched
  <2>6. QED
    BY <1>2, <2>4, <2>5 DEF StepOn
<1>6. QED
  BY <1>4, <1>5

LEMMA FundsStep ==
    ASSUME Inv, Inv', NEW u \in Users, NEW p \in Plans,
           \/ \E x \in DepositAmounts : deposit(u, p, x)
           \/ \E x \in WithdrawAmounts : withdraw(u, p, x)
    PROVE  \A s \in Plans : StepOn(s)
<1>1. /\ Exists(p) /\ p \notin frozen
      /\ UNCHANGED <<next_plan_id, claimed, attempts, triggered, now>>
  BY DEF deposit, withdraw, Owns, PlanStep, claimVars, triggerVars
<1>2. PlanTypes /\ plan[p] \in Plan /\ now' >= now
  BY <1>1, StepBasics
<1>3. \A s \in Plans : Exists(s)' <=> Exists(s)
  BY <1>1, PlansRemain
<1>4. \A x \in DepositAmounts \cup WithdrawAmounts : x \in Nat
  BY InheritanceAssumption DEF U64
<1>5. ASSUME NEW x \in DepositAmounts, deposit(u, p, x)
      PROVE  \A s \in Plans : StepOn(s)
  <2> DEFINE q == [plan[p] EXCEPT !.total_amount = plan[p].total_amount + x]
  <2>1. /\ plan' = [plan EXCEPT ![p] = q] /\ vault' = [vault EXCEPT ![p] = vault[p] + x]
        /\ plan[p].is_active
    BY <1>5 DEF deposit
  <2>2. /\ q.owner = plan[p].owner /\ q.is_active = plan[p].is_active
        /\ q.total_amount = plan[p].total_amount + x
        /\ q.created_at = plan[p].created_at /\ q.wait = plan[p].wait
    BY <1>2 DEF Plan
  <2> HIDE DEF q
  <2>3. /\ plan'[p] = q /\ \A s \in Plans \ {p} : plan'[s] = plan[s]
        /\ vault'[p] = vault[p] + x /\ \A s \in Plans \ {p} : vault'[s] = vault[s]
    BY <1>2, <2>1 DEF PlanTypes
  <2>4. Funded(p)
    BY <1>1, <1>3, <1>4, <2>1, <2>2, <2>3 DEF Funded, Stays
  <2>5. \A s \in Plans \ {p} : Untouched(s)
    BY <1>1, <2>3 DEF Untouched
  <2>6. QED
    BY <1>2, <2>4, <2>5 DEF StepOn
<1>6. ASSUME NEW x \in WithdrawAmounts, withdraw(u, p, x)
      PROVE  \A s \in Plans : StepOn(s)
  <2> DEFINE q == [plan[p] EXCEPT !.total_amount = plan[p].total_amount - x]
  <2>1. /\ plan' = [plan EXCEPT ![p] = q] /\ vault' = [vault EXCEPT ![p] = vault[p] - x]
        /\ WithinEmergencyLimit(p, x)
    BY <1>6 DEF withdraw
  <2>2. /\ q.owner = plan[p].owner /\ q.is_active = plan[p].is_active
        /\ q.total_amount = plan[p].total_amount - x
        /\ q.created_at = plan[p].created_at /\ q.wait = plan[p].wait
    BY <1>2 DEF Plan
  <2> HIDE DEF q
  <2>3. /\ plan'[p] = q /\ \A s \in Plans \ {p} : plan'[s] = plan[s]
        /\ vault'[p] = vault[p] - x /\ \A s \in Plans \ {p} : vault'[s] = vault[s]
    BY <1>2, <2>1 DEF PlanTypes
  <2>4. Withdrawn(p)
    BY <1>1, <1>3, <1>4, <2>1, <2>2, <2>3 DEF Withdrawn, Stays
  <2>5. \A s \in Plans \ {p} : Untouched(s)
    BY <1>1, <2>3 DEF Untouched
  <2>6. QED
    BY <1>2, <2>4, <2>5 DEF StepOn
<1>7. QED
  BY <1>5, <1>6

LEMMA PlanNextStep ==
    ASSUME Inv, Inv', PlanNext
    PROVE  \A s \in Plans : StepOn(s)
<1>1. CASE \E u \in Owners, x \in CreateAmounts, r \in Rosters, w \in Waits,
              g \in CreateGuardians, lendable \in BOOLEAN :
              create_inheritance_plan(u, x, r, w, lendable, g)
  BY <1>1, CreateStep
<1>2. ASSUME NEW u \in Users, NEW p \in Plans,
             \/ \E h \in NewHeirs : add_beneficiary(u, p, h) \/ batch_add_beneficiaries(u, p, h)
             \/ \E i \in Removals :
                   remove_beneficiary(u, p, i) \/ batch_remove_beneficiaries(u, p, i)
             \/ \E bps \in Allocations : batch_update_allocations(u, p, bps)
             \/ \E i \in 1..MAX_BENEFICIARIES, k \in Priorities :
                   set_beneficiary_priority(u, p, i, k)
             \/ enable_waterfall_distribution(u, p)
             \/ \E lendable \in Lendable : set_lendable(u, p, lendable)
             \/ \E r \in UpdateRosters, y \in EarnYields : update_plan(u, p, r, y)
      PROVE  \A s \in Plans : StepOn(s)
  BY <1>2, OwnerEditsStep DEF add_beneficiary, batch_add_beneficiaries, remove_beneficiary,
     batch_remove_beneficiaries
<1>3. ASSUME NEW u \in Users, NEW p \in Plans,
             \/ deactivate_inheritance_plan(u, p)
             \/ \E v \in NewOwners : transfer_plan_ownership(u, v, p)
      PROVE  \A s \in Plans : StepOn(s)
  BY <1>3, ListStep
<1>4. ASSUME NEW u \in Users, NEW p \in Plans,
             \/ \E x \in DepositAmounts : deposit(u, p, x)
             \/ \E x \in WithdrawAmounts : withdraw(u, p, x)
      PROVE  \A s \in Plans : StepOn(s)
  BY <1>4, FundsStep
<1>5. QED
  BY <1>1, <1>2, <1>3, <1>4 DEF PlanNext

\* Steps that concern no plan's funds, claims or trigger.
LEMMA QuietStep ==
    ASSUME UNCHANGED <<plan, vault, claimed, triggered>>, now' >= now
    PROVE  \A s \in Plans : StepOn(s)
BY DEF StepOn, Untouched

LEMMA AccountNextStep ==
    ASSUME Inv, AccountNext
    PROVE  \A s \in Plans : StepOn(s)
<1>1. AccountStep
  BY DEF AccountNext, submit_kyc, reject_kyc, approve_kyc, batch_approve_kyc, ApproveKyc,
     assign_role, revoke_role, blacklist_address, unblacklist_address, pause
<1>2. QED
  BY <1>1, QuietStep, StepBasics DEF AccountStep, planVars, claimVars, triggerVars

LEMMA EmergencyNextStep ==
    ASSUME Inv, EmergencyNext
    PROVE  \A s \in Plans : StepOn(s)
<1>1. EmergencyStep
  BY DEF EmergencyNext, set_guardians, add_emergency_contact, remove_emergency_contact,
     activate_emergency_access, approve_emergency_access, deactivate_emergency_access,
     get_emergency_access
<1>2. QED
  BY <1>1, QuietStep, StepBasics DEF EmergencyStep, planVars, claimVars, triggerVars

LEMMA DisputeNextStep ==
    ASSUME Inv, DisputeNext
    PROVE  \A s \in Plans : StepOn(s)
<1>1. DisputeStep
  BY DEF DisputeNext, file_dispute, raise_dispute, resolve_dispute, unfreeze_plan,
     review_dispute, add_arbitrator, remove_arbitrator
<1>2. QED
  BY <1>1, QuietStep, StepBasics DEF DisputeStep, planVars, claimVars, triggerVars

LEMMA TickStep ==
    ASSUME Inv, Tick \/ UNCHANGED vars
    PROVE  \A s \in Plans : StepOn(s)
<1>1. UNCHANGED <<plan, vault, claimed, triggered>>
  BY DEF Tick, vars, planVars, claimVars, triggerVars
<1>2. now' >= now
  <2>1. now \in Nat /\ TimeSteps \subseteq Nat
    BY StepBasics, InheritanceAssumption
  <2>2. CASE Tick
    BY <2>1, <2>2 DEF Tick
  <2>3. CASE UNCHANGED vars
    BY <2>1, <2>3 DEF vars
  <2>4. QED
    BY <2>2, <2>3
<1>3. QED
  BY <1>1, <1>2, QuietStep

LEMMA TriggerStepOn ==
    ASSUME Inv, Inv', NEW p \in Plans, Exists(p), Trigger(p),
           p \notin triggered => plan[p].is_active /\ (ConditionsMet(p) \/ p \notin frozen)
    PROVE  \A s \in Plans : StepOn(s)
<1> DEFINE q == [plan[p] EXCEPT !.is_lendable = FALSE]
<1>1. /\ plan' = [plan EXCEPT ![p] = q] /\ triggered' = triggered \cup {p}
      /\ UNCHANGED <<next_plan_id, vault, claimed, now>>
  BY DEF Trigger, TriggerStep, claimVars
<1>2. PlanTypes /\ plan[p] \in Plan /\ now' >= now
  BY <1>1, StepBasics
<1>3. \A s \in Plans : Exists(s)' <=> Exists(s)
  BY <1>1, PlansRemain
<1>4. /\ q.owner = plan[p].owner /\ q.is_active = plan[p].is_active
      /\ q.total_amount = plan[p].total_amount
      /\ q.created_at = plan[p].created_at /\ q.wait = plan[p].wait
  BY <1>2 DEF Plan
<1> HIDE DEF q
<1>5. plan'[p] = q /\ \A s \in Plans \ {p} : plan'[s] = plan[s]
  BY <1>1, <1>2, StoredAt
<1>6. Kept(p)
  BY <1>1, <1>3, <1>4, <1>5 DEF Kept, Stays
<1>7. \A s \in Plans \ {p} : Untouched(s)
  BY <1>1, <1>5 DEF Untouched
<1>8. QED
  BY <1>2, <1>6, <1>7 DEF StepOn

LEMMA TriggerNextStep ==
    ASSUME Inv, Inv', TriggerNext
    PROVE  \A s \in Plans : StepOn(s)
<1>1. ASSUME NEW p \in Plans, NEW c, SaveConfig(p, c)
      PROVE  \A s \in Plans : StepOn(s)
  BY <1>1, QuietStep, StepBasics DEF SaveConfig, TriggerStep, claimVars
<1>2. ASSUME NEW p \in Plans,
             \/ \E u \in Users : trigger_inheritance(u, p)
             \/ auto_trigger_check(p)
             \/ \E signers \in Signers : guardian_emergency_trigger(p, signers)
             \/ freeze_loans(p)
      PROVE  \A s \in Plans : StepOn(s)
  <2>1. /\ Exists(p) /\ Trigger(p)
        /\ p \notin triggered => plan[p].is_active /\ (ConditionsMet(p) \/ p \notin frozen)
    BY <1>2 DEF trigger_inheritance, auto_trigger_check, guardian_emergency_trigger,
       freeze_loans, Triggerable
  <2>2. QED
    BY <2>1, TriggerStepOn
<1>3. ASSUME NEW p \in Plans,
             \/ \E u \in Users :
                   \/ \E s \in TriggerSetups : set_trigger_conditions(u, p, s)
                   \/ \E x \in TriggerDates : add_time_trigger(u, p, x)
                   \/ \E x \in InactivityPeriods : add_inactivity_trigger(u, p, x)
                   \/ \E o \in Oracles : add_oracle_trigger(u, p, o) \/ add_health_trigger(u, p, o)
                   \/ record_activity(u, p)
             \/ \E o \in Oracles : submit_oracle_trigger(o, p) \/ submit_health_trigger(o, p)
      PROVE  \E c : SaveConfig(p, c)
  BY <1>3 DEF set_trigger_conditions, add_time_trigger, add_inactivity_trigger,
     add_oracle_trigger, add_health_trigger, record_activity, submit_oracle_trigger,
     submit_health_trigger
<1>4. QED
  BY <1>1, <1>2, <1>3 DEF TriggerNext

LEMMA ClaimStepOn ==
    ASSUME Inv, Inv', NEW u \in Claimers, NEW p \in Plans, NEW e \in ClaimEmails,
           NEW c \in ClaimCodes, claim_inheritance_plan(u, p, e, c)
    PROVE  \A s \in Plans : StepOn(s)
<1> DEFINE heirs == plan[p].beneficiaries
           i == Min(Matching(p, e, c))
           payout == Payout(p, i)
           q == Settled(p, i, payout)
<1>1. /\ u \notin blacklisted /\ "approved" \in kyc[u]
      /\ Exists(p) /\ plan[p].is_active /\ p \notin frozen
      /\ MayAttempt(p, u) /\ ClaimTime(p) /\ e \notin claimed[p] /\ Matching(p, e, c) # {}
      /\ MyTurn(p, i) /\ WithinEmergencyLimit(p, payout) /\ Settle(p, i, payout)
      /\ RecordClaim(p, e) /\ RecordAttempt(p, u)
      /\ triggered' = AfterAutoTrigger(p) /\ UNCHANGED <<next_plan_id, now>>
  BY DEF claim_inheritance_plan, ClaimStep
<1>2. u \in Users /\ e \in Emails
  BY ClaimAssumption
<1>3. /\ AddsUp(plan[p]) /\ plan[p] \in Plan /\ PlanTypes /\ plan[p].owner \in Users
      /\ vault[p] \in Nat
  BY <1>1, PlanFacts
<1>4. ClaimTypes /\ ClaimRegistry /\ now \in 1..MaxTime /\ now' >= now
  BY <1>1, TypeGroups, StepBasics DEF Inv
<1>5. i \in DOMAIN heirs /\ heirs[i].email = e
  BY <1>1, <1>3, MatchFacts
<1> HIDE DEF i
<1>6. /\ payout = Share(plan[p].total_amount, heirs[i].allocation_bp)
      /\ plan' = [plan EXCEPT ![p] = q]
  BY <1>1, <1>3, <1>5, PayoutFacts, SettleFacts
<1> HIDE DEF payout
<1>7. /\ q.owner = plan[p].owner /\ q.is_active = plan[p].is_active
      /\ q.total_amount = plan[p].total_amount - payout
      /\ q.created_at = plan[p].created_at /\ q.wait = plan[p].wait
  BY <1>3 DEF Settled, Plan
<1> HIDE DEF q
<1>8. /\ plan'[p] = q /\ \A s \in Plans \ {p} : plan'[s] = plan[s]
      /\ vault'[p] = vault[p] - payout /\ \A s \in Plans \ {p} : vault'[s] = vault[s]
  <2>1. vault' = [vault EXCEPT ![p] = vault[p] - payout]
    BY <1>1 DEF Settle
  <2>2. QED
    BY <1>3, <1>6, <2>1 DEF PlanTypes
<1>9. \A s \in Plans : Exists(s)' <=> Exists(s)
  BY <1>1, PlansRemain
<1>10. /\ claimed'[p] = claimed[p] \cup {e}
       /\ \A s \in Plans \ {p} : claimed'[s] = claimed[s]
  BY <1>1, <1>2, <1>3, <1>4, RecordClaimFacts
<1>11. attempts'[p][u] # attempts[p][u]
  BY <1>1, <1>2, <1>4, AttemptFacts
<1>12. Stays(p)
  BY <1>1, <1>7, <1>8, <1>9 DEF Stays
<1>13. Claimed(p)
  BY <1>1, <1>2, <1>5, <1>6, <1>7, <1>8, <1>10, <1>11, <1>12 DEF Claimed
<1>14. \A s \in Plans \ {p} : Untouched(s)
  BY <1>1, <1>8, <1>10, AutoTriggerFacts DEF Untouched
<1>15. QED
  BY <1>4, <1>13, <1>14 DEF StepOn

LEMMA BatchClaimStep ==
    ASSUME Inv, Inv', NEW u \in BatchClaimers, NEW p \in Plans, NEW e \in ClaimEmails,
           NEW c \in ClaimCodes, batch_claim(u, p, e, c)
    PROVE  \A s \in Plans : StepOn(s)
<1> DEFINE heirs == plan[p].beneficiaries
           i == Min(Matching(p, e, c))
           payout == Share(plan[p].total_amount, heirs[i].allocation_bp)
           q == [Freshly(p) EXCEPT !.total_amount = plan[p].total_amount - payout]
<1>1. /\ u \notin blacklisted /\ "approved" \in kyc[u]
      /\ Exists(p) /\ plan[p].is_active /\ p \notin frozen
      /\ MayAttempt(p, u) /\ ClaimTime(p) /\ e \notin claimed[p] /\ Matching(p, e, c) # {}
      /\ WithinEmergencyLimit(p, payout)
      /\ plan' = [plan EXCEPT ![p] = q] /\ vault' = vault
      /\ RecordClaim(p, e) /\ RecordAttempt(p, u)
      /\ triggered' = AfterAutoTrigger(p) /\ UNCHANGED <<next_plan_id, now>>
  BY DEF batch_claim, BatchOpen, BatchMatch, ClaimStep
<1>2. u \in Users /\ e \in Emails /\ BatchClaims
  BY ClaimAssumption DEF BatchClaims
<1>3. plan[p] \in Plan /\ PlanTypes /\ plan[p].owner \in Users
  BY <1>1, PlanFacts
<1>4. ClaimTypes /\ ClaimRegistry /\ now \in 1..MaxTime /\ now' >= now
  BY <1>1, TypeGroups, StepBasics DEF Inv
<1>5. i \in DOMAIN heirs /\ heirs[i].email = e
  BY <1>1, <1>3, MatchFacts
<1> HIDE DEF i
<1>6. /\ q.owner = plan[p].owner /\ q.is_active = plan[p].is_active
      /\ q.total_amount = plan[p].total_amount - payout
      /\ q.created_at = plan[p].created_at /\ q.wait = plan[p].wait
  <2> HIDE DEF payout
  <2>1. QED
    BY <1>3, FreshlyFacts DEF Plan
<1> HIDE DEF q
<1>7. plan'[p] = q /\ \A s \in Plans \ {p} : plan'[s] = plan[s]
  BY <1>1, <1>3, StoredAt
<1>8. \A s \in Plans : Exists(s)' <=> Exists(s)
  BY <1>1, PlansRemain
<1>9. /\ claimed'[p] = claimed[p] \cup {e}
      /\ \A s \in Plans \ {p} : claimed'[s] = claimed[s]
  BY <1>1, <1>2, <1>3, <1>4, RecordClaimFacts
<1>10. attempts'[p][u] # attempts[p][u]
  BY <1>1, <1>2, <1>4, AttemptFacts
<1>11. Stays(p)
  BY <1>1, <1>6, <1>7, <1>8 DEF Stays
<1>12. Claimed(p)
  BY <1>1, <1>2, <1>5, <1>6, <1>7, <1>9, <1>10, <1>11 DEF Claimed
<1>13. \A s \in Plans \ {p} : Untouched(s)
  BY <1>1, <1>7, <1>9, AutoTriggerFacts DEF Untouched
<1>14. QED
  BY <1>4, <1>12, <1>13 DEF StepOn

LEMMA RefusedClaimStep ==
    ASSUME Inv, Inv', NEW u \in BatchClaimers, NEW p \in Plans, NEW e \in ClaimEmails,
           NEW c \in ClaimCodes, batch_claim_refused(u, p, e, c)
    PROVE  \A s \in Plans : StepOn(s)
<1>1. /\ Exists(p) /\ plan[p].is_active
      /\ plan' = [plan EXCEPT ![p] = Freshly(p)]
      /\ triggered' = AfterAutoTrigger(p)
      /\ UNCHANGED <<next_plan_id, vault, claimed, now>>
  BY DEF batch_claim_refused, BatchOpen, ClaimStep
<1>2. PlanTypes /\ plan[p] \in Plan /\ now' >= now
  BY <1>1, StepBasics
<1>3. \A s \in Plans : Exists(s)' <=> Exists(s)
  BY <1>1, PlansRemain
<1>4. plan'[p] = Freshly(p) /\ \A s \in Plans \ {p} : plan'[s] = plan[s]
  BY <1>1, <1>2, StoredAt
<1>5. /\ p \in triggered => p \in triggered'
      /\ p \in triggered' \ triggered => ConditionsMet(p)
  BY <1>1 DEF AfterAutoTrigger, AutoTriggers
<1>6. Stays(p)
  BY <1>1, <1>2, <1>3, <1>4, FreshlyFacts DEF Stays
<1>7. Kept(p)
  BY <1>1, <1>2, <1>4, <1>5, <1>6, FreshlyFacts DEF Kept
<1>8. \A s \in Plans \ {p} : Untouched(s)
  BY <1>1, <1>4, AutoTriggerFacts DEF Untouched
<1>9. QED
  BY <1>2, <1>7, <1>8 DEF StepOn

LEMMA NextStep ==
    ASSUME Inv, Inv', [Next]_vars
    PROVE  \A s \in Plans : StepOn(s)
<1>1. CASE ClaimNext
  BY <1>1, ClaimStepOn, BatchClaimStep, RefusedClaimStep DEF ClaimNext
<1>2. QED
  BY <1>1, PlanNextStep, AccountNextStep, TriggerNextStep, EmergencyNextStep,
     DisputeNextStep, TickStep DEF Next

\* A claim asks is_claim_time_valid; no other step moves a distribution date,
\* adds a claim or takes a trigger back.
LEMMA EarlyStep ==
    ASSUME Inv, Inv', EarlyClaimNeedsTrigger, [Next]_vars
    PROVE  EarlyClaimNeedsTrigger'
<1>1. SUFFICES ASSUME NEW p \in Plans,
                      claimed'[p] # {}, now' - plan'[p].created_at < plan'[p].wait
               PROVE  p \in triggered'
  BY DEF EarlyClaimNeedsTrigger
<1>2. StepOn(p) /\ now' >= now
  BY <1>1, NextStep DEF StepOn
<1>3. now \in Nat /\ now' \in Nat
  <2>1. now \in 1..MaxTime /\ now' \in 1..MaxTime
    BY <1>1, TypeGroups, TypeGroupsNext DEF Inv
  <2>2. QED
    BY <2>1, InheritanceAssumption
<1>4. Exists(p) => plan[p].created_at \in Nat /\ plan[p].wait \in Nat
  BY <1>1, StepBasics, StoredPlan
<1>5. ~Exists(p) => claimed[p] = {}
  BY <1>1 DEF Inv, NoTraces
<1>6. CASE claimed'[p] = claimed[p]
  <2>1. Exists(p) /\ claimed[p] # {}
    BY <1>1, <1>5, <1>6
  <2>2. plan'[p].created_at = plan[p].created_at /\ plan'[p].wait = plan[p].wait
    BY <1>2, <2>1 DEF StepOn, Untouched, Created, Kept, HandedOver, Funded, Withdrawn,
       Claimed, Stays
  <2>3. p \in triggered
    BY <1>1, <1>2, <1>3, <1>4, <2>1, <2>2 DEF EarlyClaimNeedsTrigger
  <2>4. QED
    BY <1>2, <2>1, <2>3, AutoTriggerFacts DEF StepOn, Untouched, Created, Kept, HandedOver,
       Funded, Withdrawn, Claimed
<1>7. CASE claimed'[p] # claimed[p]
  <2>1. Claimed(p)
    BY <1>2, <1>7 DEF StepOn, Untouched, Created, Kept, HandedOver, Funded, Withdrawn
  <2>2. /\ ClaimTime(p) /\ triggered' = AfterAutoTrigger(p) /\ now' = now
        /\ plan'[p].created_at = plan[p].created_at /\ plan'[p].wait = plan[p].wait
        /\ Exists(p)
    BY <2>1 DEF Claimed, Stays
  <2>3. QED
    BY <1>1, <1>3, <1>4, <2>2 DEF ClaimTime
<1>8. QED
  BY <1>6, <1>7

\* Before its distribution date a plan is claimed from only once triggered:
\* is_claim_time_valid and the trigger that bypasses it, in every claim path.
THEOREM EarlyClaimsAreTriggered == Spec => []EarlyClaimNeedsTrigger
<1>1. Init => EarlyClaimNeedsTrigger
  BY DEF Init, EarlyClaimNeedsTrigger
<1>2. Inv /\ Inv' /\ EarlyClaimNeedsTrigger /\ [Next]_vars => EarlyClaimNeedsTrigger'
  BY EarlyStep
<1>3. QED
  BY <1>1, <1>2, SpecInv, PTL DEF Spec

\* Whatever is claimed, singly or in a batch, or withdrawn, the vault can
\* still release all that the plan's books promise.
THEOREM VaultAlwaysCoversBooks == Spec => []VaultCoversBooks
<1>1. Init => VaultCoversBooks
  BY DEF Init, VaultCoversBooks, Exists
<1>2. Inv /\ Inv' /\ VaultCoversBooks /\ [Next]_vars => VaultCoversBooks'
  <2>1. SUFFICES ASSUME Inv, Inv', VaultCoversBooks, [Next]_vars,
                        NEW p \in Plans, Exists(p)'
                 PROVE  plan'[p].total_amount <= vault'[p]
    BY DEF VaultCoversBooks
  <2>2. StepOn(p)
    BY <2>1, NextStep
  <2>3. Exists(p) => /\ plan[p].total_amount <= vault[p]
                     /\ plan[p].total_amount \in Nat /\ vault[p] \in Nat
    BY <2>1, PlanFacts, StoredPlan DEF VaultCoversBooks
  <2>4. plan'[p].total_amount \in Nat /\ vault'[p] \in Nat
    <3>1. PlanTypes'
      BY <2>1, TypeGroupsNext DEF Inv
    <3>2. plan'[p] \in Plan
      BY <2>1, <3>1 DEF PlanTypes, Exists
    <3>3. plan'[p].total_amount \in U64
      BY <3>2 DEF Plan
    <3>4. QED
      BY <3>1, <3>3, InheritanceAssumption DEF PlanTypes, U64
  <2>5. CASE Untouched(p)
    BY <2>1, <2>3, <2>5 DEF Untouched, Exists
  <2>6. CASE Created(p)
    BY <2>4, <2>6 DEF Created
  <2>7. CASE Kept(p) \/ HandedOver(p)
    BY <2>3, <2>7 DEF Kept, HandedOver, Stays
  <2>8. CASE Funded(p) \/ Withdrawn(p)
    BY <2>3, <2>8 DEF Funded, Withdrawn, Stays
  <2>9. CASE Claimed(p)
    <3>1. PICK x \in Nat : /\ plan'[p].total_amount = plan[p].total_amount - x
                           /\ vault'[p] \in {vault[p], vault[p] - x}
      <4>1. Exists(p)
        BY <2>9 DEF Claimed, Stays
      <4>2. PICK i \in DOMAIN plan[p].beneficiaries :
               LET x == Share(plan[p].total_amount, plan[p].beneficiaries[i].allocation_bp) IN
               /\ plan'[p].total_amount = plan[p].total_amount - x
               /\ vault'[p] \in {vault[p], vault[p] - x}
        BY <2>9 DEF Claimed
      <4>3. plan[p].beneficiaries[i].allocation_bp \in Nat
        BY <2>1, <4>1, PlanFacts DEF IsRoster
      <4>4. Share(plan[p].total_amount, plan[p].beneficiaries[i].allocation_bp) \in Nat
        BY <2>3, <4>1, <4>3, ShareFacts
      <4>5. QED
        BY <4>2, <4>4
    <3>2. Exists(p)
      BY <2>9 DEF Claimed, Stays
    <3>3. QED
      BY <2>3, <3>1, <3>2
  <2>10. QED
    BY <2>2, <2>5, <2>6, <2>7, <2>8, <2>9 DEF StepOn
<1>3. QED
  BY <1>1, <1>2, SpecInv, PTL DEF Spec

\* batch_claim, which reduces the books and leaves the vault alone, is the
\* only way the two come apart.
THEOREM VaultMatchesWithoutBatches ==
    Spec /\ [][~BatchClaims]_vars => []VaultMatchesBooks
<1>1. Init => VaultMatchesBooks
  BY DEF Init, VaultMatchesBooks, Exists
<1>2. Inv /\ Inv' /\ VaultMatchesBooks /\ [Next]_vars /\ [~BatchClaims]_vars
         => VaultMatchesBooks'
  <2>1. SUFFICES ASSUME Inv, Inv', VaultMatchesBooks, [Next]_vars, [~BatchClaims]_vars,
                        NEW p \in Plans
                 PROVE  vault'[p] = IF Exists(p)' THEN plan'[p].total_amount ELSE 0
    BY DEF VaultMatchesBooks
  <2>2. StepOn(p)
    BY <2>1, NextStep
  <2>3. vault[p] = IF Exists(p) THEN plan[p].total_amount ELSE 0
    BY <2>1 DEF VaultMatchesBooks
  <2>4. CASE Untouched(p)
    BY <2>3, <2>4 DEF Untouched, Exists
  <2>5. CASE Created(p) \/ Kept(p) \/ HandedOver(p)
    BY <2>3, <2>5 DEF Created, Kept, HandedOver, Stays
  <2>6. CASE Funded(p) \/ Withdrawn(p)
    BY <2>3, <2>6 DEF Funded, Withdrawn, Stays
  <2>7. CASE Claimed(p)
    <3>1. claimed'[p] # claimed[p] /\ Exists(p) /\ Exists(p)'
      BY <2>7 DEF Claimed, Stays
    <3>2. ~BatchClaims
      BY <2>1, <3>1 DEF vars, claimVars
    <3>3. QED
      BY <2>3, <2>7, <3>1, <3>2 DEF Claimed
  <2>8. QED
    BY <2>2, <2>4, <2>5, <2>6, <2>7 DEF StepOn
<1>3. QED
  BY <1>1, <1>2, SpecInv, PTL DEF Spec

-----------------------------------------------------------------------------
(* Theorems: what a step may never do *)

\* Only a withdrawal touches a deactivated plan.
LEMMA DeadStep ==
    ASSUME Inv, Inv', [Next]_vars
    PROVE  DeadStayDead
<1>1. SUFFICES ASSUME NEW p \in deactivated
               PROVE  /\ p \in deactivated' /\ ~plan'[p].is_active
                      /\ vault'[p] <= vault[p]
                      /\ claimed'[p] = claimed[p]
                      /\ p \in triggered' => p \in triggered
  BY DEF DeadStayDead
<1>2. p \in Plans /\ Exists(p) /\ ~plan[p].is_active /\ vault[p] \in Nat
  <2>1. p \in Plans /\ Exists(p) /\ ~plan[p].is_active
    BY <1>1 DEF Inv, Books, RegistryMatchesOwners
  <2>2. QED
    BY <1>1, <2>1, PlanFacts
<1>3. StepOn(p)
  BY <1>1, <1>2, NextStep
<1>4. /\ Exists(p)' /\ ~plan'[p].is_active /\ vault'[p] <= vault[p]
      /\ claimed'[p] = claimed[p] /\ (p \in triggered' => p \in triggered)
  <2>1. CASE Untouched(p)
    BY <1>2, <2>1 DEF Untouched, Exists
  <2>2. CASE Kept(p)
    BY <1>2, <2>2 DEF Kept, Stays
  <2>3. CASE HandedOver(p)
    BY <1>2, <2>3 DEF HandedOver
  <2>4. CASE Withdrawn(p)
    BY <1>2, <2>4 DEF Withdrawn, Stays
  <2>5. ~Created(p) /\ ~Funded(p) /\ ~Claimed(p)
    BY <1>2 DEF Created, Funded, Claimed
  <2>6. QED
    BY <1>3, <2>1, <2>2, <2>3, <2>4, <2>5 DEF StepOn
<1>5. p \in deactivated'
  BY <1>1, <1>2, <1>4 DEF Inv, Books, RegistryMatchesOwners
<1>6. QED
  BY <1>4, <1>5

\* No entry point takes a trigger back.
LEMMA TriggersStep ==
    ASSUME Inv, Inv', [Next]_vars
    PROVE  TriggersStay
<1>1. SUFFICES ASSUME NEW p \in triggered
               PROVE  p \in triggered' /\ plan'[p].owner = plan[p].owner
  BY DEF TriggersStay
<1>2. p \in Plans /\ Exists(p)
  BY <1>1, TypeGroups DEF Inv, NoTraces, TriggerTypes
<1>3. StepOn(p)
  BY <1>1, <1>2, NextStep
<1>4. QED
  BY <1>1, <1>2, <1>3, AutoTriggerFacts DEF StepOn, Untouched, Created, Kept, HandedOver,
     Funded, Withdrawn, Claimed, Stays

(***************************************************************************)
(* The contract implements PlanFate.                                       *)
(***************************************************************************)

\* A step that stores at most plan p and triggers at most p.
OnlyOn(p) ==
    /\ \A s \in Plans \ {p} : plan'[s] = plan[s] /\ (s \in triggered' <=> s \in triggered)
    /\ UNCHANGED <<frozen, paused>>

\* A step that only freezes or pauses, or only lifts either.
Bars == frozen \subseteq frozen' /\ (paused => paused')
Lifts == frozen' \subseteq frozen /\ (paused' => paused)

\* What each group of entry points leaves alone.
LEMMA GroupFrames ==
    /\ AccountNext => AccountStep
    /\ TriggerNext => TriggerStep
    /\ EmergencyNext => EmergencyStep
    /\ DisputeNext => DisputeStep
    /\ ClaimNext => ClaimStep
<1>1. AccountNext => AccountStep
  BY DEF AccountNext, submit_kyc, reject_kyc, approve_kyc, batch_approve_kyc, ApproveKyc,
     assign_role, revoke_role, blacklist_address, unblacklist_address, pause
<1>2. TriggerNext => TriggerStep
  <2>1. ASSUME NEW p \in Plans, NEW u \in Users,
               \/ \E s \in TriggerSetups : set_trigger_conditions(u, p, s)
               \/ \E x \in TriggerDates : add_time_trigger(u, p, x)
               \/ \E x \in InactivityPeriods : add_inactivity_trigger(u, p, x)
               \/ \E o \in Oracles : add_oracle_trigger(u, p, o) \/ add_health_trigger(u, p, o)
               \/ record_activity(u, p) \/ trigger_inheritance(u, p)
        PROVE  TriggerStep
    BY <2>1 DEF set_trigger_conditions, add_time_trigger, add_inactivity_trigger,
       add_oracle_trigger, add_health_trigger, record_activity, SaveConfig, trigger_inheritance,
       Trigger
  <2>2. ASSUME NEW p \in Plans,
               \/ \E o \in Oracles : submit_oracle_trigger(o, p) \/ submit_health_trigger(o, p)
               \/ auto_trigger_check(p)
               \/ \E signers \in Signers : guardian_emergency_trigger(p, signers)
               \/ freeze_loans(p)
        PROVE  TriggerStep
    BY <2>2 DEF submit_oracle_trigger, submit_health_trigger, SaveConfig, auto_trigger_check,
       guardian_emergency_trigger, freeze_loans, Trigger
  <2>3. QED
    BY <2>1, <2>2 DEF TriggerNext
<1>3. EmergencyNext => EmergencyStep
  BY DEF EmergencyNext, set_guardians, add_emergency_contact, remove_emergency_contact,
     activate_emergency_access, approve_emergency_access, deactivate_emergency_access,
     get_emergency_access
<1>4. DisputeNext => DisputeStep
  BY DEF DisputeNext, file_dispute, raise_dispute, resolve_dispute, unfreeze_plan,
     review_dispute, add_arbitrator, remove_arbitrator
<1>5. ClaimNext => ClaimStep
  BY DEF ClaimNext, claim_inheritance_plan, batch_claim, batch_claim_refused
<1>6. QED
  BY <1>1, <1>2, <1>3, <1>4, <1>5

\* What an owner does to an existing plan.
LEMMA PlanNextCases ==
    ASSUME PlanNext
    PROVE  \/ \E u \in Owners, x \in CreateAmounts, r \in Rosters, w \in Waits,
                g \in CreateGuardians, lendable \in BOOLEAN :
                create_inheritance_plan(u, x, r, w, lendable, g)
           \/ \E u \in Users, p \in Plans :
                \/ \E q : OwnerEdit(u, p, q)
                \/ deactivate_inheritance_plan(u, p)
                \/ \E v \in NewOwners : transfer_plan_ownership(u, v, p)
                \/ \E x \in DepositAmounts : deposit(u, p, x)
                \/ \E x \in WithdrawAmounts : withdraw(u, p, x)
<1>1. ASSUME NEW u \in Users, NEW p \in Plans,
             \/ \E h \in NewHeirs : add_beneficiary(u, p, h) \/ batch_add_beneficiaries(u, p, h)
             \/ \E i \in Removals :
                   remove_beneficiary(u, p, i) \/ batch_remove_beneficiaries(u, p, i)
             \/ \E bps \in Allocations : batch_update_allocations(u, p, bps)
             \/ \E i \in 1..MAX_BENEFICIARIES, k \in Priorities :
                   set_beneficiary_priority(u, p, i, k)
             \/ enable_waterfall_distribution(u, p)
             \/ \E lendable \in Lendable : set_lendable(u, p, lendable)
             \/ \E r \in UpdateRosters, y \in EarnYields : update_plan(u, p, r, y)
      PROVE  \E q : OwnerEdit(u, p, q)
  BY <1>1 DEF add_beneficiary, batch_add_beneficiaries, remove_beneficiary,
     batch_remove_beneficiaries, AppendHeir, DropHeir, batch_update_allocations,
     set_beneficiary_priority, enable_waterfall_distribution, set_lendable, update_plan
<1>2. QED
  BY <1>1 DEF PlanNext

LEMMA PlanNextIsOnOne ==
    ASSUME Inv, PlanNext
    PROVE  \E p \in Plans : OnlyOn(p)
<1> USE StepBasics DEF PlanTypes
<1>1. PlanStep /\ UNCHANGED paused => UNCHANGED <<triggered, frozen, paused>>
  BY DEF PlanStep, triggerVars, disputeVars
<1>2. ASSUME NEW u \in Owners, NEW x \in CreateAmounts, NEW r \in Rosters, NEW w \in Waits,
             NEW g \in CreateGuardians, NEW lendable \in BOOLEAN,
             create_inheritance_plan(u, x, r, w, lendable, g)
      PROVE  OnlyOn(next_plan_id) /\ next_plan_id \in Plans
  <2> DEFINE q == [owner |-> u, total_amount |-> x - Fee(x),
                   beneficiaries |-> Enrolled(r), total_allocation_bp |-> Allocated(r),
                   wait |-> w, created_at |-> now, is_active |-> TRUE,
                   is_lendable |-> lendable, waterfall_enabled |-> FALSE,
                   earn_yield |-> FALSE]
  <2>1. /\ next_plan_id \in Plans /\ plan' = [plan EXCEPT ![next_plan_id] = q]
        /\ UNCHANGED <<triggered, frozen, paused>>
    BY <1>1, <1>2 DEF create_inheritance_plan
  <2> HIDE DEF q
  <2>2. QED
    BY <2>1 DEF OnlyOn
<1>3. ASSUME NEW u \in Users, NEW p \in Plans, NEW q, OwnerEdit(u, p, q)
      PROVE  OnlyOn(p)
  BY <1>1, <1>3 DEF OwnerEdit, OnlyOn, accountVars
<1>5. ASSUME NEW u \in Users, NEW p \in Plans,
             \/ deactivate_inheritance_plan(u, p)
             \/ \E v \in NewOwners : transfer_plan_ownership(u, v, p)
             \/ \E x \in DepositAmounts : deposit(u, p, x)
             \/ \E x \in WithdrawAmounts : withdraw(u, p, x)
      PROVE  OnlyOn(p)
  BY <1>1, <1>5 DEF deactivate_inheritance_plan, transfer_plan_ownership, deposit, withdraw,
     OnlyOn, accountVars
<1>6. QED
  BY <1>2, <1>3, <1>5, PlanNextCases

LEMMA TriggerNextIsOnOne ==
    ASSUME Inv, TriggerNext
    PROVE  \E p \in Plans : OnlyOn(p)
<1> USE StepBasics DEF PlanTypes
<1>1. TriggerStep => UNCHANGED <<frozen, paused>>
  BY DEF TriggerStep, disputeVars, accountVars
<1>2. ASSUME NEW p \in Plans, Trigger(p) PROVE OnlyOn(p)
  BY <1>1, <1>2 DEF Trigger, OnlyOn
<1>3. ASSUME NEW p \in Plans, NEW c, SaveConfig(p, c) PROVE OnlyOn(p)
  BY <1>1, <1>3 DEF SaveConfig, OnlyOn
<1>4. ASSUME NEW p \in Plans,
             \/ \E u \in Users : trigger_inheritance(u, p)
             \/ auto_trigger_check(p)
             \/ \E signers \in Signers : guardian_emergency_trigger(p, signers)
             \/ freeze_loans(p)
      PROVE  Trigger(p)
  BY <1>4 DEF trigger_inheritance, auto_trigger_check, guardian_emergency_trigger, freeze_loans
<1>5. ASSUME NEW p \in Plans,
             \/ \E u \in Users :
                   \/ \E s \in TriggerSetups : set_trigger_conditions(u, p, s)
                   \/ \E x \in TriggerDates : add_time_trigger(u, p, x)
                   \/ \E x \in InactivityPeriods : add_inactivity_trigger(u, p, x)
                   \/ \E o \in Oracles : add_oracle_trigger(u, p, o) \/ add_health_trigger(u, p, o)
                   \/ record_activity(u, p)
             \/ \E o \in Oracles : submit_oracle_trigger(o, p) \/ submit_health_trigger(o, p)
      PROVE  \E c : SaveConfig(p, c)
  BY <1>5 DEF set_trigger_conditions, add_time_trigger, add_inactivity_trigger,
     add_oracle_trigger, add_health_trigger, record_activity, submit_oracle_trigger,
     submit_health_trigger
<1>6. QED
  BY <1>2, <1>3, <1>4, <1>5 DEF TriggerNext

LEMMA ClaimNextIsOnOne ==
    ASSUME Inv, ClaimNext
    PROVE  \E p \in Plans : OnlyOn(p)
<1>1. ASSUME NEW p \in Plans, NEW q, plan' = [plan EXCEPT ![p] = q],
             triggered' = AfterAutoTrigger(p) \/ triggered' = triggered, ClaimStep
      PROVE  OnlyOn(p)
  BY <1>1, StepBasics, AutoTriggerFacts DEF ClaimStep, accountVars, disputeVars, OnlyOn, PlanTypes
<1>2. PICK p \in Plans, e \in ClaimEmails, c \in ClaimCodes :
         \/ \E u \in Claimers : claim_inheritance_plan(u, p, e, c)
         \/ \E u \in BatchClaimers : batch_claim(u, p, e, c) \/ batch_claim_refused(u, p, e, c)
  BY DEF ClaimNext
<1>3. CASE \E u \in Claimers : claim_inheritance_plan(u, p, e, c)
  <2>1. PICK u \in Claimers : claim_inheritance_plan(u, p, e, c)
    BY <1>3
  <2>2. /\ Settle(p, Min(Matching(p, e, c)), Payout(p, Min(Matching(p, e, c))))
        /\ triggered' = AfterAutoTrigger(p) /\ ClaimStep
    BY <2>1 DEF claim_inheritance_plan
  <2>3. /\ \A s \in Plans \ {p} : plan'[s] = plan[s]
        /\ \A s \in Plans \ {p} : s \in triggered' <=> s \in triggered
    BY <2>2, StepBasics, AutoTriggerFacts DEF Settle, PlanTypes
  <2>4. QED
    BY <2>2, <2>3 DEF OnlyOn, ClaimStep, accountVars, disputeVars
<1>4. CASE \E u \in BatchClaimers : batch_claim(u, p, e, c) \/ batch_claim_refused(u, p, e, c)
  <2>1. PICK u \in BatchClaimers : batch_claim(u, p, e, c) \/ batch_claim_refused(u, p, e, c)
    BY <1>4
  <2>2. /\ triggered' = AfterAutoTrigger(p) /\ ClaimStep
        /\ \E q : plan' = [plan EXCEPT ![p] = q]
    BY <2>1 DEF batch_claim, batch_claim_refused
  <2>3. QED
    BY <1>1, <2>2
<1>5. QED
  BY <1>2, <1>3, <1>4

\* A call stores and triggers one plan, or freezes and pauses, or lifts either.
LEMMA NextIsOnOne ==
    ASSUME Inv, [Next]_vars
    PROVE  \/ \E p \in Plans : OnlyOn(p)
           \/ UNCHANGED <<plan, triggered>> /\ (Bars \/ Lifts)
<1>1. CASE AccountNext
  <2>1. UNCHANGED <<plan, triggered, frozen>>
    BY <1>1, GroupFrames DEF AccountStep, planVars, triggerVars, disputeVars
  <2>2. paused \in BOOLEAN /\ paused' \in BOOLEAN
    BY <1>1, InheritanceAssumption DEF Inv, InheritanceTypeOK, AccountNext, submit_kyc, reject_kyc,
       approve_kyc, batch_approve_kyc, ApproveKyc, assign_role, revoke_role, blacklist_address,
       unblacklist_address, pause
  <2>3. QED
    BY <2>1, <2>2 DEF Bars, Lifts
<1>2. CASE EmergencyNext \/ Tick \/ UNCHANGED vars
  <2>1. EmergencyStep \/ Tick \/ UNCHANGED vars
    BY <1>2, GroupFrames
  <2>2. UNCHANGED <<plan, triggered, frozen>>
    BY <2>1 DEF EmergencyStep, Tick, vars, planVars, triggerVars, disputeVars
  <2>3. UNCHANGED paused
    BY <2>1 DEF EmergencyStep, Tick, vars, accountVars
  <2>4. QED
    BY <2>2, <2>3 DEF Bars
<1>3. CASE DisputeNext
  <2>1. UNCHANGED <<plan, triggered, paused>>
    BY <1>3, GroupFrames DEF DisputeStep, planVars, triggerVars, accountVars
  <2>2. frozen \subseteq frozen' \/ frozen' \subseteq frozen
    BY <1>3 DEF DisputeNext, file_dispute, raise_dispute, resolve_dispute, unfreeze_plan,
       review_dispute, add_arbitrator, remove_arbitrator
  <2>3. QED
    BY <2>1, <2>2 DEF Bars, Lifts
<1>4. QED
  BY <1>1, <1>2, <1>3, PlanNextIsOnOne, TriggerNextIsOnOne, ClaimNextIsOnOne DEF Next

\* A plan is born active, in a contract that is not paused.
LEMMA BornOpen ==
    ASSUME Inv, Inv', [Next]_vars, NEW p \in Plans, ~Exists(p), Exists(p)'
    PROVE  plan'[p].is_active /\ ~paused
<1>1. next_plan_id' # next_plan_id
  BY PlansRemain
<1>2. PICK u \in Owners, x \in CreateAmounts, r \in Rosters, w \in Waits,
           g \in CreateGuardians, lendable \in BOOLEAN :
           create_inheritance_plan(u, x, r, w, lendable, g)
  <2>1. ~TriggerNext /\ ~ClaimNext
    BY <1>1, GroupFrames DEF TriggerStep, ClaimStep
  <2>2. ~AccountNext /\ ~EmergencyNext /\ ~DisputeNext
    BY <1>1, GroupFrames DEF AccountStep, EmergencyStep, DisputeStep, planVars
  <2>3. ~Tick /\ ~UNCHANGED vars
    BY <1>1 DEF Tick, vars, planVars
  <2>4. PlanNext
    BY <2>1, <2>2, <2>3 DEF Next
  <2>5. QED
    BY <1>1, <2>4, PlanNextCases DEF OwnerEdit, deactivate_inheritance_plan,
       transfer_plan_ownership, deposit, withdraw
<1> DEFINE q == [owner |-> u, total_amount |-> x - Fee(x),
                 beneficiaries |-> Enrolled(r), total_allocation_bp |-> Allocated(r),
                 wait |-> w, created_at |-> now, is_active |-> TRUE,
                 is_lendable |-> lendable, waterfall_enabled |-> FALSE,
                 earn_yield |-> FALSE]
<1>3. /\ next_plan_id \in Plans /\ plan' = [plan EXCEPT ![next_plan_id] = q] /\ ~paused
  BY <1>2 DEF create_inheritance_plan
<1>4. q.is_active
  OBVIOUS
<1> HIDE DEF q
<1>5. p = next_plan_id
  <2>1. \A s \in Plans \ {next_plan_id} : plan'[s] = plan[s]
    BY <1>3, StepBasics, StoredAt
  <2>2. QED
    BY <2>1 DEF Exists
<1>6. plan'[p] = q
  BY <1>3, <1>5, StepBasics, StoredAt
<1>7. QED
  BY <1>3, <1>4, <1>6

\* What a step that leaves the marks alone may do to the fate of a plan.
LEMMA FateTurns ==
    ASSUME Inv, Inv', [Next]_vars, UNCHANGED <<frozen, paused>>, NEW p \in Plans
    PROVE  \/ FateOf(p)' = FateOf(p)
           \/ FateOf(p) = "absent" /\ FateOf(p)' = "open"
           \/ FateOf(p) \in {"open", "barred"} /\ FateOf(p)' \in {"closed", "triggered"}
<1>1. StepOn(p)
  BY NextStep
<1>2. CASE ~Exists(p) /\ Exists(p)'
  <2>1. p \notin triggered /\ p \notin frozen
    BY <1>2 DEF Inv, NoTraces
  <2>2. p \notin triggered'
    BY <1>1, <1>2, <2>1 DEF StepOn, Untouched, Created, Kept, HandedOver, Funded, Withdrawn,
       Claimed, Stays, Exists
  <2>3. plan'[p].is_active /\ ~paused
    BY <1>2, BornOpen
  <2>4. QED
    BY <1>2, <2>1, <2>2, <2>3 DEF FateOf
<1>3. CASE ~Exists(p) /\ ~Exists(p)'
  <2>1. p \notin triggered /\ p \notin triggered'
    BY <1>3 DEF Inv, NoTraces
  <2>2. QED
    BY <1>3, <2>1 DEF FateOf
<1>4. CASE Exists(p)
  <2>1. /\ Exists(p)' /\ (p \in triggered => p \in triggered')
        /\ p \in triggered' \ triggered => plan[p].is_active
        /\ plan'[p].is_active => plan[p].is_active
    BY <1>1, <1>4, AutoTriggerFacts DEF StepOn, Untouched, Created, Kept, HandedOver, Funded,
       Withdrawn, Claimed, Stays, Exists
  <2>2. QED
    BY <1>4, <2>1 DEF FateOf
<1>5. QED
  BY <1>2, <1>3, <1>4

\* A step on one plan creates it, closes it, triggers it or keeps its fate.
LEMMA OneFateTurns ==
    ASSUME Inv, Inv', [Next]_vars, NEW r \in Plans, OnlyOn(r)
    PROVE  [Life!FateNext]_fates
<1> DEFINE before == [p \in Plans |-> FateOf(p)]
           after == [q \in Plans |-> FateOf(q)']
<1>1. \A s \in Plans \ {r} : FateOf(s)' = FateOf(s)
  BY DEF OnlyOn, FateOf, Exists
<1>2. \/ FateOf(r)' = FateOf(r)
      \/ FateOf(r) = "absent" /\ FateOf(r)' = "open"
      \/ FateOf(r) \in {"open", "barred"} /\ FateOf(r)' \in {"closed", "triggered"}
  BY FateTurns DEF OnlyOn
<1>3. ASSUME NEW to, FateOf(r)' = to
      PROVE  after = [q \in Plans |-> IF q \in {r} THEN to ELSE before[q]]
  BY <1>1, <1>3
<1>4. CASE FateOf(r)' = FateOf(r)
  <2>1. after = before
    BY <1>1, <1>4
  <2>2. QED
    BY <2>1 DEF fates
<1>5. CASE FateOf(r) = "absent" /\ FateOf(r)' = "open"
  <2>1. Life!Create(r)
    BY <1>3, <1>5 DEF Life!Create, Life!All, Life!Becomes, fates
  <2>2. QED
    BY <2>1 DEF Life!FateNext
<1>6. CASE FateOf(r) \in {"open", "barred"} /\ FateOf(r)' = "closed"
  <2>1. Life!Close(r)
    BY <1>3, <1>6 DEF Life!Close, Life!All, Life!Becomes, fates
  <2>2. QED
    BY <2>1 DEF Life!FateNext
<1>7. CASE FateOf(r) \in {"open", "barred"} /\ FateOf(r)' = "triggered"
  <2>1. Life!Trigger(r)
    BY <1>3, <1>7 DEF Life!Trigger, Life!All, Life!Becomes, fates
  <2>2. QED
    BY <2>1 DEF Life!FateNext
<1>8. QED
  BY <1>2, <1>4, <1>5, <1>6, <1>7

\* A dispute, a pause and the end of either move plans between open and barred.
LEMMA MarksTurnFates ==
    ASSUME UNCHANGED <<plan, triggered>>, Bars \/ Lifts
    PROVE  [Life!FateNext]_fates
<1> DEFINE before == [p \in Plans |-> FateOf(p)]
           after == [q \in Plans |-> FateOf(q)']
           moved == {q \in Plans : FateOf(q)' # FateOf(q)}
<1>1. CASE Bars
  <2>1. \A q \in moved : FateOf(q) = "open" /\ FateOf(q)' = "barred"
    BY <1>1 DEF Bars, FateOf, Exists
  <2>2. after = [q \in Plans |-> IF q \in moved THEN "barred" ELSE before[q]]
    BY <2>1
  <2>3. Life!Bar(moved)
    BY <2>1, <2>2 DEF Life!Bar, Life!All, Life!Becomes, fates
  <2>4. QED
    BY <2>3 DEF Life!FateNext
<1>2. CASE Lifts
  <2>1. \A q \in moved : FateOf(q) = "barred" /\ FateOf(q)' = "open"
    BY <1>2 DEF Lifts, FateOf, Exists
  <2>2. after = [q \in Plans |-> IF q \in moved THEN "open" ELSE before[q]]
    BY <2>1
  <2>3. Life!Admit(moved)
    BY <2>1, <2>2 DEF Life!Admit, Life!All, Life!Becomes, fates
  <2>4. QED
    BY <2>3 DEF Life!FateNext
<1>3. QED
  BY <1>1, <1>2

\* Every step of the contract is one of PlanFate or leaves all fates alone.
LEMMA FateStep ==
    ASSUME Inv, Inv', [Next]_vars
    PROVE  [Life!FateNext]_fates
BY NextIsOnOne, OneFateTurns, MarksTurnFates

LEMMA FateStarts == Init => Life!FateInit
BY DEF Init, Life!FateInit, fates, FateOf, Exists

\* Deactivation and triggering are for good: every plan lives as PlanFate has
\* it, which is what the backend counts on; a deactivated plan pays no heir, a
\* triggered one never changes hands.
THEOREM FateStaysSealed == Spec => FateIsSealed
<1>1. Inv /\ Inv' /\ [Next]_vars => [DeadStayDead]_vars
  BY DeadStep
<1>2. Inv /\ Inv' /\ [Next]_vars => [TriggersStay]_vars
  BY TriggersStep
<1>3. Inv /\ Inv' /\ [Next]_vars => [Life!FateNext]_fates
  BY FateStep
<1>4. QED
  BY <1>1, <1>2, <1>3, FateStarts, SpecInv, PTL DEF Spec, FateIsSealed, DeactivatedPlanIsDead,
     TriggerIsFinal, ImplementsPlanFate, Life!FateSpec

\* Every entry point that moves funds or hands over asks require_not_frozen.
LEMMA FrozenStep ==
    ASSUME Inv, Inv', [Next]_vars
    PROVE  FrozenStayPut
<1>1. SUFFICES ASSUME NEW p \in frozen
               PROVE  /\ vault'[p] = vault[p]
                      /\ plan'[p].total_amount = plan[p].total_amount
                      /\ plan'[p].owner = plan[p].owner
                      /\ claimed'[p] = claimed[p]
                      /\ p \in triggered' \ triggered => ConditionsMet(p)
  BY DEF FrozenStayPut
<1>2. p \in Plans /\ Exists(p)
  BY <1>1, TypeGroups DEF Inv, NoTraces, DisputeTypes
<1>3. StepOn(p)
  BY <1>1, <1>2, NextStep
<1>4. QED
  BY <1>1, <1>2, <1>3 DEF StepOn, Untouched, Created, Kept, HandedOver, Funded, Withdrawn,
     Claimed, Stays

\* Whatever calls come while a plan is frozen, its funds, claims and owner stay
\* as they are, and nobody but its own conditions can trigger it.
THEOREM FreezeHolds == Spec => FrozenPlanKeepsFunds
<1>1. Inv /\ Inv' /\ [Next]_vars => [FrozenStayPut]_vars
  BY FrozenStep
<1>2. QED
  BY <1>1, SpecInv, PTL DEF Spec, FrozenPlanKeepsFunds

\* Withdrawals and claims ask WithinEmergencyLimit; nothing else lowers a sum.
LEMMA DrainStep ==
    ASSUME Inv, Inv', [Next]_vars
    PROVE  DrainsWithinLimit
<1> DEFINE limit(p) == Share(plan[p].total_amount, EMERGENCY_TRANSFER_LIMIT_BP)
<1>1. SUFFICES ASSUME NEW p \in Plans, is_emergency_active(p)
               PROVE  /\ vault[p] - vault'[p] <= limit(p)
                      /\ plan[p].total_amount - plan'[p].total_amount <= limit(p)
  BY DEF DrainsWithinLimit
<1>2. Exists(p)
  BY <1>1 DEF Inv, NoTraces, is_emergency_active
<1>3. /\ plan[p].total_amount \in Nat /\ vault[p] \in Nat /\ limit(p) \in Nat
      /\ AddsUp(plan[p]) /\ PlanTypes
  <2>1. plan[p].total_amount \in Nat /\ vault[p] \in Nat /\ AddsUp(plan[p]) /\ PlanTypes
    BY <1>1, <1>2, PlanFacts, StoredPlan
  <2>2. EMERGENCY_TRANSFER_LIMIT_BP \in Nat
    BY InheritanceAssumption
  <2>3. QED
    BY <2>1, <2>2, ShareFacts
<1>4. StepOn(p)
  BY <1>1, NextStep
<1>5. \A x : WithinEmergencyLimit(p, x) => x <= limit(p)
  BY <1>1 DEF WithinEmergencyLimit
<1> HIDE DEF limit
<1>6. CASE Untouched(p) \/ Kept(p) \/ HandedOver(p)
  BY <1>3, <1>6 DEF Untouched, Kept, HandedOver
<1>7. CASE Funded(p) \/ Withdrawn(p)
  BY <1>3, <1>5, <1>7 DEF Funded, Withdrawn
<1>8. CASE Claimed(p)
  <2>1. PICK i \in DOMAIN plan[p].beneficiaries :
           LET x == Share(plan[p].total_amount, plan[p].beneficiaries[i].allocation_bp) IN
           /\ plan'[p].total_amount = plan[p].total_amount - x
           /\ WithinEmergencyLimit(p, x)
           /\ vault'[p] = vault[p] - x \/ vault'[p] = vault[p]
    BY <1>8 DEF Claimed
  <2> DEFINE x == Share(plan[p].total_amount, plan[p].beneficiaries[i].allocation_bp)
  <2>2. x \in Nat /\ x <= limit(p)
    BY <1>2, <1>3, <1>5, <2>1, PayoutFacts
  <2>3. plan'[p].total_amount = plan[p].total_amount - x
    BY <2>1
  <2>4. vault'[p] = vault[p] - x \/ vault'[p] = vault[p]
    BY <2>1
  <2> HIDE DEF x
  <2>5. QED
    BY <1>3, <2>2, <2>3, <2>4
<1>9. ~Created(p)
  BY <1>2 DEF Created
<1>10. QED
  BY <1>4, <1>6, <1>7, <1>8, <1>9 DEF StepOn

\* In the cool-down no single withdrawal or claim, in a batch or not, takes
\* more than the emergency limit.
THEOREM EmergencyLimitHolds == Spec => EmergencyDrainLimited
<1>1. Inv /\ Inv' /\ [Next]_vars => [DrainsWithinLimit]_vars
  BY DrainStep
<1>2. QED
  BY <1>1, SpecInv, PTL DEF Spec, EmergencyDrainLimited

\* Of the steps that count an attempt, only an accepted claim pays.
LEMMA PayStep ==
    ASSUME Inv, Inv', [Next]_vars
    PROVE  PaysNewClaimsOnly
<1>1. SUFFICES ASSUME NEW p \in Plans
               PROVE  /\ claimed[p] \subseteq claimed'[p]
                      /\ vault'[p] < vault[p] /\ attempts' # attempts =>
                            \E e \in claimed'[p] \ claimed[p] :
                               \E i \in DOMAIN plan[p].beneficiaries :
                                  /\ plan[p].beneficiaries[i].email = e
                                  /\ (vault[p] - vault'[p]) * BPS <=
                                        plan[p].total_amount
                                           * plan[p].beneficiaries[i].allocation_bp
  BY DEF PaysNewClaimsOnly
<1>2. StepOn(p) /\ PlanTypes /\ vault[p] \in Nat
  BY <1>1, NextStep, StepBasics DEF PlanTypes
<1>3. claimed[p] \subseteq claimed'[p]
  BY <1>2 DEF StepOn, Untouched, Created, Kept, HandedOver, Funded, Withdrawn, Claimed
<1>4. ASSUME vault'[p] < vault[p], attempts' # attempts
      PROVE  \E e \in claimed'[p] \ claimed[p] :
                \E i \in DOMAIN plan[p].beneficiaries :
                   /\ plan[p].beneficiaries[i].email = e
                   /\ (vault[p] - vault'[p]) * BPS <=
                         plan[p].total_amount * plan[p].beneficiaries[i].allocation_bp
  <2>1. ~Untouched(p) /\ ~Kept(p) /\ ~HandedOver(p) /\ ~Withdrawn(p)
    BY <1>2, <1>4 DEF Untouched, Kept, HandedOver, Withdrawn
  <2>2. ~Funded(p)
    BY <1>2, <1>4 DEF Funded
  <2>3. ~Created(p)
    <3>1. ASSUME Created(p) PROVE FALSE
      <4>1. vault[p] = 0 /\ vault'[p] \in Nat
        BY <1>1, <3>1, TypeGroupsNext DEF Created, Inv, NoTraces, PlanTypes
      <4>2. QED
        BY <1>4, <4>1
    <3>2. QED
      BY <3>1
  <2>4. Claimed(p)
    BY <1>2, <2>1, <2>2, <2>3 DEF StepOn
  <2>5. Exists(p)
    BY <2>4 DEF Claimed, Stays
  <2>6. PICK e \in Emails, i \in DOMAIN plan[p].beneficiaries :
           LET x == Share(plan[p].total_amount, plan[p].beneficiaries[i].allocation_bp) IN
           /\ plan[p].beneficiaries[i].email = e
           /\ e \notin claimed[p] /\ claimed'[p] = claimed[p] \cup {e}
           /\ vault'[p] = vault[p] - x \/ vault'[p] = vault[p]
    BY <2>4 DEF Claimed
  <2> DEFINE amount == plan[p].total_amount
             bp == plan[p].beneficiaries[i].allocation_bp
             x == Share(amount, bp)
  <2>7. amount \in Nat /\ bp \in Nat
    BY <1>1, <1>2, <2>5, StoredPlan, PlanFacts, PayoutFacts
  <2>8. x \in Nat /\ x * BPS <= amount * bp
    BY <2>7, ShareFacts
  <2>9. vault[p] - vault'[p] = x
    <3>1. vault'[p] = vault[p] - x \/ vault'[p] = vault[p]
      BY <2>6
    <3> HIDE DEF x
    <3>2. QED
      BY <1>2, <1>4, <2>8, <3>1
  <2>10. (vault[p] - vault'[p]) * BPS <= amount * bp
    BY <2>8, <2>9
  <2>11. e \in claimed'[p] \ claimed[p]
    BY <2>6
  <2>12. QED
    BY <2>6, <2>10, <2>11
<1>5. QED
  BY <1>3, <1>4

\* A claim record outlives every edit of the heirs, and a call that records an
\* attempt takes from the vault only the share of an heir not recorded before.
THEOREM HeirsClaimOnce == Spec => OneClaimPerHeir
<1>1. Inv /\ Inv' /\ [Next]_vars => [PaysNewClaimsOnly]_vars
  BY PayStep
<1>2. QED
  BY <1>1, SpecInv, PTL DEF Spec, OneClaimPerHeir

\* A claim that is no batch entry asks MyTurn.
LEMMA SeniorsStep ==
    ASSUME Inv, Inv', [Next]_vars, [~BatchClaims]_vars
    PROVE  SeniorsHaveClaimed
<1>1. SUFFICES ASSUME NEW p \in Plans,
                      NEW e \in claimed'[p] \ claimed[p], plan[p].waterfall_enabled
               PROVE  \E i \in DOMAIN plan[p].beneficiaries :
                         /\ plan[p].beneficiaries[i].email = e
                         /\ \A j \in DOMAIN plan[p].beneficiaries :
                               LET b == plan[p].beneficiaries[j] IN
                               b.priority \in 1..(plan[p].beneficiaries[i].priority - 1) =>
                                  b.email \in claimed[p]
  BY DEF SeniorsHaveClaimed
<1>2. StepOn(p) /\ PlanTypes
  BY <1>1, NextStep, StepBasics
<1>3. Claimed(p)
  BY <1>1, <1>2 DEF StepOn, Untouched, Created, Kept, HandedOver, Funded, Withdrawn
<1>4. ~BatchClaims
  BY <1>1 DEF vars, claimVars
<1>5. PICK f \in Emails, i \in DOMAIN plan[p].beneficiaries :
         /\ plan[p].beneficiaries[i].email = f
         /\ claimed'[p] = claimed[p] \cup {f}
         /\ MyTurn(p, i)
  BY <1>3, <1>4 DEF Claimed
<1>6. e = f
  BY <1>1, <1>5
<1>7. Exists(p)
  BY <1>3 DEF Claimed, Stays
<1>8. \A j \in DOMAIN plan[p].beneficiaries : plan[p].beneficiaries[j].priority \in Nat
  BY <1>2, <1>7, StoredPlan DEF Beneficiary
<1>9. ASSUME NEW j \in DOMAIN plan[p].beneficiaries,
             plan[p].beneficiaries[j].priority
                \in 1..(plan[p].beneficiaries[i].priority - 1)
      PROVE  plan[p].beneficiaries[j].email \in claimed[p]
  <2>1. plan[p].beneficiaries[j].is_claimed
    BY <1>1, <1>5, <1>8, <1>9 DEF MyTurn
  <2>2. QED
    BY <1>1, <1>7, <2>1 DEF Inv, Books, ClaimedFlagHasRecord
<1>10. QED
  BY <1>5, <1>6, <1>9

\* claim_inheritance_plan asks is_claimed of the seniors, batch_claim nothing:
\* without batches, a junior's claim finds every senior's on record.
THEOREM SeniorsClaimFirst == Spec /\ [][~BatchClaims]_vars => WaterfallRespected
<1>1. Inv /\ Inv' /\ [Next]_vars /\ [~BatchClaims]_vars => [SeniorsHaveClaimed]_vars
  BY SeniorsStep
<1>2. QED
  BY <1>1, SpecInv, PTL DEF Spec, WaterfallRespected

\* Claims alone add records.
LEMMA VettedStep ==
    ASSUME Inv, Inv', [Next]_vars
    PROVE  ClaimsByVetted
<1>1. SUFFICES ASSUME NEW p \in Plans, claimed'[p] # claimed[p]
               PROVE  \E u \in Users \ blacklisted :
                         "approved" \in kyc[u] /\ attempts'[p][u] # attempts[p][u]
  BY DEF ClaimsByVetted
<1>2. StepOn(p)
  BY <1>1, NextStep
<1>3. Claimed(p)
  BY <1>1, <1>2 DEF StepOn, Untouched, Created, Kept, HandedOver, Funded, Withdrawn
<1>4. QED
  BY <1>3 DEF Claimed

\* Both claim entry points ask the claimer's KYC and the blacklist, and count
\* the attempt under the claimer's own address.
THEOREM ClaimersAreVetted == Spec => ClaimantsAreVetted
<1>1. Inv /\ Inv' /\ [Next]_vars => [ClaimsByVetted]_vars
  BY VettedStep
<1>2. QED
  BY <1>1, SpecInv, PTL DEF Spec, ClaimantsAreVetted

-----------------------------------------------------------------------------
(***************************************************************************)
(* The contract with its estate desks: the desks keep the contract's own   *)
(* invariant, no yield is credited twice or lost, the vault's will is the  *)
(* version in force, and messages stay sealed and listed.                  *)
(*                                                                         *)
(* Compounding raises a plan's books above its vault, so VaultCoversBooks  *)
(* does not hold here; CreditsAreBacked bounds by how much.                *)
(***************************************************************************)

-----------------------------------------------------------------------------
(* Wills *)

\* The inductive invariant of the wills: a plan without versions has none in
\* force.
WillInv ==
    /\ WillTypeOK
    /\ VaultWillIsActiveVersion
    /\ \A p \in Plans : versions[p] = <<>> => active_version[p] = 0

\* The version in force is one of the plan's, and the vault has a will.
LEMMA VersionInForce ==
    ASSUME WillInv, NEW p \in Plans, active_version[p] # 0
    PROVE  /\ versions[p] # <<>> /\ active_version[p] \in DOMAIN versions[p]
           /\ vault_will[p] # NoWill
<1>1. versions[p] # <<>>
  BY DEF WillInv
<1>2. active_version[p] \in DOMAIN versions[p]
  BY <1>1 DEF WillInv, VaultWillIsActiveVersion
<1>3. versions[p][active_version[p]] \in WillVersion
  <2>1. versions[p] \in Seq(WillVersion)
    BY DEF WillInv, WillTypeOK
  <2>2. QED
    BY <1>2, <2>1, ElementOfSeq, LenProperties
<1>4. vault_will[p] \in WillHashes
  BY <1>1, <1>3 DEF WillInv, VaultWillIsActiveVersion, WillVersion
<1>5. QED
  BY <1>1, <1>2, <1>4, WillAssumption

\* A step on neither versions nor the vault's will.
LEMMA WillAsideKeeps ==
    ASSUME WillInv, UNCHANGED <<vault_will, versions, active_version>>, WillTypeOK'
    PROVE  WillInv'
BY DEF WillInv, VaultWillIsActiveVersion

LEMMA LinkKeepsWill ==
    ASSUME WillInv, NEW u \in Users, NEW p \in Plans, NEW h \in WillHashes,
           link_will_to_vault(u, p, h)
    PROVE  WillInv'
<1>1. vault_will[p] = NoWill /\ vault_will' = [vault_will EXCEPT ![p] = h]
  BY DEF link_will_to_vault
<1>2. UNCHANGED <<will_hash, verification, versions, active_version, will_signature,
                  used_signatures, witnesses, witness_signatures>>
  BY DEF link_will_to_vault
<1>3. WillTypeOK'
  BY <1>1, <1>2 DEF WillInv, WillTypeOK
<1>4. versions[p] = <<>>
  <2>1. versions[p] # <<>> => versions[p][active_version[p]] \in WillVersion
    <3>1. versions[p] \in Seq(WillVersion)
      BY DEF WillInv, WillTypeOK
    <3>2. versions[p] # <<>> => active_version[p] \in DOMAIN versions[p]
      BY DEF WillInv, VaultWillIsActiveVersion
    <3>3. QED
      BY <3>1, <3>2, ElementOfSeq, LenProperties
  <2>2. versions[p] # <<>> => vault_will[p] \in WillHashes
    BY <2>1 DEF WillInv, VaultWillIsActiveVersion, WillVersion
  <2>3. QED
    BY <1>1, <2>2, WillAssumption
<1>5. \A r \in Plans \ {p} : vault_will'[r] = vault_will[r]
  BY <1>1 DEF WillInv, WillTypeOK
<1>6. QED
  BY <1>2, <1>3, <1>4, <1>5 DEF WillInv, VaultWillIsActiveVersion

LEMMA VersionKeepsWill ==
    ASSUME WillInv, NEW u \in Users, NEW p \in Plans, NEW h \in WillHashes,
           create_will_version(u, p, h)
    PROVE  WillInv'
<1> DEFINE old == versions[p]
           n == Len(old)
           a == active_version[p]
           b == [will_hash |-> h, is_active |-> TRUE, finalized |-> FALSE]
           rest == [v \in DOMAIN old |->
                      IF v = a THEN [old[v] EXCEPT !.is_active = FALSE] ELSE old[v]]
           new == Append(rest, b)
<1>1. /\ Len(versions[p]) < MaxVersions
      /\ versions' = [versions EXCEPT ![p] = new]
      /\ active_version' = [active_version EXCEPT ![p] = Len(versions[p]) + 1]
      /\ vault_will' = [vault_will EXCEPT ![p] = h]
  BY DEF create_will_version, Superseded
<1>2. UNCHANGED <<will_hash, verification, will_signature, used_signatures,
                  witnesses, witness_signatures>>
  BY DEF create_will_version
<1>3. /\ old \in Seq(WillVersion) /\ n \in Nat /\ DOMAIN old = 1..n
      /\ \A v \in 1..n : old[v] \in WillVersion
  <2>1. old \in Seq(WillVersion)
    BY DEF WillInv, WillTypeOK
  <2>2. QED
    BY <2>1, ElementOfSeq, LenProperties
<1>4. \A v \in 1..n : old[v].is_active => v = a
  BY <1>3 DEF WillInv, VaultWillIsActiveVersion
<1>5. b \in WillVersion /\ b.is_active /\ b.will_hash = h
  BY DEF WillVersion
<1>6. /\ DOMAIN rest = 1..n
      /\ \A v \in 1..n : rest[v] \in WillVersion /\ ~rest[v].is_active
  BY <1>3, <1>4 DEF WillVersion
<1>7. rest \in Seq(WillVersion)
  <2>1. rest \in [1..n -> WillVersion]
    BY <1>3, <1>6
  <2> HIDE DEF rest, n
  <2>2. QED
    BY <1>3, <2>1, SeqDef
<1>8. Len(rest) = n
  BY <1>3, <1>6, <1>7, LenProperties
<1> HIDE DEF rest, b, n
<1>9. /\ new \in Seq(WillVersion) /\ DOMAIN new = 1..(n + 1)
      /\ \A v \in 1..n : new[v] = rest[v]
      /\ new[n + 1] = b /\ new # <<>>
  <2>1. /\ new \in Seq(WillVersion) /\ Len(new) = n + 1
        /\ \A v \in 1..n : new[v] = rest[v]
        /\ new[n + 1] = b /\ new # <<>>
    BY <1>5, <1>7, <1>8, AppendProperties
  <2>2. QED
    BY <2>1, LenProperties
<1> HIDE DEF new
<1>10. /\ versions'[p] = new /\ active_version'[p] = n + 1 /\ vault_will'[p] = h
       /\ \A r \in Plans \ {p} : /\ versions'[r] = versions[r]
                                 /\ active_version'[r] = active_version[r]
                                 /\ vault_will'[r] = vault_will[r]
  BY <1>1 DEF WillInv, WillTypeOK, n
<1>11. WillTypeOK'
  <2>1. n + 1 \in 0..MaxVersions
    BY <1>1, <1>3, WillAssumption DEF n
  <2>2. /\ versions' \in [Plans -> Seq(WillVersion)]
        /\ active_version' \in [Plans -> 0..MaxVersions]
        /\ vault_will' \in [Plans -> WillHashes \cup {NoWill}]
    BY <1>1, <1>9, <2>1 DEF WillInv, WillTypeOK, n
  <2>3. QED
    BY <1>2, <2>2 DEF WillInv, WillTypeOK
<1>12. {v \in DOMAIN new : new[v].is_active} = {n + 1}
  BY <1>3, <1>5, <1>6, <1>9
<1>13. VaultWillIsActiveVersion'
  BY <1>5, <1>9, <1>10, <1>12 DEF WillInv, VaultWillIsActiveVersion
<1>14. \A r \in Plans : versions'[r] = <<>> => active_version'[r] = 0
  BY <1>9, <1>10 DEF WillInv
<1>15. QED
  BY <1>11, <1>13, <1>14 DEF WillInv

LEMMA FinalizeKeepsWill ==
    ASSUME WillInv, NEW u \in Users, NEW p \in Plans, NEW v \in Nat, finalize_will(u, p, v)
    PROVE  WillInv'
<1> DEFINE old == versions[p]
           n == Len(old)
           new == [old EXCEPT ![v] = [old[v] EXCEPT !.finalized = TRUE]]
<1>1. v \in DOMAIN old /\ versions' = [versions EXCEPT ![p] = new]
  BY DEF finalize_will
<1>2. UNCHANGED <<will_hash, vault_will, verification, active_version, will_signature,
                  used_signatures, witnesses, witness_signatures>>
  BY DEF finalize_will
<1>3. /\ old \in Seq(WillVersion) /\ n \in Nat /\ DOMAIN old = 1..n
      /\ \A w \in 1..n : old[w] \in WillVersion
  <2>1. old \in Seq(WillVersion)
    BY DEF WillInv, WillTypeOK
  <2>2. QED
    BY <2>1, ElementOfSeq, LenProperties
<1>4. /\ DOMAIN new = 1..n
      /\ \A w \in 1..n : /\ new[w] \in WillVersion
                         /\ new[w].is_active = old[w].is_active
                         /\ new[w].will_hash = old[w].will_hash
  BY <1>1, <1>3 DEF WillVersion
<1>5. new \in Seq(WillVersion)
  <2>1. new \in [1..n -> WillVersion]
    BY <1>3, <1>4
  <2> HIDE DEF new, n
  <2>2. QED
    BY <1>3, <2>1, SeqDef
<1> HIDE DEF new
<1>6. versions'[p] = new /\ \A r \in Plans \ {p} : versions'[r] = versions[r]
  BY <1>1 DEF WillInv, WillTypeOK
<1>7. WillTypeOK'
  <2>1. versions' \in [Plans -> Seq(WillVersion)]
    BY <1>1, <1>5 DEF WillInv, WillTypeOK
  <2>2. QED
    BY <1>2, <2>1 DEF WillInv, WillTypeOK
<1>8. old # <<>> /\ new # <<>>
  BY <1>1, <1>3, <1>4
<1>9. /\ {w \in DOMAIN new : new[w].is_active} = {active_version[p]}
      /\ vault_will[p] = new[active_version[p]].will_hash
  <2>1. /\ {w \in DOMAIN old : old[w].is_active} = {active_version[p]}
        /\ vault_will[p] = old[active_version[p]].will_hash
    BY <1>8 DEF WillInv, VaultWillIsActiveVersion
  <2>2. QED
    BY <1>3, <1>4, <2>1
<1>10. VaultWillIsActiveVersion'
  BY <1>2, <1>6, <1>9 DEF WillInv, VaultWillIsActiveVersion
<1>11. \A r \in Plans : versions'[r] = <<>> => active_version'[r] = 0
  BY <1>2, <1>6, <1>8 DEF WillInv
<1>12. QED
  BY <1>7, <1>10, <1>11 DEF WillInv

LEMMA WillNextKeeps ==
    ASSUME WillInv, WillNext
    PROVE  WillInv' /\ UNCHANGED vars
<1>1. PICK p \in Plans :
        \/ \E lines \in WillRosters : verify_beneficiaries(p, lines)
        \/ \E u \in Users, h \in WillHashes :
              \/ store_will_hash(u, p, h)
              \/ link_will_to_vault(u, p, h)
              \/ create_will_version(u, p, h)
              \/ \E s \in Signatures, e \in Expiries : sign_will(u, p, h, s, e)
        \/ \E u \in Users, v \in 1..MaxVersions : finalize_will(u, p, v)
        \/ \E u \in Users, w \in Witnesses : add_witness(u, p, w)
        \/ \E w \in Witnesses, s \in Signatures, e \in Expiries : sign_as_witness(w, p, s, e)
  BY DEF WillNext
<1>2. CASE \E lines \in WillRosters : verify_beneficiaries(p, lines)
  <2>1. /\ \E status \in BOOLEAN : verification' = [verification EXCEPT ![p] = {status}]
        /\ UNCHANGED <<will_hash, vault_will, versions, active_version, will_signature,
                       used_signatures, witnesses, witness_signatures>>
        /\ UNCHANGED vars
    BY <1>2 DEF verify_beneficiaries, WillsOnly
  <2>2. WillTypeOK'
    BY <2>1 DEF WillInv, WillTypeOK
  <2>3. QED
    BY <2>1, <2>2, WillAsideKeeps
<1>3. ASSUME NEW u \in Users, NEW h \in WillHashes, store_will_hash(u, p, h)
      PROVE  WillInv' /\ UNCHANGED vars
  <2>1. WillTypeOK'
    BY <1>3 DEF WillInv, WillTypeOK, store_will_hash
  <2>2. QED
    BY <1>3, <2>1, WillAsideKeeps DEF store_will_hash, WillsOnly
<1>4. ASSUME NEW u \in Users, NEW h \in WillHashes, link_will_to_vault(u, p, h)
      PROVE  WillInv' /\ UNCHANGED vars
  BY <1>4, LinkKeepsWill DEF link_will_to_vault, WillsOnly
<1>5. ASSUME NEW u \in Users, NEW h \in WillHashes, create_will_version(u, p, h)
      PROVE  WillInv' /\ UNCHANGED vars
  BY <1>5, VersionKeepsWill DEF create_will_version, WillsOnly
<1>6. ASSUME NEW u \in Users, NEW h \in WillHashes, NEW s \in Signatures, NEW e \in Expiries,
             sign_will(u, p, h, s, e)
      PROVE  WillInv' /\ UNCHANGED vars
  <2>1. WillTypeOK'
    BY <1>6 DEF WillInv, WillTypeOK, sign_will
  <2>2. QED
    BY <1>6, <2>1, WillAsideKeeps DEF sign_will, WillsOnly
<1>7. ASSUME NEW u \in Users, NEW v \in 1..MaxVersions, finalize_will(u, p, v)
      PROVE  WillInv' /\ UNCHANGED vars
  <2>1. v \in Nat
    BY WillAssumption
  <2>2. QED
    BY <1>7, <2>1, FinalizeKeepsWill DEF finalize_will, WillsOnly
<1>8. ASSUME NEW u \in Users, NEW w \in Witnesses, add_witness(u, p, w)
      PROVE  WillInv' /\ UNCHANGED vars
  <2>1. WillTypeOK'
    BY <1>8, WillAssumption DEF WillInv, WillTypeOK, add_witness
  <2>2. QED
    BY <1>8, <2>1, WillAsideKeeps DEF add_witness, WillsOnly
<1>9. ASSUME NEW w \in Witnesses, NEW s \in Signatures, NEW e \in Expiries,
             sign_as_witness(w, p, s, e)
      PROVE  WillInv' /\ UNCHANGED vars
  <2>1. WillTypeOK'
    BY <1>9, WillAssumption DEF WillInv, WillTypeOK, sign_as_witness
  <2>2. QED
    BY <1>9, <2>1, WillAsideKeeps DEF sign_as_witness, WillsOnly
<1>10. QED
  BY <1>1, <1>2, <1>3, <1>4, <1>5, <1>6, <1>7, <1>8, <1>9

LEMMA WillIdle ==
    ASSUME WillInv, UNCHANGED willVars
    PROVE  WillInv'
BY DEF WillInv, WillTypeOK, VaultWillIsActiveVersion, willVars

LEMMA WillInitInv ==
    ASSUME WillInit
    PROVE  WillInv
BY WillAssumption DEF WillInit, WillInv, WillTypeOK, VaultWillIsActiveVersion

LEMMA WillNextSettles ==
    ASSUME WillInv, WillNext, NEW r \in Plans,
           active_version[r] # 0, versions[r][active_version[r]].finalized
    PROVE  /\ active_version'[r] = active_version[r]
           /\ vault_will'[r] = vault_will[r]
           /\ versions'[r][active_version[r]] = versions[r][active_version[r]]
<1>1. vault_will[r] # NoWill
  BY VersionInForce
<1>2. PICK p \in Plans :
        \/ UNCHANGED <<vault_will, versions, active_version>>
        \/ \E u \in Users, h \in WillHashes : link_will_to_vault(u, p, h)
        \/ \E u \in Users, h \in WillHashes : create_will_version(u, p, h)
        \/ \E u \in Users, v \in 1..MaxVersions : finalize_will(u, p, v)
  BY DEF WillNext, verify_beneficiaries, store_will_hash, sign_will, add_witness,
     sign_as_witness
<1>3. CASE UNCHANGED <<vault_will, versions, active_version>>
  BY <1>3
<1>4. ASSUME NEW u \in Users, NEW h \in WillHashes, link_will_to_vault(u, p, h)
      PROVE  /\ UNCHANGED <<versions, active_version>>
             /\ vault_will'[r] = vault_will[r]
  <2>1. /\ vault_will[p] = NoWill /\ vault_will' = [vault_will EXCEPT ![p] = h]
        /\ UNCHANGED <<versions, active_version>>
    BY <1>4 DEF link_will_to_vault
  <2>2. QED
    BY <1>1, <2>1 DEF WillInv, WillTypeOK
<1>5. ASSUME NEW u \in Users, NEW h \in WillHashes, create_will_version(u, p, h)
      PROVE  /\ versions'[r] = versions[r] /\ active_version'[r] = active_version[r]
             /\ vault_will'[r] = vault_will[r]
  <2>1. /\ Supersedable(p)
        /\ versions' = [versions EXCEPT ![p] = Superseded(p, h)]
        /\ active_version' = [active_version EXCEPT ![p] = Len(versions[p]) + 1]
        /\ vault_will' = [vault_will EXCEPT ![p] = h]
    BY <1>5 DEF create_will_version
  <2>2. r # p
    BY <2>1 DEF Supersedable
  <2>3. QED
    BY <2>1, <2>2 DEF WillInv, WillTypeOK
<1>6. ASSUME NEW u \in Users, NEW v \in 1..MaxVersions, finalize_will(u, p, v)
      PROVE  /\ UNCHANGED <<active_version, vault_will>>
             /\ versions'[r][active_version[r]] = versions[r][active_version[r]]
  <2>1. /\ v \in DOMAIN versions[p] /\ ~versions[p][v].finalized
        /\ versions' = [versions EXCEPT ![p] =
              [versions[p] EXCEPT ![v] = [versions[p][v] EXCEPT !.finalized = TRUE]]]
        /\ UNCHANGED <<active_version, vault_will>>
    BY <1>6 DEF finalize_will
  <2>2. versions'[r] = IF r = p
                       THEN [versions[p] EXCEPT ![v] = [versions[p][v] EXCEPT !.finalized = TRUE]]
                       ELSE versions[r]
    BY <2>1 DEF WillInv, WillTypeOK
  <2>3. active_version[r] \in DOMAIN versions[r]
    BY VersionInForce
  <2>4. r = p => v # active_version[r]
    BY <2>1
  <2>5. QED
    BY <2>1, <2>2, <2>3, <2>4
<1>7. QED
  BY <1>2, <1>3, <1>4, <1>5, <1>6

-----------------------------------------------------------------------------
(* Lists of messages *)

LEMMA AppendRange ==
    ASSUME NEW S, NEW s \in Seq(S), NEW x \in S
    PROVE  /\ Append(s, x) \in Seq(S)
           /\ Range(Append(s, x)) = Range(s) \cup {x}
           /\ IsInjective(s) /\ x \notin Range(s) => IsInjective(Append(s, x))
<1> DEFINE n == Len(s)
           t == Append(s, x)
<1>1. /\ n \in Nat /\ DOMAIN s = 1..n /\ t \in Seq(S) /\ Len(t) = n + 1
      /\ \A i \in 1..n : t[i] = s[i]
      /\ t[n + 1] = x
  BY LenProperties, AppendProperties
<1>2. DOMAIN t = 1..(n + 1)
  BY <1>1, LenProperties
<1> HIDE DEF n, t
<1>3. Range(t) = Range(s) \cup {x}
  <2>1. \A y \in Range(t) : y \in Range(s) \cup {x}
    <3>1. SUFFICES ASSUME NEW i \in 1..(n + 1) PROVE t[i] \in Range(s) \cup {x}
      BY <1>2 DEF Range
    <3>2. i \in 1..n \/ i = n + 1
      BY <1>1
    <3>3. QED
      BY <1>1, <3>2 DEF Range
  <2>2. \A i \in 1..n : i \in 1..(n + 1) /\ t[i] = s[i]
    BY <1>1
  <2>3. Range(s) \subseteq Range(t)
    BY <1>1, <1>2, <2>2 DEF Range
  <2>4. n + 1 \in 1..(n + 1)
    BY <1>1
  <2>5. x \in Range(t)
    BY <1>1, <1>2, <2>4 DEF Range
  <2>6. QED
    BY <2>1, <2>3, <2>5
<1>4. ASSUME IsInjective(s), x \notin Range(s)
      PROVE  IsInjective(t)
  <2>1. SUFFICES ASSUME NEW i \in 1..(n + 1), NEW j \in 1..(n + 1), t[i] = t[j]
                 PROVE  i = j
    BY <1>2 DEF IsInjective
  <2>2. (i \in 1..n \/ i = n + 1) /\ (j \in 1..n \/ j = n + 1)
    BY <1>1
  <2>3. \A k \in 1..n : t[k] = s[k] /\ t[k] # x
    BY <1>1, <1>4 DEF Range
  <2>4. CASE i \in 1..n /\ j \in 1..n
    BY <1>1, <1>4, <2>1, <2>3, <2>4 DEF IsInjective
  <2>5. QED
    BY <1>1, <2>1, <2>2, <2>3, <2>4
<1>5. QED
  BY <1>1, <1>3, <1>4 DEF t

\* The function by which Without goes through a list.
IsKept(kept, ids, m, k) ==
    kept = [n \in 0..k |->
              IF n = 0 THEN <<>>
              ELSE IF ids[n] = m THEN kept[n - 1] ELSE Append(kept[n - 1], ids[n])]

LEMMA KeptExists ==
    ASSUME NEW ids, NEW m, NEW k \in Nat
    PROVE  \E kept : IsKept(kept, ids, m, k)
<1> DEFINE Bad == {n \in Nat : ~\E kept : IsKept(kept, ids, m, n)}
<1>1. SUFFICES ASSUME Bad # {} PROVE FALSE
  OBVIOUS
<1>2. PICK n \in Bad : \A i \in Bad : n <= i
  <2>1. Bad \in SUBSET Nat
    OBVIOUS
  <2> HIDE DEF Bad
  <2>2. QED
    BY <1>1, <2>1, LeastNat
<1>3. n # 0
  <2>1. IsKept([i \in 0..0 |-> <<>>], ids, m, 0)
    BY DEF IsKept
  <2>2. QED
    BY <2>1
<1>4. n - 1 \in Nat /\ n - 1 \notin Bad
  BY <1>2, <1>3
<1>5. PICK g : IsKept(g, ids, m, n - 1)
  BY <1>4
<1> DEFINE h == [i \in 0..n |->
                   IF i = n
                   THEN IF ids[n] = m THEN g[n - 1] ELSE Append(g[n - 1], ids[n])
                   ELSE g[i]]
           Entry(i) == IF i = 0 THEN <<>>
                       ELSE IF ids[i] = m THEN h[i - 1] ELSE Append(h[i - 1], ids[i])
<1>6. \A i \in 0..n : h[i] = Entry(i)
  <2>1. SUFFICES ASSUME NEW i \in 0..n PROVE h[i] = Entry(i)
    OBVIOUS
  <2>2. CASE i = n
    <3>1. h[n - 1] = g[n - 1]
      BY <1>4
    <3>2. QED
      BY <1>3, <2>2, <3>1
  <2>3. CASE i # n
    <3>1. i \in 0..(n - 1)
      BY <2>3
    <3>2. h[i] = g[i]
      BY <2>3
    <3>3. g[i] = IF i = 0 THEN <<>>
                 ELSE IF ids[i] = m THEN g[i - 1] ELSE Append(g[i - 1], ids[i])
      BY <1>5, <3>1 DEF IsKept
    <3>4. i # 0 => h[i - 1] = g[i - 1]
      BY <3>1
    <3>5. QED
      BY <3>2, <3>3, <3>4
  <2>4. QED
    BY <2>2, <2>3
<1>7. h = [i \in 0..n |-> h[i]]
  OBVIOUS
<1> HIDE DEF h
<1>8. IsKept(h, ids, m, n)
  BY <1>6, <1>7 DEF IsKept
<1>9. QED
  BY <1>8

LEMMA KeptFacts ==
    ASSUME NEW S, NEW ids \in Seq(S), NEW m, NEW kept, IsKept(kept, ids, m, Len(ids))
    PROVE  \A n \in 0..Len(ids) :
              /\ kept[n] \in Seq(S)
              /\ Range(kept[n]) = {ids[i] : i \in 1..n} \ {m}
              /\ IsInjective(ids) => IsInjective(kept[n])
<1> DEFINE Good(n) == /\ kept[n] \in Seq(S)
                      /\ Range(kept[n]) = {ids[i] : i \in 1..n} \ {m}
                      /\ IsInjective(ids) => IsInjective(kept[n])
           Bad == {n \in 0..Len(ids) : ~Good(n)}
<1>1. Len(ids) \in Nat /\ DOMAIN ids = 1..Len(ids)
  BY LenProperties
<1>2. SUFFICES ASSUME Bad # {} PROVE FALSE
  OBVIOUS
<1>3. PICK n \in Bad : \A i \in Bad : n <= i
  <2>1. Bad \in SUBSET Nat
    BY <1>1
  <2> HIDE DEF Bad
  <2>2. QED
    BY <1>2, <2>1, LeastNat
<1>4. kept[n] = IF n = 0 THEN <<>>
                ELSE IF ids[n] = m THEN kept[n - 1] ELSE Append(kept[n - 1], ids[n])
  BY DEF IsKept
<1>5. n # 0
  <2>1. ASSUME n = 0 PROVE Good(n)
    <3>1. kept[n] = <<>>
      BY <1>4, <2>1
    <3>2. <<>> \in Seq(S) /\ Range(<<>>) = {} /\ IsInjective(<<>>)
      BY DEF Range, IsInjective
    <3>3. {ids[i] : i \in 1..n} = {}
      BY <2>1
    <3>4. QED
      BY <3>1, <3>2, <3>3
  <2>2. QED
    BY <2>1
<1>6. n \in 1..Len(ids) /\ n - 1 \in 0..Len(ids) /\ n - 1 \notin Bad
  <2>1. n \in 0..Len(ids)
    BY <1>3
  <2> HIDE DEF Bad
  <2>2. QED
    BY <1>1, <1>3, <1>5, <2>1
<1>7. Good(n - 1)
  BY <1>6
<1>8. {ids[i] : i \in 1..n} = {ids[i] : i \in 1..(n - 1)} \cup {ids[n]}
  <2>1. \A i : i \in 1..n <=> i \in 1..(n - 1) \/ i = n
    BY <1>1, <1>6
  <2>2. QED
    BY <2>1
<1>9. CASE ids[n] = m
  <2>1. kept[n] = kept[n - 1]
    BY <1>4, <1>5, <1>9
  <2>2. Good(n)
    BY <1>7, <1>8, <1>9, <2>1
  <2>3. QED
    BY <2>2
<1>10. CASE ids[n] # m
  <2> DEFINE s == kept[n - 1]
             x == ids[n]
  <2>1. kept[n] = Append(s, x) /\ x \in S
    BY <1>4, <1>5, <1>6, <1>10, ElementOfSeq
  <2>2. s \in Seq(S) /\ Range(s) = {ids[i] : i \in 1..(n - 1)} \ {m}
    BY <1>7
  <2>3. IsInjective(ids) => IsInjective(s) /\ x \notin Range(s)
    <3>1. ASSUME IsInjective(ids), x \in Range(s) PROVE FALSE
      <4>1. PICK i \in 1..(n - 1) : ids[i] = ids[n]
        BY <2>2, <3>1
      <4>2. i \in 1..Len(ids) /\ i # n
        BY <1>1, <1>6
      <4>3. QED
        BY <1>1, <1>6, <3>1, <4>1, <4>2 DEF IsInjective
    <3>2. QED
      BY <1>7, <3>1
  <2>4. Range(s) \cup {x} = {ids[i] : i \in 1..n} \ {m}
    BY <1>8, <1>10, <2>2
  <2> HIDE DEF s, x
  <2>5. /\ Append(s, x) \in Seq(S)
        /\ Range(Append(s, x)) = Range(s) \cup {x}
        /\ IsInjective(s) /\ x \notin Range(s) => IsInjective(Append(s, x))
    BY <2>1, <2>2, AppendRange
  <2>6. Good(n)
    BY <2>1, <2>3, <2>4, <2>5
  <2>7. QED
    BY <2>6
<1>11. QED
  BY <1>9, <1>10

\* Without leaves out one message and keeps every other, each once.
LEMMA WithoutFacts ==
    ASSUME NEW S, NEW ids \in Seq(S), NEW m
    PROVE  /\ Without(ids, m) \in Seq(S)
           /\ Range(Without(ids, m)) = Range(ids) \ {m}
           /\ IsInjective(ids) => IsInjective(Without(ids, m))
<1> DEFINE kept == CHOOSE f : IsKept(f, ids, m, Len(ids))
<1>1. Len(ids) \in Nat /\ DOMAIN ids = 1..Len(ids)
  BY LenProperties
<1>2. IsKept(kept, ids, m, Len(ids))
  BY <1>1, KeptExists
<1>3. Without(ids, m) = kept[Len(ids)]
  BY DEF Without, IsKept
<1> HIDE DEF kept
<1>4. Len(ids) \in 0..Len(ids)
  BY <1>1
<1>5. /\ kept[Len(ids)] \in Seq(S)
      /\ Range(kept[Len(ids)]) = {ids[i] : i \in 1..Len(ids)} \ {m}
      /\ IsInjective(ids) => IsInjective(kept[Len(ids)])
  BY <1>2, <1>4, KeptFacts
<1>6. Range(ids) = {ids[i] : i \in 1..Len(ids)}
  BY <1>1 DEF Range
<1>7. QED
  BY <1>3, <1>5, <1>6

-----------------------------------------------------------------------------
(* Messages *)

MessageTypes ==
    /\ message \in [MessageIds -> LegacyMessage \cup {NoMessage}]
    /\ vault_messages \in [Plans -> Seq(MessageIds)]
    /\ next_message_id \in 0..MaxMessages
    /\ message_key \in [Plans -> 0..MaxKeys]

NoticeTypes ==
    /\ notified \in [Plans -> SUBSET (1..MAX_BENEFICIARIES)]
    /\ acknowledged \in [Plans -> SUBSET (1..MAX_BENEFICIARIES)]
    /\ acknowledgment_required \subseteq Plans

\* The inductive invariant of the messages: ids are given out in order, so a
\* new message overwrites none.
MessageInv ==
    /\ MessageTypes
    /\ MessagesKept
    /\ \A m \in MessageIds : m >= next_message_id => message[m] = NoMessage

LEMMA StoredMessage ==
    ASSUME MessageTypes, NEW m \in MessageIds, message[m] # NoMessage
    PROVE  /\ message[m] \in LegacyMessage
           /\ message[m].vault_id \in Plans /\ message[m].unlock_timestamp \in Nat
           /\ message[m].is_unlocked \in BOOLEAN
BY DEF MessageTypes, LegacyMessage

\* A step that leaves messages alone can only bring their dates closer.
LEMMA MessagesAsideKeep ==
    ASSUME MessageInv, UNCHANGED messageVars, now \in Nat, now' \in Nat,
           \A p \in Plans : now' >= now /\ (p \in triggered => p \in triggered')
    PROVE  MessageInv'
<1>1. UNCHANGED <<message, vault_messages, next_message_id, message_key>>
  BY DEF messageVars
<1>2. SealedUntilDue'
  <2>1. SUFFICES ASSUME NEW m \in MessageIds, message[m] # NoMessage,
                        message[m].is_unlocked
                 PROVE  \/ now' >= message[m].unlock_timestamp
                        \/ message[m].vault_id \in triggered'
    BY <1>1 DEF SealedUntilDue, Due
  <2>2. Due(m) /\ message[m].unlock_timestamp \in Nat /\ message[m].vault_id \in Plans
    BY <2>1, StoredMessage DEF MessageInv, MessagesKept, SealedUntilDue
  <2>3. QED
    BY <2>2 DEF Due
<1>3. QED
  BY <1>1, <1>2 DEF MessageInv, MessageTypes, MessagesKept, MessageListMatches

\* A step that rewrites one message of a plan, no other and no list.
LEMMA RewriteMessage ==
    ASSUME MessageInv, NEW m \in MessageIds, message[m] # NoMessage, NEW r \in LegacyMessage,
           message' = [message EXCEPT ![m] = r],
           UNCHANGED <<vault_messages, next_message_id, message_key, now, triggered>>,
           r.vault_id = message[m].vault_id,
           r.is_unlocked => now >= r.unlock_timestamp \/ r.vault_id \in triggered
    PROVE  MessageInv'
<1>1. /\ message'[m] = r /\ r # NoMessage
      /\ \A k \in MessageIds \ {m} : message'[k] = message[k]
      /\ MessageTypes'
  BY MessageMarkAssumption DEF MessageInv, MessageTypes
<1>2. SealedUntilDue'
  BY <1>1 DEF MessageInv, MessagesKept, SealedUntilDue, Due
<1>3. \A k \in MessageIds : /\ message'[k] # NoMessage <=> message[k] # NoMessage
                            /\ message'[k].vault_id = message[k].vault_id
  BY <1>1
<1>4. MessageListMatches'
  BY <1>3 DEF MessageInv, MessagesKept, MessageListMatches
<1>5. QED
  BY <1>1, <1>2, <1>4, <1>3 DEF MessageInv, MessagesKept

LEMMA WriteKeepsMessages ==
    ASSUME MessageInv, NEW u \in Users, NEW p \in Plans, NEW c \in Contents,
           NEW t \in UnlockTimes, NEW key \in 0..MaxKeys, WriteMessage(u, p, c, t, key)
    PROVE  MessageInv'
<1> DEFINE n == next_message_id
           new == [vault_id |-> p, message_hash |-> c, creator |-> u, key_version |-> key,
                   unlock_timestamp |-> t, is_unlocked |-> FALSE, is_finalized |-> FALSE]
           ids == vault_messages[p]
<1>1. /\ n \in MessageIds
      /\ message' = [message EXCEPT ![n] = new]
      /\ vault_messages' = [vault_messages EXCEPT ![p] = Append(ids, n)]
      /\ next_message_id' = n + 1
      /\ UNCHANGED <<message_key, now, triggered>>
  BY DEF WriteMessage, MessagesOnly, vars, triggerVars
<1>2. new \in LegacyMessage /\ new # NoMessage
  <2>1. t \in Nat
    BY MessageAssumption
  <2>2. new \in LegacyMessage
    BY <2>1 DEF LegacyMessage
  <2>3. QED
    BY <2>2, MessageMarkAssumption
<1>3. new.vault_id = p /\ ~new.is_unlocked
  OBVIOUS
<1> HIDE DEF new
<1>4. MaxMessages \in Nat
  BY MessageAssumption
<1>5. n \in Nat /\ n + 1 \in 0..MaxMessages /\ \A k \in MessageIds : k \in Nat
  BY <1>1, <1>4 DEF MessageIds
<1>6. /\ message'[n] = new
      /\ \A k \in MessageIds \ {n} : message'[k] = message[k]
      /\ message[n] = NoMessage
  BY <1>1, <1>5 DEF MessageInv, MessageTypes
<1>7. ids \in Seq(MessageIds) /\ IsInjective(ids)
      /\ Range(ids) = {k \in MessageIds : message[k] # NoMessage /\ message[k].vault_id = p}
  BY DEF MessageInv, MessageTypes, MessagesKept, MessageListMatches
<1>8. /\ Append(ids, n) \in Seq(MessageIds)
      /\ Range(Append(ids, n)) = Range(ids) \cup {n}
      /\ IsInjective(Append(ids, n))
  BY <1>1, <1>6, <1>7, AppendRange
<1>9. /\ vault_messages'[p] = Append(ids, n)
      /\ \A r \in Plans \ {p} : vault_messages'[r] = vault_messages[r]
  BY <1>1 DEF MessageInv, MessageTypes
<1>10. MessageTypes'
  BY <1>1, <1>2, <1>5, <1>8 DEF MessageInv, MessageTypes
<1>11. SealedUntilDue'
  BY <1>1, <1>3, <1>6 DEF MessageInv, MessagesKept, SealedUntilDue, Due
<1>12. MessageListMatches'
  <2>1. ASSUME NEW r \in Plans \ {p}
        PROVE  {k \in MessageIds : message'[k] # NoMessage /\ message'[k].vault_id = r}
                  = {k \in MessageIds : message[k] # NoMessage /\ message[k].vault_id = r}
    BY <1>2, <1>3, <1>6
  <2>2. {k \in MessageIds : message'[k] # NoMessage /\ message'[k].vault_id = p}
           = Range(ids) \cup {n}
    BY <1>1, <1>2, <1>3, <1>6, <1>7
  <2>3. QED
    BY <1>8, <1>9, <2>1, <2>2 DEF MessageInv, MessagesKept, MessageListMatches
<1>13. \A k \in MessageIds : k >= next_message_id' => message'[k] = NoMessage
  BY <1>1, <1>5, <1>6 DEF MessageInv
<1>14. QED
  BY <1>10, <1>11, <1>12, <1>13 DEF MessageInv, MessagesKept

LEMMA DeleteKeepsMessages ==
    ASSUME MessageInv, NEW u \in Users, NEW m \in MessageIds, delete_legacy_message(u, m)
    PROVE  MessageInv'
<1> DEFINE p == message[m].vault_id
           ids == vault_messages[p]
<1>1. /\ message[m] # NoMessage
      /\ message' = [message EXCEPT ![m] = NoMessage]
      /\ vault_messages' = [vault_messages EXCEPT ![p] = Without(vault_messages[p], m)]
      /\ UNCHANGED <<next_message_id, message_key, now, triggered>>
  BY DEF delete_legacy_message, OwnMessage, MessagesOnly, vars, triggerVars
<1>2. p \in Plans
  BY <1>1, StoredMessage DEF MessageInv
<1>3. /\ message'[m] = NoMessage
      /\ \A k \in MessageIds \ {m} : message'[k] = message[k]
  BY <1>1 DEF MessageInv, MessageTypes
<1>4. ids \in Seq(MessageIds) /\ IsInjective(ids)
      /\ Range(ids) = {k \in MessageIds : message[k] # NoMessage /\ message[k].vault_id = p}
  BY <1>2 DEF MessageInv, MessageTypes, MessagesKept, MessageListMatches
<1>5. /\ Without(ids, m) \in Seq(MessageIds)
      /\ Range(Without(ids, m)) = Range(ids) \ {m}
      /\ IsInjective(Without(ids, m))
  BY <1>4, WithoutFacts
<1>6. /\ vault_messages'[p] = Without(ids, m)
      /\ \A r \in Plans \ {p} : vault_messages'[r] = vault_messages[r]
  BY <1>1, <1>2 DEF MessageInv, MessageTypes
<1>7. MessageTypes'
  BY <1>1, <1>2, <1>5 DEF MessageInv, MessageTypes
<1>8. SealedUntilDue'
  BY <1>1, <1>3 DEF MessageInv, MessagesKept, SealedUntilDue, Due
<1>9. MessageListMatches'
  <2> HIDE DEF ids
  <2>1. ASSUME NEW r \in Plans, r # p
        PROVE  {k \in MessageIds : message'[k] # NoMessage /\ message'[k].vault_id = r}
                  = {k \in MessageIds : message[k] # NoMessage /\ message[k].vault_id = r}
    BY <1>3, <2>1
  <2>2. {k \in MessageIds : message'[k] # NoMessage /\ message'[k].vault_id = p}
           = Range(ids) \ {m}
    BY <1>3, <1>4
  <2>3. ASSUME NEW r \in Plans
        PROVE  /\ IsInjective(vault_messages'[r])
               /\ Range(vault_messages'[r]) =
                     {k \in MessageIds : message'[k] # NoMessage /\ message'[k].vault_id = r}
    <3>1. CASE r = p
      BY <1>5, <1>6, <2>2, <3>1
    <3>2. CASE r # p
      BY <1>6, <2>1, <3>2 DEF MessageInv, MessagesKept, MessageListMatches
    <3>3. QED
      BY <3>1, <3>2
  <2>4. QED
    BY <2>3 DEF MessageListMatches
<1>10. \A k \in MessageIds : k >= next_message_id' => message'[k] = NoMessage
  BY <1>1, <1>3 DEF MessageInv
<1>11. QED
  BY <1>7, <1>8, <1>9, <1>10 DEF MessageInv, MessagesKept

LEMMA EditKeepsMessages ==
    ASSUME MessageInv, NEW u \in Users, NEW m \in MessageIds,
           \/ \E c \in Contents, t \in UnlockTimes : update_legacy_message(u, m, c, t)
           \/ finalize_legacy_message(u, m)
           \/ access_legacy_message(u, m)
    PROVE  MessageInv'
<1>1. message[m] # NoMessage
  BY DEF update_legacy_message, Editable, finalize_legacy_message, access_legacy_message,
     OwnMessage
<1>2. message[m] \in LegacyMessage
  BY <1>1, StoredMessage DEF MessageInv
<1>3. message[m].is_unlocked => Due(m)
  BY <1>1 DEF MessageInv, MessagesKept, SealedUntilDue
<1>4. UNCHANGED <<vault_messages, next_message_id, message_key, now, triggered>>
  BY DEF update_legacy_message, finalize_legacy_message, access_legacy_message,
     MessagesOnly, vars, triggerVars
<1>5. ASSUME NEW c \in Contents, NEW t \in UnlockTimes, update_legacy_message(u, m, c, t)
      PROVE  MessageInv'
  <2> DEFINE r == [message[m] EXCEPT !.message_hash = c, !.unlock_timestamp = t,
                                     !.key_version = 0]
  <2>1. ~message[m].is_unlocked
    BY <1>5 DEF update_legacy_message, Editable
  <2>2. message' = [message EXCEPT ![m] = r]
    BY <1>5 DEF update_legacy_message
  <2>3. t \in Nat /\ 0 \in 0..MaxKeys
    BY MessageAssumption
  <2>4. r \in LegacyMessage /\ r.vault_id = message[m].vault_id /\ ~r.is_unlocked
    BY <1>2, <2>1, <2>3 DEF LegacyMessage
  <2> HIDE DEF r
  <2>5. QED
    BY <1>1, <1>4, <2>2, <2>4, RewriteMessage
<1>6. CASE finalize_legacy_message(u, m)
  <2> DEFINE r == [message[m] EXCEPT !.is_finalized = TRUE]
  <2>1. message' = [message EXCEPT ![m] = r]
    BY <1>6 DEF finalize_legacy_message
  <2>2. /\ r \in LegacyMessage /\ r.vault_id = message[m].vault_id
        /\ r.unlock_timestamp = message[m].unlock_timestamp
        /\ r.is_unlocked = message[m].is_unlocked
    BY <1>2 DEF LegacyMessage
  <2> HIDE DEF r
  <2>3. QED
    BY <1>1, <1>3, <1>4, <2>1, <2>2, RewriteMessage DEF Due
<1>7. CASE access_legacy_message(u, m)
  <2> DEFINE r == [message[m] EXCEPT !.is_unlocked = TRUE]
  <2>1. Due(m) /\ message' = [message EXCEPT ![m] = r]
    BY <1>3, <1>7 DEF access_legacy_message
  <2>2. /\ r \in LegacyMessage /\ r.vault_id = message[m].vault_id
        /\ r.unlock_timestamp = message[m].unlock_timestamp
    BY <1>2 DEF LegacyMessage
  <2> HIDE DEF r
  <2>3. QED
    BY <1>1, <1>4, <2>1, <2>2, RewriteMessage DEF Due
<1>8. QED
  BY <1>5, <1>6, <1>7

\* What a trigger unlocks is on the plan's own list, so it belongs to the plan.
LEMMA UnlockKeepsMessages ==
    ASSUME MessageInv, NEW p \in Plans, unlock_messages_on_inheritance(p)
    PROVE  MessageInv'
<1>1. p \in triggered
      /\ UNCHANGED <<vault_messages, next_message_id, message_key, now, triggered>>
  BY DEF unlock_messages_on_inheritance, MessagesOnly, vars, triggerVars
<1>2. message' = [m \in MessageIds |->
         IF message[m] # NoMessage /\ m \in Range(vault_messages[p])
         THEN [message[m] EXCEPT !.is_unlocked = TRUE] ELSE message[m]]
  BY DEF unlock_messages_on_inheritance
<1>3. ASSUME NEW m \in MessageIds
      PROVE  /\ message'[m] \in LegacyMessage \cup {NoMessage}
             /\ message'[m] # NoMessage <=> message[m] # NoMessage
             /\ message[m] # NoMessage =>
                   /\ message'[m].vault_id = message[m].vault_id
                   /\ message'[m].unlock_timestamp = message[m].unlock_timestamp
                   /\ message'[m].is_unlocked => message[m].is_unlocked
                                                    \/ message[m].vault_id = p
  <2>1. message'[m] = IF message[m] # NoMessage /\ m \in Range(vault_messages[p])
                      THEN [message[m] EXCEPT !.is_unlocked = TRUE] ELSE message[m]
    BY <1>2
  <2>2. message[m] \in LegacyMessage \cup {NoMessage}
    BY DEF MessageInv, MessageTypes
  <2>3. m \in Range(vault_messages[p]) => message[m].vault_id = p
    BY DEF MessageInv, MessagesKept, MessageListMatches
  <2>4. CASE message[m] # NoMessage /\ m \in Range(vault_messages[p])
    <3> DEFINE r == [message[m] EXCEPT !.is_unlocked = TRUE]
    <3>1. /\ r \in LegacyMessage /\ r.vault_id = message[m].vault_id
          /\ r.unlock_timestamp = message[m].unlock_timestamp
      BY <2>2, <2>4 DEF LegacyMessage
    <3>2. message'[m] = r /\ r # NoMessage
      BY <2>1, <2>4, <3>1, MessageMarkAssumption
    <3>3. QED
      BY <2>3, <2>4, <3>1, <3>2
  <2>5. CASE ~(message[m] # NoMessage /\ m \in Range(vault_messages[p]))
    BY <2>1, <2>2, <2>5
  <2>6. QED
    BY <2>4, <2>5
<1>4. message' \in [MessageIds -> LegacyMessage \cup {NoMessage}]
  <2>1. message' = [m \in MessageIds |-> message'[m]]
    BY <1>2
  <2>2. QED
    BY <1>3, <2>1
<1>5. MessageTypes'
  BY <1>1, <1>4 DEF MessageInv, MessageTypes
<1>6. SealedUntilDue'
  BY <1>1, <1>3 DEF MessageInv, MessagesKept, SealedUntilDue, Due
<1>7. MessageListMatches'
  BY <1>1, <1>3 DEF MessageInv, MessagesKept, MessageListMatches
<1>8. \A m \in MessageIds : m >= next_message_id' => message'[m] = NoMessage
  BY <1>1, <1>3 DEF MessageInv
<1>9. QED
  BY <1>5, <1>6, <1>7, <1>8 DEF MessageInv, MessagesKept

LEMMA MessageNextKeeps ==
    ASSUME MessageInv, MessageNext
    PROVE  MessageInv' /\ UNCHANGED <<vars, noticeVars>>
<1>1. ASSUME NEW u \in Users, NEW p \in Plans, rotate_vault_message_key(u, p)
      PROVE  MessageInv' /\ UNCHANGED <<vars, noticeVars>>
  <2>1. UNCHANGED <<message, vault_messages, next_message_id, now, triggered>>
        /\ UNCHANGED <<vars, noticeVars>>
    BY <1>1 DEF rotate_vault_message_key, MessagesOnly, vars, triggerVars
  <2>2. MaxKeys \in Nat
    BY MessageAssumption
  <2>3. message_key' \in [Plans -> 0..MaxKeys]
    BY <1>1, <2>2 DEF rotate_vault_message_key, MessageInv, MessageTypes
  <2>4. QED
    BY <2>1, <2>3 DEF MessageInv, MessageTypes, MessagesKept, SealedUntilDue, Due,
       MessageListMatches
<1>2. ASSUME NEW u \in Users, NEW p \in Plans, NEW c \in Contents, NEW t \in UnlockTimes,
             create_legacy_message(u, p, c, t) \/ batch_create_messages(u, p, c, t)
      PROVE  MessageInv' /\ UNCHANGED <<vars, noticeVars>>
  <2>1. MaxKeys \in Nat /\ message_key[p] \in 0..MaxKeys
    BY MessageAssumption DEF MessageInv, MessageTypes
  <2>2. PICK key \in 0..MaxKeys : WriteMessage(u, p, c, t, key)
    BY <1>2, <2>1 DEF create_legacy_message, batch_create_messages
  <2>3. QED
    BY <2>2, WriteKeepsMessages DEF WriteMessage, MessagesOnly
<1>3. ASSUME NEW u \in Users, NEW m \in MessageIds,
             \/ \E c \in Contents, t \in UnlockTimes : update_legacy_message(u, m, c, t)
             \/ finalize_legacy_message(u, m)
             \/ access_legacy_message(u, m)
      PROVE  MessageInv' /\ UNCHANGED <<vars, noticeVars>>
  BY <1>3, EditKeepsMessages DEF update_legacy_message, finalize_legacy_message,
     access_legacy_message, MessagesOnly
<1>4. ASSUME NEW u \in Users, NEW m \in MessageIds, delete_legacy_message(u, m)
      PROVE  MessageInv' /\ UNCHANGED <<vars, noticeVars>>
  BY <1>4, DeleteKeepsMessages DEF delete_legacy_message, MessagesOnly
<1>5. ASSUME NEW p \in Plans, unlock_messages_on_inheritance(p)
      PROVE  MessageInv' /\ UNCHANGED <<vars, noticeVars>>
  BY <1>5, UnlockKeepsMessages DEF unlock_messages_on_inheritance, MessagesOnly
<1>6. QED
  BY <1>1, <1>2, <1>3, <1>4, <1>5 DEF MessageNext

LEMMA MessageInitInv ==
    ASSUME MessageInit
    PROVE  MessageInv /\ NoticeTypes
<1>1. MaxMessages \in Nat /\ MaxKeys \in Nat
  BY MessageAssumption
<1>2. MessageTypes /\ NoticeTypes
  BY <1>1 DEF MessageInit, MessageTypes, NoticeTypes
<1>3. MessagesKept
  BY DEF MessageInit, MessagesKept, SealedUntilDue, MessageListMatches, IsInjective, Range
<1>4. QED
  BY <1>2, <1>3 DEF MessageInit, MessageInv

-----------------------------------------------------------------------------
(* Notices *)

LEMMA NoticeNextKeeps ==
    ASSUME Inv, NoticeTypes, NoticeNext
    PROVE  NoticeTypes' /\ UNCHANGED <<vars, messageVars>>
<1>1. PICK p \in Plans, i \in NoticeIndices :
         \/ \E u \in Users : notify_beneficiary(u, p, i)
         \/ acknowledge_beneficiary_status(p, i)
         \/ \E u \in Users, required \in Requirements : require_acknowledgment(u, p, required)
  BY DEF NoticeNext
<1>2. ASSUME Exists(p), i \in DOMAIN plan[p].beneficiaries
      PROVE  i \in 1..MAX_BENEFICIARIES
  <2>1. plan[p].beneficiaries \in Seq(Beneficiary) /\ AddsUp(plan[p])
    BY <1>2, StepBasics, StoredPlan, PlanFacts
  <2>2. /\ Len(plan[p].beneficiaries) \in Nat /\ MAX_BENEFICIARIES \in Nat
        /\ Len(plan[p].beneficiaries) <= MAX_BENEFICIARIES
        /\ DOMAIN plan[p].beneficiaries = 1..Len(plan[p].beneficiaries)
    BY <2>1, LenProperties, InheritanceAssumption DEF AddsUp
  <2>3. QED
    BY <1>2, <2>2
<1>3. CASE \E u \in Users : notify_beneficiary(u, p, i)
  BY <1>2, <1>3 DEF notify_beneficiary, NoticeTypes, NoticesOnly
<1>4. CASE acknowledge_beneficiary_status(p, i)
  BY <1>2, <1>4 DEF acknowledge_beneficiary_status, NoticeTypes, NoticesOnly
<1>5. ASSUME NEW u \in Users, NEW required \in Requirements,
             require_acknowledgment(u, p, required)
      PROVE  NoticeTypes' /\ UNCHANGED <<vars, messageVars>>
  BY <1>5 DEF require_acknowledgment, NoticeTypes, NoticesOnly
<1>6. QED
  BY <1>1, <1>3, <1>4, <1>5

-----------------------------------------------------------------------------
(* Yield: the two ledgers *)

Position == PositionOf(YieldAssets, U64, Nat)

\* What one lending contract booked as paid for a plan.
Harvested(l, p) ==
    IF pool_position[l][p] = NoPosition THEN 0 ELSE pool_position[l][p].total_harvested

\* What a registered plan was credited with beside its books.
Noted(p) ==
    IF yield_state[p] = NoYield THEN 0
    ELSE yield_state[p].pending_credit + yield_state[p].total_fees_paid

\* What is known of a plan's position and of its yield record.
LEMMA StoredPosition ==
    ASSUME YieldTypeOK, NEW l \in Pools, NEW p \in Plans
    PROVE  /\ pool_position[l][p] \in Position \cup {NoPosition}
           /\ pool_position[l][p] # NoPosition =>
                 /\ pool_position[l][p] \in Position
                 /\ pool_position[l][p].total_harvested \in U64
           /\ Harvested(l, p) \in Nat
<1>1. pool_position[l][p] \in Position \cup {NoPosition}
  BY DEF YieldTypeOK, Position
<1>2. pool_position[l][p] # NoPosition => pool_position[l][p].total_harvested \in U64
  BY <1>1 DEF Position, PositionOf
<1>3. \A x \in U64 : x \in Nat
  BY DEF U64
<1>4. QED
  BY <1>1, <1>2, <1>3 DEF Harvested

LEMMA StoredYield ==
    ASSUME YieldTypeOK, NEW p \in Plans
    PROVE  /\ yield_state[p] # NoYield =>
                 /\ yield_state[p] \in PlanYieldState
                 /\ yield_state[p].pending_credit \in U64
                 /\ yield_state[p].total_fees_paid \in U64
                 /\ yield_state[p].config \in YieldConfig
                 /\ yield_state[p].config.performance_fee_bp \in Nat
           /\ Noted(p) \in Nat
<1>1. yield_state[p] # NoYield =>
         /\ yield_state[p] \in PlanYieldState
         /\ yield_state[p].pending_credit \in U64
         /\ yield_state[p].total_fees_paid \in U64
         /\ yield_state[p].config \in YieldConfig
  BY DEF YieldTypeOK, PlanYieldState
<1>2. \A x \in U64 : x \in Nat
  BY DEF U64
<1>3. QED
  BY <1>1, <1>2 DEF Noted, YieldConfig

LEMMA CreditFacts ==
    ASSUME Inv, YieldTypeOK, NEW p \in Plans, Exists(p)
    PROVE  /\ plan[p].total_amount \in Nat /\ vault[p] \in Nat /\ Noted(p) \in Nat
           /\ Credited(p) = plan[p].total_amount - vault[p] + Noted(p)
<1>1. plan[p].total_amount \in Nat /\ vault[p] \in Nat
  BY PlanFacts, StoredPlan
<1>2. Noted(p) \in Nat
  BY StoredYield
<1>3. QED
  BY <1>1, <1>2 DEF Credited, Noted

LEMMA PaidFacts ==
    ASSUME YieldTypeOK, NEW p \in Plans
    PROVE  PaidByPools(p) \in Nat /\ \A l \in Pools : Harvested(l, p) <= PaidByPools(p)
<1>1. PICK f : f = [l \in Pools |-> Harvested(l, p)]
  OBVIOUS
<1>2. PaidByPools(p) = SumFunction(f)
  BY <1>1 DEF PaidByPools, Harvested
<1>3. f = [l \in Pools |-> f[l]]
  BY <1>1
<1>4. SumFunction(f) = SumOver(f, Pools)
  BY <1>3, SumIsSumOver
<1>5. IsFiniteSet(Pools)
  BY YieldAssumption
<1>6. \A l \in Pools : f[l] \in Nat /\ f[l] = Harvested(l, p)
  BY <1>1, StoredPosition
<1>7. SumOver(f, Pools) \in Nat /\ \A l \in Pools : f[l] <= SumOver(f, Pools)
  BY <1>5, <1>6, SumOverNat
<1>8. QED
  BY <1>2, <1>4, <1>6, <1>7

LEMMA NextFacts ==
    ASSUME YieldTypeOK', NEW p \in Plans
    PROVE  /\ \A l \in Pools : Harvested(l, p)' \in Nat
           /\ PaidByPools(p)' \in Nat
           /\ Noted(p)' \in Nat
<1>1. \A x \in U64 : x \in Nat
  BY DEF U64
<1>2. ASSUME NEW l \in Pools PROVE Harvested(l, p)' \in Nat
  <2>1. pool_position'[l][p] # NoPosition => pool_position'[l][p].total_harvested \in U64
    BY DEF YieldTypeOK, PositionOf
  <2>2. QED
    BY <1>1, <2>1 DEF Harvested
<1>3. PaidByPools(p)' \in Nat
  <2>1. PICK g : g = [l \in Pools |-> Harvested(l, p)']
    OBVIOUS
  <2>2. PaidByPools(p)' = SumFunction(g)
    BY <2>1 DEF PaidByPools, Harvested
  <2>3. g = [l \in Pools |-> g[l]]
    BY <2>1
  <2>4. SumFunction(g) = SumOver(g, Pools)
    BY <2>3, SumIsSumOver
  <2>5. IsFiniteSet(Pools)
    BY YieldAssumption
  <2>6. \A l \in Pools : g[l] \in Nat
    BY <1>2, <2>1
  <2>7. QED
    BY <2>2, <2>4, <2>5, <2>6, SumOverNat
<1>4. yield_state'[p] # NoYield => /\ yield_state'[p].pending_credit \in U64
                                  /\ yield_state'[p].total_fees_paid \in U64
  BY DEF YieldTypeOK, PlanYieldState
<1>5. Noted(p)' \in Nat
  BY <1>1, <1>4 DEF Noted
<1>6. QED
  BY <1>2, <1>3, <1>5

LEMMA CreditNext ==
    ASSUME Inv', YieldTypeOK', NEW p \in Plans, Exists(p)'
    PROVE  /\ plan'[p].total_amount \in Nat /\ vault'[p] \in Nat
           /\ Credited(p)' = plan'[p].total_amount - vault'[p] + Noted(p)'
           /\ Credited(p)' \in Int
<1>1. PlanTypes'
  BY TypeGroupsNext DEF Inv
<1>2. plan'[p] \in Plan
  BY <1>1 DEF PlanTypes, Exists
<1>3. plan'[p].total_amount \in Nat /\ vault'[p] \in Nat
  BY <1>1, <1>2 DEF Plan, U64, PlanTypes
<1>4. Noted(p)' \in Nat
  BY NextFacts
<1>5. Credited(p)' = plan'[p].total_amount - vault'[p] + Noted(p)'
  BY DEF Credited, Noted
<1>6. QED
  BY <1>3, <1>4, <1>5

\* Payments of one lending contract are all that moves the sum.
LEMMA PaidStep ==
    ASSUME YieldTypeOK, YieldTypeOK', NEW p \in Plans, NEW l \in Pools,
           \A k \in Pools \ {l} : Harvested(k, p)' = Harvested(k, p)
    PROVE  /\ PaidByPools(p) \in Nat /\ PaidByPools(p)' \in Nat
           /\ Harvested(l, p) \in Nat /\ Harvested(l, p)' \in Nat
           /\ PaidByPools(p)' = PaidByPools(p) - Harvested(l, p) + Harvested(l, p)'
<1>1. PICK f : f = [k \in Pools |-> Harvested(k, p)]
  OBVIOUS
<1>2. PICK g : g = [k \in Pools |-> Harvested(k, p)']
  OBVIOUS
<1>3. PaidByPools(p) = SumFunction(f)
  BY <1>1 DEF PaidByPools, Harvested
<1>4. PaidByPools(p)' = SumFunction(g)
  BY <1>2 DEF PaidByPools, Harvested
<1>5. f = [k \in Pools |-> f[k]] /\ g = [k \in Pools |-> g[k]]
  BY <1>1, <1>2
<1>6. SumFunction(f) = SumOver(f, Pools) /\ SumFunction(g) = SumOver(g, Pools)
  BY <1>5, SumIsSumOver
<1>7. IsFiniteSet(Pools)
  BY YieldAssumption
<1>8. \A k \in Pools : f[k] \in Nat /\ f[k] = Harvested(k, p)
  BY <1>1, StoredPosition
<1>9. \A k \in Pools : Harvested(k, p)' \in Nat
  BY NextFacts
<1>10. \A k \in Pools : g[k] \in Nat /\ g[k] = Harvested(k, p)'
  BY <1>2, <1>9
<1>11. (\A k \in Pools : f[k] \in Int) /\ g[l] \in Int /\ \A k \in Pools \ {l} : g[k] = f[k]
  BY <1>8, <1>10
<1>12. SumOver(g, Pools) = SumOver(f, Pools) - f[l] + g[l]
  <2>1. \A k \in Pools : f[k] \in Int
    BY <1>11
  <2>2. g[l] \in Int
    BY <1>11
  <2>3. \A k \in Pools \ {l} : g[k] = f[k]
    BY <1>11
  <2>4. QED
    BY ONLY <1>7, <2>1, <2>2, <2>3, SumOverUpdate
<1>13. SumOver(f, Pools) \in Nat /\ SumOver(g, Pools) \in Nat
  BY <1>7, <1>8, <1>10, SumOverNat
<1>14. QED
  BY <1>3, <1>4, <1>6, <1>8, <1>10, <1>12, <1>13

\* A step moves a plan's two ledgers together: what it adds to the credit some
\* pool booked, and what a pool booked is added, or is one of the listed
\* losses.  A full tally stays full.
Settles(p) ==
    /\ PoolTallyFull(p) => PoolTallyFull(p)'
    /\ Exists(p) /\ ~PoolTallyFull(p)' =>
          Credited(p)' - Credited(p) <= PaidByPools(p)' - PaidByPools(p)
    /\ Exists(p) /\ yield_state[p] # NoYield /\ yield_state'[p] # NoYield
             /\ ~PoolTallyFull(p)' /\ ~FeeTallyFull(p)' =>
          \/ Credited(p)' - Credited(p) = PaidByPools(p)' - PaidByPools(p)
          \/ PaymentLost(p)
          \/ BatchClaims

LEMMA PoolsAside ==
    ASSUME YieldTypeOK, NEW p \in Plans,
           \A l \in Pools : /\ pool_position[l][p] # NoPosition =>
                                 pool_position'[l][p] # NoPosition
                            /\ Harvested(l, p)' = Harvested(l, p)
    PROVE  /\ PaidByPools(p)' = PaidByPools(p) /\ PaidByPools(p) \in Nat
           /\ PoolTallyFull(p) => PoolTallyFull(p)'
<1>1. PaidByPools(p) = SumFunction([l \in Pools |-> Harvested(l, p)])
  BY DEF PaidByPools, Harvested
<1>2. PaidByPools(p)' = SumFunction([l \in Pools |-> Harvested(l, p)'])
  BY DEF PaidByPools, Harvested
<1>3. [l \in Pools |-> Harvested(l, p)'] = [l \in Pools |-> Harvested(l, p)]
  OBVIOUS
<1>4. PoolTallyFull(p) => PoolTallyFull(p)'
  BY DEF PoolTallyFull, Harvested
<1>5. QED
  BY <1>1, <1>2, <1>3, <1>4, PaidFacts

\* A step that moves neither ledger.
LEMMA AsideSettles ==
    ASSUME Inv, Inv', YieldTypeOK, YieldTypeOK', NEW p \in Plans,
           Exists(p) => /\ Exists(p)'
                        /\ plan'[p].total_amount = plan[p].total_amount
                        /\ vault'[p] = vault[p] /\ Noted(p)' = Noted(p),
           \A l \in Pools : /\ pool_position[l][p] # NoPosition =>
                                 pool_position'[l][p] # NoPosition
                            /\ Harvested(l, p)' = Harvested(l, p)
    PROVE  Settles(p)
<1>1. /\ PaidByPools(p)' = PaidByPools(p) /\ PaidByPools(p) \in Nat
      /\ PoolTallyFull(p) => PoolTallyFull(p)'
  BY PoolsAside
<1>2. Exists(p) => Credited(p)' = Credited(p) /\ Credited(p) \in Int
  <2>1. SUFFICES ASSUME Exists(p)
                 PROVE  Credited(p)' = Credited(p) /\ Credited(p) \in Int
    OBVIOUS
  <2>2. /\ plan[p].total_amount \in Nat /\ vault[p] \in Nat /\ Noted(p) \in Nat
        /\ Credited(p) = plan[p].total_amount - vault[p] + Noted(p)
    BY <2>1, CreditFacts
  <2>3. Credited(p)' = plan'[p].total_amount - vault'[p] + Noted(p)'
    BY DEF Credited, Noted
  <2>4. QED
    BY <2>1, <2>2, <2>3
<1>3. QED
  BY <1>1, <1>2 DEF Settles

\* A step on one plan.
LEMMA OthersSettle ==
    ASSUME Inv, Inv', YieldTypeOK, YieldTypeOK', NEW p \in Plans, Settles(p),
           \A r \in Plans \ {p} :
              /\ plan'[r] = plan[r] /\ vault'[r] = vault[r]
              /\ yield_state'[r] = yield_state[r]
              /\ \A l \in Pools : pool_position'[l][r] = pool_position[l][r]
    PROVE  \A r \in Plans : Settles(r)
<1>1. ASSUME NEW r \in Plans, r # p PROVE Settles(r)
  <2>1. Exists(r) => Exists(r)' /\ Noted(r)' = Noted(r)
    BY <1>1 DEF Exists, Noted
  <2>2. \A l \in Pools : /\ pool_position[l][r] # NoPosition =>
                              pool_position'[l][r] # NoPosition
                         /\ Harvested(l, r)' = Harvested(l, r)
    BY <1>1 DEF Harvested
  <2>3. QED
    BY <1>1, <2>1, <2>2, AsideSettles
<1>2. QED
  BY <1>1

\* One record of yield, or one position, is written.
LEMMA StateStep ==
    ASSUME YieldTypeOK, NEW p \in Plans, NEW q \in PlanYieldState \cup {NoYield},
           yield_state' = [yield_state EXCEPT ![p] = q]
    PROVE  /\ yield_state'[p] = q
           /\ \A r \in Plans \ {p} : yield_state'[r] = yield_state[r]
           /\ yield_state' \in [Plans -> PlanYieldState \cup {NoYield}]
BY DEF YieldTypeOK

LEMMA PositionStep ==
    ASSUME YieldTypeOK, NEW l \in Pools, NEW p \in Plans, NEW q \in Position,
           pool_position' = [pool_position EXCEPT ![l][p] = q]
    PROVE  /\ pool_position'[l][p] = q
           /\ pool_position'[l][p] # NoPosition
           /\ \A k \in Pools \ {l} : pool_position'[k][p] = pool_position[k][p]
           /\ \A k \in Pools : \A r \in Plans \ {p} :
                 pool_position'[k][r] = pool_position[k][r]
           /\ pool_position' \in [Pools -> [Plans -> Position \cup {NoPosition}]]
<1>1. pool_position \in [Pools -> [Plans -> Position \cup {NoPosition}]]
  BY DEF YieldTypeOK, Position
<1>2. q # NoPosition
  BY YieldMarkAssumption DEF Position
<1>3. pool_position' = [pool_position EXCEPT ![l] = [pool_position[l] EXCEPT ![p] = q]]
  OBVIOUS
<1>4. QED
  BY <1>1, <1>2, <1>3

-----------------------------------------------------------------------------
(* Yield: what a payment does *)

LEMMA PayableFacts ==
    ASSUME YieldTypeOK, NEW l \in Pools \cup {NoAddress}, NEW p \in Plans,
           NEW gross \in Payable(l, p)
    PROVE  l \in Pools /\ gross \in Nat /\ pool_position[l][p] # NoPosition
<1>1. l # NoAddress /\ pool_position[l][p] # NoPosition
  BY DEF Payable
<1>2. PICK r \in SupplyRates : gross \in 1..accrued_for_position(pool_position[l][p], r, now)
  BY <1>1 DEF Payable
<1>3. QED
  BY <1>1, <1>2

\* The tally of a position grows by what was paid, up to the largest amount.
LEMMA PayFacts ==
    ASSUME YieldTypeOK, now \in Nat, NEW l \in Pools, NEW p \in Plans, NEW gross \in Nat,
           pool_position[l][p] # NoPosition, PoolPays(l, p, gross)
    PROVE  /\ pool_position' \in [Pools -> [Plans -> Position \cup {NoPosition}]]
           /\ \A k \in Pools : \A r \in Plans \ {p} :
                 pool_position'[k][r] = pool_position[k][r]
           /\ \A k \in Pools \ {l} : pool_position'[k][p] = pool_position[k][p]
           /\ pool_position'[l][p] # NoPosition
           /\ Harvested(l, p) \in Nat /\ Harvested(l, p) <= U64_MAX
           /\ Harvested(l, p)' = capped(Harvested(l, p) + gross, U64_MAX)
<1> DEFINE old == pool_position[l][p]
           new == harvested(old, gross, now, U64_MAX)
<1>1. pool_position' = [pool_position EXCEPT ![l][p] = new]
  BY DEF PoolPays
<1>2. old \in Position /\ old.total_harvested \in U64
  BY StoredPosition
<1>3. U64_MAX \in Nat
  BY InheritanceAssumption
<1>4. old.total_harvested \in Nat /\ old.total_harvested <= U64_MAX
  BY <1>2, <1>3 DEF U64
<1>5. capped(old.total_harvested + gross, U64_MAX) \in U64
  BY <1>3, <1>4 DEF capped, U64
<1>6. new = [old EXCEPT !.last_harvest_at = now,
                        !.total_harvested = capped(old.total_harvested + gross, U64_MAX)]
  BY DEF harvested
<1>7. /\ new \in Position
      /\ new.total_harvested = capped(old.total_harvested + gross, U64_MAX)
  BY <1>2, <1>5, <1>6 DEF Position, PositionOf
<1> HIDE DEF new, old
<1>8. Harvested(l, p) = old.total_harvested
  BY DEF Harvested, old
<1>9. Harvested(l, p)' = new.total_harvested
  BY <1>1, <1>7, PositionStep DEF Harvested
<1>10. QED
  BY <1>1, <1>4, <1>7, <1>8, <1>9, PositionStep

LEMMA PaidMore ==
    ASSUME YieldTypeOK, YieldTypeOK', now \in Nat, NEW l \in Pools, NEW p \in Plans,
           NEW gross \in Nat, pool_position[l][p] # NoPosition, PoolPays(l, p, gross)
    PROVE  /\ PaidByPools(p) \in Nat /\ PaidByPools(p)' \in Nat
           /\ PaidByPools(p)' >= PaidByPools(p)
           /\ ~PoolTallyFull(p)' => PaidByPools(p)' = PaidByPools(p) + gross
           /\ PoolTallyFull(p) => PoolTallyFull(p)'
<1> DEFINE h == Harvested(l, p)
           c == capped(Harvested(l, p) + gross, U64_MAX)
<1>1. /\ \A k \in Pools \ {l} : pool_position'[k][p] = pool_position[k][p]
      /\ pool_position'[l][p] # NoPosition
      /\ h \in Nat /\ h <= U64_MAX
      /\ Harvested(l, p)' = c
  BY PayFacts
<1>2. \A k \in Pools \ {l} : Harvested(k, p)' = Harvested(k, p)
  BY <1>1 DEF Harvested
<1>3. /\ PaidByPools(p) \in Nat /\ PaidByPools(p)' \in Nat
      /\ PaidByPools(p)' = PaidByPools(p) - h + c
  BY <1>1, <1>2, PaidStep
<1>4. U64_MAX \in Nat
  BY InheritanceAssumption
<1>5. c = IF h + gross <= U64_MAX THEN h + gross ELSE U64_MAX
  BY DEF capped
<1>6. Harvested(l, p)' = pool_position'[l][p].total_harvested
      /\ h = pool_position[l][p].total_harvested
  BY <1>1 DEF Harvested
<1>7. ~PoolTallyFull(p)' => c # U64_MAX
  BY <1>1, <1>6 DEF PoolTallyFull
<1>8. PoolTallyFull(p) => PoolTallyFull(p)'
  <2>1. SUFFICES ASSUME NEW k \in Pools, pool_position[k][p] # NoPosition,
                        pool_position[k][p].total_harvested = U64_MAX
                 PROVE  PoolTallyFull(p)'
    BY DEF PoolTallyFull
  <2>2. CASE k # l
    BY <1>1, <2>1, <2>2 DEF PoolTallyFull
  <2>3. CASE k = l
    <3>1. h = U64_MAX
      BY <1>6, <2>1, <2>3
    <3> HIDE DEF h, c
    <3>2. c = U64_MAX
      BY <1>1, <1>4, <1>5, <3>1
    <3>3. QED
      BY <1>1, <1>6, <3>2 DEF PoolTallyFull
  <2>4. QED
    BY <2>2, <2>3
<1> HIDE DEF h, c
<1>9. QED
  BY <1>1, <1>3, <1>4, <1>5, <1>7, <1>8

\* Net and fee are parts of what was paid.
LEMMA SplitFacts ==
    ASSUME NEW amount \in Nat, NEW bp \in Nat, bp <= MAX_PERFORMANCE_FEE_BPS
    PROVE  /\ split_performance_fee(amount, bp).net \in Nat
           /\ split_performance_fee(amount, bp).fee \in Nat
           /\ split_performance_fee(amount, bp).net + split_performance_fee(amount, bp).fee
                 = amount
<1> DEFINE fee == Share(amount, bp)
<1>1. BPS \in Nat
  BY InheritanceAssumption
<1>2. MAX_PERFORMANCE_FEE_BPS \in 0..BPS
  BY YieldAssumption
<1>3. bp <= BPS
  BY <1>1, <1>2
<1>4. fee \in Nat /\ fee <= amount
  BY <1>3, ShareFacts
<1>5. /\ split_performance_fee(amount, bp).net = amount - fee
      /\ split_performance_fee(amount, bp).fee = fee
  BY DEF split_performance_fee, Share
<1> HIDE DEF fee
<1>6. QED
  BY <1>4, <1>5

\* What compounding does to the rest of the contract.
LEMMA CompoundKeepsInv ==
    ASSUME Inv, NEW p \in Plans, Exists(p), NEW amount \in Nat, Compound(p, amount)
    PROVE  /\ Inv'
           /\ plan'[p].total_amount = plan[p].total_amount + amount
           /\ \A r \in Plans \ {p} : plan'[r] = plan[r]
           /\ \A r \in Plans : Exists(r)' <=> Exists(r)
           /\ UNCHANGED <<vault, now, triggered>>
<1> DEFINE q == [plan[p] EXCEPT !.total_amount = plan[p].total_amount + amount]
<1>1. /\ plan[p].total_amount + amount <= U64_MAX
      /\ plan' = [plan EXCEPT ![p] = q]
      /\ UNCHANGED <<next_plan_id, user_plans, deactivated, vault>>
      /\ UNCHANGED <<claimVars, accountVars, triggerVars, emergencyVars, disputeVars, now>>
  BY DEF Compound
<1>2. /\ AddsUp(plan[p]) /\ FlagsKept(p, plan[p].beneficiaries) /\ plan[p] \in Plan
      /\ PlanTypes /\ plan[p].total_amount \in Nat
  BY PlanFacts, StoredPlan
<1>3. U64_MAX \in Nat
  BY InheritanceAssumption
<1>4. /\ q.owner = plan[p].owner /\ q.is_active = plan[p].is_active
      /\ q.total_amount = plan[p].total_amount + amount
      /\ q.beneficiaries = plan[p].beneficiaries
      /\ q.total_allocation_bp = plan[p].total_allocation_bp
      /\ q \in Plan
  <2>1. plan[p].total_amount + amount \in U64
    BY <1>1, <1>2, <1>3 DEF U64
  <2>2. QED
    BY <1>2, <2>1 DEF Plan
<1> HIDE DEF q
<1>5. UNCHANGED <<claimed, triggered, access>>
  BY <1>1 DEF claimVars, triggerVars, emergencyVars
<1>6. OtherTypes' /\ ClaimRegistry'
  <2>1. OtherTypes /\ ClaimRegistry
    BY TypeGroups DEF Inv, OtherTypes
  <2>2. OtherTypes'
    BY <1>1, <2>1, IdleTypes DEF OtherTypes
  <2>3. ClaimRegistry'
    BY <1>1, <2>1, IdleRegistry DEF claimVars
  <2>4. QED
    BY <2>2, <2>3
<1>7. vault' \in [Plans -> Nat] /\ \A r \in Plans : vault'[r] = vault[r]
  BY <1>1, <1>2 DEF PlanTypes
<1>8. Rewrites(p, q) /\ AddsUp(q)
  BY <1>1, <1>2, <1>4 DEF Rewrites, AddsUp
<1>9. \A i \in DOMAIN q.beneficiaries :
         q.beneficiaries[i].is_claimed => q.beneficiaries[i].email \in claimed'[p]
  BY <1>2, <1>4, <1>5 DEF FlagsKept
<1>10. Inv'
  BY <1>1, <1>4, <1>5, <1>7, <1>6, <1>8, <1>9, RewriteKeepsInv
<1>11. /\ plan'[p] = q /\ \A r \in Plans \ {p} : plan'[r] = plan[r]
       /\ \A r \in Plans : Exists(r)' <=> Exists(r)
  <2>1. plan'[p] = q
    BY <1>2, <1>8, RewriteFacts
  <2>2. \A r \in Plans \ {p} : plan'[r] = plan[r]
    BY <1>2, <1>8, RewriteFacts
  <2>3. \A r \in Plans : Exists(r)' <=> Exists(r)
    BY <1>2, <1>8, RewriteFacts
  <2>4. QED
    BY <2>1, <2>2, <2>3
<1>12. QED
  BY <1>1, <1>4, <1>5, <1>10, <1>11

-----------------------------------------------------------------------------
(* Yield: the inductive invariant *)

\* Only plans that exist have a record of yield, with a fee that is allowed.
YieldRecords ==
    \A p \in Plans : yield_state[p] # NoYield =>
        Exists(p) /\ yield_state[p].config.performance_fee_bp <= MAX_PERFORMANCE_FEE_BPS

YieldInv == YieldTypeOK /\ YieldRecords /\ CreditsAreBacked

\* What every step of the yield desk is shown to do.
YieldDone ==
    /\ Inv' /\ YieldTypeOK' /\ YieldRecords'
    /\ \A p \in Plans : Exists(p)' <=> Exists(p)
    /\ \A p \in Plans : Settles(p)
    /\ UNCHANGED <<now, triggered>>

LEMMA DoneKeepsBacking ==
    ASSUME Inv, YieldInv, YieldDone
    PROVE  YieldInv'
<1>1. SUFFICES ASSUME NEW p \in Plans, Exists(p)', ~PoolTallyFull(p)'
               PROVE  Credited(p)' <= PaidByPools(p)'
  BY DEF YieldInv, YieldDone, CreditsAreBacked
<1>2. Exists(p) /\ ~PoolTallyFull(p)
  BY <1>1 DEF YieldDone, Settles
<1>3. Credited(p) <= PaidByPools(p)
  BY <1>2 DEF YieldInv, CreditsAreBacked
<1>4. Credited(p)' - Credited(p) <= PaidByPools(p)' - PaidByPools(p)
  BY <1>1, <1>2 DEF YieldDone, Settles
<1>5. Credited(p) \in Int /\ PaidByPools(p) \in Int
  BY <1>2, CreditFacts, PaidFacts DEF YieldInv
<1>6. Credited(p)' \in Int /\ PaidByPools(p)' \in Int
  BY <1>1, NextFacts, CreditNext DEF YieldDone
<1>7. QED
  BY <1>3, <1>4, <1>5, <1>6

-----------------------------------------------------------------------------
(* Yield: steps that move neither ledger *)

LEMMA AsideDone ==
    ASSUME Inv, YieldInv, UNCHANGED vars, YieldTypeOK', YieldRecords',
           \A r \in Plans : Exists(r) => Noted(r)' = Noted(r),
           \A r \in Plans : \A l \in Pools :
              /\ pool_position[l][r] # NoPosition => pool_position'[l][r] # NoPosition
              /\ Harvested(l, r)' = Harvested(l, r)
    PROVE  YieldDone
<1>1. UNCHANGED <<plan, vault, now, triggered>>
  BY DEF vars, planVars, triggerVars
<1>2. \A r \in Plans : Exists(r)' <=> Exists(r)
  BY <1>1 DEF Exists
<1>3. Inv'
  BY StutterKeepsInv
<1>4. ASSUME NEW r \in Plans PROVE Settles(r)
  BY <1>1, <1>2, <1>3, AsideSettles DEF YieldInv
<1>5. QED
  BY <1>1, <1>2, <1>3, <1>4 DEF YieldDone

\* One record is rewritten and no position.
LEMMA RecordDone ==
    ASSUME Inv, YieldInv, NEW p \in Plans, Exists(p), NEW q \in PlanYieldState,
           yield_state' = [yield_state EXCEPT ![p] = q],
           q.pending_credit + q.total_fees_paid = Noted(p),
           q.config.performance_fee_bp <= MAX_PERFORMANCE_FEE_BPS,
           UNCHANGED <<lending_contract, relayers, vars>>,
           pool_position' \in [Pools -> [Plans -> Position \cup {NoPosition}]],
           \A r \in Plans : \A l \in Pools :
              /\ pool_position[l][r] # NoPosition => pool_position'[l][r] # NoPosition
              /\ Harvested(l, r)' = Harvested(l, r)
    PROVE  YieldDone
<1>1. /\ yield_state'[p] = q
      /\ \A r \in Plans \ {p} : yield_state'[r] = yield_state[r]
      /\ yield_state' \in [Plans -> PlanYieldState \cup {NoYield}]
  BY StateStep DEF YieldInv
<1>2. YieldTypeOK'
  BY <1>1 DEF YieldInv, YieldTypeOK, Position
<1>3. UNCHANGED plan
  BY DEF vars, planVars
<1>4. YieldRecords'
  BY <1>1, <1>3 DEF YieldInv, YieldRecords, Exists
<1>5. \A r \in Plans : Exists(r) => Noted(r)' = Noted(r)
  <2>1. Noted(p)' = Noted(p)
    BY <1>1, YieldMarkAssumption DEF Noted
  <2>2. QED
    BY <1>1, <2>1 DEF Noted
<1>6. QED
  BY <1>2, <1>4, <1>5, AsideDone

LEMMA SettingsDone ==
    ASSUME Inv, YieldInv,
           \/ \E l \in Pools : set_lending_contract(l)
           \/ \E r \in Relayers : add_yield_relayer(r) \/ remove_yield_relayer(r)
    PROVE  YieldDone
<1>1. UNCHANGED <<yield_state, pool_position, vars>>
  BY DEF set_lending_contract, add_yield_relayer, remove_yield_relayer, YieldOnly
<1>2. YieldTypeOK'
  <2>1. IsFiniteSet(relayers) /\ relayers \subseteq Users
        /\ Cardinality(relayers) <= MAX_YIELD_RELAYERS
    BY InheritanceAssumption, FS_Subset DEF YieldInv, YieldTypeOK
  <2>2. Cardinality(relayers) \in Nat /\ MAX_YIELD_RELAYERS \in Nat
    BY <2>1, FS_CardinalityType, YieldAssumption
  <2>3. CASE \E l \in Pools : set_lending_contract(l)
    BY <1>1, <2>3 DEF set_lending_contract, YieldInv, YieldTypeOK
  <2>4. ASSUME NEW r \in Relayers, add_yield_relayer(r) PROVE YieldTypeOK'
    <3>1. r \in Users
      BY YieldAssumption
    <3>2. /\ r \notin relayers /\ Cardinality(relayers) < MAX_YIELD_RELAYERS
          /\ relayers' = relayers \cup {r} /\ UNCHANGED lending_contract
      BY <2>4 DEF add_yield_relayer
    <3>3. Cardinality(relayers') = Cardinality(relayers) + 1
      BY <2>1, <3>2, FS_AddElement
    <3>4. relayers' \subseteq Users /\ Cardinality(relayers') <= MAX_YIELD_RELAYERS
      BY <2>1, <2>2, <3>1, <3>2, <3>3
    <3>5. QED
      BY <1>1, <3>2, <3>4 DEF YieldInv, YieldTypeOK
  <2>5. ASSUME NEW r \in Relayers, remove_yield_relayer(r) PROVE YieldTypeOK'
    <3>1. r \in relayers /\ relayers' = relayers \ {r} /\ UNCHANGED lending_contract
      BY <2>5 DEF remove_yield_relayer
    <3>2. Cardinality(relayers') = Cardinality(relayers) - 1
      BY <2>1, <3>1, FS_RemoveElement
    <3>3. relayers' \subseteq Users /\ Cardinality(relayers') <= MAX_YIELD_RELAYERS
      BY <2>1, <2>2, <3>1, <3>2
    <3>4. QED
      BY <1>1, <3>1, <3>3 DEF YieldInv, YieldTypeOK
  <2>6. QED
    BY <2>3, <2>4, <2>5
<1>3. UNCHANGED plan
  BY <1>1 DEF vars, planVars
<1>4. YieldRecords'
  BY <1>1, <1>3 DEF YieldInv, YieldRecords, Exists
<1>5. QED
  BY <1>1, <1>2, <1>4, AsideDone DEF Noted, Harvested

LEMMA ReconfigureDone ==
    ASSUME Inv, YieldInv, NEW u \in Users, NEW p \in Plans,
           \/ \E c \in YieldConfigs : set_yield_config(u, p, c)
           \/ \E on \in BOOLEAN : set_plan_yield_paused(u, p, on)
    PROVE  YieldDone
<1>1. /\ Exists(p) /\ yield_state[p] # NoYield
      /\ UNCHANGED <<lending_contract, relayers, pool_position, vars>>
  BY DEF set_yield_config, set_plan_yield_paused, Reconfigure, YieldOnly
<1>2. /\ yield_state[p] \in PlanYieldState
      /\ Noted(p) = yield_state[p].pending_credit + yield_state[p].total_fees_paid
      /\ yield_state[p].config.performance_fee_bp <= MAX_PERFORMANCE_FEE_BPS
  BY <1>1, StoredYield DEF YieldInv, YieldRecords, Noted
<1>3. /\ pool_position' \in [Pools -> [Plans -> Position \cup {NoPosition}]]
      /\ \A r \in Plans : \A l \in Pools :
            /\ pool_position[l][r] # NoPosition => pool_position'[l][r] # NoPosition
            /\ Harvested(l, r)' = Harvested(l, r)
  BY <1>1 DEF YieldInv, YieldTypeOK, Position, Harvested
<1>4. PICK q \in PlanYieldState :
         /\ yield_state' = [yield_state EXCEPT ![p] = q]
         /\ q.pending_credit + q.total_fees_paid = Noted(p)
         /\ q.config.performance_fee_bp <= MAX_PERFORMANCE_FEE_BPS
  <2>1. ASSUME NEW c \in YieldConfigs, set_yield_config(u, p, c)
        PROVE  \E q \in PlanYieldState :
                  /\ yield_state' = [yield_state EXCEPT ![p] = q]
                  /\ q.pending_credit + q.total_fees_paid = Noted(p)
                  /\ q.config.performance_fee_bp <= MAX_PERFORMANCE_FEE_BPS
    <3> DEFINE q == [yield_state[p] EXCEPT !.config = c]
    <3>1. /\ c.performance_fee_bp <= MAX_PERFORMANCE_FEE_BPS
          /\ yield_state' = [yield_state EXCEPT ![p] = q]
      BY <2>1 DEF set_yield_config, Reconfigure
    <3>2. c \in YieldConfig
      BY YieldAssumption
    <3>3. /\ q \in PlanYieldState /\ q.config = c
          /\ q.pending_credit = yield_state[p].pending_credit
          /\ q.total_fees_paid = yield_state[p].total_fees_paid
      BY <1>2, <3>2 DEF PlanYieldState
    <3> HIDE DEF q
    <3>4. QED
      BY <1>2, <3>1, <3>3
  <2>2. ASSUME NEW on \in BOOLEAN, set_plan_yield_paused(u, p, on)
        PROVE  \E q \in PlanYieldState :
                  /\ yield_state' = [yield_state EXCEPT ![p] = q]
                  /\ q.pending_credit + q.total_fees_paid = Noted(p)
                  /\ q.config.performance_fee_bp <= MAX_PERFORMANCE_FEE_BPS
    <3> DEFINE q == [yield_state[p] EXCEPT !.paused = on]
    <3>1. yield_state' = [yield_state EXCEPT ![p] = q]
      BY <2>2 DEF set_plan_yield_paused, Reconfigure
    <3>2. /\ q \in PlanYieldState /\ q.config = yield_state[p].config
          /\ q.pending_credit = yield_state[p].pending_credit
          /\ q.total_fees_paid = yield_state[p].total_fees_paid
      BY <1>2 DEF PlanYieldState
    <3> HIDE DEF q
    <3>3. QED
      BY <1>2, <3>1, <3>2
  <2>3. QED
    BY <2>1, <2>2
<1>5. QED
  BY <1>1, <1>3, <1>4, RecordDone

\* Registering again keeps what was credited and what was paid.
LEMMA RegisterDone ==
    ASSUME Inv, YieldInv, NEW u \in Users, NEW p \in Plans, NEW a \in YieldAssets,
           register_yield_position(u, p, a)
    PROVE  YieldDone
<1> DEFINE l == lending_contract
           old == pool_position[l][p]
           new == registered(old, a, plan[p].total_amount, now)
           q == Enlisted(yield_state[p], a)
<1>1. /\ Exists(p) /\ l # NoAddress
      /\ pool_position' = [pool_position EXCEPT ![l][p] = new]
      /\ yield_state' = [yield_state EXCEPT ![p] = q]
      /\ UNCHANGED <<lending_contract, relayers, vars>>
  BY DEF register_yield_position, YieldOnly
<1>2. l \in Pools
  BY <1>1 DEF YieldInv, YieldTypeOK
<1>3. now \in Nat /\ plan[p].total_amount \in U64
  BY <1>1, StepBasics DEF Plan
<1>4. 0 \in U64
  BY InheritanceAssumption DEF U64
<1>5. MAX_YIELD_BOOST_BPS \in Nat /\ MAX_PERFORMANCE_FEE_BPS >= 0
  BY YieldAssumption, InheritanceAssumption
<1>6. new \in Position
      /\ new.total_harvested = IF old = NoPosition THEN 0 ELSE old.total_harvested
  <2>1. CASE old = NoPosition
    BY <1>3, <1>4, <1>5, <2>1 DEF registered, Position, PositionOf
  <2>2. CASE old # NoPosition
    <3>1. old \in Position
      BY <1>2, <2>2, StoredPosition DEF YieldInv
    <3>2. QED
      BY <1>3, <2>2, <3>1 DEF registered, Position, PositionOf
  <2>3. QED
    BY <2>1, <2>2
<1>7. /\ q \in PlanYieldState
      /\ q.pending_credit + q.total_fees_paid = Noted(p)
      /\ q.config.performance_fee_bp <= MAX_PERFORMANCE_FEE_BPS
  <2>1. CASE yield_state[p] = NoYield
    <3>1. default_config \in YieldConfig /\ default_config.performance_fee_bp = 0
      BY DEF default_config, YieldConfig
    <3>2. QED
      BY <1>3, <1>4, <1>5, <2>1, <3>1 DEF Enlisted, PlanYieldState, Noted
  <2>2. CASE yield_state[p] # NoYield
    <3>1. yield_state[p] \in PlanYieldState
          /\ yield_state[p].config.performance_fee_bp <= MAX_PERFORMANCE_FEE_BPS
      BY <2>2, StoredYield DEF YieldInv, YieldRecords
    <3>2. QED
      BY <1>3, <2>2, <3>1 DEF Enlisted, PlanYieldState, Noted
  <2>3. QED
    BY <2>1, <2>2
<1> HIDE DEF new, q
<1>8. /\ pool_position'[l][p] = new /\ pool_position'[l][p] # NoPosition
      /\ \A k \in Pools \ {l} : pool_position'[k][p] = pool_position[k][p]
      /\ \A k \in Pools : \A r \in Plans \ {p} :
            pool_position'[k][r] = pool_position[k][r]
      /\ pool_position' \in [Pools -> [Plans -> Position \cup {NoPosition}]]
  BY <1>1, <1>2, <1>6, PositionStep DEF YieldInv
<1>9. PICK k0 : k0 = l
  OBVIOUS
<1>10. ASSUME NEW r \in Plans, NEW k \in Pools
       PROVE  /\ pool_position[k][r] # NoPosition => pool_position'[k][r] # NoPosition
              /\ Harvested(k, r)' = Harvested(k, r)
  <2>1. CASE k = k0 /\ r = p
    BY <1>6, <1>8, <1>9, <2>1 DEF Harvested
  <2>2. CASE k # k0 \/ r # p
    BY <1>8, <1>9, <2>2 DEF Harvested
  <2>3. QED
    BY <2>1, <2>2
<1>11. QED
  BY <1>1, <1>7, <1>8, <1>10, RecordDone

(* The admin of a lending contract rewrites a position without its tally. *)
LEMMA LenderRewritesDone ==
    ASSUME Inv, YieldInv, NEW l \in Pools, NEW p \in Plans, NEW new \in Position,
           new.total_harvested = IF pool_position[l][p] = NoPosition THEN 0
                                 ELSE pool_position[l][p].total_harvested,
           LenderRewrites(l, p, new)
    PROVE  YieldDone
<1>1. /\ pool_position' = [pool_position EXCEPT ![l][p] = new]
      /\ UNCHANGED <<lending_contract, relayers, yield_state, vars>>
  BY DEF LenderRewrites, contractYieldVars, YieldOnly
<1>2. /\ pool_position'[l][p] = new /\ pool_position'[l][p] # NoPosition
      /\ \A k \in Pools \ {l} : pool_position'[k][p] = pool_position[k][p]
      /\ \A k \in Pools : \A r \in Plans \ {p} :
            pool_position'[k][r] = pool_position[k][r]
      /\ pool_position' \in [Pools -> [Plans -> Position \cup {NoPosition}]]
  BY <1>1, PositionStep DEF YieldInv
<1>3. ASSUME NEW r \in Plans, NEW k \in Pools
      PROVE  /\ pool_position[k][r] # NoPosition => pool_position'[k][r] # NoPosition
             /\ Harvested(k, r)' = Harvested(k, r)
  <2>1. CASE k = l /\ r = p
    BY <1>2, <2>1 DEF Harvested
  <2>2. CASE k # l \/ r # p
    BY <1>2, <2>2 DEF Harvested
  <2>3. QED
    BY <2>1, <2>2
<1>4. YieldTypeOK'
  BY <1>1, <1>2 DEF YieldInv, YieldTypeOK, Position
<1>5. YieldRecords'
  <2>1. UNCHANGED plan
    BY <1>1 DEF vars, planVars
  <2>2. QED
    BY <1>1, <2>1 DEF YieldInv, YieldRecords, Exists
<1>6. \A r \in Plans : Noted(r)' = Noted(r)
  BY <1>1 DEF Noted
<1>7. QED
  BY <1>1, <1>3, <1>4, <1>5, <1>6, AsideDone

LEMMA LenderDropsDone ==
    ASSUME Inv, YieldInv, NEW l \in Pools, NEW p \in Plans, LenderDrops(l, p)
    PROVE  YieldDone
<1> DEFINE old == pool_position[l][p]
           new == unregistered(old)
<1>1. old # NoPosition /\ LenderRewrites(l, p, new)
  BY DEF LenderDrops
<1>2. old \in Position
  BY <1>1, StoredPosition DEF YieldInv
<1>3. 0 \in U64
  BY InheritanceAssumption DEF U64
<1>4. new \in Position /\ new.total_harvested = old.total_harvested
  BY <1>2, <1>3 DEF unregistered, Position, PositionOf
<1> HIDE DEF new
<1>5. QED
  BY <1>1, <1>4, LenderRewritesDone

LEMMA LenderBoostsDone ==
    ASSUME Inv, YieldInv, NEW l \in Pools, NEW p \in Plans, NEW boost \in LenderBoostBps,
           LenderBoosts(l, p, boost)
    PROVE  YieldDone
<1> DEFINE old == pool_position[l][p]
           new == [old EXCEPT !.boost_bps = boost]
<1>1. /\ old # NoPosition /\ LenderRewrites(l, p, new)
      /\ boost <= MAX_YIELD_BOOST_BPS
  BY DEF LenderBoosts
<1>2. old \in Position
  BY <1>1, StoredPosition DEF YieldInv
<1>3. boost \in 0..MAX_YIELD_BOOST_BPS
  BY <1>1, YieldAssumption
<1>4. new \in Position /\ new.total_harvested = old.total_harvested
  BY <1>2, <1>3 DEF Position, PositionOf
<1> HIDE DEF new
<1>5. QED
  BY <1>1, <1>4, LenderRewritesDone

LEMMA LenderRegistersDone ==
    ASSUME Inv, YieldInv, NEW l \in Pools, NEW p \in Plans, NEW asset \in YieldAssets,
           NEW x \in LenderPrincipals, LenderRegisters(l, p, asset, x)
    PROVE  YieldDone
<1> DEFINE old == pool_position[l][p]
           new == registered(old, asset, x, now)
<1>1. LenderRewrites(l, p, new)
  BY DEF LenderRegisters
<1>2. now \in Nat /\ x \in U64 /\ 0 \in U64 /\ MAX_YIELD_BOOST_BPS \in Nat
  BY StepBasics, YieldAssumption, InheritanceAssumption DEF U64
<1>3. new \in Position
      /\ new.total_harvested = IF old = NoPosition THEN 0 ELSE old.total_harvested
  <2>1. CASE old = NoPosition
    BY <1>2, <2>1 DEF registered, Position, PositionOf
  <2>2. CASE old # NoPosition
    <3>1. old \in Position
      BY <2>2, StoredPosition DEF YieldInv
    <3>2. QED
      BY <1>2, <2>2, <3>1 DEF registered, Position, PositionOf
  <2>3. QED
    BY <2>1, <2>2
<1> HIDE DEF new
<1>4. QED
  BY <1>1, <1>3, LenderRewritesDone

-----------------------------------------------------------------------------
(* Yield: payments and credits *)

\* A pool's payment that no credit follows: the batch entry that does not fit
\* and the lending contract's own admin.
LEMMA UncreditedDone ==
    ASSUME Inv, YieldInv, NEW l \in Pools, NEW p \in Plans, NEW gross \in Nat,
           pool_position[l][p] # NoPosition, PoolPays(l, p, gross), PaymentLost(p),
           UNCHANGED <<contractYieldVars, vars>>
    PROVE  YieldDone
<1>1. UNCHANGED <<lending_contract, relayers, yield_state, plan, vault, now, triggered>>
  BY DEF contractYieldVars, vars, planVars, triggerVars
<1>2. now \in Nat
  BY StepBasics
<1>3. /\ pool_position' \in [Pools -> [Plans -> Position \cup {NoPosition}]]
      /\ \A k \in Pools : \A r \in Plans \ {p} :
            pool_position'[k][r] = pool_position[k][r]
  BY <1>2, PayFacts DEF YieldInv
<1>4. YieldTypeOK'
  BY <1>1, <1>3 DEF YieldInv, YieldTypeOK, Position
<1>5. Inv' /\ YieldRecords' /\ \A r \in Plans : Exists(r)' <=> Exists(r)
  BY <1>1, StutterKeepsInv DEF YieldInv, YieldRecords, Exists
<1>6. /\ PaidByPools(p) \in Nat /\ PaidByPools(p)' \in Nat
      /\ PaidByPools(p)' >= PaidByPools(p)
      /\ PoolTallyFull(p) => PoolTallyFull(p)'
  BY <1>2, <1>4, PaidMore DEF YieldInv
<1>7. Exists(p) => Credited(p) \in Int /\ Credited(p)' = Credited(p)
  <2>1. Credited(p)' = Credited(p)
    BY <1>1 DEF Credited
  <2>2. Exists(p) => Credited(p) \in Int
    BY CreditFacts DEF YieldInv
  <2>3. QED
    BY <2>1, <2>2
<1>8. Settles(p)
  BY <1>6, <1>7 DEF Settles
<1>9. \A r \in Plans : Settles(r)
  BY <1>1, <1>3, <1>4, <1>5, <1>8, OthersSettle DEF YieldInv
<1>10. QED
  BY <1>1, <1>4, <1>5, <1>9 DEF YieldDone

LEMMA LenderClaimsDone ==
    ASSUME Inv, YieldInv, NEW l \in Pools, NEW p \in Plans, NEW gross \in Payable(l, p),
           LenderClaims(l, p, gross)
    PROVE  YieldDone
<1>1. gross \in Nat /\ pool_position[l][p] # NoPosition
  BY PayableFacts DEF YieldInv
<1>2. PoolPays(l, p, gross) /\ UNCHANGED <<contractYieldVars, vars>>
  BY DEF LenderClaims, YieldOnly
<1>3. PaymentLost(p)
  BY DEF PaymentLost
<1>4. QED
  BY <1>1, <1>2, <1>3, UncreditedDone

\* What a harvest credits: the net to the books or to what waits, and as much
\* of the fee as the tally of fees still holds.
LEMMA HarvestCredits ==
    ASSUME Inv, YieldInv, NEW p \in Plans, Exists(p), yield_state[p] # NoYield,
           NEW gross \in Nat, CreditHarvest(p, gross)
    PROVE  /\ Inv' /\ \A r \in Plans : Exists(r)' <=> Exists(r)
           /\ \A r \in Plans \ {p} : plan'[r] = plan[r] /\ yield_state'[r] = yield_state[r]
           /\ UNCHANGED <<vault, now, triggered>>
           /\ yield_state' \in [Plans -> PlanYieldState \cup {NoYield}]
           /\ yield_state'[p] # NoYield
           /\ yield_state'[p].config = yield_state[p].config
           /\ plan'[p].total_amount + Noted(p)' <= plan[p].total_amount + Noted(p) + gross
           /\ ~FeeTallyFull(p)' =>
                 plan'[p].total_amount + Noted(p)' = plan[p].total_amount + Noted(p) + gross
<1> DEFINE state == yield_state[p]
           net == split_performance_fee(gross, state.config.performance_fee_bp).net
           fee == split_performance_fee(gross, state.config.performance_fee_bp).fee
           fees == capped(state.total_fees_paid + fee, U64_MAX)
           noted == [state EXCEPT !.last_harvest_at = now, !.total_fees_paid = fees]
           waiting == [noted EXCEPT !.pending_credit = state.pending_credit + net]
<1>1. /\ state \in PlanYieldState
      /\ state.pending_credit \in U64 /\ state.total_fees_paid \in U64
      /\ state.config.performance_fee_bp \in Nat
      /\ state.config.performance_fee_bp <= MAX_PERFORMANCE_FEE_BPS
      /\ Noted(p) = state.pending_credit + state.total_fees_paid
  BY StoredYield DEF YieldInv, YieldRecords, Noted
<1>2. net \in Nat /\ fee \in Nat /\ net + fee = gross
  BY <1>1, SplitFacts
<1>3. noted \in PlanYieldState /\ noted.pending_credit = state.pending_credit
      /\ noted.total_fees_paid = fees /\ noted.config = state.config
      /\ fees \in U64
  <2>1. U64_MAX \in Nat /\ now \in Nat
    BY StepBasics, InheritanceAssumption
  <2>2. state.total_fees_paid \in Nat
    BY <1>1 DEF U64
  <2> HIDE DEF fee
  <2>3. fees \in U64
    BY <1>2, <2>1, <2>2 DEF capped, U64
  <2> HIDE DEF fees
  <2>4. QED
    BY <1>1, <2>1, <2>3 DEF PlanYieldState
<1>4. \/ /\ Compound(p, net)
         /\ yield_state' = [yield_state EXCEPT ![p] = noted]
      \/ /\ state.pending_credit + net <= U64_MAX
         /\ yield_state' = [yield_state EXCEPT ![p] = waiting]
         /\ UNCHANGED vars
  BY <1>3 DEF CreditHarvest, Parked, YieldOnly
<1> HIDE DEF noted, net, fee
<1>5. fees = capped(state.total_fees_paid + fee, U64_MAX)
  OBVIOUS
<1> HIDE DEF fees
<1>6. /\ state.pending_credit \in Nat /\ state.total_fees_paid \in Nat
      /\ U64_MAX \in Nat /\ fees \in Nat
      /\ fees <= state.total_fees_paid + fee
      /\ fees # U64_MAX => fees = state.total_fees_paid + fee
  <2>1. U64_MAX \in Nat
    BY InheritanceAssumption
  <2>2. state.pending_credit \in Nat /\ state.total_fees_paid \in Nat /\ fees \in Nat
    BY <1>1, <1>3, <2>1 DEF U64
  <2>3. QED
    BY <1>2, <1>5, <2>1, <2>2 DEF capped
<1>7. CASE /\ Compound(p, net)
           /\ yield_state' = [yield_state EXCEPT ![p] = noted]
  <2>1. /\ Inv' /\ \A r \in Plans : Exists(r)' <=> Exists(r)
        /\ plan'[p].total_amount = plan[p].total_amount + net
        /\ \A r \in Plans \ {p} : plan'[r] = plan[r]
        /\ UNCHANGED <<vault, now, triggered>>
    BY <1>2, <1>7, CompoundKeepsInv
  <2>2. /\ yield_state'[p] = noted /\ noted # NoYield
        /\ \A r \in Plans \ {p} : yield_state'[r] = yield_state[r]
        /\ yield_state' \in [Plans -> PlanYieldState \cup {NoYield}]
    BY <1>3, <1>7, StateStep, YieldMarkAssumption DEF YieldInv
  <2>3. Noted(p)' = state.pending_credit + fees
    BY <1>3, <2>2 DEF Noted
  <2>4. ~FeeTallyFull(p)' => fees # U64_MAX
    BY <1>3, <2>2 DEF FeeTallyFull
  <2>5. plan[p].total_amount \in Nat
    BY CreditFacts DEF YieldInv
  <2>6. /\ plan'[p].total_amount + Noted(p)' <= plan[p].total_amount + Noted(p) + gross
        /\ ~FeeTallyFull(p)' =>
              plan'[p].total_amount + Noted(p)' = plan[p].total_amount + Noted(p) + gross
    <3>1. plan'[p].total_amount + Noted(p)'
             = plan[p].total_amount + state.pending_credit + net + fees
      BY <1>2, <1>6, <2>1, <2>3, <2>5
    <3>2. plan[p].total_amount + Noted(p) + gross
             = plan[p].total_amount + state.pending_credit + net + (state.total_fees_paid + fee)
      BY <1>1, <1>2, <1>6, <2>5
    <3>3. QED
      BY <1>2, <1>6, <2>4, <2>5, <3>1, <3>2
  <2>7. QED
    BY <1>3, <2>1, <2>2, <2>6
<1>8. CASE /\ state.pending_credit + net <= U64_MAX
           /\ yield_state' = [yield_state EXCEPT ![p] = waiting]
           /\ UNCHANGED vars
  <2>1. UNCHANGED <<plan, vault, now, triggered>> /\ Inv'
    BY <1>8, StutterKeepsInv DEF vars, planVars, triggerVars
  <2>2. /\ waiting \in PlanYieldState
        /\ waiting.pending_credit = state.pending_credit + net
        /\ waiting.total_fees_paid = fees /\ waiting.config = state.config
    <3>1. state.pending_credit + net \in U64
      BY <1>2, <1>6, <1>8 DEF U64
    <3>2. QED
      BY <1>3, <3>1 DEF PlanYieldState
  <2> HIDE DEF waiting
  <2>3. /\ yield_state'[p] = waiting /\ waiting # NoYield
        /\ \A r \in Plans \ {p} : yield_state'[r] = yield_state[r]
        /\ yield_state' \in [Plans -> PlanYieldState \cup {NoYield}]
    BY <1>8, <2>2, StateStep, YieldMarkAssumption DEF YieldInv
  <2>4. Noted(p)' = state.pending_credit + net + fees
    BY <2>2, <2>3 DEF Noted
  <2>5. ~FeeTallyFull(p)' => fees # U64_MAX
    BY <2>2, <2>3 DEF FeeTallyFull
  <2>6. plan[p].total_amount \in Nat
    BY CreditFacts DEF YieldInv
  <2>7. /\ plan'[p].total_amount + Noted(p)' <= plan[p].total_amount + Noted(p) + gross
        /\ ~FeeTallyFull(p)' =>
              plan'[p].total_amount + Noted(p)' = plan[p].total_amount + Noted(p) + gross
    BY <1>1, <1>2, <1>6, <2>1, <2>4, <2>5, <2>6
  <2>8. QED
    BY <2>1, <2>2, <2>3, <2>7 DEF Exists
<1>9. QED
  BY <1>4, <1>7, <1>8

LEMMA HarvestDone ==
    ASSUME Inv, YieldInv, NEW u \in Users, NEW p \in Plans,
           NEW gross \in Payable(lending_contract, p),
           harvest_yield(u, p, gross) \/ harvest_yield_batch(u, p, gross)
    PROVE  YieldDone
<1>1. PICK l \in Pools \cup {NoAddress} : l = lending_contract
  BY DEF YieldInv, YieldTypeOK
<1>2. l \in Pools /\ gross \in Nat /\ pool_position[l][p] # NoPosition
  BY <1>1, PayableFacts DEF YieldInv
<1>3. /\ Exists(p) /\ yield_state[p] # NoYield /\ PoolPays(l, p, gross)
      /\ UNCHANGED <<lending_contract, relayers>>
  BY <1>1 DEF harvest_yield, harvest_yield_batch, ClaimFromPool
<1>4. now \in Nat
  BY StepBasics
<1>5. CASE CreditHarvest(p, gross)
  <2>1. /\ Inv' /\ \A r \in Plans : Exists(r)' <=> Exists(r)
        /\ \A r \in Plans \ {p} : plan'[r] = plan[r] /\ yield_state'[r] = yield_state[r]
        /\ UNCHANGED <<vault, now, triggered>>
        /\ yield_state' \in [Plans -> PlanYieldState \cup {NoYield}]
        /\ yield_state'[p] # NoYield
        /\ yield_state'[p].config = yield_state[p].config
        /\ plan'[p].total_amount + Noted(p)' <= plan[p].total_amount + Noted(p) + gross
        /\ ~FeeTallyFull(p)' =>
              plan'[p].total_amount + Noted(p)' = plan[p].total_amount + Noted(p) + gross
    BY <1>2, <1>3, <1>5, HarvestCredits
  <2>2. /\ pool_position' \in [Pools -> [Plans -> Position \cup {NoPosition}]]
        /\ \A k \in Pools : \A r \in Plans \ {p} :
              pool_position'[k][r] = pool_position[k][r]
    BY <1>2, <1>3, <1>4, PayFacts DEF YieldInv
  <2>3. YieldTypeOK'
    BY <1>3, <2>1, <2>2 DEF YieldInv, YieldTypeOK, Position
  <2>4. YieldRecords'
    BY <1>3, <2>1 DEF YieldInv, YieldRecords
  <2>5. /\ PaidByPools(p) \in Nat /\ PaidByPools(p)' \in Nat
        /\ ~PoolTallyFull(p)' => PaidByPools(p)' = PaidByPools(p) + gross
        /\ PoolTallyFull(p) => PoolTallyFull(p)'
    BY <1>2, <1>3, <1>4, <2>3, PaidMore DEF YieldInv
  <2>6. /\ Credited(p) = plan[p].total_amount - vault[p] + Noted(p)
        /\ plan[p].total_amount \in Nat /\ vault[p] \in Nat /\ Noted(p) \in Nat
    BY <1>3, CreditFacts DEF YieldInv
  <2>7. /\ Credited(p)' = plan'[p].total_amount - vault'[p] + Noted(p)'
        /\ plan'[p].total_amount \in Nat /\ Noted(p)' \in Nat /\ vault'[p] = vault[p]
    BY <1>3, <2>1, <2>3, CreditNext, NextFacts
  <2>8. /\ Credited(p)' - Credited(p) <= gross
        /\ ~FeeTallyFull(p)' => Credited(p)' - Credited(p) = gross
    BY <1>2, <2>1, <2>6, <2>7
  <2>9. Settles(p)
    <3>1. ~PoolTallyFull(p)' => PaidByPools(p)' - PaidByPools(p) = gross
      BY <1>2, <2>5
    <3>2. QED
      BY <2>5, <2>8, <3>1 DEF Settles
  <2>10. \A r \in Plans : Settles(r)
    BY <2>1, <2>2, <2>3, <2>9, OthersSettle DEF YieldInv
  <2>11. QED
    BY <2>1, <2>3, <2>4, <2>10 DEF YieldDone
<1>6. CASE /\ harvest_yield_batch(u, p, gross)
           /\ ~CreditFits(p, gross) /\ UNCHANGED yield_state /\ YieldOnly
  <2>1. PaymentLost(p)
    BY <1>6 DEF PaymentLost
  <2>2. UNCHANGED <<contractYieldVars, vars>>
    BY <1>3, <1>6 DEF contractYieldVars, YieldOnly
  <2>3. QED
    BY <1>2, <1>3, <2>1, <2>2, UncreditedDone
<1>7. QED
  BY <1>5, <1>6 DEF harvest_yield, harvest_yield_batch

\* What waits becomes part of the books, and the record starts from zero or
\* is dropped with its tally of fees.
LEMMA CreditMoves ==
    ASSUME Inv, YieldInv, NEW p \in Plans, Exists(p), yield_state[p] # NoYield,
           Compound(p, yield_state[p].pending_credit),
           \/ yield_state' = [yield_state EXCEPT ![p] = NoYield]
           \/ yield_state' = [yield_state EXCEPT ![p].pending_credit = 0],
           UNCHANGED <<lending_contract, relayers>>,
           pool_position' \in [Pools -> [Plans -> Position \cup {NoPosition}]],
           \A r \in Plans : \A l \in Pools :
              /\ pool_position[l][r] # NoPosition => pool_position'[l][r] # NoPosition
              /\ Harvested(l, r)' = Harvested(l, r)
    PROVE  YieldDone
<1> DEFINE pending == yield_state[p].pending_credit
           fees == yield_state[p].total_fees_paid
<1>1. /\ yield_state[p] \in PlanYieldState
      /\ pending \in Nat /\ fees \in Nat /\ Noted(p) = pending + fees
      /\ yield_state[p].config.performance_fee_bp <= MAX_PERFORMANCE_FEE_BPS
  <2>1. \A x \in U64 : x \in Nat
    BY DEF U64
  <2>2. QED
    BY <2>1, StoredYield DEF YieldInv, YieldRecords, Noted
<1>2. /\ Inv'
      /\ plan'[p].total_amount = plan[p].total_amount + pending
      /\ \A r \in Plans \ {p} : plan'[r] = plan[r]
      /\ \A r \in Plans : Exists(r)' <=> Exists(r)
      /\ UNCHANGED <<vault, now, triggered>>
  BY <1>1, CompoundKeepsInv
<1>3. /\ \A r \in Plans \ {p} : yield_state'[r] = yield_state[r]
      /\ yield_state' \in [Plans -> PlanYieldState \cup {NoYield}]
      /\ \/ yield_state'[p] = NoYield
         \/ /\ yield_state'[p] # NoYield
            /\ yield_state'[p].pending_credit = 0
            /\ yield_state'[p].total_fees_paid = fees
            /\ yield_state'[p].config = yield_state[p].config
  <2>1. CASE yield_state' = [yield_state EXCEPT ![p] = NoYield]
    BY <2>1, StateStep DEF YieldInv
  <2>2. CASE yield_state' = [yield_state EXCEPT ![p].pending_credit = 0]
    <3> DEFINE q == [yield_state[p] EXCEPT !.pending_credit = 0]
    <3>1. yield_state' = [yield_state EXCEPT ![p] = q]
      BY <2>2
    <3>2. 0 \in U64
      BY InheritanceAssumption DEF U64
    <3>3. /\ q \in PlanYieldState /\ q.pending_credit = 0
          /\ q.total_fees_paid = fees /\ q.config = yield_state[p].config
      BY <1>1, <3>2 DEF PlanYieldState
    <3> HIDE DEF q
    <3>4. QED
      BY <3>1, <3>3, StateStep, YieldMarkAssumption DEF YieldInv
  <2>3. QED
    BY <2>1, <2>2
<1> HIDE DEF pending, fees
<1>4. YieldTypeOK'
  BY <1>3 DEF YieldInv, YieldTypeOK, Position
<1>5. YieldRecords'
  BY <1>1, <1>2, <1>3 DEF YieldInv, YieldRecords
<1>6. Noted(p)' = 0 \/ Noted(p)' = fees
  BY <1>1, <1>3 DEF Noted, fees
<1>7. yield_state'[p] # NoYield => Noted(p)' = fees
  BY <1>1, <1>3 DEF Noted
<1>8. /\ Credited(p) = plan[p].total_amount - vault[p] + Noted(p)
      /\ plan[p].total_amount \in Nat /\ vault[p] \in Nat /\ Noted(p) \in Nat
  BY CreditFacts DEF YieldInv
<1>9. Credited(p)' = plan'[p].total_amount - vault'[p] + Noted(p)' /\ vault'[p] = vault[p]
  BY <1>2, <1>4, CreditNext
<1>10. /\ Credited(p)' - Credited(p) <= 0
       /\ yield_state'[p] # NoYield => Credited(p)' - Credited(p) = 0
  BY <1>1, <1>2, <1>6, <1>7, <1>8, <1>9
<1>11. /\ PaidByPools(p)' = PaidByPools(p) /\ PaidByPools(p) \in Nat
       /\ PoolTallyFull(p) => PoolTallyFull(p)'
  BY PoolsAside DEF YieldInv
<1>12. Settles(p)
  BY <1>10, <1>11 DEF Settles
<1>13. ASSUME NEW r \in Plans, r # p PROVE Settles(r)
  <2>1. /\ Exists(r) => Exists(r)'
        /\ plan'[r] = plan[r] /\ vault'[r] = vault[r] /\ Noted(r)' = Noted(r)
    BY <1>2, <1>3, <1>13 DEF Noted
  <2>2. QED
    BY <1>2, <1>4, <2>1, AsideSettles DEF YieldInv
<1>14. QED
  BY <1>2, <1>4, <1>5, <1>12, <1>13 DEF YieldDone

LEMMA UnregisterDone ==
    ASSUME Inv, YieldInv, NEW u \in Users, NEW p \in Plans, unregister_yield_position(u, p)
    PROVE  YieldDone
<1> DEFINE l == lending_contract
           old == pool_position[l][p]
           new == unregistered(old)
<1>1. /\ Exists(p) /\ yield_state[p] # NoYield /\ l # NoAddress /\ old # NoPosition
      /\ Compound(p, yield_state[p].pending_credit)
      /\ pool_position' = [pool_position EXCEPT ![l][p] = new]
      /\ yield_state' = [yield_state EXCEPT ![p] = NoYield]
      /\ UNCHANGED <<lending_contract, relayers>>
  BY DEF unregister_yield_position
<1>2. l \in Pools
  BY <1>1 DEF YieldInv, YieldTypeOK
<1>3. old \in Position
  BY <1>1, <1>2, StoredPosition DEF YieldInv
<1>4. 0 \in U64
  BY InheritanceAssumption DEF U64
<1>5. new \in Position /\ new.total_harvested = old.total_harvested
  BY <1>3, <1>4 DEF unregistered, Position, PositionOf
<1> HIDE DEF new
<1>6. /\ pool_position'[l][p] = new /\ pool_position'[l][p] # NoPosition
      /\ \A k \in Pools \ {l} : pool_position'[k][p] = pool_position[k][p]
      /\ \A k \in Pools : \A r \in Plans \ {p} :
            pool_position'[k][r] = pool_position[k][r]
      /\ pool_position' \in [Pools -> [Plans -> Position \cup {NoPosition}]]
  BY <1>1, <1>2, <1>5, PositionStep DEF YieldInv
<1>7. PICK k0 : k0 = l
  OBVIOUS
<1>8. ASSUME NEW r \in Plans, NEW k \in Pools
      PROVE  /\ pool_position[k][r] # NoPosition => pool_position'[k][r] # NoPosition
             /\ Harvested(k, r)' = Harvested(k, r)
  <2>1. CASE k = k0 /\ r = p
    BY <1>1, <1>5, <1>6, <1>7, <2>1 DEF Harvested
  <2>2. CASE k # k0 \/ r # p
    BY <1>6, <1>7, <2>2 DEF Harvested
  <2>3. QED
    BY <2>1, <2>2
<1>9. QED
  BY <1>1, <1>6, <1>8, CreditMoves

LEMMA CompoundDone ==
    ASSUME Inv, YieldInv, NEW u \in Users, NEW p \in Plans, compound_pending_yield(u, p)
    PROVE  YieldDone
<1>1. /\ Exists(p) /\ yield_state[p] # NoYield
      /\ Compound(p, yield_state[p].pending_credit)
      /\ yield_state' = [yield_state EXCEPT ![p].pending_credit = 0]
      /\ UNCHANGED <<lending_contract, relayers, pool_position>>
  BY DEF compound_pending_yield
<1>2. /\ pool_position' \in [Pools -> [Plans -> Position \cup {NoPosition}]]
      /\ \A r \in Plans : \A l \in Pools :
            /\ pool_position[l][r] # NoPosition => pool_position'[l][r] # NoPosition
            /\ Harvested(l, r)' = Harvested(l, r)
  BY <1>1 DEF YieldInv, YieldTypeOK, Position, Harvested
<1>3. QED
  BY <1>1, <1>2, CreditMoves

LEMMA YieldNextDone ==
    ASSUME Inv, YieldInv, YieldNext
    PROVE  YieldDone
<1>1. ASSUME NEW u \in Users, NEW p \in Plans, sync_yield_principal(u, p)
      PROVE  YieldDone
  <2>1. yield_state[p].asset \in YieldAssets
    BY <1>1, StoredYield DEF sync_yield_principal, YieldInv, PlanYieldState
  <2>2. QED
    BY <1>1, <2>1, RegisterDone DEF sync_yield_principal
<1>2. CASE \/ \E l \in Pools : set_lending_contract(l)
           \/ \E r \in Relayers : add_yield_relayer(r) \/ remove_yield_relayer(r)
  BY <1>2, SettingsDone
<1>3. ASSUME NEW p \in Plans, NEW u \in Users,
             \/ \E c \in YieldConfigs : set_yield_config(u, p, c)
             \/ \E on \in BOOLEAN : set_plan_yield_paused(u, p, on)
             \/ \E a \in YieldAssets : register_yield_position(u, p, a)
             \/ sync_yield_principal(u, p)
             \/ unregister_yield_position(u, p)
             \/ \E gross \in Payable(lending_contract, p) :
                   harvest_yield(u, p, gross) \/ harvest_yield_batch(u, p, gross)
             \/ compound_pending_yield(u, p)
      PROVE  YieldDone
  BY <1>1, <1>3, ReconfigureDone, RegisterDone, UnregisterDone, HarvestDone, CompoundDone
<1>4. ASSUME NEW p \in Plans, NEW l \in Pools,
             \/ \E gross \in Payable(l, p) : LenderClaims(l, p, gross)
             \/ \E a \in YieldAssets, x \in LenderPrincipals : LenderRegisters(l, p, a, x)
             \/ LenderDrops(l, p)
             \/ \E b \in LenderBoostBps : LenderBoosts(l, p, b)
      PROVE  YieldDone
  BY <1>4, LenderClaimsDone, LenderRegistersDone, LenderDropsDone, LenderBoostsDone
<1>5. QED
  BY <1>2, <1>3, <1>4 DEF YieldNext

-----------------------------------------------------------------------------
(* Yield: steps of the rest of the contract *)

\* Deposits and withdrawals move books and vault alike, a batch takes from the
\* books only, and a new plan starts with as much in the one as in the other.
LEMMA ContractSettles ==
    ASSUME Inv, Inv', YieldInv, [Next]_vars, UNCHANGED yieldVars, NEW p \in Plans
    PROVE  Settles(p) /\ (Created(p) => Credited(p)' = 0)
<1>1. UNCHANGED <<lending_contract, relayers, yield_state, pool_position>>
  BY DEF yieldVars, contractYieldVars
<1>2. YieldTypeOK' /\ Noted(p)' = Noted(p)
  BY <1>1 DEF YieldInv, YieldTypeOK, Noted
<1>3. \A l \in Pools : /\ pool_position[l][p] # NoPosition => pool_position'[l][p] # NoPosition
                       /\ Harvested(l, p)' = Harvested(l, p)
  BY <1>1 DEF Harvested
<1>4. /\ PaidByPools(p)' = PaidByPools(p) /\ PaidByPools(p) \in Nat
      /\ PoolTallyFull(p) => PoolTallyFull(p)'
  BY <1>3, PoolsAside DEF YieldInv
<1>5. StepOn(p)
  BY NextStep
<1>6. CASE ~Exists(p)
  <2>1. Settles(p)
    BY <1>4, <1>6 DEF Settles
  <2>2. ASSUME Created(p) PROVE Credited(p)' = 0
    <3>1. Exists(p)' /\ plan'[p].total_amount = vault'[p]
      BY <2>2 DEF Created
    <3>2. Noted(p) = 0
      BY <1>6 DEF YieldInv, YieldRecords, Noted
    <3>3. /\ Credited(p)' = plan'[p].total_amount - vault'[p] + Noted(p)'
          /\ vault'[p] \in Nat
      BY <1>2, <3>1, CreditNext
    <3>4. QED
      BY <1>2, <3>1, <3>2, <3>3
  <2>3. QED
    BY <2>1, <2>2
<1>7. CASE Exists(p)
  <2>1. /\ Credited(p) = plan[p].total_amount - vault[p] + Noted(p)
        /\ plan[p].total_amount \in Nat /\ vault[p] \in Nat /\ Noted(p) \in Nat
    BY <1>7, CreditFacts DEF YieldInv
  <2>2. Exists(p)' /\ ~Created(p)
    BY <1>5, <1>7 DEF StepOn, Untouched, Created, Kept, HandedOver, Funded, Withdrawn,
       Claimed, Stays, Exists
  <2>3. Credited(p)' = plan'[p].total_amount - vault'[p] + Noted(p)'
    BY <1>2, <2>2, CreditNext
  <2>4. CASE plan'[p].total_amount = plan[p].total_amount /\ vault'[p] = vault[p]
    BY <1>2, <1>4, <2>1, <2>2, <2>3, <2>4 DEF Settles
  <2>5. CASE \E x \in Int : /\ plan'[p].total_amount = plan[p].total_amount + x
                            /\ vault'[p] = vault[p] + x
    BY <1>2, <1>4, <2>1, <2>2, <2>3, <2>5 DEF Settles
  <2>6. CASE BatchClaims /\ \E x \in Nat : /\ plan'[p].total_amount = plan[p].total_amount - x
                                           /\ vault'[p] = vault[p]
    BY <1>2, <1>4, <2>1, <2>2, <2>3, <2>6 DEF Settles
  <2>7. CASE Untouched(p) \/ Kept(p) \/ HandedOver(p)
    BY <2>4, <2>7 DEF Untouched, Kept, HandedOver
  <2>8. CASE Funded(p) \/ Withdrawn(p)
    <3>1. \E x \in Int : /\ plan'[p].total_amount = plan[p].total_amount + x
                         /\ vault'[p] = vault[p] + x
      <4>1. CASE Funded(p)
        BY <4>1 DEF Funded
      <4>2. CASE Withdrawn(p)
        <5>1. PICK x \in Nat : /\ plan'[p].total_amount = plan[p].total_amount - x
                               /\ vault'[p] = vault[p] - x
          BY <4>2 DEF Withdrawn
        <5>2. /\ 0 - x \in Int
              /\ plan'[p].total_amount = plan[p].total_amount + (0 - x)
              /\ vault'[p] = vault[p] + (0 - x)
          BY <2>1, <5>1
        <5>3. QED
          BY <5>2
      <4>3. QED
        BY <2>8, <4>1, <4>2
    <3>2. QED
      BY <2>5, <3>1
  <2>9. CASE Claimed(p)
    <3>1. PICK i \in DOMAIN plan[p].beneficiaries :
             LET x == Share(plan[p].total_amount, plan[p].beneficiaries[i].allocation_bp) IN
             /\ plan'[p].total_amount = plan[p].total_amount - x
             /\ vault'[p] = vault[p] - x \/ (vault'[p] = vault[p] /\ BatchClaims)
      BY <2>9 DEF Claimed
    <3> DEFINE x == Share(plan[p].total_amount, plan[p].beneficiaries[i].allocation_bp)
    <3>2. x \in Nat
      <4>1. plan[p].beneficiaries[i].allocation_bp \in Nat
        BY <1>7, PlanFacts DEF IsRoster
      <4>2. QED
        BY <2>1, <4>1, ShareFacts
    <3>3. plan'[p].total_amount = plan[p].total_amount - x
      BY <3>1
    <3>4. vault'[p] = vault[p] - x \/ (vault'[p] = vault[p] /\ BatchClaims)
      BY <3>1
    <3> HIDE DEF x
    <3>5. CASE vault'[p] = vault[p] - x
      <4>1. /\ 0 - x \in Int
            /\ plan'[p].total_amount = plan[p].total_amount + (0 - x)
            /\ vault'[p] = vault[p] + (0 - x)
        BY <2>1, <3>2, <3>3, <3>5
      <4>2. QED
        BY <2>5, <4>1
    <3>6. CASE vault'[p] = vault[p] /\ BatchClaims
      BY <2>6, <3>2, <3>3, <3>6
    <3>7. QED
      BY <3>4, <3>5, <3>6
  <2>10. QED
    BY <1>5, <2>2, <2>7, <2>8, <2>9 DEF StepOn
<1>8. QED
  BY <1>6, <1>7

LEMMA ContractKeepsYield ==
    ASSUME Inv, Inv', YieldInv, [Next]_vars, UNCHANGED yieldVars
    PROVE  YieldInv'
<1>1. UNCHANGED <<lending_contract, relayers, yield_state, pool_position>>
  BY DEF yieldVars, contractYieldVars
<1>2. YieldTypeOK'
  BY <1>1 DEF YieldInv, YieldTypeOK
<1>3. ASSUME NEW p \in Plans
      PROVE  Exists(p) => Exists(p)'
  <2>1. StepOn(p)
    BY NextStep
  <2>2. QED
    BY <2>1 DEF StepOn, Untouched, Created, Kept, HandedOver, Funded, Withdrawn,
       Claimed, Stays, Exists
<1>4. YieldRecords'
  BY <1>1, <1>3 DEF YieldInv, YieldRecords
<1>5. ASSUME NEW p \in Plans, Exists(p)', ~PoolTallyFull(p)'
      PROVE  Credited(p)' <= PaidByPools(p)'
  <2>1. Settles(p) /\ (Created(p) => Credited(p)' = 0)
    BY ContractSettles
  <2>2. PaidByPools(p)' \in Nat /\ Credited(p)' \in Int
    BY <1>2, <1>5, NextFacts, CreditNext
  <2>3. CASE Exists(p)
    <3>1. Credited(p) <= PaidByPools(p)
      BY <1>5, <2>1, <2>3 DEF YieldInv, CreditsAreBacked, Settles
    <3>2. Credited(p)' - Credited(p) <= PaidByPools(p)' - PaidByPools(p)
      BY <1>5, <2>1, <2>3 DEF Settles
    <3>3. Credited(p) \in Int /\ PaidByPools(p) \in Int
      BY <2>3, CreditFacts, PaidFacts DEF YieldInv
    <3>4. QED
      BY <2>2, <3>1, <3>2, <3>3
  <2>4. CASE ~Exists(p)
    <3>1. StepOn(p)
      BY NextStep
    <3>2. Created(p)
      BY <1>5, <2>4, <3>1 DEF StepOn, Untouched, Kept, HandedOver, Funded, Withdrawn,
         Claimed, Stays, Exists
    <3>3. QED
      BY <2>1, <2>2, <3>2
  <2>5. QED
    BY <2>3, <2>4
<1>6. QED
  BY <1>2, <1>4, <1>5 DEF YieldInv, CreditsAreBacked

LEMMA YieldInitInv ==
    ASSUME Init, YieldInit
    PROVE  YieldInv
<1>1. \A p \in Plans : ~Exists(p)
  BY DEF Init, Exists
<1>2. YieldTypeOK
  <2>1. Cardinality({}) = 0 /\ MAX_YIELD_RELAYERS \in Nat
    BY FS_EmptySet, YieldAssumption
  <2>2. QED
    BY <2>1 DEF YieldInit, YieldTypeOK
<1>3. YieldRecords
  BY DEF YieldInit, YieldRecords
<1>4. QED
  BY <1>1, <1>2, <1>3 DEF YieldInv, CreditsAreBacked

-----------------------------------------------------------------------------
(* The contract with all its desks *)

EstateInv == Inv /\ YieldInv /\ WillInv /\ MessageInv /\ NoticeTypes

LEMMA NoticesAside ==
    ASSUME NoticeTypes, UNCHANGED noticeVars
    PROVE  NoticeTypes'
BY DEF NoticeTypes, noticeVars

LEMMA YieldAside ==
    ASSUME YieldInv, UNCHANGED <<vars, yieldVars>>
    PROVE  YieldInv'
<1>1. UNCHANGED <<lending_contract, relayers, yield_state, pool_position, plan, vault>>
  BY DEF yieldVars, contractYieldVars, vars, planVars
<1>2. YieldTypeOK' /\ YieldRecords'
  BY <1>1 DEF YieldInv, YieldTypeOK, YieldRecords, Exists
<1>3. CreditsAreBacked'
  BY <1>1 DEF YieldInv, CreditsAreBacked, Exists, PoolTallyFull, Credited, PaidByPools
<1>4. QED
  BY <1>2, <1>3 DEF YieldInv

LEMMA TimeTyped ==
    /\ Inv => now \in Nat
    /\ Inv' => now' \in Nat
<1>1. Inv => now \in 1..MaxTime
  BY TypeGroups DEF Inv
<1>2. Inv' => now' \in 1..MaxTime
  BY TypeGroupsNext DEF Inv
<1>3. QED
  BY <1>1, <1>2

\* A step of the contract proper, or none.
LEMMA ContractKeepsEstate ==
    ASSUME EstateInv, [Next]_vars, UNCHANGED estateVars
    PROVE  EstateInv'
<1>1. UNCHANGED <<yieldVars, willVars, messageVars, noticeVars>>
  BY DEF estateVars
<1>2. Inv /\ YieldInv /\ WillInv /\ MessageInv /\ NoticeTypes
  BY DEF EstateInv
<1>3. Inv'
  BY <1>2, NextKeepsInv
<1>4. YieldInv'
  BY <1>1, <1>2, <1>3, ContractKeepsYield
<1>5. ASSUME NEW p \in Plans PROVE now' >= now /\ (p \in triggered => p \in triggered')
  <2>1. StepOn(p)
    BY <1>2, <1>3, NextStep
  <2>2. QED
    BY <2>1, AutoTriggerFacts DEF StepOn, Untouched, Created, Kept, HandedOver,
       Funded, Withdrawn, Claimed
<1>6. MessageInv'
  BY <1>1, <1>2, <1>3, <1>5, TimeTyped, MessagesAsideKeep
<1>7. WillInv' /\ NoticeTypes'
  BY <1>1, <1>2, WillIdle, NoticesAside
<1>8. QED
  BY <1>3, <1>4, <1>6, <1>7 DEF EstateInv

LEMMA YieldKeepsEstate ==
    ASSUME EstateInv, YieldNext, UNCHANGED <<willVars, messageVars, noticeVars>>
    PROVE  EstateInv' /\ \A p \in Plans : Settles(p)
<1>1. Inv /\ YieldInv /\ WillInv /\ MessageInv /\ NoticeTypes
  BY DEF EstateInv
<1>2. YieldDone
  BY <1>1, YieldNextDone
<1>3. Inv' /\ YieldInv' /\ UNCHANGED <<now, triggered>> /\ \A p \in Plans : Settles(p)
  BY <1>1, <1>2, DoneKeepsBacking DEF YieldDone
<1>4. now \in Nat /\ now' >= now /\ now' \in Nat
  BY <1>1, <1>3, TimeTyped
<1>5. MessageInv'
  BY <1>1, <1>3, <1>4, MessagesAsideKeep
<1>6. WillInv' /\ NoticeTypes'
  BY <1>1, WillIdle, NoticesAside
<1>7. QED
  BY <1>3, <1>5, <1>6 DEF EstateInv

\* The desks that leave the plans alone.
LEMMA PapersKeepEstate ==
    ASSUME EstateInv,
           \/ WillNext /\ UNCHANGED <<yieldVars, messageVars, noticeVars>>
           \/ (MessageNext \/ NoticeNext) /\ UNCHANGED <<yieldVars, willVars>>
    PROVE  EstateInv' /\ UNCHANGED <<vars, yieldVars>>
<1>1. Inv /\ YieldInv /\ WillInv /\ MessageInv /\ NoticeTypes
  BY DEF EstateInv
<1>2. CASE WillNext /\ UNCHANGED <<yieldVars, messageVars, noticeVars>>
  <2>1. WillInv' /\ UNCHANGED vars
    BY <1>1, <1>2, WillNextKeeps
  <2>2. Inv' /\ YieldInv' /\ NoticeTypes'
    BY <1>1, <1>2, <2>1, StutterKeepsInv, YieldAside, NoticesAside
  <2>3. now' = now /\ triggered' = triggered
    BY <2>1 DEF vars, triggerVars
  <2>4. now \in Nat /\ now' >= now /\ now' \in Nat
    BY <1>1, <2>3, TimeTyped
  <2>5. MessageInv'
    BY <1>1, <1>2, <2>3, <2>4, MessagesAsideKeep
  <2>6. QED
    BY <1>2, <2>1, <2>2, <2>5 DEF EstateInv
<1>3. CASE MessageNext /\ UNCHANGED <<yieldVars, willVars>>
  <2>1. MessageInv' /\ UNCHANGED <<vars, noticeVars>>
    BY <1>1, <1>3, MessageNextKeeps
  <2>2. Inv' /\ YieldInv' /\ WillInv' /\ NoticeTypes'
    BY <1>1, <1>3, <2>1, StutterKeepsInv, YieldAside, WillIdle, NoticesAside
  <2>3. QED
    BY <1>3, <2>1, <2>2 DEF EstateInv
<1>4. CASE NoticeNext /\ UNCHANGED <<yieldVars, willVars>>
  <2>1. NoticeTypes' /\ UNCHANGED <<vars, messageVars>>
    BY <1>1, <1>4, NoticeNextKeeps
  <2>2. Inv' /\ YieldInv' /\ WillInv'
    BY <1>1, <1>4, <2>1, StutterKeepsInv, YieldAside, WillIdle
  <2>3. now' = now /\ triggered' = triggered
    BY <2>1 DEF vars, triggerVars
  <2>4. now \in Nat /\ now' >= now /\ now' \in Nat
    BY <1>1, <2>3, TimeTyped
  <2>5. MessageInv'
    BY <1>1, <2>1, <2>3, <2>4, MessagesAsideKeep
  <2>6. QED
    BY <1>4, <2>1, <2>2, <2>5 DEF EstateInv
<1>5. QED
  BY <1>2, <1>3, <1>4

LEMMA EstateKeeps ==
    ASSUME EstateInv, [EstateNext]_allVars
    PROVE  EstateInv' /\ \A p \in Plans : Settles(p)
<1>1. CASE [Next]_vars /\ UNCHANGED estateVars
  <2>1. EstateInv'
    BY <1>1, ContractKeepsEstate
  <2>2. UNCHANGED yieldVars
    BY <1>1 DEF estateVars
  <2>3. QED
    BY <1>1, <2>1, <2>2, ContractSettles DEF EstateInv
<1>2. CASE YieldNext /\ UNCHANGED <<willVars, messageVars, noticeVars>>
  BY <1>2, YieldKeepsEstate
<1>3. CASE \/ WillNext /\ UNCHANGED <<yieldVars, messageVars, noticeVars>>
           \/ (MessageNext \/ NoticeNext) /\ UNCHANGED <<yieldVars, willVars>>
  <2>1. EstateInv' /\ UNCHANGED <<vars, yieldVars>>
    BY <1>3, PapersKeepEstate
  <2>2. QED
    BY <2>1, ContractSettles DEF EstateInv
<1>4. QED
  BY <1>1, <1>2, <1>3 DEF EstateNext, allVars

LEMMA EstateInitInv == EstateInit => EstateInv
BY InitInv, YieldInitInv, WillInitInv, MessageInitInv DEF EstateInit, EstateInv

LEMMA EstateSpecInv == EstateSpec => []EstateInv
BY EstateInitInv, EstateKeeps, PTL DEF EstateSpec

-----------------------------------------------------------------------------
(* Yield: what it leaves to plans and claims *)

\* One plan's books are raised by a credit of yield, and nothing else moves.
Raises == \E p \in Plans, amount \in Nat : Exists(p) /\ Compound(p, amount)

LEMMA HarvestRaises ==
    ASSUME YieldInv, NEW p \in Plans, Exists(p), yield_state[p] # NoYield,
           NEW gross \in Nat, CreditHarvest(p, gross)
    PROVE  UNCHANGED vars \/ Raises
<1> DEFINE net == split_performance_fee(gross, yield_state[p].config.performance_fee_bp).net
<1>1. /\ yield_state[p].config.performance_fee_bp \in Nat
      /\ yield_state[p].config.performance_fee_bp <= MAX_PERFORMANCE_FEE_BPS
  BY StoredYield DEF YieldInv, YieldRecords
<1>2. net \in Nat
  BY <1>1, SplitFacts
<1>3. UNCHANGED vars \/ Compound(p, net)
  BY DEF CreditHarvest, YieldOnly
<1> HIDE DEF net
<1>4. QED
  BY <1>2, <1>3 DEF Raises

LEMMA YieldRaises ==
    ASSUME YieldInv, YieldNext
    PROVE  UNCHANGED vars \/ Raises
<1>1. CASE \/ \E l \in Pools : set_lending_contract(l)
           \/ \E r \in Relayers : add_yield_relayer(r) \/ remove_yield_relayer(r)
  BY <1>1 DEF set_lending_contract, add_yield_relayer, remove_yield_relayer, YieldOnly
<1>2. ASSUME NEW p \in Plans, NEW u \in Users,
             \/ \E c \in YieldConfigs : set_yield_config(u, p, c)
             \/ \E on \in BOOLEAN : set_plan_yield_paused(u, p, on)
             \/ \E a \in YieldAssets : register_yield_position(u, p, a)
             \/ sync_yield_principal(u, p)
      PROVE  UNCHANGED vars
  BY <1>2 DEF set_yield_config, set_plan_yield_paused, Reconfigure, sync_yield_principal,
     register_yield_position, YieldOnly
<1>3. ASSUME NEW p \in Plans, NEW u \in Users,
             unregister_yield_position(u, p) \/ compound_pending_yield(u, p)
      PROVE  Raises
  <2>1. /\ Exists(p) /\ yield_state[p] # NoYield
        /\ Compound(p, yield_state[p].pending_credit)
    BY <1>3 DEF unregister_yield_position, compound_pending_yield
  <2>2. yield_state[p].pending_credit \in Nat
    BY <2>1, StoredYield DEF YieldInv, U64
  <2>3. QED
    BY <2>1, <2>2 DEF Raises
<1>4. ASSUME NEW p \in Plans, NEW u \in Users, NEW gross \in Payable(lending_contract, p),
             harvest_yield(u, p, gross) \/ harvest_yield_batch(u, p, gross)
      PROVE  UNCHANGED vars \/ Raises
  <2>1. lending_contract \in Pools \cup {NoAddress}
    BY DEF YieldInv, YieldTypeOK
  <2>2. gross \in Nat
    BY <2>1, PayableFacts DEF YieldInv
  <2>3. Exists(p) /\ yield_state[p] # NoYield
    BY <1>4 DEF harvest_yield, harvest_yield_batch, ClaimFromPool
  <2>4. CreditHarvest(p, gross) \/ UNCHANGED vars
    BY <1>4 DEF harvest_yield, harvest_yield_batch, YieldOnly
  <2>5. QED
    BY <2>2, <2>3, <2>4, HarvestRaises
<1>5. ASSUME NEW p \in Plans, NEW l \in Pools,
             \/ \E gross \in Payable(l, p) : LenderClaims(l, p, gross)
             \/ \E a \in YieldAssets, x \in LenderPrincipals : LenderRegisters(l, p, a, x)
             \/ LenderDrops(l, p)
             \/ \E b \in LenderBoostBps : LenderBoosts(l, p, b)
      PROVE  UNCHANGED vars
  BY <1>5 DEF LenderClaims, LenderRegisters, LenderDrops, LenderBoosts, LenderRewrites,
     YieldOnly
<1>6. QED
  BY <1>1, <1>2, <1>3, <1>4, <1>5 DEF YieldNext

LEMMA EstateMoves ==
    ASSUME EstateInv, [EstateNext]_allVars
    PROVE  EstateInv' /\ ([Next]_vars \/ Raises)
<1>1. EstateInv'
  BY EstateKeeps
<1>2. CASE YieldNext
  BY <1>1, <1>2, YieldRaises DEF EstateInv
<1>3. CASE \/ WillNext /\ UNCHANGED <<yieldVars, messageVars, noticeVars>>
           \/ (MessageNext \/ NoticeNext) /\ UNCHANGED <<yieldVars, willVars>>
  BY <1>1, <1>3, PapersKeepEstate
<1>4. CASE Next \/ UNCHANGED allVars
  BY <1>1, <1>4 DEF allVars
<1>5. QED
  BY <1>2, <1>3, <1>4 DEF EstateNext

LEMMA RaisedPlan ==
    ASSUME Inv, Raises
    PROVE  /\ UNCHANGED <<vault, deactivated, claimed, triggered, now, frozen, paused>>
           /\ \A r \in Plans : Exists(r)' = Exists(r)
           /\ \A r \in Plans : Exists(r) =>
                 /\ plan'[r].owner = plan[r].owner
                 /\ plan'[r].is_active = plan[r].is_active
                 /\ plan'[r].created_at = plan[r].created_at
                 /\ plan'[r].wait = plan[r].wait
                 /\ plan[r].total_amount \in Nat
                 /\ \E x \in Nat : plan'[r].total_amount = plan[r].total_amount + x
<1>1. PICK p \in Plans, amount \in Nat : Exists(p) /\ Compound(p, amount)
  BY DEF Raises
<1>2. UNCHANGED <<vault, deactivated, claimed, triggered, now, frozen, paused>>
  BY <1>1 DEF Compound, claimVars, triggerVars, disputeVars, accountVars
<1>3. /\ PlanTypes
      /\ plan' = [plan EXCEPT ![p] =
                    [plan[p] EXCEPT !.total_amount = plan[p].total_amount + amount]]
  BY <1>1, StepBasics DEF Compound
<1>4. \A r \in Plans : Exists(r) => plan[r] \in Plan /\ plan[r].total_amount \in Nat
  BY PlanFacts, StoredPlan, <1>3
<1>5. /\ plan'[p] = [plan[p] EXCEPT !.total_amount = plan[p].total_amount + amount]
      /\ \A r \in Plans \ {p} : plan'[r] = plan[r]
  BY <1>1, <1>3, StoredAt
<1>6. plan[p] \in Plan
  BY <1>1, <1>4
<1>7. /\ plan'[p].owner = plan[p].owner /\ plan'[p].is_active = plan[p].is_active
      /\ plan'[p].created_at = plan[p].created_at /\ plan'[p].wait = plan[p].wait
      /\ plan'[p].total_amount = plan[p].total_amount + amount
  BY <1>5, <1>6 DEF Plan
<1>8. ASSUME NEW r \in Plans, Exists(r)
      PROVE  /\ plan'[r].owner = plan[r].owner
             /\ plan'[r].is_active = plan[r].is_active
             /\ plan'[r].created_at = plan[r].created_at
             /\ plan'[r].wait = plan[r].wait
             /\ plan[r].total_amount \in Nat
             /\ \E x \in Nat : plan'[r].total_amount = plan[r].total_amount + x
  <2>1. plan[r].total_amount \in Nat
    BY <1>4, <1>8
  <2>2. CASE r = p
    BY <1>7, <2>1, <2>2
  <2>3. CASE r # p
    <3>1. plan'[r] = plan[r]
      BY <1>5, <2>3
    <3>2. plan[r].total_amount = plan[r].total_amount + 0
      BY <2>1
    <3>3. QED
      BY <2>1, <3>1, <3>2
  <2>4. QED
    BY <2>2, <2>3
<1>9. \A r \in Plans : Exists(r)' = Exists(r)
  <2>1. plan[p].total_amount \in Nat /\ plan[p].total_amount + amount <= U64_MAX
    BY <1>1, <1>4 DEF Compound
  <2>2. plan[p].total_amount + amount \in U64
    <3>1. U64_MAX \in Nat
      BY InheritanceAssumption
    <3>2. QED
      BY <1>1, <2>1, <3>1 DEF U64
  <2>3. plan'[p] \in Plan
    BY <1>5, <1>6, <2>2 DEF Plan
  <2>4. plan'[p] # NoPlan
    BY <2>3, InheritanceAssumption
  <2>5. QED
    BY <1>1, <1>5, <2>4 DEF Exists
<1>10. QED
  BY <1>2, <1>8, <1>9

\* A credit of yield pays nobody, triggers nothing and takes nothing out.
LEMMA RaisesKeep ==
    ASSUME Inv, Raises
    PROVE  /\ DeadStayDead /\ TriggersStay /\ DrainsWithinLimit
           /\ PaysNewClaimsOnly /\ SeniorsHaveClaimed /\ ClaimsByVetted
           /\ EarlyClaimNeedsTrigger => EarlyClaimNeedsTrigger'
<1>1. UNCHANGED <<vault, deactivated, claimed, triggered, now>>
  BY RaisedPlan
<1>2. \A p \in Plans : vault[p] \in Nat
  BY StepBasics DEF PlanTypes
<1>3. DeadStayDead
  <2>1. \A p \in deactivated : p \in Plans /\ Exists(p) /\ ~plan[p].is_active
    BY DEF Inv, Books, RegistryMatchesOwners
  <2>2. \A p \in deactivated : ~plan'[p].is_active
    BY <2>1, RaisedPlan
  <2>3. QED
    BY <1>1, <1>2, <2>1, <2>2 DEF DeadStayDead
<1>4. TriggersStay
  <2>1. \A p \in triggered : p \in Plans /\ Exists(p)
    BY TypeGroups DEF Inv, NoTraces, TriggerTypes
  <2>2. QED
    BY <1>1, <2>1, RaisedPlan DEF TriggersStay
<1>5. DrainsWithinLimit
  <2>1. SUFFICES ASSUME NEW p \in Plans, is_emergency_active(p)
                 PROVE  LET limit == Share(plan[p].total_amount, EMERGENCY_TRANSFER_LIMIT_BP) IN
                        /\ vault[p] - vault'[p] <= limit
                        /\ plan[p].total_amount - plan'[p].total_amount <= limit
    BY DEF DrainsWithinLimit
  <2>2. Exists(p)
    BY <2>1 DEF Inv, NoTraces, is_emergency_active
  <2>3. PICK x \in Nat : plan'[p].total_amount = plan[p].total_amount + x
    BY <2>2, RaisedPlan
  <2>4. plan[p].total_amount \in Nat /\ EMERGENCY_TRANSFER_LIMIT_BP \in Nat
    BY <2>2, RaisedPlan, InheritanceAssumption
  <2>5. Share(plan[p].total_amount, EMERGENCY_TRANSFER_LIMIT_BP) \in Nat
    BY <2>4, ShareFacts
  <2>6. QED
    BY <1>1, <1>2, <2>3, <2>4, <2>5
<1>6. PaysNewClaimsOnly
  BY <1>1, <1>2 DEF PaysNewClaimsOnly
<1>7. SeniorsHaveClaimed /\ ClaimsByVetted
  BY <1>1 DEF SeniorsHaveClaimed, ClaimsByVetted
<1>8. ASSUME EarlyClaimNeedsTrigger PROVE EarlyClaimNeedsTrigger'
  <2>1. \A p \in Plans : claimed[p] # {} => Exists(p)
    BY DEF Inv, NoTraces
  <2>2. QED
    BY <1>1, <1>8, <2>1, RaisedPlan DEF EarlyClaimNeedsTrigger
<1>9. QED
  BY <1>3, <1>4, <1>5, <1>6, <1>7, <1>8

\* Nor does it change what becomes of any plan.
LEMMA RaisesKeepFates ==
    ASSUME Inv, Raises
    PROVE  fates' = fates
<1>1. ASSUME NEW p \in Plans PROVE FateOf(p)' = FateOf(p)
  BY RaisedPlan, <1>1 DEF FateOf
<1>2. QED
  BY <1>1 DEF fates

-----------------------------------------------------------------------------
(* Theorems *)

\* The contract with its yield positions, wills, messages and notices never
\* leaves its types: credits and tallies stay within u64, fees of a harvest
\* within the limit, indices of notices within the list of heirs.
THEOREM EstateIsTyped == EstateSpec => []EstateTypeOK
<1>1. EstateInv => EstateTypeOK
  BY DEF EstateInv, EstateTypeOK, Inv, YieldInv, WillInv, MessageInv, MessageTypes,
     NoticeTypes, MessageTypeOK
<1>2. QED
  BY <1>1, EstateSpecInv, PTL

\* Harvests, compounding, wills and messages leave the contract's redundant
\* records of plans, owners and claims in agreement.
THEOREM EstateKeepsPlanBooks == EstateSpec => []PlanBooks
<1>1. EstateInv => PlanBooks
  BY DEF EstateInv, Inv, Books, PlanBooks
<1>2. QED
  BY <1>1, EstateSpecInv, PTL

\* With yield beside it the contract claims before the distribution date only
\* what is triggered: no harvest or message triggers or records a claim.
THEOREM EstateClaimsAreTriggered == EstateSpec => []EarlyClaimNeedsTrigger
<1>1. EstateInit => EarlyClaimNeedsTrigger
  BY DEF EstateInit, Init, EarlyClaimNeedsTrigger
<1>2. EstateInv /\ EarlyClaimNeedsTrigger /\ [EstateNext]_allVars => EarlyClaimNeedsTrigger'
  BY EstateMoves, EarlyStep, RaisesKeep DEF EstateInv
<1>3. QED
  BY <1>1, <1>2, EstateSpecInv, PTL DEF EstateSpec

\* No harvest, compounding, will or message revives a deactivated plan or
\* takes a trigger back.
THEOREM EstateKeepsFate == EstateSpec => FateIsSealed
<1>1. EstateInv /\ [EstateNext]_allVars => [DeadStayDead]_vars
  BY EstateMoves, DeadStep, RaisesKeep DEF EstateInv
<1>2. EstateInv /\ [EstateNext]_allVars => [TriggersStay]_vars
  BY EstateMoves, TriggersStep, RaisesKeep DEF EstateInv
<1>3. EstateInv /\ [EstateNext]_allVars => [Life!FateNext]_fates
  BY EstateMoves, FateStep, RaisesKeepFates DEF EstateInv
<1>4. EstateInit => Life!FateInit
  BY FateStarts DEF EstateInit
<1>5. QED
  BY <1>1, <1>2, <1>3, <1>4, EstateSpecInv, PTL DEF EstateSpec, FateIsSealed,
     DeactivatedPlanIsDead, TriggerIsFinal, ImplementsPlanFate, Life!FateSpec

\* Compounding can raise what the limit is a share of between two calls, but
\* no call takes more than the limit at that moment.
THEOREM EstateLimitsEmergencies == EstateSpec => EmergencyDrainLimited
<1>1. EstateInv /\ [EstateNext]_allVars => [DrainsWithinLimit]_vars
  BY EstateMoves, DrainStep, RaisesKeep DEF EstateInv
<1>2. QED
  BY <1>1, EstateSpecInv, PTL DEF EstateSpec, EmergencyDrainLimited

\* Yield, wills and messages record no claim and erase none, and what leaves a
\* vault in a claim stays one heir's share, harvested yield included.
THEOREM EstatePaysOnce == EstateSpec => OneClaimPerHeir
<1>1. EstateInv /\ [EstateNext]_allVars => [PaysNewClaimsOnly]_vars
  BY EstateMoves, PayStep, RaisesKeep DEF EstateInv
<1>2. QED
  BY <1>1, EstateSpecInv, PTL DEF EstateSpec, OneClaimPerHeir

\* A harvest between two claims changes nobody's turn.
THEOREM EstateSeniorsFirst == EstateSpec /\ [][~BatchClaims]_vars => WaterfallRespected
<1>1. EstateInv /\ [EstateNext]_allVars /\ [~BatchClaims]_vars => [SeniorsHaveClaimed]_vars
  BY EstateMoves, SeniorsStep, RaisesKeep DEF EstateInv
<1>2. QED
  BY <1>1, EstateSpecInv, PTL DEF EstateSpec, WaterfallRespected

\* Whoever claims is vetted, whatever relayers, witnesses and authors do.
THEOREM EstateVetsClaimers == EstateSpec => ClaimantsAreVetted
<1>1. EstateInv /\ [EstateNext]_allVars => [ClaimsByVetted]_vars
  BY EstateMoves, VettedStep, RaisesKeep DEF EstateInv
<1>2. QED
  BY <1>1, EstateSpecInv, PTL DEF EstateSpec, ClaimantsAreVetted

\* No sequence of harvests, compounding, re-registration, relinking, claims
\* and withdrawals credits a plan with more than lending contracts paid for it.
THEOREM HarvestsAreBacked == EstateSpec => []CreditsAreBacked
<1>1. EstateInv => CreditsAreBacked
  BY DEF EstateInv, YieldInv
<1>2. QED
  BY <1>1, EstateSpecInv, PTL

\* What a lending contract pays for a registered plan is credited to the last
\* unit by the same step: the fee of harvest_yield_inner is what the net lacks.
THEOREM YieldArrives == EstateSpec => NoYieldGoesMissing
<1>1. EstateInv /\ [EstateNext]_allVars =>
         [\A p \in Plans :
             yield_state[p] # NoYield /\ yield_state'[p] # NoYield
                   /\ ~PoolTallyFull(p)' /\ ~FeeTallyFull(p)' =>
                \/ Credited(p)' - Credited(p) = PaidByPools(p)' - PaidByPools(p)
                \/ PaymentLost(p)
                \/ BatchClaims]_<<plan, vault, yieldVars>>
  <2>1. SUFFICES ASSUME EstateInv, [EstateNext]_allVars, NEW p \in Plans,
                        yield_state[p] # NoYield, yield_state'[p] # NoYield,
                        ~PoolTallyFull(p)', ~FeeTallyFull(p)'
                 PROVE  \/ Credited(p)' - Credited(p) = PaidByPools(p)' - PaidByPools(p)
                        \/ PaymentLost(p)
                        \/ BatchClaims
    OBVIOUS
  <2>2. Settles(p) /\ Exists(p)
    BY <2>1, EstateKeeps DEF EstateInv, YieldInv, YieldRecords
  <2>3. QED
    BY <2>1, <2>2 DEF Settles
<1>2. QED
  BY <1>1, EstateSpecInv, PTL DEF EstateSpec, NoYieldGoesMissing

\* A vault's will is the version in force, the only active one, through new
\* versions, links and finalizations.
THEOREM VaultWillIsInForce == EstateSpec => []VaultWillIsActiveVersion
<1>1. EstateInv => VaultWillIsActiveVersion
  BY DEF EstateInv, WillInv
<1>2. QED
  BY <1>1, EstateSpecInv, PTL

\* A finalized version in force is neither superseded nor edited, and the will
\* of the vault is never linked over.
THEOREM FinalizedWillIsSettled == EstateSpec => FinalizedWillStands
<1>1. EstateInv /\ [EstateNext]_allVars =>
         [\A p \in Plans :
             active_version[p] # 0 /\ versions[p][active_version[p]].finalized =>
                /\ active_version'[p] = active_version[p]
                /\ vault_will'[p] = vault_will[p]
                /\ versions'[p][active_version[p]] = versions[p][active_version[p]]]_willVars
  <2>1. SUFFICES ASSUME EstateInv, [EstateNext]_allVars, ~UNCHANGED willVars,
                        NEW p \in Plans, active_version[p] # 0,
                        versions[p][active_version[p]].finalized
                 PROVE  /\ active_version'[p] = active_version[p]
                        /\ vault_will'[p] = vault_will[p]
                        /\ versions'[p][active_version[p]] = versions[p][active_version[p]]
    OBVIOUS
  <2>2. WillNext /\ WillInv
    BY <2>1 DEF EstateNext, allVars, estateVars, EstateInv
  <2>3. QED
    BY <2>1, <2>2, WillNextSettles
<1>2. QED
  BY <1>1, EstateSpecInv, PTL DEF EstateSpec, FinalizedWillStands

\* A message is opened only at its date or after its plan's trigger, and is on
\* its vault's list, once, until it is deleted, so a trigger finds it.
THEOREM MessagesStayKept == EstateSpec => []MessagesKept
<1>1. EstateInv => MessagesKept
  BY DEF EstateInv, MessageInv
<1>2. QED
  BY <1>1, EstateSpecInv, PTL
=============================================================================
