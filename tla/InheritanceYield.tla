-------------------------- MODULE InheritanceYield --------------------------
(***************************************************************************)
(* Yield on the inheritance side: a plan's balance registered as a         *)
(* position in the linked lending contract, and the harvests that credit   *)
(* what that contract pays.  Both contracts only keep books: a harvest     *)
(* raises total_amount while the tokens stay in the lending pool.          *)
(*                                                                         *)
(* Of the lending contracts only the positions of YieldPositions are in    *)
(* the state here, LendingYield has the rest: a claim pays any part of     *)
(* what a position accrued (the pool's bucket may hold less) at any rate   *)
(* of SupplyRates, and the lending contract's own admin may claim for,     *)
(* register, boost or drop a position without this contract.  Preview and  *)
(* claim are made by one transaction, so they agree.  A refused call fails *)
(* the whole operation.                                                    *)
(*                                                                         *)
(* Not in the state: what only views read (registered_principal, the       *)
(* lifetime total, the counters and the ring of recent harvests).          *)
(***************************************************************************)
EXTENDS Inheritance

CONSTANTS
    NoPosition, NoYield, YEAR, MAX_YIELD_BOOST_BPS,
    Pools,                          \* lending contracts of a compatible version
    YieldAssets,
    MAX_YIELD_RELAYERS, MAX_PERFORMANCE_FEE_BPS,
    SupplyRates, Relayers, YieldConfigs,   \* inputs
    LenderPrincipals, LenderBoostBps        \* inputs of a lending contract's admin

YieldConfig == [auto_compound : BOOLEAN, min_harvest_amount : Nat,
                harvest_interval : Nat, performance_fee_bp : Nat]

default_config == [auto_compound |-> TRUE, min_harvest_amount |-> 0,
                   harvest_interval |-> 0, performance_fee_bp |-> 0]

ASSUME YieldAssumption ==
    /\ NoAddress \notin Pools /\ IsFiniteSet(Pools)
    /\ {YEAR} \subseteq Nat \ {0}
    /\ {MAX_YIELD_BOOST_BPS, MAX_YIELD_RELAYERS} \cup SupplyRates \subseteq Nat
    /\ MAX_PERFORMANCE_FEE_BPS \in 0..BPS
    /\ Relayers \subseteq Users
    /\ YieldConfigs \subseteq YieldConfig
    /\ LenderPrincipals \subseteq U64 /\ LenderBoostBps \subseteq Nat

INSTANCE YieldPositions

VARIABLES
    lending_contract,               \* Lc
    relayers,                       \* Yr
    yield_state,                    \* Ys(plan_id)
    pool_position                   \* the positions each lending contract keeps

contractYieldVars == <<lending_contract, relayers, yield_state>>
yieldVars == <<contractYieldVars, pool_position>>

PlanYieldState == [asset : YieldAssets, last_harvest_at : Nat, total_fees_paid : U64,
                   pending_credit : U64, paused : BOOLEAN, config : YieldConfig]

ASSUME YieldMarkAssumption ==
    /\ NoYield \notin PlanYieldState
    /\ NoPosition \notin PositionOf(YieldAssets, U64, Nat)

YieldTypeOK ==
    /\ lending_contract \in Pools \cup {NoAddress}
    /\ relayers \subseteq Users /\ Cardinality(relayers) <= MAX_YIELD_RELAYERS
    /\ yield_state \in [Plans -> PlanYieldState \cup {NoYield}]
    /\ pool_position \in
          [Pools -> [Plans -> PositionOf(YieldAssets, U64, Nat) \cup {NoPosition}]]

YieldInit ==
    /\ lending_contract = NoAddress
    /\ relayers = {}
    /\ yield_state = [p \in Plans |-> NoYield]
    /\ pool_position = [l \in Pools |-> [p \in Plans |-> NoPosition]]

-----------------------------------------------------------------------------
(* Authority and arithmetic *)

CheckYieldConfigAuthority(u, p) == Owns(u, p) \/ "Admin" \in roles[u]
check_harvest_authority(u, p) == CheckYieldConfigAuthority(u, p) \/ u \in relayers

EarnsYield(p) == Exists(p) /\ plan[p].is_active /\ plan[p].earn_yield

\* is_harvest_due of yield_math, which harvest_yield_inner repeats.
HarvestDue(state, pending) ==
    /\ state.config.harvest_interval = 0
          \/ now >= state.last_harvest_at + state.config.harvest_interval
    /\ pending > 0 /\ pending >= state.config.min_harvest_amount

\* Mutated: both parts are rounded down on their own.
SplitBothRounded(amount, fee_bps) ==
    [net |-> (amount * (BPS - fee_bps)) \div BPS, fee |-> (amount * fee_bps) \div BPS]

split_performance_fee(amount, fee_bps) ==
    LET fee == (amount * fee_bps) \div BPS IN [net |-> amount - fee, fee |-> fee]

-----------------------------------------------------------------------------
(* The linked lending contract, relayers and settings *)

YieldOnly == UNCHANGED vars

set_lending_contract(l) ==
    /\ RequireAdmin
    /\ lending_contract' = l
    /\ UNCHANGED <<relayers, yield_state, pool_position>>
    /\ YieldOnly

add_yield_relayer(r) ==
    /\ RequireAdmin
    /\ r \notin relayers /\ Cardinality(relayers) < MAX_YIELD_RELAYERS
    /\ relayers' = relayers \cup {r}
    /\ UNCHANGED <<lending_contract, yield_state, pool_position>>
    /\ YieldOnly

remove_yield_relayer(r) ==
    /\ RequireAdmin
    /\ r \in relayers
    /\ relayers' = relayers \ {r}
    /\ UNCHANGED <<lending_contract, yield_state, pool_position>>
    /\ YieldOnly

\* The owner's or an admin's change of a registered plan's policy.
Reconfigure(u, p, state) ==
    /\ ~paused
    /\ Exists(p) /\ CheckYieldConfigAuthority(u, p)
    /\ yield_state[p] # NoYield
    /\ yield_state' = [yield_state EXCEPT ![p] = state]
    /\ UNCHANGED <<lending_contract, relayers, pool_position>>
    /\ YieldOnly

set_yield_config(u, p, config_) ==
    /\ config_.performance_fee_bp <= MAX_PERFORMANCE_FEE_BPS
    /\ Reconfigure(u, p, [yield_state[p] EXCEPT !.config = config_])

set_plan_yield_paused(u, p, on) ==
    Reconfigure(u, p, [yield_state[p] EXCEPT !.paused = on])

-----------------------------------------------------------------------------
(* Positions *)

\* A known plan keeps its policy, its credit and its totals.
Enlisted(state, asset) ==
    IF state = NoYield
    THEN [asset |-> asset, last_harvest_at |-> now, total_fees_paid |-> 0,
          pending_credit |-> 0, paused |-> FALSE, config |-> default_config]
    ELSE [state EXCEPT !.asset = asset, !.last_harvest_at = now]

register_yield_position(u, p, asset) ==
    /\ ~paused
    /\ Exists(p) /\ check_harvest_authority(u, p)
    /\ EarnsYield(p)
    /\ lending_contract # NoAddress
    /\ pool_position' = [pool_position EXCEPT ![lending_contract][p] =
                           registered(@, asset, plan[p].total_amount, now)]
    /\ yield_state' = [yield_state EXCEPT ![p] = Enlisted(@, asset)]
    /\ UNCHANGED <<lending_contract, relayers>>
    /\ YieldOnly

sync_yield_principal(u, p) ==
    yield_state[p] # NoYield /\ register_yield_position(u, p, yield_state[p].asset)

\* Mutated: the sum is not checked.
CompoundUnchecked(p, amount) ==
    /\ plan' = [plan EXCEPT ![p].total_amount = @ + amount]
    /\ UNCHANGED <<next_plan_id, user_plans, deactivated, vault, claimVars, accountVars,
                   triggerVars, emergencyVars, disputeVars, now>>

\* Only the plan's amount changes in the rest of the contract.
Compound(p, amount) ==
    /\ plan[p].total_amount + amount <= U64_MAX
    /\ plan' = [plan EXCEPT ![p].total_amount = @ + amount]
    /\ UNCHANGED <<next_plan_id, user_plans, deactivated, vault, claimVars, accountVars,
                   triggerVars, emergencyVars, disputeVars, now>>

\* A plan whose position is in a contract linked earlier is refused.
unregister_yield_position(u, p) ==
    /\ ~paused
    /\ Exists(p) /\ CheckYieldConfigAuthority(u, p)
    /\ yield_state[p] # NoYield
    /\ lending_contract # NoAddress
    /\ pool_position[lending_contract][p] # NoPosition
    /\ Compound(p, yield_state[p].pending_credit)
    /\ pool_position' = [pool_position EXCEPT ![lending_contract][p] = unregistered(@)]
    /\ yield_state' = [yield_state EXCEPT ![p] = NoYield]
    /\ UNCHANGED <<lending_contract, relayers>>

-----------------------------------------------------------------------------
(* Harvests *)

\* What a claim at some moment's rate may pay for a position of pool l.
Payable(l, p) ==
    IF l = NoAddress \/ pool_position[l][p] = NoPosition
    THEN {}
    ELSE UNION {1..accrued_for_position(pool_position[l][p], r, now) : r \in SupplyRates}

PoolPays(l, p, gross) ==
    pool_position' = [pool_position EXCEPT ![l][p] = harvested(@, gross, now, U64_MAX)]

\* harvest_yield_inner up to and including the claim on the pool
ClaimFromPool(u, p, gross) ==
    /\ ~paused
    /\ Exists(p) /\ check_harvest_authority(u, p)
    /\ EarnsYield(p)
    /\ yield_state[p] # NoYield /\ ~yield_state[p].paused
    /\ HarvestDue(yield_state[p], gross)
    /\ PoolPays(lending_contract, p, gross)
    /\ UNCHANGED <<lending_contract, relayers>>

\* With auto_compound off the net waits in pending_credit.
Parked(state, split) == [state EXCEPT !.pending_credit = @ + split.net]

\* harvest_yield_inner after the claim: total_fees_paid saturates, and the
\* credit is refused if the plan cannot hold it.
CreditHarvest(p, gross) ==
    LET state == yield_state[p]
        split == split_performance_fee(gross, state.config.performance_fee_bp)
        noted == [state EXCEPT !.last_harvest_at = now,
                               !.total_fees_paid = capped(@ + split.fee, U64_MAX)]
    IN  \/ /\ state.config.auto_compound
           /\ Compound(p, split.net)
           /\ yield_state' = [yield_state EXCEPT ![p] = noted]
        \/ /\ ~state.config.auto_compound
           /\ state.pending_credit + split.net <= U64_MAX
           /\ yield_state' = [yield_state EXCEPT ![p] = Parked(noted, split)]
           /\ YieldOnly

CreditFits(p, gross) ==
    LET state == yield_state[p]
        net == split_performance_fee(gross, state.config.performance_fee_bp).net
    IN  net + (IF state.config.auto_compound THEN plan[p].total_amount
                                             ELSE state.pending_credit) <= U64_MAX

harvest_yield(u, p, gross) == ClaimFromPool(u, p, gross) /\ CreditHarvest(p, gross)

\* An entry of a batch that went through is a harvest.  One whose credit does
\* not fit is skipped, and the claim it made on the pool stands.
harvest_yield_batch(u, p, gross) ==
    /\ ClaimFromPool(u, p, gross)
    /\ \/ CreditHarvest(p, gross)
       \/ ~CreditFits(p, gross) /\ UNCHANGED yield_state /\ YieldOnly

\* Mutated: the credit is compounded and kept.
CompoundKeepingCredit(u, p) ==
    /\ ~paused
    /\ Exists(p) /\ CheckYieldConfigAuthority(u, p)
    /\ yield_state[p] # NoYield /\ yield_state[p].pending_credit > 0
    /\ Compound(p, yield_state[p].pending_credit)
    /\ UNCHANGED yieldVars

compound_pending_yield(u, p) ==
    /\ ~paused
    /\ Exists(p) /\ CheckYieldConfigAuthority(u, p)
    /\ yield_state[p] # NoYield /\ yield_state[p].pending_credit > 0
    /\ Compound(p, yield_state[p].pending_credit)
    /\ yield_state' = [yield_state EXCEPT ![p].pending_credit = 0]
    /\ UNCHANGED <<lending_contract, relayers, pool_position>>

-----------------------------------------------------------------------------
(* What the admin of a lending contract does there.                        *)

LenderClaims(l, p, gross) == PoolPays(l, p, gross) /\ UNCHANGED contractYieldVars /\ YieldOnly

LenderRewrites(l, p, position) ==
    /\ pool_position' = [pool_position EXCEPT ![l][p] = position]
    /\ UNCHANGED contractYieldVars
    /\ YieldOnly

LenderRegisters(l, p, asset, principal) ==
    LenderRewrites(l, p, registered(pool_position[l][p], asset, principal, now))

LenderDrops(l, p) ==
    /\ pool_position[l][p] # NoPosition
    /\ LenderRewrites(l, p, unregistered(pool_position[l][p]))

LenderBoosts(l, p, boost) ==
    /\ pool_position[l][p] # NoPosition
    /\ boost <= MAX_YIELD_BOOST_BPS
    /\ LenderRewrites(l, p, [pool_position[l][p] EXCEPT !.boost_bps = boost])

YieldNext ==
    \/ \E l \in Pools : set_lending_contract(l)
    \/ \E r \in Relayers : add_yield_relayer(r) \/ remove_yield_relayer(r)
    \/ \E p \in Plans :
          \/ \E u \in Users :
                \/ \E c \in YieldConfigs : set_yield_config(u, p, c)
                \/ \E on \in BOOLEAN : set_plan_yield_paused(u, p, on)
                \/ \E a \in YieldAssets : register_yield_position(u, p, a)
                \/ sync_yield_principal(u, p)
                \/ unregister_yield_position(u, p)
                \/ \E gross \in Payable(lending_contract, p) :
                      harvest_yield(u, p, gross) \/ harvest_yield_batch(u, p, gross)
                \/ compound_pending_yield(u, p)
          \/ \E l \in Pools :
                \/ \E gross \in Payable(l, p) : LenderClaims(l, p, gross)
                \/ \E a \in YieldAssets, x \in LenderPrincipals : LenderRegisters(l, p, a, x)
                \/ LenderDrops(l, p)
                \/ \E b \in LenderBoostBps : LenderBoosts(l, p, b)

-----------------------------------------------------------------------------
(* What a plan was credited with, and what lending contracts paid for it.  *)

Credited(p) ==
    (plan[p].total_amount - vault[p]) +
        (IF yield_state[p] = NoYield THEN 0
         ELSE yield_state[p].pending_credit + yield_state[p].total_fees_paid)

PaidByPools(p) ==
    SumFunction([l \in Pools |-> IF pool_position[l][p] = NoPosition THEN 0
                                 ELSE pool_position[l][p].total_harvested])

\* The tallies saturate: at the largest amount they count no further.
PoolTallyFull(p) ==
    \E l \in Pools : pool_position[l][p] # NoPosition
                        /\ pool_position[l][p].total_harvested = U64_MAX

FeeTallyFull(p) == yield_state[p] # NoYield /\ yield_state[p].total_fees_paid = U64_MAX

\* A plan's books exceed its vault only by yield some lending contract booked
\* as paid for that very plan: no sequence of harvests, compounding,
\* re-registration, unlinking and withdrawals credits the same yield twice.
CreditsAreBacked ==
    \A p \in Plans : Exists(p) /\ ~PoolTallyFull(p) => Credited(p) <= PaidByPools(p)

\* A pool's payment that the plan is not credited with in full: a batch entry
\* whose credit overflows, or a claim by the lending contract's admin.
PaymentLost(p) ==
    \/ \E u \in Users, gross \in Payable(lending_contract, p) :
          harvest_yield_batch(u, p, gross) /\ ~CreditFits(p, gross)
    \/ \E l \in Pools : \E gross \in Payable(l, p) : LenderClaims(l, p, gross)

\* While a plan stays registered, whatever a lending contract books as paid
\* for it reaches total_amount, pending_credit or the fees to the last unit,
\* save what PaymentLost lists, until a tally is full.  batch_claim alone
\* takes some back, of what the plan was credited with.
NoYieldGoesMissing ==
    [][\A p \in Plans :
          yield_state[p] # NoYield /\ yield_state'[p] # NoYield
                /\ ~PoolTallyFull(p)' /\ ~FeeTallyFull(p)' =>
             \/ Credited(p)' - Credited(p) = PaidByPools(p)' - PaidByPools(p)
             \/ PaymentLost(p)
             \/ BatchClaims]_<<plan, vault, yieldVars>>

=============================================================================
