---------------------------- MODULE LendingYield ----------------------------
(***************************************************************************)
(* Plan yield on the lending side: positions of inheritance plans and the  *)
(* claims paid out of a pool's retained_yield bucket.  A claim moves no    *)
(* token: the linked inheritance contract credits the plan and the tokens  *)
(* stay in the pool.  The caller is that contract or an admin; as an admin *)
(* may make every one of these calls, who calls is left out.               *)
(*                                                                         *)
(* PlanYieldIndex lists exactly the plans that have a position (positions  *)
(* are deactivated, never removed), so it is not kept a second time.       *)
(***************************************************************************)
EXTENDS Lending

CONSTANTS
    NoPosition, MAX_YIELD_BOOST_BPS,
    Plans,                          \* inheritance plan ids
    MAX_PLAN_YIELD_POSITIONS,
    Principals, Boosts              \* inputs

ASSUME YieldAssumption ==
    /\ IsFiniteSet(Plans) /\ IsFiniteSet(RateModels)
    /\ {MAX_YIELD_BOOST_BPS, MAX_PLAN_YIELD_POSITIONS} \subseteq Nat
    /\ Principals \subseteq U64
    /\ Boosts \subseteq Nat

INSTANCE YieldPositions

VARIABLE position                   \* DataKey::PlanYield(plan_id)

Positions == PositionOf(Assets, U64, Nat)

ASSUME PositionMarkAssumption == NoPosition \notin Positions

Registered == {p \in Plans : position[p] # NoPosition}

YieldInit == position = [p \in Plans |-> NoPosition]

-----------------------------------------------------------------------------
\* supply_rate_bps_for: the depositors' part of the borrow rate.
SupplyRate(a) ==
    LET u == get_utilization_bps(total_borrowed[a], total_deposits[a])
        factor == IF settings.rate_model = NoModel
                  THEN settings.reserve_factor_bps[a]
                  ELSE settings.rate_model.reserve_factor_bps
    IN  (CurrentRate(a, total_borrowed[a]) * u * saturating_sub(BPS, factor))
            \div (BPS * BPS)

Accrued(p) ==
    accrued_for_position(position[p], SupplyRate(position[p].asset), now)

\* Mutated: the claim is not capped by the bucket it is paid from.
AccruedUncapped(p) == Accrued(p)

\* get_accrued_plan_yield, and what claim_plan_yield pays
Payable(p) == lesser(Accrued(p), retained_yield[position[p].asset])

PositionStep == UNCHANGED vars

RegisterPlanYield(p, a, principal) ==
    /\ ~settings.contract_paused
    /\ a \in settings.supported
    /\ \/ p \in Registered
       \/ Cardinality(Registered) < MAX_PLAN_YIELD_POSITIONS
    /\ position' = [position EXCEPT ![p] = registered(@, a, principal, now)]
    /\ PositionStep

ClaimPlanYield(p) ==
    /\ ~settings.contract_paused
    /\ p \in Registered
    /\ position[p].active
    /\ ~settings.is_paused[position[p].asset]
    /\ Payable(p) > 0
    /\ retained_yield' =
          [retained_yield EXCEPT ![position[p].asset] = saturating_sub(@, Payable(p))]
    /\ position' = [position EXCEPT ![p] = harvested(@, Payable(p), now, U64_MAX)]
    /\ UNCHANGED <<total_deposits, total_shares, total_borrowed, bad_debt_reserve,
                   total_protocol_revenue, settings, depositorVars, loanVars,
                   held, now>>

UnregisterPlanYield(p) ==
    /\ p \in Registered
    /\ position' = [position EXCEPT ![p] = unregistered(@)]
    /\ PositionStep

SetPlanYieldBoost(p, boost) ==
    /\ boost <= MAX_YIELD_BOOST_BPS
    /\ p \in Registered
    /\ position' = [position EXCEPT ![p].boost_bps = boost]
    /\ PositionStep

YieldNext ==
    \E p \in Plans :
        \/ \E a \in Assets, x \in Principals : RegisterPlanYield(p, a, x)
        \/ ClaimPlanYield(p)
        \/ UnregisterPlanYield(p)
        \/ \E b \in Boosts : SetPlanYieldBoost(p, b)

-----------------------------------------------------------------------------
\* The steepest supply rate any utilization can give under the settings a
\* pool may have: the whole borrow rate at full utilization.
RateCeiling ==
    LET curve(m) == m.base_rate_bps + m.slope1_bps + m.slope2_bps IN
    CHOOSE r \in {BaseRateBps + MultiplierBps} \cup {curve(m) : m \in RateModels} :
        \A m \in RateModels : r >= curve(m) /\ r >= BaseRateBps + MultiplierBps

HighestPrincipal == CHOOSE x \in Principals : \A y \in Principals : y <= x

\* No second is paid for twice: over its whole life, through harvests,
\* re-registrations with another principal, deactivation and changes of
\* boost and of the pool's rate, a position never receives more than the
\* highest principal at the highest rate would have earned since
\* registered_at.  Rests on every operation that makes time payable moving
\* the watermark.
NoSecondPaidTwice ==
    \A p \in Registered :
        position[p].total_harvested * BPS * YEAR <=
            HighestPrincipal * (RateCeiling + MAX_YIELD_BOOST_BPS)
                             * (now - position[p].registered_at)

\* register_plan_yield says that "a principal change never retroactively
\* re-prices already-elapsed time".  Whatever is done to a position but a change
\* of its boost, which applies to all the time since the last harvest, leaves it
\* nothing for the time before: a claim the bucket could not pay in full, a
\* registration after a deactivation and a move to another pool included.
ElapsedTimeIsSettled ==
    [][\A p \in Registered :
          \/ position'[p] = [position[p] EXCEPT !.boost_bps = position'[p].boost_bps]
          \/ Accrued(p)' = 0]_position

=============================================================================
