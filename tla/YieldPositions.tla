-------------------------- MODULE YieldPositions ---------------------------
(***************************************************************************)
(* PlanYieldPosition, the record the lending contract keeps for an         *)
(* inheritance plan whose principal earns yield, and what register,        *)
(* unregister, boost and claim make of it.  The lending side               *)
(* (LendingYield) and the inheritance side (InheritanceYield) of a harvest *)
(* work on the same record.                                                *)
(***************************************************************************)
EXTENDS Integers

CONSTANTS
    NoPosition,
    MAX_YIELD_BOOST_BPS,
    BPS, YEAR               \* 10_000 and SECONDS_IN_YEAR

PositionOf(assets, amounts, times) ==
    [asset : assets, principal : amounts, last_harvest_at : times,
     total_harvested : amounts, registered_at : times,
     boost_bps : 0..MAX_YIELD_BOOST_BPS, active : BOOLEAN]

\* simulate_plan_yield: simple pro-rata interest, rounded down.
simulate_plan_yield(principal, rate_bps, elapsed) ==
    (principal * rate_bps * elapsed) \div (BPS * YEAR)

\* The sum, saturated at the largest amount.
capped(x, max) == IF x <= max THEN x ELSE max

\* What a position has earned since its watermark, which is never ahead of now.
accrued_for_position(p, supply_rate_bps, now) ==
    IF p.active
    THEN simulate_plan_yield(p.principal, supply_rate_bps + p.boost_bps,
                             now - p.last_harvest_at)
    ELSE 0

\* Mutated: the watermark of a known plan stays behind its new principal.
registered_without_watermark(prior, asset, principal, now) ==
    IF prior = NoPosition
    THEN [asset |-> asset, principal |-> principal, last_harvest_at |-> now,
          total_harvested |-> 0, registered_at |-> now, boost_bps |-> 0,
          active |-> TRUE]
    ELSE [prior EXCEPT !.asset = asset, !.principal = principal, !.active = TRUE]

\* register_plan_yield: a known plan keeps its totals and its boost.
registered(prior, asset, principal, now) ==
    IF prior = NoPosition
    THEN [asset |-> asset, principal |-> principal, last_harvest_at |-> now,
          total_harvested |-> 0, registered_at |-> now, boost_bps |-> 0,
          active |-> TRUE]
    ELSE [prior EXCEPT !.asset = asset, !.principal = principal,
                       !.last_harvest_at = now, !.active = TRUE]

unregistered(p) == [p EXCEPT !.active = FALSE, !.principal = 0]

\* Mutated: the watermark stays, so the same time is paid for again.
harvested_without_watermark(p, payout, now, max) ==
    [p EXCEPT !.total_harvested = capped(@ + payout, max)]

\* claim_plan_yield: the watermark moves even when the bucket paid less than
\* the position had accrued.
harvested(p, payout, now, max) ==
    [p EXCEPT !.last_harvest_at = now,
              !.total_harvested = capped(@ + payout, max)]

=============================================================================
