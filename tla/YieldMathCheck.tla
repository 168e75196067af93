--------------------------- MODULE YieldMathCheck ---------------------------
(***************************************************************************)
(* The inheritance contract's projections on the grid of LendingMathCheck, *)
(* against exact arithmetic and against what the lending contract pays.    *)
(***************************************************************************)
EXTENDS LendingMathCheck

CONSTANTS DAYS_PER_YEAR, YIELD_SCALE, MAX_YIELD_RATE_BPS, MAX_COMPOUND_PERIODS,
          U64_MAX, U128_MAX, NoPosition, MAX_YIELD_BOOST_BPS

ASSUME ProjectionAssumption ==
    /\ {DAYS_PER_YEAR, YIELD_SCALE} \subseteq Nat \ {0}
    /\ {MAX_YIELD_RATE_BPS, MAX_COMPOUND_PERIODS, U64_MAX, U128_MAX} \subseteq Nat

Y == INSTANCE YieldMath
Pool == INSTANCE YieldPositions

rate == S       \* a rate, a number of periods and a principal
periods == t
principal == x * D

\* The powers of a number, by multiplying one period at a time.
powers(base) ==
    LET power[n \in Nat] == IF n = 0 THEN 1 ELSE base * power[n-1] IN power

\* simple_interest, with which an owner estimates the next harvest, gives to
\* the last unit what claim_plan_yield pays for the same principal, rate and
\* time, wherever it gives a value at all.
ProjectionMatchesPool ==
    LET paid == Pool!simulate_plan_yield(principal, rate, t)
        estimate == Y!simple_interest(principal, rate, t)
    IN  IF rate > MAX_YIELD_RATE_BPS \/ paid > U64_MAX THEN estimate = Y!Err
        ELSE estimate = paid

\* Compounding by repeated squaring, which rounds in another order than
\* period after period, never credits more than exact compounding, never
\* loses principal, and never pays less for a longer time.
CompoundingNeverOverpays ==
    LET amount(n) == Y!compound_amount(x, rate, n)
        factor == YIELD_SCALE + (YIELD_SCALE * rate) \div BPS
    IN  amount(periods) # Y!Err =>
            /\ amount(periods) * powers(YIELD_SCALE)[periods] <= x * powers(factor)[periods]
            /\ amount(periods) >= x
            /\ Y!compound_interest(x, rate, periods) = amount(periods) - x
            /\ periods > 0 => amount(periods - 1) \in 0..amount(periods)

\* Whatever the mix of two positions, their blended rate lies between the two
\* rates and, weighted back, never reports more yield than the two earn.
BlendIsInBetween ==
    LET blended == Y!blended_rate_bps(x, rate, D, r) IN
    blended # Y!Err /\ x + D > 0 =>
        /\ blended >= lesser(rate, r)
        /\ blended * (x + D) <= x * rate + D * r

\* The daily projections and the effective yield stay below what the daily
\* rate compounds to exactly, though each rounds three times.
DailyNeverOverpays ==
    LET factor == YIELD_SCALE + (YIELD_SCALE * rate) \div (BPS * DAYS_PER_YEAR)
        earned == Y!project_daily_interest(x, rate, periods)
        apy == Y!effective_apy_bps(rate)
    IN  /\ earned # Y!Err =>
              (x + earned) * powers(YIELD_SCALE)[periods] <= x * powers(factor)[periods]
        /\ apy # Y!Err =>
              apy * powers(YIELD_SCALE)[DAYS_PER_YEAR] <=
                  BPS * (powers(factor)[DAYS_PER_YEAR] - powers(YIELD_SCALE)[DAYS_PER_YEAR])
        /\ Y!daily_rate_bps(rate) * DAYS_PER_YEAR <= rate

\* No projection an owner is shown (simple_interest, compound_amount,
\* project_daily_interest, effective_apy_bps, blended_rate_bps) promises more
\* than exact arithmetic would give, and the simple one is what the pool pays.
ProjectionsFaithful ==
    /\ ProjectionMatchesPool
    /\ CompoundingNeverOverpays
    /\ DailyNeverOverpays
    /\ BlendIsInBetween

=============================================================================
