------------------------------ MODULE YieldMath ------------------------------
(***************************************************************************)
(* The projections of contracts/inheritance-contract/src/yield_math.rs:    *)
(* simple interest, daily compounding in fixed point by repeated squaring, *)
(* the effective yield and the blended rate.  What is refused, what does   *)
(* not fit a u64 at the end and what overflows u128 on the way is Err.     *)
(* A product that overflows outside mul_factor would not fit a u64 after   *)
(* its division either, so only mul_factor looks at U128_MAX.              *)
(***************************************************************************)
EXTENDS Integers

CONSTANTS
    BPS, YEAR,              \* BPS_DENOMINATOR, SECONDS_PER_YEAR
    DAYS_PER_YEAR,
    YIELD_SCALE,            \* one, in fixed point (1e12)
    MAX_YIELD_RATE_BPS, MAX_COMPOUND_PERIODS,
    U64_MAX, U128_MAX

Err == -1

to_u64(x) == IF x > U64_MAX THEN Err ELSE x

minus(total, x) == IF total = Err \/ total < x THEN Err ELSE total - x  \* safe_sub

simple_interest(principal, annual_rate_bps, elapsed_secs) ==
    IF annual_rate_bps > MAX_YIELD_RATE_BPS THEN Err
    ELSE to_u64((principal * annual_rate_bps * elapsed_secs) \div (BPS * YEAR))

daily_rate_bps(annual_rate_bps) ==
    IF annual_rate_bps > MAX_YIELD_RATE_BPS THEN Err ELSE annual_rate_bps \div DAYS_PER_YEAR

\* 1 + annual_rate / 365, for an accepted rate.
daily_growth_factor(annual_rate_bps) ==
    YIELD_SCALE + (YIELD_SCALE * annual_rate_bps) \div (BPS * DAYS_PER_YEAR)

mul_factor(a, b) ==
    IF Err \in {a, b} \/ a * b > U128_MAX THEN Err ELSE (a * b) \div YIELD_SCALE

\* Mutated: the accumulator is squared before the result is multiplied.
pow_turn_squared_first(loop) ==
    LET rest == loop.remaining \div 2
        square == IF rest = 0 THEN loop.accumulator
                  ELSE mul_factor(loop.accumulator, loop.accumulator)
    IN  [result |-> IF loop.remaining % 2 = 1 THEN mul_factor(loop.result, square)
                    ELSE loop.result,
         accumulator |-> square,
         remaining |-> rest]

\* A turn of the loop of pow_factor; with nothing remaining it changes nothing.
pow_turn(loop) ==
    LET rest == loop.remaining \div 2 IN
    [result |-> IF loop.remaining % 2 = 1 THEN mul_factor(loop.result, loop.accumulator)
                ELSE loop.result,
     accumulator |-> IF rest = 0 THEN loop.accumulator
                     ELSE mul_factor(loop.accumulator, loop.accumulator),
     remaining |-> rest]

\* The loop's variables after each number of turns.
pow_loop(base, exponent) ==
    LET loop[i \in Nat] ==
            IF i = 0
            THEN [result |-> YIELD_SCALE, accumulator |-> base, remaining |-> exponent]
            ELSE pow_turn(loop[i-1])
    IN  loop

\* Every turn halves what remains, so none does after as many as the exponent.
pow_factor(base, exponent) == pow_loop(base, exponent)[exponent].result

Accepted(rate_bps, periods) ==
    rate_bps <= MAX_YIELD_RATE_BPS /\ periods <= MAX_COMPOUND_PERIODS

Grown(principal, factor, periods) ==
    LET growth == pow_factor(factor, periods) IN
    IF principal = 0 \/ factor = YIELD_SCALE THEN principal
    ELSE IF growth = Err THEN Err ELSE to_u64((principal * growth) \div YIELD_SCALE)

compound_amount(principal, rate_bps_per_period, periods) ==
    IF ~Accepted(rate_bps_per_period, periods) THEN Err
    ELSE Grown(principal, YIELD_SCALE + (YIELD_SCALE * rate_bps_per_period) \div BPS, periods)

compound_interest(principal, rate_bps_per_period, periods) ==
    minus(compound_amount(principal, rate_bps_per_period, periods), principal)

project_daily_compound(principal, annual_rate_bps, days) ==
    IF ~Accepted(annual_rate_bps, days) THEN Err
    ELSE Grown(principal, daily_growth_factor(annual_rate_bps), days)

project_daily_interest(principal, annual_rate_bps, days) ==
    minus(project_daily_compound(principal, annual_rate_bps, days), principal)

effective_apy_bps(nominal) ==
    LET growth == pow_factor(daily_growth_factor(nominal), DAYS_PER_YEAR) IN
    IF nominal > MAX_YIELD_RATE_BPS \/ growth = Err THEN Err
    ELSE ((growth - YIELD_SCALE) * BPS) \div YIELD_SCALE

blended_rate_bps(principal_a, rate_a_bps, principal_b, rate_b_bps) ==
    IF rate_a_bps > MAX_YIELD_RATE_BPS \/ rate_b_bps > MAX_YIELD_RATE_BPS
       \/ principal_a + principal_b > U64_MAX
    THEN Err
    ELSE IF principal_a + principal_b = 0 THEN 0
    ELSE (principal_a * rate_a_bps + principal_b * rate_b_bps) \div (principal_a + principal_b)

=============================================================================
