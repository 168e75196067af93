---------------------------- MODULE LendingMath ----------------------------
(***************************************************************************)
(* The pure arithmetic of contracts/lending-contract/src/lib.rs: share     *)
(* minting and burning, simple interest, utilization, the two rate curves, *)
(* late fees and the two ways interest is split.                           *)
(*                                                                         *)
(* The contract computes every product in u128 and divides with a floor,   *)
(* so no intermediate value is lost; amounts are naturals here.  The       *)
(* contract's literals 10_000, 31_536_000 and 86_400 are the parameters    *)
(* BPS, YEAR and DAY, because TLC checks small instances of the scale      *)
(* while the theorems hold for every one.                                  *)
(***************************************************************************)
EXTENDS Integers

CONSTANTS
    BPS,                    \* basis points in one whole (10_000)
    YEAR,                   \* SECONDS_IN_YEAR
    DAY,                    \* seconds in a day, the late-fee period
    PROTOCOL_INTEREST_BPS,  \* part of interest the protocol keeps
    BAD_DEBT_RESERVE_BPS    \* part of that routed to the bad-debt reserve

ASSUME MathAssumption ==
    /\ BPS \in Nat \ {0}
    /\ YEAR \in Nat \ {0}
    /\ DAY \in Nat \ {0}
    /\ PROTOCOL_INTEREST_BPS \in 0..BPS
    /\ BAD_DEBT_RESERVE_BPS \in 0..BPS

\* u64::saturating_sub
saturating_sub(x, y) == IF x >= y THEN x - y ELSE 0

\* u128 checked_mul followed by checked_div(d).unwrap_or(0)
mul_div(x, y, d) == IF d = 0 THEN 0 ELSE (x * y) \div d

lesser(x, y) == IF x <= y THEN x ELSE y

-----------------------------------------------------------------------------
(* Shares.  D and S are the pool's total_deposits and total_shares. *)

\* Mutated: the division rounds up.
shares_rounded_up(D, S, amount) ==
    IF S = 0 \/ D = 0 THEN amount ELSE (amount * S + D - 1) \div D

shares_for_deposit(D, S, amount) ==
    IF S = 0 \/ D = 0 THEN amount ELSE (amount * S) \div D

assets_for_shares(D, S, shares) ==
    IF S = 0 THEN 0 ELSE (shares * D) \div S

-----------------------------------------------------------------------------
(* Interest, utilization and rates. *)

\* Mutated: the product is divided in two steps.
interest_divided_twice(principal, rate_bps, elapsed) ==
    IF elapsed = 0 \/ rate_bps = 0
    THEN 0
    ELSE (((principal * rate_bps + BPS \div 2) \div BPS) * elapsed) \div YEAR

\* Simple interest, rounded to the nearest unit.
calculate_interest(principal, rate_bps, elapsed) ==
    IF elapsed = 0 \/ rate_bps = 0
    THEN 0
    ELSE (principal * rate_bps * elapsed + (BPS * YEAR) \div 2) \div (BPS * YEAR)

\* Borrows / (Cash + Borrows), where cash is what deposits exceed borrows by.
get_utilization_bps(B, D) ==
    lesser(mul_div(B, BPS, saturating_sub(D, B) + B), BPS)

calculate_dynamic_rate(base_rate_bps, multiplier_bps, utilization_bps) ==
    base_rate_bps + (utilization_bps * multiplier_bps) \div BPS

\* set_rate_model admits only 0 < optimal_utilization_bps < BPS, so neither
\* divisor below is zero.
two_slope_rate(m, utilization_bps) ==
    LET u == lesser(utilization_bps, BPS)
        optimal == m.optimal_utilization_bps
    IN  m.base_rate_bps +
            IF u <= optimal
            THEN (u * m.slope1_bps) \div optimal
            ELSE m.slope1_bps + ((u - optimal) * m.slope2_bps) \div (BPS - optimal)

-----------------------------------------------------------------------------
(* Late fees: whole days past the end of grace, a flat fee for each day. *)

calculate_late_fee(principal, late_fee_rate_bps, now, grace_end) ==
    IF now <= grace_end
    THEN 0
    ELSE ((now - grace_end) \div DAY) * ((principal * late_fee_rate_bps) \div BPS)

(* Repay splits interest three ways. *)
protocol_share(interest) == (interest * PROTOCOL_INTEREST_BPS) \div BPS
reserve_share(interest) ==
    (protocol_share(interest) * BAD_DEBT_RESERVE_BPS) \div BPS
retained_share(interest) ==
    saturating_sub(protocol_share(interest), reserve_share(interest))
\* Mutated: depositors are credited what the protocol keeps as well.
pool_share_gross(interest) == interest
pool_share(interest) == interest - protocol_share(interest)

(* calculate_interest_split, used by accrue_interest_with_reserve. *)
protocol_interest(interest, reserve_factor_bps) ==
    (interest * reserve_factor_bps) \div BPS
depositor_interest(interest, reserve_factor_bps) ==
    saturating_sub(interest, protocol_interest(interest, reserve_factor_bps))

=============================================================================
