-------------------------- MODULE LendingMathCheck --------------------------
(***************************************************************************)
(* The operators of LendingMath against what they are meant to compute, on *)
(* every input of a grid: the single action walks from one grid point to   *)
(* a neighbour.                                                            *)
(***************************************************************************)
EXTENDS LendingMath

CONSTANTS MaxAmount,    \* bound of the amounts and totals
          MaxFactor,    \* bound of rates and times
          Models        \* rate models

\* set_rate_model refuses a kink at 0% and at 100%.
ASSUME GridAssumption ==
    /\ MaxAmount \in Nat /\ MaxFactor \in Nat
    /\ \A m \in Models :
          /\ {m.base_rate_bps, m.slope1_bps, m.slope2_bps} \subseteq Nat
          /\ m.optimal_utilization_bps \in 1..(BPS - 1)

VARIABLE input

Fields == {"deposits", "shares", "borrowed", "amount", "rate", "time"}
Limit(f) == IF f \in {"rate", "time"} THEN MaxFactor ELSE MaxAmount

Init == input = [f \in Fields |-> 0]

Step(f) == input[f] < Limit(f) /\ input' = [input EXCEPT ![f] = @ + 1]

Next == \E f \in Fields : Step(f)

Spec == Init /\ [][Next]_input

D == input["deposits"]
S == input["shares"]
B == input["borrowed"]
x == input["amount"]
r == input["rate"]
t == input["time"]
u == r * (MaxAmount + 1) + x    \* a utilization, up to past BPS

-----------------------------------------------------------------------------
\* calculate_interest is within half a unit of principal * rate * time.
InterestIsNearest ==
    LET exact == x * r * t
        charged == calculate_interest(x, r, t) * BPS * YEAR
    IN  2 * (exact - charged) <= BPS * YEAR /\ 2 * (charged - exact) <= BPS * YEAR

\* get_utilization_bps stays within [0, BPS], does not fall when more is
\* borrowed, and reaches BPS exactly when nothing is left to lend, so that a
\* cap below BPS keeps some deposits unlent.
UtilizationFaithful ==
    LET utilization == get_utilization_bps(B, D) IN
    /\ utilization \in 0..BPS
    /\ utilization <= get_utilization_bps(B + 1, D)
    /\ B > 0 => (utilization = BPS <=> B >= D)

\* The two-slope curve never falls as utilization rises, and it stays
\* between the base rate, base + slope1 at the kink and base + slope1 + slope2
\* at 100%, reaching each of the three exactly there.
TwoSlopeCurveRises ==
    \A m \in Models :
        LET rate(v) == two_slope_rate(m, v)
            kink == m.base_rate_bps + m.slope1_bps
        IN
        /\ rate(u) <= rate(u + 1)
        /\ rate(u) \in m.base_rate_bps..(kink + m.slope2_bps)
        /\ u = 0 => rate(u) = m.base_rate_bps
        /\ u = m.optimal_utilization_bps => rate(u) = kink
        /\ u >= BPS => rate(u) = kink + m.slope2_bps

\* What a borrower is charged follows from the pool's state the way the code's
\* comments say: the interest to the nearest unit, the utilization between 0
\* and 100%, and a rate curve that meets itself at the kink, whatever the
\* order of the divisions in calculate_interest, get_utilization_bps and
\* two_slope_rate.
RatesFaithful == InterestIsNearest /\ UtilizationFaithful /\ TwoSlopeCurveRises

=============================================================================
