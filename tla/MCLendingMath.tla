--------------------------- MODULE MCLendingMath ---------------------------
(* A grid for LendingMathCheck and YieldMathCheck, with the kink below, at *)
(* and above the middle.                                                   *)
EXTENDS YieldMathCheck

Curve(optimal, slope1, slope2) ==
    [base_rate_bps |-> 2, optimal_utilization_bps |-> optimal,
     slope1_bps |-> slope1, slope2_bps |-> slope2, reserve_factor_bps |-> 1]

Curves == {Curve(1, 3, 7), Curve(10, 4, 0), Curve(16, 5, 20), Curve(19, 0, 9)}

=============================================================================
