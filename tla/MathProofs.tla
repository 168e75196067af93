----------------------------- MODULE MathProofs -----------------------------
(***************************************************************************)
(* The arithmetic of the lending contract and the projections of the       *)
(* inheritance contract, for every amount, rate, time and number of        *)
(* periods, every scale and every limit of the integers.                   *)
(***************************************************************************)
EXTENDS YieldMathCheck, ArithmeticProofs

-----------------------------------------------------------------------------
(* The grid *)

GridTypeOK == input \in [Fields -> Nat]

\* A step raises one field of the input.
LEMMA GridTypes == Spec => []GridTypeOK
<1>1. Init => GridTypeOK
  BY DEF Init, GridTypeOK
<1>2. GridTypeOK /\ [Next]_input => GridTypeOK'
  BY DEF Next, Step, GridTypeOK
<1>3. QED
  BY <1>1, <1>2, PTL DEF Spec

\* The fields, and the numbers made of them, are naturals.
LEMMA GridPoint ==
    ASSUME GridTypeOK
    PROVE  /\ D \in Nat /\ S \in Nat /\ B \in Nat /\ x \in Nat /\ r \in Nat /\ t \in Nat
           /\ u \in Nat /\ principal \in Nat
<1>1. D \in Nat /\ S \in Nat /\ B \in Nat /\ x \in Nat /\ r \in Nat /\ t \in Nat
  BY DEF GridTypeOK, Fields, D, S, B, x, r, t
<1>2. u \in Nat
  <2>1. r * (MaxAmount + 1) \in Nat
    BY <1>1, GridAssumption, MulNat
  <2>2. QED
    BY <1>1, <2>1 DEF u
<1>3. principal \in Nat
  BY <1>1, MulNat DEF principal
<1>4. QED
  BY <1>1, <1>2, <1>3

-----------------------------------------------------------------------------
(* What borrowers are charged *)

\* The quotient of a + d / 2 by d is a / d to the nearest unit.
LEMMA NearestQuotient ==
    ASSUME NEW a \in Nat, NEW d \in Nat, d > 0
    PROVE  LET q == (a + d \div 2) \div d
           IN  /\ q \in Nat
               /\ 2 * (a - q * d) <= d
               /\ 2 * (q * d - a) <= d
<1> DEFINE h == d \div 2
           q == (a + h) \div d
<1>1. h \in Nat /\ h * 2 <= d /\ d < h * 2 + 2
  BY DivFloor
<1> HIDE DEF h
<1>2. a + h \in Nat
  BY <1>1
<1>3. q \in Nat /\ q * d <= a + h /\ a + h < q * d + d
  BY <1>2, DivFloor
<1> HIDE DEF q
<1>4. q * d \in Nat
  BY <1>3, MulNat
<1> DEFINE w == q * d
<1>5. 2 * (a - w) <= d /\ 2 * (w - a) <= d
  <2>1. w \in Nat /\ w <= a + h /\ a + h < w + d
    BY <1>3, <1>4
  <2> HIDE DEF w
  <2>2. QED
    BY <1>1, <2>1
<1>6. QED
  BY <1>3, <1>5 DEF q, h

LEMMA InterestNearest ==
    ASSUME GridTypeOK
    PROVE  InterestIsNearest
<1>1. x \in Nat /\ r \in Nat /\ t \in Nat
  BY GridPoint
<1> HIDE DEF x, r, t
<1>2. BPS \in Nat /\ BPS > 0 /\ YEAR \in Nat /\ YEAR > 0
  BY MathAssumption
<1> DEFINE N == x * r * t
           M == BPS * YEAR
           charge == calculate_interest(x, r, t)
<1>3. N \in Nat /\ M \in Nat /\ M > 0
  <2>1. x * r \in Nat
    BY <1>1, MulNat
  <2>2. BPS * YEAR > 0
    BY <1>2
  <2>3. QED
    BY <1>1, <1>2, <2>1, <2>2, MulNat
<1>4. charge \in Nat /\ 2 * (N - charge * M) <= M /\ 2 * (charge * M - N) <= M
  <2>1. CASE t = 0 \/ r = 0
    <3>1. charge = 0 /\ N = 0
      BY <1>1, <2>1 DEF calculate_interest
    <3> HIDE DEF N, M, charge
    <3>2. QED
      BY <1>3, <3>1
  <2>2. CASE ~(t = 0 \/ r = 0)
    <3>1. charge = (N + M \div 2) \div M
      BY <2>2 DEF calculate_interest
    <3> HIDE DEF N, M, charge
    <3>2. QED
      BY <1>3, <3>1, NearestQuotient
  <2>3. QED
    BY <2>1, <2>2
<1>5. charge * BPS * YEAR = charge * M
  <2> HIDE DEF charge
  <2>1. QED
    BY <1>2, <1>4
<1>6. QED
  <2> HIDE DEF charge, N, M
  <2>1. 2 * (N - charge * BPS * YEAR) <= M /\ 2 * (charge * BPS * YEAR - N) <= M
    BY <1>4, <1>5
  <2>2. QED
    BY <2>1 DEF InterestIsNearest, charge, N, M

\* With fewer borrows than deposits the utilization is their ratio, rounded
\* down; with as many or more it is 100%.
LEMMA UtilizationIs ==
    ASSUME NEW b \in Nat, NEW d \in Nat
    PROVE  get_utilization_bps(b, d) =
              IF b < d THEN (b * BPS) \div d ELSE IF b = 0 THEN 0 ELSE BPS
<1>1. BPS \in Nat /\ BPS > 0
  BY MathAssumption
<1>2. CASE b < d
  <2>1. saturating_sub(d, b) + b = d /\ d # 0
    BY <1>2 DEF saturating_sub
  <2>2. mul_div(b, BPS, saturating_sub(d, b) + b) = (b * BPS) \div d
    BY <2>1 DEF mul_div
  <2>3. (b * BPS) \div d <= BPS
    <3>1. (BPS * b) \div d <= BPS
      BY <1>1, <1>2, PartAtMost
    <3>2. BPS * b = b * BPS
      BY <1>1
    <3>3. QED
      BY <3>1, <3>2
  <2>4. QED
    BY <1>2, <2>2, <2>3 DEF get_utilization_bps, lesser
<1>3. CASE ~(b < d) /\ b # 0
  <2>1. saturating_sub(d, b) + b = b
    BY <1>3 DEF saturating_sub
  <2>2. mul_div(b, BPS, saturating_sub(d, b) + b) = (b * BPS) \div b
    BY <1>3, <2>1 DEF mul_div
  <2>3. b * BPS = BPS * b
    BY <1>1
  <2>4. (BPS * b) \div b = BPS
    BY <1>1, <1>3, DivExact
  <2>5. mul_div(b, BPS, saturating_sub(d, b) + b) = BPS
    BY <2>2, <2>3, <2>4
  <2>6. QED
    BY <1>1, <1>3, <2>5 DEF get_utilization_bps, lesser
<1>4. CASE ~(b < d) /\ b = 0
  <2>1. saturating_sub(d, b) + b = 0
    BY <1>4 DEF saturating_sub
  <2>2. mul_div(b, BPS, saturating_sub(d, b) + b) = 0
    BY <2>1 DEF mul_div
  <2>3. QED
    BY <1>1, <1>4, <2>2 DEF get_utilization_bps, lesser
<1>5. QED
  BY <1>2, <1>3, <1>4

\* Below the deposits a further unit borrowed does not lower the ratio, and
\* the ratio does not reach 100%.
LEMMA UtilizationBelow ==
    ASSUME NEW b \in Nat, NEW d \in Nat, b < d
    PROVE  /\ (b * BPS) \div d \in 0..(BPS - 1)
           /\ (b * BPS) \div d <= ((b + 1) * BPS) \div d
<1>1. BPS \in Nat /\ BPS > 0
  BY MathAssumption
<1>2. b * BPS \in Nat /\ (b + 1) * BPS \in Nat /\ b * BPS <= (b + 1) * BPS
  BY <1>1, MulNat, MulMono
<1> DEFINE q == (b * BPS) \div d
<1>3. q \in Nat /\ q * d <= b * BPS
  BY <1>2, DivFloor
<1>4. q <= ((b + 1) * BPS) \div d
  BY <1>2, DivMono
<1> HIDE DEF q
<1>5. q < BPS
  <2>1. SUFFICES ASSUME BPS <= q PROVE FALSE
    BY <1>1, <1>3
  <2>2. BPS * d <= q * d
    BY <1>1, <1>3, <2>1, MulMono
  <2>3. (b + 1) * BPS <= d * BPS
    BY <1>1, MulMono
  <2>4. (b + 1) * BPS = b * BPS + BPS /\ d * BPS = BPS * d
    BY <1>1
  <2>5. d * BPS \in Nat /\ q * d \in Nat
    BY <1>1, <1>3, MulNat
  <2>6. QED
    BY <1>1, <1>2, <1>3, <2>2, <2>3, <2>4, <2>5
<1>6. QED
  BY <1>1, <1>3, <1>4, <1>5 DEF q

LEMMA UtilizationIsFaithful ==
    ASSUME GridTypeOK
    PROVE  UtilizationFaithful
<1>1. B \in Nat /\ D \in Nat
  BY GridPoint
<1> HIDE DEF B, D
<1>2. BPS \in Nat /\ BPS > 0
  BY MathAssumption
<1> DEFINE now == get_utilization_bps(B, D)
           later == get_utilization_bps(B + 1, D)
<1>3. CASE B < D
  <2>1. now = (B * BPS) \div D
    BY <1>1, <1>3, UtilizationIs
  <2>2. later = IF B + 1 < D THEN ((B + 1) * BPS) \div D ELSE BPS
    BY <1>1, UtilizationIs
  <2> HIDE DEF now, later
  <2>3. now \in 0..(BPS - 1) /\ now <= ((B + 1) * BPS) \div D
    BY <1>1, <1>3, <2>1, UtilizationBelow
  <2>4. now <= later
    BY <1>2, <2>2, <2>3
  <2>5. now \in 0..BPS /\ now # BPS
    BY <1>2, <2>3
  <2>6. QED
    BY <1>1, <1>3, <2>4, <2>5 DEF UtilizationFaithful, now, later
<1>4. CASE ~(B < D)
  <2>1. now = IF B = 0 THEN 0 ELSE BPS
    BY <1>1, <1>4, UtilizationIs
  <2>2. later = BPS
    BY <1>1, <1>4, UtilizationIs
  <2> HIDE DEF now, later
  <2>3. now \in 0..BPS /\ now <= later /\ (B > 0 => now = BPS) /\ B >= D
    BY <1>1, <1>2, <1>4, <2>1, <2>2
  <2>4. QED
    BY <2>3 DEF UtilizationFaithful, now, later
<1>5. QED
  BY <1>3, <1>4

\* A slope rises with the way gone on it, from nothing to its full height.
LEMMA SlopeRises ==
    ASSUME NEW height \in Nat, NEW width \in Nat, width > 0,
           NEW a \in 0..width, NEW b \in 0..width, a <= b
    PROVE  /\ (a * height) \div width \in 0..height
           /\ (a * height) \div width <= (b * height) \div width
           /\ a = 0 => (a * height) \div width = 0
           /\ a = width => (a * height) \div width = height
<1>1. a \in Nat /\ b \in Nat /\ a * height = height * a
  OBVIOUS
<1>2. (a * height) \div width \in 0..height
  <2>1. (height * a) \div width \in Nat /\ (height * a) \div width <= height
    BY PartAtMost
  <2>2. QED
    BY <1>1, <2>1
<1>3. (a * height) \div width <= (b * height) \div width
  BY <1>1, MulMono, MulNat, DivMono
<1>4. ASSUME a = 0 PROVE (a * height) \div width = 0
  <2>1. a * height = 0 * width
    BY <1>4
  <2>2. QED
    BY <2>1, DivExact
<1>5. ASSUME a = width PROVE (a * height) \div width = height
  <2>1. a * height = height * width
    BY <1>5
  <2>2. QED
    BY <2>1, DivExact
<1>6. QED
  BY <1>2, <1>3, <1>4, <1>5

\* The two-slope curve at a utilization, and at one that is no lower.
LEMMA CurveRises ==
    ASSUME NEW m \in Models, NEW v \in Nat, NEW w \in Nat, v <= w
    PROVE  LET kink == m.base_rate_bps + m.slope1_bps IN
           /\ two_slope_rate(m, v) <= two_slope_rate(m, w)
           /\ two_slope_rate(m, v) \in m.base_rate_bps..(kink + m.slope2_bps)
           /\ v = 0 => two_slope_rate(m, v) = m.base_rate_bps
           /\ v = m.optimal_utilization_bps => two_slope_rate(m, v) = kink
           /\ v >= BPS => two_slope_rate(m, v) = kink + m.slope2_bps
<1> DEFINE base == m.base_rate_bps
           s1 == m.slope1_bps
           s2 == m.slope2_bps
           o == m.optimal_utilization_bps
           a == lesser(v, BPS)
           b == lesser(w, BPS)
           low(c) == (c * s1) \div o
           high(c) == ((c - o) * s2) \div (BPS - o)
<1>1. /\ base \in Nat /\ s1 \in Nat /\ s2 \in Nat
      /\ o \in Nat /\ 0 < o /\ o < BPS /\ BPS \in Nat
  BY GridAssumption, MathAssumption
<1>2. /\ a \in 0..BPS /\ b \in 0..BPS /\ a <= b
      /\ v = 0 => a = 0
      /\ v = o => a = o
      /\ v >= BPS => a = BPS
  BY <1>1 DEF lesser
<1>3. /\ two_slope_rate(m, v) = base + IF a <= o THEN low(a) ELSE s1 + high(a)
      /\ two_slope_rate(m, w) = base + IF b <= o THEN low(b) ELSE s1 + high(b)
  BY DEF two_slope_rate
<1>4. ASSUME NEW c \in 0..o, NEW d \in 0..o, c <= d
      PROVE  /\ low(c) \in 0..s1 /\ low(c) <= low(d)
             /\ c = 0 => low(c) = 0
             /\ c = o => low(c) = s1
  BY <1>1, <1>4, SlopeRises
<1>5. ASSUME NEW c \in o..BPS, NEW d \in o..BPS, c <= d
      PROVE  /\ high(c) \in 0..s2 /\ high(c) <= high(d)
             /\ c = BPS => high(c) = s2
  <2> DEFINE i == c - o
             j == d - o
             k == BPS - o
  <2>1. i \in 0..k /\ j \in 0..k /\ i <= j /\ k \in Nat /\ k > 0 /\ (c = BPS <=> i = k)
    BY <1>1, <1>5
  <2> HIDE DEF i, j, k
  <2>2. /\ (i * s2) \div k \in 0..s2 /\ (i * s2) \div k <= (j * s2) \div k
        /\ i = k => (i * s2) \div k = s2
    BY <1>1, <2>1, SlopeRises
  <2>3. QED
    BY <2>1, <2>2 DEF i, j, k
<1> HIDE DEF low, high
<1> DEFINE rate1 == two_slope_rate(m, v)
           rate2 == two_slope_rate(m, w)
<1>6. CASE b <= o
  <2>1. a \in 0..o /\ b \in 0..o
    BY <1>1, <1>2, <1>6
  <2>2. /\ low(a) \in 0..s1 /\ low(a) <= low(b) /\ low(b) \in 0..s1
        /\ a = 0 => low(a) = 0
        /\ a = o => low(a) = s1
    BY <1>2, <1>4, <2>1
  <2>3. rate1 = base + low(a) /\ rate2 = base + low(b) /\ a # BPS
    BY <1>1, <1>3, <2>1
  <2> HIDE DEF a, b, base, s1, s2, o, rate1, rate2
  <2>4. /\ rate1 <= rate2 /\ rate1 \in base..(base + s1 + s2)
        /\ v = 0 => rate1 = base
        /\ v = o => rate1 = base + s1
        /\ v >= BPS => rate1 = base + s1 + s2
    BY <1>1, <1>2, <2>2, <2>3
  <2>5. QED
    BY <2>4 DEF base, s1, s2, o, rate1, rate2
<1>7. CASE a <= o /\ ~(b <= o)
  <2>1. a \in 0..o /\ b \in o..BPS
    BY <1>1, <1>2, <1>7
  <2>2. /\ low(a) \in 0..s1 /\ high(b) \in 0..s2
        /\ a = 0 => low(a) = 0
        /\ a = o => low(a) = s1
    BY <1>2, <1>4, <1>5, <2>1
  <2>3. rate1 = base + low(a) /\ rate2 = base + (s1 + high(b)) /\ a # BPS
    BY <1>1, <1>3, <1>7
  <2> HIDE DEF a, b, base, s1, s2, o, rate1, rate2
  <2>4. /\ rate1 <= rate2 /\ rate1 \in base..(base + s1 + s2)
        /\ v = 0 => rate1 = base
        /\ v = o => rate1 = base + s1
        /\ v >= BPS => rate1 = base + s1 + s2
    BY <1>1, <1>2, <2>2, <2>3
  <2>5. QED
    BY <2>4 DEF base, s1, s2, o, rate1, rate2
<1>8. CASE ~(a <= o)
  <2>1. a \in o..BPS /\ b \in o..BPS /\ ~(b <= o)
    BY <1>1, <1>2, <1>8
  <2>2. /\ high(a) \in 0..s2 /\ high(b) \in 0..s2 /\ high(a) <= high(b)
        /\ a = BPS => high(a) = s2
    BY <1>2, <1>5, <2>1
  <2>3. rate1 = base + (s1 + high(a)) /\ rate2 = base + (s1 + high(b)) /\ a # 0 /\ a # o
    BY <1>1, <1>3, <1>8, <2>1
  <2> HIDE DEF a, b, base, s1, s2, o, rate1, rate2
  <2>4. /\ rate1 <= rate2 /\ rate1 \in base..(base + s1 + s2)
        /\ v = 0 => rate1 = base
        /\ v = o => rate1 = base + s1
        /\ v >= BPS => rate1 = base + s1 + s2
    BY <1>1, <1>2, <2>2, <2>3
  <2>5. QED
    BY <2>4 DEF base, s1, s2, o, rate1, rate2
<1>9. QED
  BY <1>6, <1>7, <1>8

LEMMA TwoSlopeCurve ==
    ASSUME GridTypeOK
    PROVE  TwoSlopeCurveRises
<1>1. u \in Nat
  BY GridPoint
<1> HIDE DEF u
<1>2. u + 1 \in Nat /\ u <= u + 1
  BY <1>1
<1>3. QED
  BY <1>1, <1>2, CurveRises DEF TwoSlopeCurveRises

\* Interest is charged to the nearest unit, the utilization is a ratio, and
\* the two-slope curve rises through its kink, for every input there is.
THEOREM RatesAreFaithful == Spec => []RatesFaithful
<1>1. GridTypeOK => RatesFaithful
  BY InterestNearest, UtilizationIsFaithful, TwoSlopeCurve DEF RatesFaithful
<1>2. QED
  BY <1>1, GridTypes, PTL

-----------------------------------------------------------------------------
(* Powers *)

\* The recursion of powers has a solution, so powers is it.
LEMMA PowersFacts ==
    ASSUME NEW b \in Nat
    PROVE  /\ powers(b)[0] = 1
           /\ \A n \in Nat : /\ powers(b)[n] \in Nat
                             /\ powers(b)[n+1] = b * powers(b)[n]
<1> DEFINE IsPower(p) == p = [n \in Nat |-> IF n = 0 THEN 1 ELSE b * p[n-1]]
           one == 1
           times == [v \in Nat |-> b * v]
           power == powers(b)
<1>1. IsPower(power)
  <2>1. one \in Nat /\ times \in [Nat -> Nat]
    BY MulNat
  <2> HIDE DEF one, times
  <2>2. PICK p \in [Nat -> Nat] : IsIteration(p, one, times)
    BY <2>1, IterationExists
  <2>3. IsPower(p)
    <3>1. ASSUME NEW n \in Nat PROVE p[n] = IF n = 0 THEN 1 ELSE b * p[n-1]
      <4>1. n # 0 => p[n-1] \in Nat
        OBVIOUS
      <4>2. QED
        BY <2>2, <4>1 DEF IsIteration, one, times
    <3>2. QED
      BY <3>1
  <2>4. power = CHOOSE q : IsPower(q)
    BY DEF powers
  <2>5. QED
    <3> HIDE DEF IsPower, power
    <3>1. QED
      BY <2>3, <2>4
<1> HIDE DEF power
<1>2. power[0] = 1
  BY <1>1
<1>3. \A n \in Nat : power[n+1] = b * power[n]
  <2>1. ASSUME NEW n \in Nat PROVE power[n+1] = b * power[n]
    <3>1. n + 1 \in Nat /\ n + 1 # 0 /\ (n + 1) - 1 = n
      OBVIOUS
    <3>2. power[n+1] = IF n + 1 = 0 THEN 1 ELSE b * power[(n+1)-1]
      BY <1>1, <3>1
    <3>3. QED
      BY <3>1, <3>2
  <2>2. QED
    BY <2>1
<1>4. \A n \in Nat : power[n] \in Nat
  <2> DEFINE T == {n \in Nat : power[n] \in Nat}
  <2>1. 0 \in T
    BY <1>2
  <2>2. \A n \in T : n + 1 \in T
    BY <1>3, MulNat
  <2>3. QED
    BY <2>1, <2>2, InductionOver
<1>5. QED
  BY <1>2, <1>3, <1>4 DEF power

\* A power of a positive number is positive.
LEMMA PowersPositive ==
    ASSUME NEW b \in Nat, b > 0, NEW n \in Nat
    PROVE  powers(b)[n] > 0
<1> DEFINE T == {k \in Nat : powers(b)[k] > 0}
<1>1. 0 \in T
  BY PowersFacts
<1>2. ASSUME NEW k \in T PROVE k + 1 \in T
  <2>1. powers(b)[k] \in Nat /\ powers(b)[k] > 0 /\ powers(b)[k+1] = b * powers(b)[k]
    BY PowersFacts
  <2>2. b * powers(b)[k] > 0
    BY <2>1
  <2>3. QED
    BY <2>1, <2>2
<1>3. T \in SUBSET Nat
  OBVIOUS
<1>4. \A k \in Nat : k \in T
  <2> HIDE DEF T
  <2>1. QED
    BY <1>1, <1>2, <1>3, InductionOver
<1>5. QED
  BY <1>4

\* The power of a sum is the product of the powers.
LEMMA PowersOfSum ==
    ASSUME NEW b \in Nat, NEW m \in Nat, NEW n \in Nat
    PROVE  powers(b)[m+n] = powers(b)[m] * powers(b)[n]
<1> DEFINE T == {k \in Nat : powers(b)[m+k] = powers(b)[m] * powers(b)[k]}
<1>1. 0 \in T
  BY PowersFacts
<1>2. ASSUME NEW k \in T PROVE k + 1 \in T
  <2> DEFINE p == powers(b)[m]
             q == powers(b)[k]
  <2>1. p \in Nat /\ q \in Nat /\ powers(b)[m+k] = p * q
    BY PowersFacts
  <2>2. powers(b)[(m+k)+1] = b * powers(b)[m+k] /\ powers(b)[k+1] = b * q
    BY PowersFacts
  <2>3. (m + k) + 1 = m + (k + 1)
    OBVIOUS
  <2> HIDE DEF p, q
  <2>4. b * (p * q) = p * (b * q)
    BY <2>1
  <2>5. powers(b)[m+(k+1)] = p * powers(b)[k+1]
    BY <2>1, <2>2, <2>3, <2>4
  <2>6. QED
    BY <2>5 DEF p
<1>3. T \in SUBSET Nat
  OBVIOUS
<1>4. \A k \in Nat : k \in T
  <2> HIDE DEF T
  <2>1. QED
    BY <1>1, <1>2, <1>3, InductionOver
<1>5. QED
  BY <1>4

\* The power of a product is the product of the powers.
LEMMA PowersOfProduct ==
    ASSUME NEW a \in Nat, NEW b \in Nat, NEW c \in Nat, c = a * b, NEW n \in Nat
    PROVE  powers(c)[n] = powers(a)[n] * powers(b)[n]
<1> DEFINE T == {k \in Nat : powers(c)[k] = powers(a)[k] * powers(b)[k]}
<1>2. 0 \in T
  BY PowersFacts
<1>3. ASSUME NEW k \in T PROVE k + 1 \in T
  <2> DEFINE p == powers(a)[k]
             q == powers(b)[k]
  <2>1. p \in Nat /\ q \in Nat /\ powers(c)[k] = p * q
    BY PowersFacts
  <2>2. /\ powers(c)[k+1] = c * powers(c)[k]
        /\ powers(a)[k+1] = a * p
        /\ powers(b)[k+1] = b * q
    BY PowersFacts
  <2> HIDE DEF p, q
  <2>3. c * (p * q) = (a * p) * (b * q)
    BY <2>1
  <2>4. QED
    BY <2>1, <2>2, <2>3
<1>4. T \in SUBSET Nat
  OBVIOUS
<1>5. \A k \in Nat : k \in T
  <2> HIDE DEF T
  <2>1. QED
    BY <1>2, <1>3, <1>4, InductionOver
<1>6. QED
  BY <1>5

LEMMA PowersOfSquare ==
    ASSUME NEW a \in Nat, NEW c \in Nat, NEW n \in Nat
    PROVE  c = a * a => powers(c)[n] = powers(a)[n] * powers(a)[n]
<1>1. \A b \in Nat : c = a * b => powers(c)[n] = powers(a)[n] * powers(b)[n]
  BY PowersOfProduct
<1>2. QED
  BY <1>1, Zenon

\* The powers of a larger number are no smaller.
LEMMA PowersMono ==
    ASSUME NEW a \in Nat, NEW b \in Nat, a <= b, NEW n \in Nat
    PROVE  powers(a)[n] <= powers(b)[n]
<1> DEFINE T == {k \in Nat : powers(a)[k] <= powers(b)[k]}
<1>1. 0 \in T
  BY PowersFacts
<1>2. ASSUME NEW k \in T PROVE k + 1 \in T
  <2>1. /\ powers(a)[k] \in Nat /\ powers(b)[k] \in Nat /\ powers(a)[k] <= powers(b)[k]
        /\ powers(a)[k+1] = a * powers(a)[k] /\ powers(b)[k+1] = b * powers(b)[k]
    BY PowersFacts
  <2>2. a * powers(a)[k] <= b * powers(b)[k]
    BY <2>1, MulMonoBoth
  <2>3. QED
    BY <2>1, <2>2
<1>3. T \in SUBSET Nat
  OBVIOUS
<1>4. \A k \in Nat : k \in T
  <2> HIDE DEF T
  <2>1. QED
    BY <1>1, <1>2, <1>3, InductionOver
<1>5. QED
  BY <1>4

-----------------------------------------------------------------------------
(* The loop of pow_factor *)

\* A fixed-point factor, or the error that stands in for one.
Factor == Nat \cup {Y!Err}

Turn == [result : Factor, accumulator : Factor, remaining : Nat]

LEMMA Scale == YIELD_SCALE \in Nat /\ YIELD_SCALE > 0 /\ U128_MAX \in Nat
BY ProjectionAssumption

\* A product of factors is rounded down, unless it overflows.
LEMMA MulFactorFacts ==
    ASSUME NEW a \in Factor, NEW b \in Factor
    PROVE  /\ Y!mul_factor(a, b) \in Factor
           /\ Y!mul_factor(a, b) # Y!Err =>
                /\ a \in Nat /\ b \in Nat /\ a * b \in Nat /\ a * b <= U128_MAX
                /\ Y!mul_factor(a, b) = (a * b) \div YIELD_SCALE
                /\ Y!mul_factor(a, b) \in Nat
                /\ Y!mul_factor(a, b) * YIELD_SCALE <= a * b
<1>1. CASE Y!Err \in {a, b}
  <2>1. Y!mul_factor(a, b) = Y!Err
    BY <1>1 DEF Y!mul_factor
  <2>2. QED
    BY <2>1 DEF Factor
<1>2. CASE Y!Err \notin {a, b}
  <2>1. a \in Nat /\ b \in Nat
    BY <1>2 DEF Factor
  <2> DEFINE p == a * b
  <2>2. p \in Nat
    BY <2>1, MulNat
  <2>3. Y!mul_factor(a, b) = IF p > U128_MAX THEN Y!Err ELSE p \div YIELD_SCALE
    BY <1>2 DEF Y!mul_factor
  <2> HIDE DEF p
  <2>4. p \div YIELD_SCALE \in Nat /\ (p \div YIELD_SCALE) * YIELD_SCALE <= p
    BY <2>2, Scale, DivFloor
  <2>5. /\ Y!mul_factor(a, b) \in Factor
        /\ Y!mul_factor(a, b) # Y!Err =>
             /\ p <= U128_MAX
             /\ Y!mul_factor(a, b) = p \div YIELD_SCALE
    BY <2>2, <2>3, <2>4, Scale DEF Factor
  <2>6. QED
    BY <2>1, <2>2, <2>4, <2>5 DEF p
<1>3. QED
  BY <1>1, <1>2

\* Of a product that does not overflow, no product of smaller factors does.
LEMMA MulFactorMono ==
    ASSUME NEW a \in Nat, NEW b \in Nat, NEW c \in Nat, NEW d \in Nat, a <= c, b <= d,
           Y!mul_factor(c, d) # Y!Err
    PROVE  /\ Y!mul_factor(a, b) # Y!Err
           /\ Y!mul_factor(a, b) <= Y!mul_factor(c, d)
<1> DEFINE p == a * b
           q == c * d
<1>1. p \in Nat /\ q \in Nat /\ p <= q
  BY MulNat, MulMonoBoth
<1>2. c \in Factor /\ d \in Factor
  BY DEF Factor
<1>3. q <= U128_MAX /\ Y!mul_factor(c, d) = q \div YIELD_SCALE
  BY <1>2, MulFactorFacts
<1>4. Y!Err \notin {a, b}
  BY DEF Y!Err
<1>5. Y!mul_factor(a, b) = IF p > U128_MAX THEN Y!Err ELSE p \div YIELD_SCALE
  BY <1>4 DEF Y!mul_factor
<1> HIDE DEF p, q
<1>6. p \div YIELD_SCALE \in Nat /\ p \div YIELD_SCALE <= q \div YIELD_SCALE
  BY <1>1, Scale, DivFloor, DivMono
<1>7. Y!mul_factor(a, b) = p \div YIELD_SCALE
  BY <1>1, <1>3, <1>5, Scale
<1>8. QED
  BY <1>3, <1>6, <1>7 DEF Y!Err

\* Half of a natural, and the bit that halving drops.
LEMMA HalfFacts ==
    ASSUME NEW n \in Nat
    PROVE  /\ n \div 2 \in Nat /\ n % 2 \in {0, 1}
           /\ n = 2 * (n \div 2) + (n % 2)
OBVIOUS

LEMMA TurnType ==
    ASSUME NEW s \in Turn
    PROVE  Y!pow_turn(s) \in Turn
<1>1. s.result \in Factor /\ s.accumulator \in Factor /\ s.remaining \in Nat
  BY DEF Turn
<1>2. /\ Y!mul_factor(s.result, s.accumulator) \in Factor
      /\ Y!mul_factor(s.accumulator, s.accumulator) \in Factor
  BY <1>1, MulFactorFacts
<1>3. s.remaining \div 2 \in Nat
  BY <1>1
<1>4. QED
  BY <1>1, <1>2, <1>3 DEF Y!pow_turn, Turn

\* What a turn makes of each of the loop's variables.
LEMMA TurnFacts ==
    ASSUME NEW s \in Turn
    PROVE  LET next == Y!pow_turn(s)
               rest == s.remaining \div 2
           IN  /\ next.remaining = rest
               /\ s.remaining % 2 = 1 => next.result = Y!mul_factor(s.result, s.accumulator)
               /\ s.remaining % 2 = 0 => next.result = s.result
               /\ rest = 0 => next.accumulator = s.accumulator
               /\ rest # 0 => next.accumulator = Y!mul_factor(s.accumulator, s.accumulator)
BY DEF Y!pow_turn

LEMMA LoopFacts ==
    ASSUME NEW base \in Nat, NEW n \in Nat
    PROVE  LET loop == Y!pow_loop(base, n) IN
           /\ loop[0] = [result |-> YIELD_SCALE, accumulator |-> base, remaining |-> n]
           /\ \A i \in Nat : loop[i] \in Turn /\ loop[i+1] = Y!pow_turn(loop[i])
<1> DEFINE start == [result |-> YIELD_SCALE, accumulator |-> base, remaining |-> n]
           turn == [s \in Turn |-> Y!pow_turn(s)]
           IsLoop(p) == p = [i \in Nat |-> IF i = 0 THEN start ELSE Y!pow_turn(p[i-1])]
           loop == Y!pow_loop(base, n)
<1>1. start \in Turn
  BY Scale DEF Turn, Factor
<1>2. IsLoop(loop)
  <2>1. turn \in [Turn -> Turn]
    BY TurnType
  <2> HIDE DEF turn, start
  <2>2. PICK p \in [Nat -> Turn] : IsIteration(p, start, turn)
    BY <1>1, <2>1, IterationExists
  <2>3. IsLoop(p)
    <3>1. ASSUME NEW i \in Nat PROVE p[i] = IF i = 0 THEN start ELSE Y!pow_turn(p[i-1])
      <4>1. i # 0 => p[i-1] \in Turn
        OBVIOUS
      <4>2. p[i] = IF i = 0 THEN start ELSE turn[p[i-1]]
        BY <2>2 DEF IsIteration
      <4>3. i # 0 => turn[p[i-1]] = Y!pow_turn(p[i-1])
        BY <4>1 DEF turn
      <4>4. QED
        BY <4>2, <4>3
    <3>2. QED
      BY <3>1
  <2>4. loop = CHOOSE q : IsLoop(q)
    BY DEF Y!pow_loop, start
  <2>5. QED
    <3> HIDE DEF IsLoop, loop
    <3>1. QED
      BY <2>3, <2>4
<1> HIDE DEF loop, start
<1>3. loop[0] = start
  BY <1>2
<1>4. \A i \in Nat : loop[i+1] = Y!pow_turn(loop[i])
  <2>1. ASSUME NEW i \in Nat PROVE loop[i+1] = Y!pow_turn(loop[i])
    <3>1. i + 1 \in Nat /\ i + 1 # 0 /\ (i + 1) - 1 = i
      OBVIOUS
    <3>2. loop[i+1] = IF i + 1 = 0 THEN start ELSE Y!pow_turn(loop[(i+1)-1])
      BY <1>2, <3>1
    <3>3. QED
      BY <3>1, <3>2
  <2>2. QED
    BY <2>1
<1>5. \A i \in Nat : loop[i] \in Turn
  <2> DEFINE T == {i \in Nat : loop[i] \in Turn}
  <2>1. 0 \in T
    BY <1>1, <1>3
  <2>2. \A i \in T : i + 1 \in T
    BY <1>4, TurnType
  <2>3. T \in SUBSET Nat
    OBVIOUS
  <2>4. \A i \in Nat : i \in T
    <3> HIDE DEF T
    <3>1. QED
      BY <2>1, <2>2, <2>3, InductionOver
  <2>5. QED
    BY <2>4
<1>6. QED
  BY <1>3, <1>4, <1>5 DEF loop, start

\* The loop has ended after as many turns as the exponent.
LEMMA LoopEnds ==
    ASSUME NEW base \in Nat, NEW n \in Nat
    PROVE  Y!pow_loop(base, n)[n].remaining = 0
<1> DEFINE loop == Y!pow_loop(base, n)
           T == {i \in Nat : loop[i].remaining = 0 \/ i + loop[i].remaining <= n}
<1>1. /\ loop[0] = [result |-> YIELD_SCALE, accumulator |-> base, remaining |-> n]
      /\ \A i \in Nat : loop[i] \in Turn /\ loop[i+1] = Y!pow_turn(loop[i])
  BY LoopFacts
<1> HIDE DEF loop
<1>2. 0 \in T
  BY <1>1
<1>3. ASSUME NEW i \in T PROVE i + 1 \in T
  <2> DEFINE m == loop[i].remaining
  <2>1. m \in Nat /\ (m = 0 \/ i + m <= n) /\ loop[i+1].remaining = m \div 2
    BY <1>1, TurnFacts DEF Turn
  <2> HIDE DEF m
  <2>2. m \div 2 = 0 \/ (i + 1) + (m \div 2) <= n
    BY <2>1, HalfFacts
  <2>3. QED
    BY <2>1, <2>2
<1>4. T \in SUBSET Nat
  OBVIOUS
<1>5. \A i \in Nat : i \in T
  <2> HIDE DEF T
  <2>1. QED
    BY <1>2, <1>3, <1>4, InductionOver
<1>6. loop[n].remaining \in Nat
  BY <1>1 DEF Turn
<1>7. QED
  BY <1>5, <1>6 DEF loop

\* An error in the result, or in an accumulator still to be used, stays.
Spoilt(s) == s.result = Y!Err \/ (s.accumulator = Y!Err /\ s.remaining > 0)

LEMMA TurnKeepsError ==
    ASSUME NEW s \in Turn, Spoilt(s)
    PROVE  Spoilt(Y!pow_turn(s))
<1> DEFINE next == Y!pow_turn(s)
           half == s.remaining \div 2
<1>1. s.result \in Factor /\ s.accumulator \in Factor /\ s.remaining \in Nat
  BY DEF Turn
<1>2. /\ half \in Nat /\ s.remaining % 2 \in {0, 1}
      /\ s.remaining = 2 * half + (s.remaining % 2)
  BY <1>1, HalfFacts
<1>3. /\ next.remaining = half
      /\ s.remaining % 2 = 1 => next.result = Y!mul_factor(s.result, s.accumulator)
      /\ s.remaining % 2 = 0 => next.result = s.result
      /\ half # 0 => next.accumulator = Y!mul_factor(s.accumulator, s.accumulator)
  BY TurnFacts
<1>4. /\ s.result = Y!Err => Y!mul_factor(s.result, s.accumulator) = Y!Err
      /\ s.accumulator = Y!Err =>
           /\ Y!mul_factor(s.result, s.accumulator) = Y!Err
           /\ Y!mul_factor(s.accumulator, s.accumulator) = Y!Err
  BY DEF Y!mul_factor
<1> HIDE DEF next, half
<1>5. CASE s.result = Y!Err
  BY <1>2, <1>3, <1>4, <1>5 DEF Spoilt, next
<1>6. CASE s.result # Y!Err
  <2>1. s.accumulator = Y!Err /\ s.remaining > 0
    BY <1>6 DEF Spoilt
  <2>2. CASE s.remaining % 2 = 1
    BY <1>3, <1>4, <2>1, <2>2 DEF Spoilt, next
  <2>3. CASE s.remaining % 2 = 0
    <3>1. half > 0
      BY <1>1, <1>2, <2>1, <2>3
    <3>2. QED
      BY <1>2, <1>3, <1>4, <2>1, <3>1 DEF Spoilt, next
  <2>4. QED
    BY <1>2, <2>2, <2>3
<1>7. QED
  BY <1>5, <1>6

\* When the result is a number, every number on the way to it was one.
LEMMA LoopIsSound ==
    ASSUME NEW base \in Nat, NEW n \in Nat, Y!pow_factor(base, n) # Y!Err
    PROVE  \A i \in 0..n : /\ Y!pow_loop(base, n)[i].result \in Nat
                           /\ Y!pow_loop(base, n)[i].accumulator \in Nat
<1> DEFINE loop == Y!pow_loop(base, n)
<1>1. /\ loop[0] = [result |-> YIELD_SCALE, accumulator |-> base, remaining |-> n]
      /\ \A i \in Nat : loop[i] \in Turn /\ loop[i+1] = Y!pow_turn(loop[i])
  BY LoopFacts
<1>2. loop[n].result # Y!Err /\ loop[n].remaining = 0
  BY LoopEnds DEF Y!pow_factor
<1> HIDE DEF loop
<1>3. ASSUME NEW i \in 0..n PROVE ~Spoilt(loop[i])
  <2>1. SUFFICES ASSUME Spoilt(loop[i]) PROVE FALSE
    OBVIOUS
  <2> DEFINE T == {k \in Nat : Spoilt(loop[i + k])}
  <2>2. 0 \in T
    BY <2>1
  <2>3. ASSUME NEW k \in T PROVE k + 1 \in T
    <3>1. i + k \in Nat /\ Spoilt(loop[i+k])
      OBVIOUS
    <3>2. Spoilt(loop[(i+k)+1])
      BY <1>1, <3>1, TurnKeepsError
    <3>3. (i + k) + 1 = i + (k + 1)
      OBVIOUS
    <3>4. QED
      BY <3>2, <3>3
  <2>4. T \in SUBSET Nat
    OBVIOUS
  <2>5. \A k \in Nat : k \in T
    <3> HIDE DEF T
    <3>1. QED
      BY <2>2, <2>3, <2>4, InductionOver
  <2>6. n - i \in Nat /\ i + (n - i) = n
    OBVIOUS
  <2>7. Spoilt(loop[n])
    BY <2>5, <2>6
  <2>8. QED
    BY <1>2, <2>7 DEF Spoilt
<1>4. ASSUME NEW i \in 0..n PROVE loop[i].accumulator \in Nat
  <2> DEFINE T == {k \in Nat : k <= n => loop[k].accumulator \in Nat}
  <2>1. 0 \in T
    BY <1>1
  <2>2. ASSUME NEW k \in T PROVE k + 1 \in T
    <3>1. SUFFICES ASSUME k + 1 <= n PROVE loop[k+1].accumulator \in Nat
      OBVIOUS
    <3>2. loop[k].accumulator \in Nat /\ loop[k] \in Turn /\ loop[k+1] \in Turn
      BY <1>1, <3>1
    <3>3. /\ loop[k+1].remaining = loop[k].remaining \div 2
          /\ loop[k].remaining \div 2 = 0 => loop[k+1].accumulator = loop[k].accumulator
      BY <1>1, <3>2, TurnFacts
    <3>4. CASE loop[k].remaining \div 2 = 0
      BY <3>2, <3>3, <3>4
    <3>5. CASE loop[k].remaining \div 2 # 0
      <4>1. loop[k+1].remaining \in Nat /\ loop[k+1].accumulator \in Factor
        BY <3>2 DEF Turn
      <4>2. loop[k+1].remaining > 0
        BY <3>3, <3>5, <4>1
      <4>3. k + 1 \in 0..n
        BY <3>1
      <4>4. ~Spoilt(loop[k+1])
        BY <1>3, <4>3
      <4>5. loop[k+1].accumulator # Y!Err
        BY <4>2, <4>4 DEF Spoilt
      <4>6. QED
        BY <4>1, <4>5 DEF Factor
    <3>6. QED
      BY <3>4, <3>5
  <2>3. T \in SUBSET Nat
    OBVIOUS
  <2>4. \A k \in Nat : k \in T
    <3> HIDE DEF T
    <3>1. QED
      BY <2>1, <2>2, <2>3, InductionOver
  <2>5. QED
    BY <2>4
<1>5. ASSUME NEW i \in 0..n PROVE loop[i].result \in Nat
  <2>1. loop[i].result \in Factor /\ loop[i].result # Y!Err
    BY <1>1, <1>3 DEF Turn, Spoilt
  <2>2. QED
    BY <2>1 DEF Factor
<1>6. QED
  BY <1>4, <1>5 DEF loop

-----------------------------------------------------------------------------
(* What repeated squaring is worth *)

\* The growth a state of the loop promises: its result times what is left of
\* the power of its accumulator, in units of the scale's powers.
Promise(s) == s.result * powers(s.accumulator)[s.remaining]

\* Each factor of what is promised shrinks by no less than the scale grows.
LEMMA ProductOfBounds ==
    ASSUME NEW a1 \in Nat, NEW b1 \in Nat, NEW a2 \in Nat, NEW b2 \in Nat, NEW c \in Nat,
           a1 <= b1, a2 <= b2
    PROVE  (a1 * a2) * c <= (b1 * b2) * c
<1>1. a1 * a2 <= b1 * b2
  BY MulMonoBoth
<1>2. a1 * a2 \in Nat /\ b1 * b2 \in Nat
  BY MulNat
<1>3. QED
  BY <1>1, <1>2, MulMono

\* A turn does not raise the promise: what it takes off the exponent it pays
\* for in powers of the scale, and rounds down.
LEMMA TurnKeepsPromise ==
    ASSUME NEW s \in Turn, s.result \in Nat, s.accumulator \in Nat,
           Y!pow_turn(s).result \in Nat, Y!pow_turn(s).accumulator \in Nat
    PROVE  Promise(Y!pow_turn(s)) * powers(YIELD_SCALE)[s.remaining]
              <= Promise(s) * powers(YIELD_SCALE)[Y!pow_turn(s).remaining]
<1> DEFINE next == Y!pow_turn(s)
           R == s.result
           A == s.accumulator
           m == s.remaining
           R1 == next.result
           A1 == next.accumulator
           k == m \div 2
           bit == m % 2
           C == YIELD_SCALE
<1>1. /\ R \in Nat /\ A \in Nat /\ m \in Nat /\ R1 \in Nat /\ A1 \in Nat
      /\ R \in Factor /\ A \in Factor
  BY DEF Turn, Factor
<1>2. C \in Nat /\ C > 0
  BY Scale
<1>3. /\ next.remaining = k
      /\ bit = 1 => R1 = Y!mul_factor(R, A)
      /\ bit = 0 => R1 = R
      /\ k # 0 => A1 = Y!mul_factor(A, A)
  BY TurnFacts
<1>4. k \in Nat /\ bit \in {0, 1} /\ m = 2 * k + bit
  BY <1>1, HalfFacts
<1>5. R1 \in Nat /\ A1 \in Nat /\ Y!Err \notin Nat
  BY <1>1 DEF Y!Err
<1>6. bit = 1 => R1 * C <= R * A
  <2> HIDE DEF R, A, R1
  <2>1. QED
    BY <1>1, <1>3, <1>5, MulFactorFacts
<1>7. k # 0 => A1 * C <= A * A
  <2> HIDE DEF A, A1
  <2>1. QED
    BY <1>1, <1>3, <1>5, MulFactorFacts
<1> HIDE DEF R, A, m, R1, A1, k, bit, C, next
\* The result and the bit that this turn uses.
<1>8. R1 * powers(C)[bit] <= R * powers(A)[bit]
  <2>1. CASE bit = 0
    <3>1. powers(C)[bit] = 1 /\ powers(A)[bit] = 1
      BY <1>1, <1>2, <2>1, PowersFacts
    <3>2. QED
      BY <1>1, <1>3, <2>1, <3>1
  <2>2. CASE bit = 1
    <3>1. powers(C)[0+1] = C * powers(C)[0] /\ powers(A)[0+1] = A * powers(A)[0]
      BY <1>1, <1>2, PowersFacts
    <3>2. powers(C)[1] = C /\ powers(A)[1] = A
      BY <1>1, <1>2, <3>1, PowersFacts
    <3>3. QED
      BY <1>6, <2>2, <3>2
  <2>3. QED
    BY <1>4, <2>1, <2>2
\* The square, to the power of what remains.
<1>9. powers(A1)[k] * powers(C)[k] <= powers(A)[k] * powers(A)[k]
  <2>1. CASE k = 0
    <3>1. powers(A1)[k] = 1 /\ powers(C)[k] = 1 /\ powers(A)[k] = 1
      BY <1>1, <1>2, <2>1, PowersFacts
    <3>2. QED
      BY <3>1
  <2>2. CASE k # 0
    <3> DEFINE low == A1 * C
               high == A * A
    <3>1. low \in Nat /\ high \in Nat /\ low <= high /\ low = A1 * C /\ high = A * A
      BY <1>1, <1>2, <1>7, <2>2, MulNat
    <3> HIDE DEF low, high
    <3>2. powers(low)[k] = powers(A1)[k] * powers(C)[k]
      BY <1>1, <1>2, <1>4, <3>1, PowersOfProduct
    <3>3. powers(high)[k] = powers(A)[k] * powers(A)[k]
      BY <1>1, <1>4, <3>1, PowersOfSquare
    <3>4. powers(low)[k] <= powers(high)[k]
      BY <1>4, <3>1, PowersMono
    <3>5. QED
      BY <3>2, <3>3, <3>4
  <2>3. QED
    BY <2>1, <2>2
<1> DEFINE pC == powers(C)[k]
           pA == powers(A)[k]
           pA1 == powers(A1)[k]
           eC == powers(C)[bit]
           eA == powers(A)[bit]
<1>10. pC \in Nat /\ pA \in Nat /\ pA1 \in Nat /\ eC \in Nat /\ eA \in Nat
  BY <1>1, <1>2, <1>4, PowersFacts
\* Powers of m, in powers of k and of the bit.
<1>11. ASSUME NEW b \in Nat
       PROVE  powers(b)[m] = (powers(b)[k] * powers(b)[k]) * powers(b)[bit]
  <2>1. bit \in Nat /\ k + k \in Nat /\ m = (k + k) + bit
    BY <1>4
  <2>2. powers(b)[(k+k)+bit] = powers(b)[k+k] * powers(b)[bit]
    BY <2>1, PowersOfSum
  <2>3. powers(b)[k+k] = powers(b)[k] * powers(b)[k]
    BY <1>4, PowersOfSum
  <2>4. QED
    BY <2>1, <2>2, <2>3
<1>12. powers(C)[m] = (pC * pC) * eC /\ powers(A)[m] = (pA * pA) * eA
  BY <1>1, <1>2, <1>11
<1> HIDE DEF pC, pA, pA1, eC, eA
<1>13. ((R1 * eC) * (pA1 * pC)) * pC <= ((R * eA) * (pA * pA)) * pC
  <2>1. R1 * eC \in Nat /\ R * eA \in Nat /\ pA1 * pC \in Nat /\ pA * pA \in Nat
    BY <1>1, <1>10, MulNat
  <2>2. R1 * eC <= R * eA /\ pA1 * pC <= pA * pA
    BY <1>8, <1>9 DEF pC, pA, pA1, eC, eA
  <2>3. QED
    BY <1>10, <2>1, <2>2, ProductOfBounds
<1>14. /\ (R1 * pA1) * ((pC * pC) * eC) = ((R1 * eC) * (pA1 * pC)) * pC
       /\ (R * ((pA * pA) * eA)) * pC = ((R * eA) * (pA * pA)) * pC
  BY <1>1, <1>10
<1>15. (R1 * pA1) * powers(C)[m] <= (R * powers(A)[m]) * pC
  BY <1>12, <1>13, <1>14
<1>16. Promise(next) = R1 * pA1 /\ Promise(s) = R * powers(A)[m]
  BY <1>3 DEF Promise, R, A, m, R1, A1, pA1
<1>17. QED
  BY <1>3, <1>15, <1>16 DEF next, m, C, pC

\* The promise of the loop, brought to a common denominator, never exceeds
\* the exact power, so neither does the result.
LEMMA GrowthIsNotOverpaid ==
    ASSUME NEW base \in Nat, NEW n \in Nat, Y!pow_factor(base, n) # Y!Err
    PROVE  /\ Y!pow_factor(base, n) \in Nat
           /\ Y!pow_factor(base, n) * powers(YIELD_SCALE)[n] <= YIELD_SCALE * powers(base)[n]
<1> DEFINE loop == Y!pow_loop(base, n)
           C == YIELD_SCALE
           cap == C * powers(base)[n]
           Kept(i) == Promise(loop[i]) * powers(C)[n] <= cap * powers(C)[loop[i].remaining]
           T == {i \in Nat : i <= n => Kept(i)}
<1>1. /\ loop[0] = [result |-> C, accumulator |-> base, remaining |-> n]
      /\ \A i \in Nat : loop[i] \in Turn /\ loop[i+1] = Y!pow_turn(loop[i])
  BY LoopFacts
<1>2. \A i \in 0..n : loop[i].result \in Nat /\ loop[i].accumulator \in Nat
  BY LoopIsSound
<1>3. loop[n].remaining = 0 /\ Y!pow_factor(base, n) = loop[n].result
  BY LoopEnds DEF Y!pow_factor
<1>4. C \in Nat /\ C > 0
  BY Scale
<1> HIDE DEF loop, C
<1>5. cap \in Nat /\ powers(C)[n] \in Nat
  BY <1>4, PowersFacts, MulNat
<1>6. 0 \in T
  <2>1. Promise(loop[0]) = cap /\ loop[0].remaining = n
    BY <1>1 DEF Promise
  <2>2. QED
    <3> HIDE DEF cap
    <3>1. QED
      BY <1>5, <2>1
<1> HIDE DEF cap
<1>7. ASSUME NEW i \in T PROVE i + 1 \in T
  <2>1. SUFFICES ASSUME i + 1 <= n PROVE Kept(i + 1)
    OBVIOUS
  <2> DEFINE s == loop[i]
             z == loop[i+1]
             before == powers(C)[s.remaining]
             after == powers(C)[z.remaining]
             all == powers(C)[n]
  <2>2. i \in 0..n /\ i + 1 \in 0..n /\ Kept(i)
    BY <2>1
  <2>3. s \in Turn /\ z \in Turn /\ z = Y!pow_turn(s)
    BY <1>1
  <2>4. /\ s.result \in Nat /\ s.accumulator \in Nat
        /\ z.result \in Nat /\ z.accumulator \in Nat
        /\ s.remaining \in Nat /\ z.remaining \in Nat
    BY <1>2, <2>2, <2>3 DEF Turn
  <2>5. Promise(s) \in Nat /\ Promise(z) \in Nat
    <3>1. powers(s.accumulator)[s.remaining] \in Nat /\ powers(z.accumulator)[z.remaining] \in Nat
      BY <2>4, PowersFacts
    <3>2. QED
      BY <2>4, <3>1, MulNat DEF Promise
  <2>6. before \in Nat /\ before > 0 /\ after \in Nat /\ all \in Nat
    BY <1>4, <1>5, <2>4, PowersFacts, PowersPositive
  <2>7. Promise(z) * before <= Promise(s) * after
    <3> HIDE DEF s, z
    <3>1. QED
      BY <2>3, <2>4, TurnKeepsPromise DEF before, after, C
  <2>8. Promise(s) * all <= cap * before
    BY <2>2
  <2> DEFINE p == Promise(s)
             q == Promise(z)
  <2> HIDE DEF p, q, before, after, all
  <2>9. (q * all) * before <= (cap * after) * before
    <3>1. p \in Nat /\ q \in Nat
      BY <2>5 DEF p, q
    <3>2. (q * before) * all <= (p * after) * all
      BY <2>6, <2>7, <3>1, MulNat, MulMono DEF p, q
    <3>3. (p * all) * after <= (cap * before) * after
      BY <1>5, <2>6, <2>8, <3>1, MulNat, MulMono DEF p
    <3>4. /\ (q * before) * all = (q * all) * before
          /\ (p * after) * all = (p * all) * after
          /\ (cap * before) * after = (cap * after) * before
      BY <1>5, <2>6, <3>1
    <3>5. /\ (q * all) * before \in Nat /\ (p * all) * after \in Nat
          /\ (cap * after) * before \in Nat
      BY <1>5, <2>6, <3>1, MulNat
    <3>6. QED
      BY <3>2, <3>3, <3>4, <3>5
  <2>10. q * all <= cap * after
    <3>1. q * all \in Nat /\ cap * after \in Nat
      BY <1>5, <2>5, <2>6, MulNat DEF q
    <3>2. QED
      BY <2>6, <2>9, <3>1, MulCancel
  <2>11. QED
    BY <2>10 DEF q, all, after
<1>8. T \in SUBSET Nat
  OBVIOUS
<1>9. \A i \in Nat : i \in T
  <2> HIDE DEF T
  <2>1. QED
    BY <1>6, <1>7, <1>8, InductionOver
<1>10. Promise(loop[n]) * powers(C)[n] <= cap * powers(C)[0]
  BY <1>3, <1>9
<1>11. n \in 0..n /\ loop[n].result \in Nat /\ loop[n].accumulator \in Nat
  BY <1>2
<1>12. powers(C)[0] = 1 /\ powers(loop[n].accumulator)[0] = 1
  BY <1>4, <1>11, PowersFacts
<1>13. Promise(loop[n]) = loop[n].result
  BY <1>3, <1>11, <1>12 DEF Promise
<1>14. loop[n].result * powers(C)[n] <= cap
  BY <1>5, <1>10, <1>12, <1>13
<1>15. QED
  BY <1>3, <1>11, <1>14 DEF cap, C

\* A product with a factor of at least one is no smaller than the other factor.
LEMMA MulFactorAtLeast ==
    ASSUME NEW a \in Nat, NEW b \in Nat, YIELD_SCALE <= b, Y!mul_factor(a, b) # Y!Err
    PROVE  Y!mul_factor(a, b) \in Nat /\ a <= Y!mul_factor(a, b)
<1>1. a \in Factor /\ b \in Factor
  BY DEF Factor
<1>2. /\ a * b \in Nat /\ Y!mul_factor(a, b) \in Nat
      /\ Y!mul_factor(a, b) = (a * b) \div YIELD_SCALE
  BY <1>1, MulFactorFacts
<1>3. a * YIELD_SCALE <= a * b
  BY Scale, MulMonoBoth
<1>4. a <= (a * b) \div YIELD_SCALE
  <2> DEFINE p == a * b
  <2>1. p \in Nat /\ a * YIELD_SCALE <= p
    BY <1>2, <1>3
  <2> HIDE DEF p
  <2>2. a <= p \div YIELD_SCALE
    BY <2>1, Scale, DivAtLeast
  <2>3. QED
    BY <2>2 DEF p
<1>5. QED
  BY <1>2, <1>4

\* A factor of at least one does not shrink what it is applied to.
LEMMA GrowthIsNoLoss ==
    ASSUME NEW base \in Nat, YIELD_SCALE <= base, NEW n \in Nat,
           Y!pow_factor(base, n) # Y!Err
    PROVE  YIELD_SCALE <= Y!pow_factor(base, n)
<1> DEFINE loop == Y!pow_loop(base, n)
           Grows(i) == YIELD_SCALE <= loop[i].result /\ YIELD_SCALE <= loop[i].accumulator
           T == {i \in Nat : i <= n => Grows(i)}
<1>1. /\ loop[0] = [result |-> YIELD_SCALE, accumulator |-> base, remaining |-> n]
      /\ \A i \in Nat : loop[i] \in Turn /\ loop[i+1] = Y!pow_turn(loop[i])
  BY LoopFacts
<1>2. \A i \in 0..n : loop[i].result \in Nat /\ loop[i].accumulator \in Nat
  BY LoopIsSound
<1>3. Y!pow_factor(base, n) = loop[n].result
  BY DEF Y!pow_factor
<1> HIDE DEF loop
<1>4. 0 \in T
  BY <1>1, Scale
<1>5. ASSUME NEW i \in T PROVE i + 1 \in T
  <2>1. SUFFICES ASSUME i + 1 <= n PROVE Grows(i + 1)
    OBVIOUS
  <2> DEFINE R == loop[i].result
             A == loop[i].accumulator
             m == loop[i].remaining
             R1 == loop[i+1].result
             A1 == loop[i+1].accumulator
  <2>2. i \in 0..n /\ i + 1 \in 0..n /\ YIELD_SCALE <= R /\ YIELD_SCALE <= A
    BY <2>1
  <2>3. /\ R \in Nat /\ A \in Nat /\ R1 \in Nat /\ A1 \in Nat /\ m \in Nat
        /\ R1 # Y!Err /\ A1 # Y!Err
    BY <1>1, <1>2, <2>2 DEF Turn, Y!Err
  <2>4. /\ m % 2 = 1 => R1 = Y!mul_factor(R, A)
        /\ m % 2 = 0 => R1 = R
        /\ m \div 2 = 0 => A1 = A
        /\ m \div 2 # 0 => A1 = Y!mul_factor(A, A)
    BY <1>1, TurnFacts
  <2> HIDE DEF R, A, m, R1, A1
  <2>5. m % 2 \in {0, 1}
    BY <2>3, HalfFacts
  <2>6. R <= R1
    <3>1. CASE m % 2 = 1
      BY <2>2, <2>3, <2>4, <3>1, MulFactorAtLeast
    <3>2. CASE m % 2 = 0
      BY <2>3, <2>4, <3>2
    <3>3. QED
      BY <2>5, <3>1, <3>2
  <2>7. A <= A1
    <3>1. CASE m \div 2 = 0
      BY <2>3, <2>4, <3>1
    <3>2. CASE m \div 2 # 0
      BY <2>2, <2>3, <2>4, <3>2, MulFactorAtLeast
    <3>3. QED
      BY <3>1, <3>2
  <2>8. YIELD_SCALE <= R1 /\ YIELD_SCALE <= A1
    BY <2>2, <2>3, <2>6, <2>7, Scale
  <2>9. QED
    BY <2>8 DEF R1, A1
<1>6. T \in SUBSET Nat
  OBVIOUS
<1>7. \A i \in Nat : i \in T
  <2> HIDE DEF T
  <2>1. QED
    BY <1>4, <1>5, <1>6, InductionOver
<1>8. QED
  BY <1>3, <1>7

\* How the loop for one period less (k) compares with the loop for n (s):
\* while the low bits of n are zero it gathers them all, and stays below the
\* accumulator; from its lowest one on, both use the same bits.
Behind(k, s) ==
    /\ k.result \in Nat
    /\ k.remaining > 0 => k.accumulator = s.accumulator
    /\ \/ /\ s.remaining > 0
          /\ k.remaining = s.remaining - 1
          /\ s.result = YIELD_SCALE
          /\ k.result <= s.accumulator
       \/ /\ k.remaining = s.remaining
          /\ k.result <= s.result

\* The scale times a factor is that factor.
LEMMA MulFactorOne ==
    ASSUME NEW a \in Nat, Y!mul_factor(YIELD_SCALE, a) # Y!Err
    PROVE  Y!mul_factor(YIELD_SCALE, a) = a
<1>1. a \in Factor /\ YIELD_SCALE \in Factor
  BY Scale DEF Factor
<1>2. Y!mul_factor(YIELD_SCALE, a) = (YIELD_SCALE * a) \div YIELD_SCALE
  BY <1>1, MulFactorFacts
<1>3. YIELD_SCALE * a = a * YIELD_SCALE
  BY Scale
<1>4. (a * YIELD_SCALE) \div YIELD_SCALE = a
  BY Scale, DivExact
<1>5. QED
  BY <1>2, <1>3, <1>4

LEMMA TurnKeepsBehind ==
    ASSUME NEW k \in Turn, NEW s \in Turn, Behind(k, s),
           s.result \in Nat, s.accumulator \in Nat,
           Y!pow_turn(s).result \in Nat, Y!pow_turn(s).accumulator \in Nat
    PROVE  Behind(Y!pow_turn(k), Y!pow_turn(s))
<1> DEFINE k1 == Y!pow_turn(k)
           s1 == Y!pow_turn(s)
           A == s.accumulator
<1>1. /\ k.remaining \in Nat /\ s.remaining \in Nat /\ A \in Nat
      /\ k.result \in Nat /\ s.result \in Nat
  BY DEF Turn, Behind
<1>2. /\ k1.remaining = k.remaining \div 2
      /\ k.remaining % 2 = 1 => k1.result = Y!mul_factor(k.result, k.accumulator)
      /\ k.remaining % 2 = 0 => k1.result = k.result
      /\ k.remaining \div 2 # 0 =>
            k1.accumulator = Y!mul_factor(k.accumulator, k.accumulator)
  BY TurnFacts
<1>3. /\ s1.remaining = s.remaining \div 2
      /\ s.remaining % 2 = 1 => s1.result = Y!mul_factor(s.result, A)
      /\ s.remaining % 2 = 0 => s1.result = s.result
      /\ s.remaining \div 2 # 0 => s1.accumulator = Y!mul_factor(A, A)
  BY TurnFacts
<1>4. /\ s.remaining \div 2 \in Nat /\ s.remaining % 2 \in {0, 1}
      /\ s.remaining = 2 * (s.remaining \div 2) + (s.remaining % 2)
      /\ k.remaining \div 2 \in Nat /\ k.remaining % 2 \in {0, 1}
      /\ k.remaining = 2 * (k.remaining \div 2) + (k.remaining % 2)
  BY <1>1, HalfFacts
<1>5. s1.result \in Nat /\ s1.accumulator \in Nat /\ Y!Err \notin Nat
  BY DEF Y!Err
<1> HIDE DEF k1, s1, A
\* The accumulators stay together while the shorter loop uses its own.
<1>6. ASSUME k1.remaining > 0, s1.remaining > 0
      PROVE  k1.accumulator = s1.accumulator
  <2>1. k.remaining > 0
    BY <1>1, <1>2, <1>4, <1>6
  <2>2. k.accumulator = A
    BY <2>1 DEF Behind, A
  <2>3. QED
    BY <1>2, <1>3, <1>6, <2>2
<1>7. CASE /\ s.remaining > 0
           /\ k.remaining = s.remaining - 1
           /\ s.result = YIELD_SCALE
           /\ k.result <= A
  <2>1. CASE s.remaining % 2 = 1
    <3>1. k.remaining % 2 = 0 /\ k1.remaining = s1.remaining
      BY <1>1, <1>2, <1>3, <1>4, <1>7, <2>1
    <3>2. s1.result = A
      BY <1>1, <1>3, <1>5, <1>7, <2>1, MulFactorOne
    <3>3. k1.result = k.result
      BY <1>2, <3>1
    <3>4. k1.remaining > 0 => k1.accumulator = s1.accumulator
      BY <1>6, <3>1
    <3>5. QED
      BY <1>1, <1>7, <3>1, <3>2, <3>3, <3>4 DEF Behind, k1, s1
  <2>2. CASE s.remaining % 2 = 0
    <3>1. /\ k.remaining % 2 = 1 /\ k.remaining > 0
          /\ s1.remaining > 0 /\ k1.remaining = s1.remaining - 1
      <4> DEFINE h == k.remaining \div 2
                 j == s.remaining \div 2
                 bit == k.remaining % 2
      <4>1. /\ h \in Nat /\ j \in Nat /\ bit \in {0, 1}
            /\ s.remaining = 2 * j /\ k.remaining = 2 * h + bit
        BY <1>4, <2>2
      <4> HIDE DEF h, j, bit
      <4>2. j > 0 /\ bit = 1 /\ h = j - 1
        BY <1>1, <1>7, <4>1
      <4>3. QED
        BY <1>1, <1>2, <1>3, <4>1, <4>2 DEF h, j, bit
    <3>2. k.accumulator = A
      BY <3>1 DEF Behind, A
    <3>3. k1.result = Y!mul_factor(k.result, A)
      BY <1>2, <3>1, <3>2
    <3>4. s1.accumulator = Y!mul_factor(A, A) /\ s1.result = YIELD_SCALE
      BY <1>3, <1>7, <2>2, <3>1
    <3>5. k1.result # Y!Err /\ k1.result <= s1.accumulator
      BY <1>1, <1>5, <1>7, <3>3, <3>4, MulFactorMono
    <3>6. k1.result \in Nat
      <4>1. k.result \in Factor /\ A \in Factor
        BY <1>1 DEF Factor
      <4>2. QED
        BY <3>3, <3>5, <4>1, MulFactorFacts
    <3>7. k1.remaining > 0 => k1.accumulator = s1.accumulator
      BY <1>6, <3>1
    <3>8. QED
      BY <3>1, <3>4, <3>5, <3>6, <3>7 DEF Behind, k1, s1
  <2>3. QED
    BY <1>4, <2>1, <2>2
<1>8. CASE k.remaining = s.remaining /\ k.result <= s.result
  <2>1. k1.remaining = s1.remaining
    BY <1>2, <1>3, <1>8
  <2>2. k1.result \in Nat /\ k1.result <= s1.result
    <3>1. CASE s.remaining % 2 = 1
      <4>1. k.remaining > 0
        BY <1>1, <1>4, <1>8, <3>1
      <4>2. k.accumulator = A
        BY <4>1 DEF Behind, A
      <4>3. k1.result = Y!mul_factor(k.result, A) /\ s1.result = Y!mul_factor(s.result, A)
        BY <1>2, <1>3, <1>8, <3>1, <4>2
      <4>4. k1.result # Y!Err /\ k1.result <= s1.result
        BY <1>1, <1>5, <1>8, <4>3, MulFactorMono
      <4>5. k.result \in Factor /\ A \in Factor
        BY <1>1 DEF Factor
      <4>6. QED
        BY <4>3, <4>4, <4>5, MulFactorFacts
    <3>2. CASE s.remaining % 2 = 0
      BY <1>1, <1>2, <1>3, <1>8, <3>2
    <3>3. QED
      BY <1>4, <3>1, <3>2
  <2>3. k1.remaining > 0 => k1.accumulator = s1.accumulator
    BY <1>6, <2>1
  <2>4. QED
    BY <2>1, <2>2, <2>3 DEF Behind, k1, s1
<1>9. QED
  BY <1>7, <1>8 DEF Behind, A

\* With one period less the growth is still a number, and no larger.
LEMMA GrowthRises ==
    ASSUME NEW base \in Nat, YIELD_SCALE <= base, NEW n \in Nat, n > 0,
           Y!pow_factor(base, n) # Y!Err
    PROVE  /\ Y!pow_factor(base, n - 1) \in Nat
           /\ Y!pow_factor(base, n - 1) <= Y!pow_factor(base, n)
<1> DEFINE long == Y!pow_loop(base, n)
           short == Y!pow_loop(base, n - 1)
           T == {i \in Nat : i <= n => Behind(short[i], long[i])}
<1>1. n - 1 \in Nat /\ n \in 0..n
  OBVIOUS
<1>2. /\ long[0] = [result |-> YIELD_SCALE, accumulator |-> base, remaining |-> n]
      /\ \A i \in Nat : long[i] \in Turn /\ long[i+1] = Y!pow_turn(long[i])
  BY LoopFacts
<1>3. /\ short[0] = [result |-> YIELD_SCALE, accumulator |-> base, remaining |-> n - 1]
      /\ \A i \in Nat : short[i] \in Turn /\ short[i+1] = Y!pow_turn(short[i])
  BY <1>1, LoopFacts
<1>4. \A i \in 0..n : long[i].result \in Nat /\ long[i].accumulator \in Nat
  BY LoopIsSound
<1>5. /\ long[n].remaining = 0 /\ Y!pow_factor(base, n) = long[n].result
      /\ short[n-1].remaining = 0 /\ Y!pow_factor(base, n - 1) = short[n-1].result
  BY <1>1, LoopEnds DEF Y!pow_factor
<1> HIDE DEF long, short
<1>6. 0 \in T
  BY <1>2, <1>3, Scale DEF Behind
<1>7. ASSUME NEW i \in T PROVE i + 1 \in T
  <2>1. SUFFICES ASSUME i + 1 <= n PROVE Behind(short[i+1], long[i+1])
    OBVIOUS
  <2>2. i \in 0..n /\ i + 1 \in 0..n /\ Behind(short[i], long[i])
    BY <2>1
  <2>3. /\ long[i].result \in Nat /\ long[i].accumulator \in Nat
        /\ long[i+1].result \in Nat /\ long[i+1].accumulator \in Nat
    BY <1>4, <2>2
  <2>4. /\ long[i] \in Turn /\ long[i+1] = Y!pow_turn(long[i])
        /\ short[i] \in Turn /\ short[i+1] = Y!pow_turn(short[i])
    BY <1>2, <1>3
  <2>5. QED
    BY <2>2, <2>3, <2>4, TurnKeepsBehind
<1>8. T \in SUBSET Nat
  OBVIOUS
<1>9. \A i \in Nat : i \in T
  <2> HIDE DEF T
  <2>1. QED
    BY <1>6, <1>7, <1>8, InductionOver
<1>10. Behind(short[n], long[n])
  BY <1>9
<1>11. short[n].result \in Nat /\ short[n].result <= long[n].result
  BY <1>5, <1>10 DEF Behind
<1>12. short[n].result = short[n-1].result
  <2>1. short[n-1] \in Turn /\ short[(n-1)+1] = Y!pow_turn(short[n-1]) /\ (n - 1) + 1 = n
    BY <1>1, <1>3
  <2>2. short[n-1].remaining % 2 = 0
    BY <1>5
  <2>3. QED
    BY <2>1, <2>2, TurnFacts
<1>13. QED
  BY <1>5, <1>11, <1>12

-----------------------------------------------------------------------------
(* What an owner is shown *)

\* Growing a principal is never overpaid, never a loss, and never worth less
\* for a longer time.
LEMMA GrownFacts ==
    ASSUME NEW q \in Nat, NEW f \in Nat, YIELD_SCALE <= f, NEW n \in Nat,
           Y!Grown(q, f, n) # Y!Err
    PROVE  /\ Y!Grown(q, f, n) \in Nat
           /\ Y!Grown(q, f, n) * powers(YIELD_SCALE)[n] <= q * powers(f)[n]
           /\ q <= Y!Grown(q, f, n)
           /\ n > 0 => Y!Grown(q, f, n - 1) \in 0..Y!Grown(q, f, n)
<1> DEFINE C == YIELD_SCALE
           pC == powers(C)[n]
           pf == powers(f)[n]
           g == Y!Grown(q, f, n)
<1>1. C \in Nat /\ C > 0 /\ C <= f /\ pC \in Nat /\ pf \in Nat /\ pC <= pf
  BY Scale, PowersFacts, PowersMono
<1> HIDE DEF pC, pf
<1>2. CASE q = 0 \/ f = C
  <2>1. g = q /\ Y!Grown(q, f, n - 1) = q
    BY <1>2 DEF Y!Grown
  <2>2. q * pC <= q * pf
    BY <1>1, MulMonoBoth
  <2>3. QED
    BY <2>1, <2>2 DEF pC, pf
<1>3. CASE ~(q = 0 \/ f = C)
  <2> DEFINE growth(k) == Y!pow_factor(f, k)
             worth(k) == (q * growth(k)) \div C
  <2>1. \A k \in Nat : Y!Grown(q, f, k) =
           IF growth(k) = Y!Err THEN Y!Err ELSE Y!to_u64(worth(k))
    BY <1>3 DEF Y!Grown
  <2>2. growth(n) # Y!Err /\ g = worth(n) /\ ~(worth(n) > U64_MAX)
    BY <2>1 DEF Y!to_u64
  <2>3. /\ growth(n) \in Nat /\ C <= growth(n)
        /\ growth(n) * pC <= C * pf
    BY <2>2, GrowthIsNotOverpaid, GrowthIsNoLoss DEF pC, pf
  <2>4. ASSUME n > 0
        PROVE  growth(n-1) \in Nat /\ growth(n-1) <= growth(n)
    BY <2>2, <2>4, GrowthRises
  <2> HIDE DEF growth
  <2>5. q * growth(n) \in Nat /\ worth(n) \in Nat /\ worth(n) * C <= q * growth(n)
    BY <1>1, <2>3, MulNat, DivFloor
  <2>6. q <= worth(n)
    <3> DEFINE p == q * growth(n)
    <3>1. p \in Nat /\ q * C <= p
      BY <1>1, <2>3, <2>5, MulMonoBoth
    <3> HIDE DEF p
    <3>2. q <= p \div C
      BY <1>1, <3>1, DivAtLeast
    <3>3. QED
      BY <3>2 DEF p
  <2>7. g * pC <= q * pf
    <3> DEFINE w == worth(n)
               v == growth(n)
    <3>1. w \in Nat /\ v \in Nat /\ w * C <= q * v /\ v * pC <= C * pf
      BY <2>3, <2>5
    <3> HIDE DEF w, v
    <3>2. (w * C) * pC <= (q * v) * pC
      BY <1>1, <3>1, MulNat, MulMono
    <3>3. q * (v * pC) <= q * (C * pf)
      BY <1>1, <3>1, MulNat, MulMonoBoth
    <3>4. /\ (w * C) * pC = (w * pC) * C
          /\ (q * v) * pC = q * (v * pC)
          /\ q * (C * pf) = (q * pf) * C
      BY <1>1, <3>1
    <3>5. /\ (w * pC) * C \in Nat /\ q * (v * pC) \in Nat /\ (q * pf) * C \in Nat
          /\ w * pC \in Nat /\ q * pf \in Nat
      BY <1>1, <3>1, MulNat
    <3>6. (w * pC) * C <= (q * pf) * C
      BY <3>2, <3>3, <3>4, <3>5
    <3>7. w * pC <= q * pf
      BY <1>1, <3>5, <3>6, MulCancel
    <3>8. QED
      BY <2>2, <3>7 DEF w
  <2>8. ASSUME n > 0 PROVE Y!Grown(q, f, n - 1) \in 0..g
    <3>1. n - 1 \in Nat /\ growth(n-1) \in Nat /\ growth(n-1) <= growth(n)
      BY <2>4, <2>8
    <3>2. worth(n-1) \in Nat /\ worth(n-1) <= worth(n)
      <4> DEFINE low == q * growth(n-1)
                 high == q * growth(n)
      <4>1. low \in Nat /\ high \in Nat /\ low <= high
        BY <2>3, <3>1, MulNat, MulMonoBoth
      <4> HIDE DEF low, high
      <4>2. low \div C \in Nat /\ low \div C <= high \div C
        BY <1>1, <4>1, DivFloor, DivMono
      <4>3. QED
        BY <4>2 DEF low, high
    <3> HIDE DEF worth
    <3>3. growth(n-1) # Y!Err /\ ~(worth(n-1) > U64_MAX)
      BY <2>2, <2>5, <3>1, <3>2, ProjectionAssumption DEF Y!Err
    <3>4. Y!Grown(q, f, n - 1) = worth(n-1)
      BY <2>1, <3>1, <3>3 DEF Y!to_u64
    <3>5. QED
      BY <2>2, <2>5, <3>2, <3>4
  <2>9. QED
    BY <2>2, <2>5, <2>6, <2>7, <2>8 DEF pC, pf
<1>4. QED
  BY <1>2, <1>3

\* A growth factor: one, and a part of one for the rate.
LEMMA FactorFacts ==
    ASSUME NEW a \in Nat, NEW d \in Nat, d > 0
    PROVE  LET f == YIELD_SCALE + (YIELD_SCALE * a) \div d
           IN  f \in Nat /\ YIELD_SCALE <= f
<1> DEFINE p == YIELD_SCALE * a
<1>1. p \in Nat
  BY Scale, MulNat
<1> HIDE DEF p
<1>2. p \div d \in Nat
  BY <1>1, DivFloor
<1>3. QED
  BY <1>2, Scale DEF p

LEMMA RateAndPeriods ==
    ASSUME GridTypeOK
    PROVE  rate \in Nat /\ periods \in Nat /\ x \in Nat /\ D \in Nat /\ r \in Nat /\ t \in Nat
BY GridPoint DEF rate, periods

LEMMA CompoundingHolds ==
    ASSUME GridTypeOK
    PROVE  CompoundingNeverOverpays
<1>1. rate \in Nat /\ periods \in Nat /\ x \in Nat
  BY RateAndPeriods
<1> HIDE DEF rate, periods, x
<1> DEFINE factor == YIELD_SCALE + (YIELD_SCALE * rate) \div BPS
           amount(n) == Y!compound_amount(x, rate, n)
           g == amount(periods)
<1>2. factor \in Nat /\ YIELD_SCALE <= factor
  BY <1>1, MathAssumption, FactorFacts
<1> HIDE DEF factor
<1>3. \A n : amount(n) = IF Y!Accepted(rate, n) THEN Y!Grown(x, factor, n) ELSE Y!Err
  BY DEF Y!compound_amount, factor
<1> HIDE DEF amount, g
<1>4. ASSUME g # Y!Err
      PROVE  /\ g * powers(YIELD_SCALE)[periods] <= x * powers(factor)[periods]
             /\ g >= x
             /\ Y!compound_interest(x, rate, periods) = g - x
             /\ periods > 0 => amount(periods - 1) \in 0..g
  <2>1. Y!Accepted(rate, periods) /\ g = Y!Grown(x, factor, periods)
    BY <1>3, <1>4 DEF g
  <2>2. /\ g \in Nat /\ x <= g
        /\ g * powers(YIELD_SCALE)[periods] <= x * powers(factor)[periods]
        /\ periods > 0 => Y!Grown(x, factor, periods - 1) \in 0..g
    BY <1>1, <1>2, <1>4, <2>1, GrownFacts
  <2>3. Y!compound_interest(x, rate, periods) = g - x
    BY <1>1, <1>4, <2>2 DEF Y!compound_interest, Y!minus, g, amount
  <2>4. periods > 0 => amount(periods - 1) = Y!Grown(x, factor, periods - 1)
    <3>1. periods > 0 => Y!Accepted(rate, periods - 1)
      BY <1>1, <2>1, ProjectionAssumption DEF Y!Accepted
    <3>2. QED
      BY <1>3, <3>1
  <2>5. QED
    BY <1>1, <2>2, <2>3, <2>4
<1>5. QED
  BY <1>4 DEF CompoundingNeverOverpays, g, amount, factor

LEMMA BlendHolds ==
    ASSUME GridTypeOK
    PROVE  BlendIsInBetween
<1>1. rate \in Nat /\ r \in Nat /\ x \in Nat /\ D \in Nat
  BY RateAndPeriods
<1> HIDE DEF rate, r, x, D
<1> DEFINE blended == Y!blended_rate_bps(x, rate, D, r)
           total == x + D
           weighted == x * rate + D * r
           low == lesser(rate, r)
<1>2. SUFFICES ASSUME blended # Y!Err, total > 0
               PROVE  blended >= low /\ blended * total <= weighted
  BY DEF BlendIsInBetween
<1>3. blended = weighted \div total
  BY <1>2 DEF Y!blended_rate_bps
<1>4. low \in Nat /\ low <= rate /\ low <= r
  BY <1>1 DEF lesser
<1>5. total \in Nat /\ x * rate \in Nat /\ D * r \in Nat /\ weighted \in Nat
  BY <1>1, MulNat
<1>6. low * total <= weighted
  <2> HIDE DEF low
  <2>1. x * low <= x * rate /\ D * low <= D * r
    BY <1>1, <1>4, MulMonoBoth
  <2>2. low * total = x * low + D * low /\ x * low \in Nat /\ D * low \in Nat
    BY <1>1, <1>4, MulNat
  <2>3. QED
    BY <1>5, <2>1, <2>2
<1> HIDE DEF blended, total, weighted, low
<1>7. weighted \div total \in Nat /\ (weighted \div total) * total <= weighted
  BY <1>2, <1>5, DivFloor
<1>8. low <= weighted \div total
  BY <1>2, <1>4, <1>5, <1>6, DivAtLeast
<1>9. QED
  BY <1>3, <1>4, <1>7, <1>8

LEMMA PoolHolds ==
    ASSUME GridTypeOK
    PROVE  ProjectionMatchesPool
BY DEF ProjectionMatchesPool, Y!simple_interest, Y!to_u64, Pool!simulate_plan_yield

\* A daily projection adds to the principal no more than it grows by.
LEMMA DailyInterestHolds ==
    ASSUME NEW q \in Nat, NEW a \in Nat, NEW n \in Nat,
           Y!project_daily_interest(q, a, n) # Y!Err
    PROVE  (q + Y!project_daily_interest(q, a, n)) * powers(YIELD_SCALE)[n]
              <= q * powers(Y!daily_growth_factor(a))[n]
<1> DEFINE f == Y!daily_growth_factor(a)
           total == Y!project_daily_compound(q, a, n)
           earned == Y!project_daily_interest(q, a, n)
<1>1. total # Y!Err /\ earned = total - q
  BY DEF Y!project_daily_interest, Y!minus
<1>2. total = Y!Grown(q, f, n)
  BY <1>1 DEF Y!project_daily_compound
<1>3. f \in Nat /\ YIELD_SCALE <= f
  <2>1. BPS * DAYS_PER_YEAR \in Nat /\ BPS * DAYS_PER_YEAR > 0
    BY MathAssumption, ProjectionAssumption, MulNat
  <2>2. QED
    BY <2>1, FactorFacts DEF Y!daily_growth_factor
<1> HIDE DEF f, total, earned
<1>4. total \in Nat /\ total * powers(YIELD_SCALE)[n] <= q * powers(f)[n]
  BY <1>1, <1>2, <1>3, GrownFacts
<1>5. q + earned = total
  BY <1>1, <1>4
<1>6. QED
  BY <1>4, <1>5 DEF f, earned

\* The effective yield is at most what a year of days earns exactly.
LEMMA EffectiveYieldHolds ==
    ASSUME NEW a \in Nat, Y!effective_apy_bps(a) # Y!Err
    PROVE  Y!effective_apy_bps(a) * powers(YIELD_SCALE)[DAYS_PER_YEAR]
              <= BPS * (powers(Y!daily_growth_factor(a))[DAYS_PER_YEAR]
                          - powers(YIELD_SCALE)[DAYS_PER_YEAR])
<1> DEFINE f == Y!daily_growth_factor(a)
           C == YIELD_SCALE
           growth == Y!pow_factor(f, DAYS_PER_YEAR)
           apy == Y!effective_apy_bps(a)
           pC == powers(C)[DAYS_PER_YEAR]
           pf == powers(f)[DAYS_PER_YEAR]
           gain == growth - C
<1>1. growth # Y!Err /\ apy = (gain * BPS) \div C
  BY DEF Y!effective_apy_bps
<1>2. f \in Nat /\ C <= f
  <2>1. BPS * DAYS_PER_YEAR \in Nat /\ BPS * DAYS_PER_YEAR > 0
    BY MathAssumption, ProjectionAssumption, MulNat
  <2>2. QED
    BY <2>1, FactorFacts DEF Y!daily_growth_factor
<1>3. DAYS_PER_YEAR \in Nat /\ BPS \in Nat /\ C \in Nat /\ C > 0
  BY MathAssumption, ProjectionAssumption
<1>4. growth \in Nat /\ C <= growth /\ growth * pC <= C * pf
  <2> HIDE DEF f
  <2>1. QED
    BY <1>1, <1>2, <1>3, GrowthIsNotOverpaid, GrowthIsNoLoss
<1>5. pC \in Nat /\ pf \in Nat
  BY <1>2, <1>3, PowersFacts
<1> HIDE DEF f, C, growth, apy, pC, pf
<1>6. gain \in Nat /\ gain * BPS \in Nat
  BY <1>3, <1>4, MulNat
<1>7. gain * pC <= C * pf - C * pC
  <2>1. gain * pC = growth * pC - C * pC
    BY <1>3, <1>4, <1>5
  <2>2. growth * pC \in Nat /\ C * pC \in Nat /\ C * pf \in Nat
    BY <1>3, <1>4, <1>5, MulNat
  <2>3. QED
    BY <1>4, <2>1, <2>2
<1> HIDE DEF gain
<1>8. apy \in Nat /\ apy * C <= gain * BPS
  <2> DEFINE p == gain * BPS
  <2>1. p \in Nat /\ apy = p \div C
    BY <1>1, <1>6
  <2> HIDE DEF p
  <2>2. apy \in Nat /\ apy * C <= p
    BY <1>3, <2>1, DivFloor
  <2>3. QED
    BY <2>2 DEF p
<1> DEFINE rise == pf - pC
<1>9. rise \in Int /\ C * rise = C * pf - C * pC
  BY <1>3, <1>5
<1>10. gain * pC <= C * rise /\ gain * pC \in Nat /\ C * rise \in Int
  BY <1>3, <1>5, <1>6, <1>7, <1>9, MulNat
<1> HIDE DEF rise
<1>11. rise \in Nat
  <2>1. SUFFICES ASSUME rise < 0 PROVE FALSE
    BY <1>9
  <2>2. C * rise < 0
    BY <1>3, <1>9, <2>1
  <2>3. QED
    BY <1>10, <2>2
<1>12. (apy * pC) * C <= (BPS * rise) * C
  <2>1. (apy * C) * pC <= (gain * BPS) * pC
    BY <1>3, <1>5, <1>6, <1>8, MulNat, MulMono
  <2>2. (gain * pC) * BPS <= (C * rise) * BPS
    BY <1>3, <1>10, <1>11, MulNat, MulMono
  <2>3. /\ (apy * C) * pC = (apy * pC) * C
        /\ (gain * BPS) * pC = (gain * pC) * BPS
        /\ (C * rise) * BPS = (BPS * rise) * C
    BY <1>3, <1>5, <1>6, <1>8, <1>11
  <2>4. /\ (apy * pC) * C \in Nat /\ (gain * pC) * BPS \in Nat /\ (BPS * rise) * C \in Nat
    BY <1>3, <1>5, <1>6, <1>8, <1>11, MulNat
  <2>5. QED
    BY <2>1, <2>2, <2>3, <2>4
<1>13. apy * pC <= BPS * rise
  <2>1. apy * pC \in Nat /\ BPS * rise \in Nat
    BY <1>3, <1>5, <1>8, <1>11, MulNat
  <2>2. QED
    BY <1>3, <1>12, <2>1, MulCancel
<1>14. QED
  BY <1>13 DEF apy, pC, pf, f, C, rise

LEMMA DailyHolds ==
    ASSUME GridTypeOK
    PROVE  DailyNeverOverpays
<1>1. rate \in Nat /\ periods \in Nat /\ x \in Nat
  BY RateAndPeriods
<1> HIDE DEF rate, periods, x
<1>2. Y!daily_growth_factor(rate)
         = YIELD_SCALE + (YIELD_SCALE * rate) \div (BPS * DAYS_PER_YEAR)
  BY DEF Y!daily_growth_factor
<1>3. Y!daily_rate_bps(rate) * DAYS_PER_YEAR <= rate
  <2>1. DAYS_PER_YEAR \in Nat /\ DAYS_PER_YEAR > 0
    BY ProjectionAssumption
  <2>2. CASE rate > MAX_YIELD_RATE_BPS
    BY <1>1, <2>1, <2>2 DEF Y!daily_rate_bps, Y!Err
  <2>3. CASE ~(rate > MAX_YIELD_RATE_BPS)
    BY <1>1, <2>1, <2>3, DivFloor DEF Y!daily_rate_bps
  <2>4. QED
    BY <2>2, <2>3
<1>4. QED
  BY <1>1, <1>2, <1>3, DailyInterestHolds, EffectiveYieldHolds DEF DailyNeverOverpays

\* No projection promises more than exact arithmetic gives, whatever the
\* scale, the limits and the exponent: repeated squaring rounds down at every
\* product, and an overflow is refused for every longer time as well.
THEOREM ProjectionsAreFaithful == Spec => []ProjectionsFaithful
<1>1. GridTypeOK => ProjectionsFaithful
  BY PoolHolds, CompoundingHolds, DailyHolds, BlendHolds DEF ProjectionsFaithful
<1>2. QED
  BY <1>1, GridTypes, PTL

=============================================================================
