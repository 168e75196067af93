------------------------ MODULE LendingServicesProofs ------------------------
(***************************************************************************)
(* The services built on the pools, for every set of users, plans, loans   *)
(* and amounts: staking, loan insurance and plan yield.                    *)
(***************************************************************************)
EXTENDS LendingServices, LendingProofs

USE DEF U64

-----------------------------------------------------------------------------
(* What the pools do to the services *)

\* No step turns the clock back or takes a rate model that was not an input.
LEMMA PoolStepFacts ==
    ASSUME PoolTypeOK, [Next]_vars
    PROVE  /\ now' >= now
           /\ settings'.rate_model = settings.rate_model \/ settings'.rate_model \in RateModels
<1> DEFINE Stays == now' = now /\ settings' = settings
<1>1. now \in Nat /\ settings \in Settings
  BY DEF PoolTypeOK
<1>2. CASE SupplyNext
  <2>1. ASSUME NEW d \in TimeSteps, Tick(d)
        PROVE  now' >= now /\ settings' = settings
    BY <1>1, <2>1, PoolAssumption DEF Tick
  <2>2. ASSUME NEW u \in Users, NEW a \in Assets, NEW x, Deposit(u, a, x)
        PROVE  Stays
    BY <2>2 DEF Deposit
  <2>3. ASSUME NEW u \in Users, NEW a \in Assets, NEW s, Withdraw(u, a, s)
        PROVE  Stays
    BY <2>3 DEF Withdraw
  <2>4. ASSUME NEW u \in Users, NEW a \in Assets, NEW x, NEW tip, FlashLoan(u, a, x, tip)
        PROVE  Stays
    BY <2>4 DEF FlashLoan
  <2>5. ASSUME NEW a \in Assets, NEW x, WithdrawPriority(a, x) \/ FundRetainedYield(a, x)
        PROVE  Stays
    BY <2>5 DEF WithdrawPriority, FundRetainedYield
  <2>6. ASSUME NEW a \in Assets, NEW x,
               WithdrawReserves(a, x) \/ AllocateReserves(a, x) \/ ReplenishBadDebtReserve(a, x)
        PROVE  Stays
    BY <2>6 DEF WithdrawReserves, AllocateReserves, TakeFromReserve, ReplenishBadDebtReserve
  <2>7. Stays \/ \E d \in TimeSteps : Tick(d)
    <3> HIDE DEF Stays
    <3>1. QED
      BY <1>2, <2>2, <2>3, <2>4, <2>5, <2>6 DEF SupplyNext
  <2>8. QED
    BY <1>1, <2>1, <2>7
<1>3. CASE SettingNext
  <2>1. now' = now
    BY <1>3 DEF SettingNext, AddAssetPool, PauseAssetPool, SetGracePeriod, SetLateFeeRate,
         SetReserveFactor, Pause, Unpause, WhitelistCollateral, RemoveCollateral, AddReserve,
         WhitelistFlashLoanReceiver, RemoveFlashLoanReceiver, SetFlashLoanFee, SetRateModel,
         SetNftToken, Set, SettingStep
  <2>2. CASE \E m \in RateModels : SetRateModel(m)
    <3>1. PICK m \in RateModels : settings' = [settings EXCEPT !.rate_model = m]
      BY <2>2 DEF SetRateModel, Set
    <3>2. [settings EXCEPT !.rate_model = m].rate_model = m
      BY <1>1 DEF Settings
    <3>3. QED
      BY <1>1, <2>1, <3>1, <3>2
  <2>3. CASE ~ \E m \in RateModels : SetRateModel(m)
    <3>1. settings'.rate_model = settings.rate_model
      BY <1>1, <1>3, <2>3 DEF SettingNext, AddAssetPool, PauseAssetPool, SetGracePeriod,
           SetLateFeeRate, SetReserveFactor, Pause, Unpause, WhitelistCollateral,
           RemoveCollateral, AddReserve, WhitelistFlashLoanReceiver,
           RemoveFlashLoanReceiver, SetFlashLoanFee, SetNftToken, Set, Settings
    <3>2. QED
      BY <1>1, <2>1, <3>1
  <2>4. QED
    BY <1>1, <2>1, <2>2, <2>3
<1>4. CASE LoanNext
  <2>1. ASSUME NEW b \in Users, NEW a, NEW x, NEW t, NEW c, NEW d, Borrow(b, a, x, t, c, d)
        PROVE  Stays
    BY <2>1 DEF Borrow
  <2>2. ASSUME NEW b \in Users, Repay(b) \/ LiquidateBadDebt(b)
        PROVE  Stays
    BY <2>2 DEF Repay, LiquidateBadDebt
  <2>3. ASSUME NEW b \in Users, NEW x, Liquidate(b, x)
        PROVE  Stays
    BY <2>3 DEF Liquidate
  <2>4. ASSUME NEW b \in Users, NEW d, RefinanceLoan(b, d)
        PROVE  Stays
    BY <2>4 DEF RefinanceLoan
  <2>5. ASSUME NEW b \in Users, NEW ids, NEW d,
               ConsolidateLoans(b, ids, d) \/ SplitLoan(b, ids, d)
        PROVE  Stays
    BY <2>5 DEF ConsolidateLoans, SplitLoan
  <2>6. Stays
    <3> HIDE DEF Stays
    <3>1. QED
      BY <1>4, <2>1, <2>2, <2>3, <2>4, <2>5 DEF LoanNext
  <2>7. QED
    BY <1>1, <2>6
<1>5. CASE AccrualNext
  <2>1. Stays
    BY <1>5 DEF AccrualNext, AccrueInterestWithReserve
  <2>2. QED
    BY <1>1, <2>1
<1>6. CASE UNCHANGED vars
  BY <1>1, <1>6 DEF vars
<1>7. QED
  BY <1>2, <1>3, <1>4, <1>5, <1>6 DEF Next

\* A service that leaves the loans, the other books and the settings alone.
LEMMA BookAside ==
    ASSUME BookInv, held' \in [Tokens -> Nat], retained_yield' \in [Assets -> U64],
           UNCHANGED <<total_deposits, total_shares, total_borrowed, bad_debt_reserve,
                       total_protocol_revenue, settings, depositorVars, loanVars, now>>
    PROVE  BookInv'
BY DEF BookInv, PoolTypeOK, LoanBookConsistent, OpenIds, depositorVars, loanVars

-----------------------------------------------------------------------------
(* How fast a position can earn *)

RateModelIsInput == settings.rate_model \in RateModels \cup {NoModel}

LEMMA CeilingIs ==
    /\ RateCeiling \in Nat
    /\ RateCeiling >= BaseRateBps + MultiplierBps
    /\ \A m \in RateModels : RateCeiling >= m.base_rate_bps + m.slope1_bps + m.slope2_bps
<1> DEFINE curve(m) == m.base_rate_bps + m.slope1_bps + m.slope2_bps
           flat == BaseRateBps + MultiplierBps
           rates == {flat} \cup {curve(m) : m \in RateModels}
           Tops(r) == \A m \in RateModels : r >= curve(m) /\ r >= flat
<1>1. flat \in Nat /\ \A m \in RateModels : curve(m) \in Nat
  BY PoolAssumption, RecordAssumption DEF RateModel
<1>2. IsFiniteSet({curve(m) : m \in RateModels})
  <2> DEFINE S == {curve(m) : m \in RateModels}
             f == [m \in RateModels |-> curve(m)]
  <2> HIDE DEF curve
  <2>1. f \in Surjection(RateModels, S)
    BY DEF Surjection
  <2>2. QED
    BY <2>1, YieldAssumption, FS_Surjection
<1>3. IsFiniteSet(rates)
  BY <1>2, FS_AddElement
<1>4. rates \subseteq Nat /\ rates # {}
  BY <1>1
<1>5. PICK r \in rates : \A x \in rates : x <= r
  <2> HIDE DEF rates
  <2>1. QED
    BY <1>3, <1>4, LargestOf
<1>6. r \in rates /\ Tops(r)
  BY <1>1, <1>5
<1>7. RateCeiling = CHOOSE x \in rates : Tops(x)
  BY DEF RateCeiling
<1>8. RateCeiling \in rates /\ Tops(RateCeiling)
  <2> HIDE DEF rates, Tops
  <2>1. QED
    BY <1>6, <1>7
<1>9. CASE RateModels = {}
  <2>1. rates = {flat}
    BY <1>9
  <2>2. QED
    BY <1>1, <1>8, <1>9, <2>1
<1>10. CASE RateModels # {}
  BY <1>1, <1>4, <1>8, <1>10
<1>11. QED
  BY <1>9, <1>10

LEMMA HighestIs ==
    ASSUME Principals # {}
    PROVE  HighestPrincipal \in Principals /\ \A y \in Principals : y <= HighestPrincipal
<1>1. Principals \subseteq 0..U64_MAX /\ U64_MAX \in Nat
  BY YieldAssumption, PoolAssumption
<1>2. IsFiniteSet(Principals) /\ Principals \subseteq Nat
  <2>1. IsFiniteSet(0..U64_MAX)
    BY <1>1, FS_Interval
  <2>2. Principals \in SUBSET (0..U64_MAX)
    BY <1>1
  <2>3. IsFiniteSet(Principals)
    BY <2>1, <2>2, FS_Subset
  <2>4. QED
    BY <1>1, <2>3
<1>3. \E x \in Principals : \A y \in Principals : y <= x
  BY <1>2, LargestOf
<1>4. QED
  BY <1>3 DEF HighestPrincipal

\* No pool pays depositors more than the steepest borrow rate.
LEMMA SupplyRateBound ==
    ASSUME PoolTypeOK, RateModelIsInput, NEW a \in Assets
    PROVE  SupplyRate(a) \in Nat /\ SupplyRate(a) <= RateCeiling
<1> DEFINE u == get_utilization_bps(total_borrowed[a], total_deposits[a])
           m == settings.rate_model
           r == CurrentRate(a, total_borrowed[a])
           factor == IF m = NoModel THEN settings.reserve_factor_bps[a] ELSE m.reserve_factor_bps
           kept == saturating_sub(BPS, factor)
<1>1. BPS \in Nat /\ BPS > 0 /\ total_borrowed[a] \in Nat /\ total_deposits[a] \in Nat
  BY MathAssumption, PoolAssumption DEF PoolTypeOK
<1>2. u \in Nat /\ u <= BPS
  <2>1. u \in Nat
    BY <1>1, UtilizationType
  <2>2. u <= BPS
    <3> DEFINE full == mul_div(total_borrowed[a], BPS,
                               saturating_sub(total_deposits[a], total_borrowed[a]) + total_borrowed[a])
    <3>1. u = IF full <= BPS THEN full ELSE BPS
      BY DEF get_utilization_bps, lesser
    <3> HIDE DEF u, full
    <3>2. QED
      BY <1>1, <2>1, <3>1
  <2>3. QED
    BY <2>1, <2>2
<1>3. m = NoModel \/ (m \in UsableRateModel /\ m \in RateModels)
  BY DEF PoolTypeOK, Settings, RateModelIsInput
<1>4. m \in UsableRateModel => /\ m.base_rate_bps \in Nat /\ m.slope1_bps \in Nat
                               /\ m.slope2_bps \in Nat /\ m.reserve_factor_bps \in Nat
                               /\ m.optimal_utilization_bps \in 1..(BPS - 1)
  BY DEF UsableRateModel, RateModel
<1>5. factor \in Nat
  <2>1. settings.reserve_factor_bps[a] \in 0..BPS
    BY DEF PoolTypeOK, Settings
  <2>2. QED
    BY <1>1, <1>3, <1>4, <2>1
<1>6. kept \in Nat /\ kept <= BPS
  <2> HIDE DEF factor
  <2>1. QED
    BY <1>1, <1>5 DEF saturating_sub
<1>7. r \in Nat
  BY <1>1, RateType
<1>8. SupplyRate(a) = (r * u * kept) \div (BPS * BPS)
  BY DEF SupplyRate
<1> HIDE DEF u, m, r, kept, factor
<1>9. r <= RateCeiling
  <2>1. CASE m = NoModel
    <3>1. r = BaseRateBps + (u * MultiplierBps) \div BPS
      BY <2>1 DEF CurrentRate, calculate_dynamic_rate, r, u, m
    <3>2. MultiplierBps \in Nat /\ BaseRateBps \in Nat /\ u \in 0..BPS
      BY <1>1, <1>2, PoolAssumption
    <3>3. /\ (MultiplierBps * u) \div BPS <= MultiplierBps
          /\ (MultiplierBps * u) \div BPS \in Nat
      BY <1>1, <3>2, PartAtMost
    <3>4. u * MultiplierBps = MultiplierBps * u
      BY <1>2, <3>2
    <3>5. QED
      BY <3>1, <3>2, <3>3, <3>4, CeilingIs
  <2>2. CASE m # NoModel
    <3> DEFINE o == m.optimal_utilization_bps
               x == (u * m.slope1_bps) \div o
               y == ((u - o) * m.slope2_bps) \div (BPS - o)
    <3>1. /\ m.base_rate_bps \in Nat /\ m.slope1_bps \in Nat /\ m.slope2_bps \in Nat
          /\ o \in Nat /\ o > 0 /\ BPS - o \in Nat /\ BPS - o > 0
      BY <1>1, <1>3, <1>4, <2>2
    <3>2. r = m.base_rate_bps + IF u <= o THEN x ELSE m.slope1_bps + y
      <4>1. lesser(u, BPS) = u
        BY <1>2 DEF lesser
      <4>2. r = two_slope_rate(m, u)
        BY <2>2 DEF CurrentRate, r, m, u
      <4>3. two_slope_rate(m, u) = m.base_rate_bps + IF u <= o THEN x ELSE m.slope1_bps + y
        BY <4>1 DEF two_slope_rate
      <4>4. QED
        BY <4>2, <4>3
    <3>3. RateCeiling >= m.base_rate_bps + m.slope1_bps + m.slope2_bps /\ RateCeiling \in Nat
      BY <1>3, <2>2, CeilingIs
    <3>4. CASE u <= o
      <4>1. u \in 0..o
        BY <1>2, <3>1, <3>4
      <4>2. (m.slope1_bps * u) \div o <= m.slope1_bps /\ (m.slope1_bps * u) \div o \in Nat
        BY <3>1, <4>1, PartAtMost
      <4>3. m.slope1_bps * u = u * m.slope1_bps
        BY <1>2, <3>1
      <4>4. x <= m.slope1_bps /\ x \in Nat
        BY <4>2, <4>3
      <4> HIDE DEF x, y, o
      <4>5. QED
        BY <3>1, <3>2, <3>3, <3>4, <4>4
    <3>5. CASE ~ (u <= o)
      <4>1. u - o \in 0..(BPS - o)
        BY <1>1, <1>2, <3>1, <3>5
      <4>2. /\ (m.slope2_bps * (u - o)) \div (BPS - o) <= m.slope2_bps
            /\ (m.slope2_bps * (u - o)) \div (BPS - o) \in Nat
        BY <3>1, <4>1, PartAtMost
      <4>3. m.slope2_bps * (u - o) = (u - o) * m.slope2_bps
        BY <3>1, <4>1
      <4>4. y <= m.slope2_bps /\ y \in Nat
        BY <4>2, <4>3
      <4> HIDE DEF x, y, o
      <4>5. QED
        BY <3>1, <3>2, <3>3, <3>5, <4>4
    <3>6. QED
      BY <3>4, <3>5
  <2>3. QED
    BY <2>1, <2>2
<1>10. (r * u * kept) \div (BPS * BPS) \in Nat /\ (r * u * kept) \div (BPS * BPS) <= r
  <2>1. u * kept \in Nat /\ u * kept <= BPS * kept
    BY <1>1, <1>2, <1>6, MulMono, MulNat
  <2>2. kept * BPS <= BPS * BPS
    BY <1>1, <1>6, MulMono
  <2>3. BPS * kept = kept * BPS /\ BPS * BPS \in Nat /\ kept * BPS \in Nat
    BY <1>1, <1>6, MulNat
  <2>4. BPS * BPS > 0
    BY <1>1
  <2>5. u * kept \in 0..(BPS * BPS)
    BY <2>1, <2>2, <2>3
  <2>6. r * (u * kept) = r * u * kept
    BY <1>2, <1>6, <1>7
  <2>7. QED
    BY <1>7, <2>3, <2>4, <2>5, <2>6, PartAtMost
<1>11. QED
  BY <1>7, <1>8, <1>9, <1>10, CeilingIs

-----------------------------------------------------------------------------
(* Plan yield *)

PositionTypes == position \in [Plans -> Positions \cup {NoPosition}]

\* The most one position can earn in BPS * YEAR units of time.
Steepest == HighestPrincipal * (RateCeiling + MAX_YIELD_BOOST_BPS)

\* What a position has received by time t, it had earned when last harvested.
Earned(q, t) ==
    /\ q.principal \in Principals \cup {0}
    /\ Principals # {}
    /\ q.registered_at <= q.last_harvest_at /\ q.last_harvest_at <= t
    /\ q.total_harvested * BPS * YEAR <= Steepest * (q.last_harvest_at - q.registered_at)

HarvestsEarned == \A p \in Registered : Earned(position[p], now)

LEMMA PositionFields ==
    ASSUME NEW q \in Positions
    PROVE  /\ q.asset \in Assets /\ q.principal \in U64 /\ q.last_harvest_at \in Nat
           /\ q.total_harvested \in U64 /\ q.registered_at \in Nat
           /\ q.boost_bps \in 0..MAX_YIELD_BOOST_BPS /\ q.active \in BOOLEAN
           /\ q.total_harvested \in Nat /\ q.boost_bps \in Nat /\ q.principal \in Nat
<1>1. U64_MAX \in Nat /\ MAX_YIELD_BOOST_BPS \in Nat
  BY PoolAssumption, YieldAssumption
<1>2. QED
  BY <1>1 DEF Positions, PositionOf

LEMMA RegisteredFacts ==
    ASSUME PositionTypes, NEW p \in Registered
    PROVE  p \in Plans /\ position[p] # NoPosition /\ position[p] \in Positions
BY DEF PositionTypes, Registered

LEMMA SteepestType ==
    ASSUME Principals # {}
    PROVE  /\ Steepest \in Nat /\ HighestPrincipal \in Nat
           /\ RateCeiling + MAX_YIELD_BOOST_BPS \in Nat
<1>1. HighestPrincipal \in Nat
  <2>1. Principals \subseteq 0..U64_MAX /\ U64_MAX \in Nat
    BY YieldAssumption, PoolAssumption
  <2>2. HighestPrincipal \in Principals
    BY HighestIs
  <2>3. QED
    BY <2>1, <2>2
<1>2. RateCeiling + MAX_YIELD_BOOST_BPS \in Nat
  BY CeilingIs, YieldAssumption
<1>3. QED
  BY <1>1, <1>2, MulNat DEF Steepest

\* What is pending of a position, it has earned since its last harvest.
LEMMA AccruedBound ==
    ASSUME PoolTypeOK, RateModelIsInput, PositionTypes,
           NEW p \in Registered, Earned(position[p], now)
    PROVE  /\ Accrued(p) \in Nat
           /\ Accrued(p) * BPS * YEAR <= Steepest * (now - position[p].last_harvest_at)
<1> DEFINE q == position[p]
           s == SupplyRate(q.asset)
           e == now - q.last_harvest_at
           d == BPS * YEAR
           n == q.principal * (s + q.boost_bps) * e
<1>1. q \in Positions
  BY RegisteredFacts
<1>2. /\ q.asset \in Assets /\ q.principal \in Nat /\ q.boost_bps \in Nat
      /\ q.last_harvest_at \in Nat /\ q.boost_bps <= MAX_YIELD_BOOST_BPS
      /\ q.active \in BOOLEAN
  BY <1>1, PositionFields, YieldAssumption
<1>3. s \in Nat /\ s <= RateCeiling
  BY <1>2, SupplyRateBound
<1>4. now \in Nat /\ q.last_harvest_at <= now /\ e \in Nat
  BY <1>2 DEF PoolTypeOK, Earned
<1>5. BPS \in Nat /\ YEAR \in Nat /\ d \in Nat /\ d > 0
  <2>1. BPS \in Nat \ {0} /\ YEAR \in Nat \ {0}
    BY MathAssumption
  <2>2. QED
    BY <2>1
<1>6. Steepest \in Nat /\ HighestPrincipal \in Nat /\ RateCeiling + MAX_YIELD_BOOST_BPS \in Nat
  BY SteepestType DEF Earned
<1>7. q.principal <= HighestPrincipal
  <2>1. q.principal \in Principals \cup {0} /\ Principals # {}
    BY DEF Earned
  <2>2. QED
    BY <1>2, <1>6, <2>1, HighestIs
<1>8. Accrued(p) = IF q.active THEN n \div d ELSE 0
  BY DEF Accrued, accrued_for_position, simulate_plan_yield
<1>9. s + q.boost_bps \in Nat /\ s + q.boost_bps <= RateCeiling + MAX_YIELD_BOOST_BPS
  BY <1>2, <1>3, CeilingIs, YieldAssumption
<1> DEFINE rate == s + q.boost_bps
           top == RateCeiling + MAX_YIELD_BOOST_BPS
<1>10. n \in Nat /\ n <= Steepest * e
  <2> HIDE DEF s, q, e
  <2>1. rate \in Nat /\ top \in Nat /\ rate <= top
    BY <1>6, <1>9
  <2> HIDE DEF rate, top
  <2>2. q.principal * rate \in Nat /\ q.principal * rate <= HighestPrincipal * rate
    BY <1>2, <1>6, <1>7, <2>1, MulNat, MulMono
  <2>3. rate * HighestPrincipal <= top * HighestPrincipal
    BY <1>6, <2>1, MulMono
  <2>4. /\ rate * HighestPrincipal = HighestPrincipal * rate
        /\ top * HighestPrincipal = HighestPrincipal * top
        /\ HighestPrincipal * rate \in Nat /\ HighestPrincipal * top \in Nat
    BY <1>6, <2>1, MulNat
  <2>5. HighestPrincipal * top = Steepest
    BY DEF Steepest, top
  <2>6. q.principal * rate <= Steepest
    BY <2>2, <2>3, <2>4, <2>5
  <2>7. (q.principal * rate) * e \in Nat /\ (q.principal * rate) * e <= Steepest * e
    BY <1>4, <1>6, <2>2, <2>6, MulNat, MulMono
  <2>8. n = (q.principal * rate) * e
    BY DEF n, rate
  <2>9. QED
    BY <2>7, <2>8
<1>11. Steepest * e \in Nat
  BY <1>4, <1>6, MulNat
<1> HIDE DEF n, d, s
<1>12. n \div d \in Nat /\ (n \div d) * d <= n
  BY <1>5, <1>10, DivFloor
<1>13. Accrued(p) \in Nat /\ Accrued(p) * d <= Steepest * e
  <2>1. CASE q.active
    <3>1. Accrued(p) = n \div d
      BY <1>8, <2>1
    <3>2. (n \div d) * d \in Nat
      BY <1>5, <1>12, MulNat
    <3>3. (n \div d) * d <= Steepest * e
      BY <1>10, <1>11, <1>12, <3>2
    <3>4. QED
      BY <1>12, <3>1, <3>3
  <2>2. CASE ~q.active
    <3>1. Accrued(p) = 0 /\ 0 * d = 0
      BY <1>5, <1>8, <2>2
    <3>2. QED
      BY <1>11, <3>1
  <2>3. QED
    BY <2>1, <2>2
<1>14. Accrued(p) * BPS * YEAR = Accrued(p) * d
  BY <1>5, <1>13 DEF d
<1>15. QED
  BY <1>13, <1>14

\* What the invariant says of the property: time has passed since the harvest.
LEMMA EarnedMeans ==
    ASSUME PositionTypes, PoolTypeOK, HarvestsEarned
    PROVE  NoSecondPaidTwice
<1>1. SUFFICES ASSUME NEW p \in Registered
               PROVE  position[p].total_harvested * BPS * YEAR
                         <= Steepest * (now - position[p].registered_at)
  BY DEF NoSecondPaidTwice, Steepest
<1> DEFINE q == position[p]
           h == q.total_harvested * BPS * YEAR
<1>2. q \in Positions /\ Earned(q, now)
  BY RegisteredFacts DEF HarvestsEarned
<1>3. q.registered_at \in Nat /\ q.last_harvest_at \in Nat /\ now \in Nat
      /\ q.total_harvested \in Nat
  BY <1>2, PositionFields DEF PoolTypeOK
<1>4. h \in Nat
  <2>1. BPS \in Nat /\ YEAR \in Nat
    BY MathAssumption
  <2>2. QED
    BY <1>3, <2>1, MulNat
<1>5. /\ q.registered_at <= q.last_harvest_at /\ q.last_harvest_at <= now
      /\ h <= Steepest * (q.last_harvest_at - q.registered_at) /\ Principals # {}
  BY <1>2 DEF Earned
<1> HIDE DEF q, h
<1>6. /\ q.last_harvest_at - q.registered_at \in Nat /\ now - q.registered_at \in Nat
      /\ q.last_harvest_at - q.registered_at <= now - q.registered_at
  BY <1>3, <1>5
<1>7. Steepest \in Nat
  BY <1>5, SteepestType
<1>8. (q.last_harvest_at - q.registered_at) * Steepest <= (now - q.registered_at) * Steepest
  BY <1>6, <1>7, MulMono
<1>9. /\ (q.last_harvest_at - q.registered_at) * Steepest = Steepest * (q.last_harvest_at - q.registered_at)
      /\ (now - q.registered_at) * Steepest = Steepest * (now - q.registered_at)
      /\ (q.last_harvest_at - q.registered_at) * Steepest \in Nat
      /\ (now - q.registered_at) * Steepest \in Nat
  BY <1>6, <1>7, MulNat
<1>10. h <= Steepest * (now - q.registered_at)
  BY <1>4, <1>5, <1>8, <1>9
<1>11. QED
  BY <1>10 DEF h, q

\* Time alone takes nothing from what was earned.
LEMMA EarnedLater ==
    ASSUME NEW q \in Positions, NEW t, NEW t1, t \in Nat, t1 \in Nat, t1 >= t, Earned(q, t)
    PROVE  Earned(q, t1)
BY PositionFields DEF Earned

LEMMA PositionsAside ==
    ASSUME PositionTypes, HarvestsEarned, PoolTypeOK, PoolTypeOK', now' >= now,
           position' = position
    PROVE  PositionTypes' /\ HarvestsEarned'
<1>1. PositionTypes'
  BY DEF PositionTypes
<1>2. now \in Nat /\ now' \in Nat
  BY DEF PoolTypeOK
<1>3. ASSUME NEW p \in Registered'
      PROVE  Earned(position'[p], now')
  <2>1. p \in Registered /\ position'[p] = position[p]
    BY <1>3 DEF Registered
  <2>2. position[p] \in Positions /\ Earned(position[p], now)
    BY <2>1, RegisteredFacts DEF HarvestsEarned
  <2>3. QED
    BY <1>2, <2>1, <2>2, EarnedLater
<1>4. QED
  BY <1>1, <1>3 DEF HarvestsEarned

\* One position is written, and stands for what was earned.
LEMMA PositionWritten ==
    ASSUME PositionTypes, HarvestsEarned, PoolTypeOK, now' = now,
           NEW p \in Plans, NEW q \in Positions, Earned(q, now),
           position' = [position EXCEPT ![p] = q]
    PROVE  PositionTypes' /\ HarvestsEarned'
<1>1. PositionTypes' /\ position'[p] = q /\ \A r \in Plans \ {p} : position'[r] = position[r]
  BY DEF PositionTypes
<1>2. ASSUME NEW r \in Registered'
      PROVE  Earned(position'[r], now')
  <2>1. CASE r = p
    BY <1>1, <2>1
  <2>2. CASE r # p
    <3>1. r \in Registered /\ position'[r] = position[r]
      BY <1>1, <1>2, <2>2 DEF Registered
    <3>2. QED
      BY <3>1 DEF HarvestsEarned
  <2>3. QED
    BY <2>1, <2>2
<1>3. QED
  BY <1>1, <1>2 DEF HarvestsEarned

\* register_plan_yield of a known plan moves the watermark past the time it
\* was not asked to pay for.
LEMMA RegisterEarned ==
    ASSUME PositionTypes, HarvestsEarned, PoolTypeOK,
           NEW p \in Plans, NEW a \in Assets, NEW x \in Principals, RegisterPlanYield(p, a, x)
    PROVE  PositionTypes' /\ HarvestsEarned'
<1> DEFINE q == registered(position[p], a, x, now)
<1>1. now \in Nat /\ x \in U64 /\ x \in Nat /\ U64_MAX \in Nat
  <2>1. Principals \subseteq U64 /\ U64_MAX \in Nat
    BY YieldAssumption, PoolAssumption
  <2>2. now \in Nat
    BY DEF PoolTypeOK
  <2>3. QED
    BY <2>1, <2>2
<1>2. position' = [position EXCEPT ![p] = q] /\ now' = now
  BY DEF RegisterPlanYield, PositionStep, vars
<1>3. CASE position[p] = NoPosition
  <2>1. q = [asset |-> a, principal |-> x, last_harvest_at |-> now, total_harvested |-> 0,
             registered_at |-> now, boost_bps |-> 0, active |-> TRUE]
    BY <1>3 DEF registered
  <2>2. q \in Positions
    <3>1. 0 \in U64 /\ 0 \in 0..MAX_YIELD_BOOST_BPS
      BY <1>1, YieldAssumption
    <3>2. QED
      BY <1>1, <2>1, <3>1 DEF Positions, PositionOf
  <2>3. Earned(q, now)
    <3>1. Principals # {} /\ Steepest \in Nat /\ BPS \in Nat /\ YEAR \in Nat
      BY SteepestType, MathAssumption
    <3>2. 0 * BPS * YEAR = 0 /\ Steepest * (now - now) = 0
      BY <1>1, <3>1
    <3>3. QED
      BY <1>1, <2>1, <3>1, <3>2 DEF Earned
  <2> HIDE DEF q
  <2>4. QED
    BY <1>2, <2>2, <2>3, PositionWritten
<1>4. CASE position[p] # NoPosition
  <2> DEFINE old == position[p]
  <2>1. old \in Positions /\ Earned(old, now)
    BY <1>4, RegisteredFacts DEF HarvestsEarned, Registered
  <2>2. q = [old EXCEPT !.asset = a, !.principal = x, !.last_harvest_at = now, !.active = TRUE]
    BY <1>4 DEF registered
  <2>3. /\ q \in Positions /\ q.principal = x /\ q.last_harvest_at = now
        /\ q.total_harvested = old.total_harvested /\ q.registered_at = old.registered_at
    BY <1>1, <2>1, <2>2 DEF Positions, PositionOf
  <2> HIDE DEF q, old
  <2>4. Earned(q, now)
    <3>1. Earned(old, now) /\ old.last_harvest_at \in Nat /\ old.registered_at \in Nat
      BY <2>1, PositionFields
    <3>2. Steepest \in Nat
      BY <3>1, SteepestType DEF Earned
    <3>3. /\ old.last_harvest_at - old.registered_at \in Nat /\ now - old.registered_at \in Nat
          /\ old.last_harvest_at - old.registered_at <= now - old.registered_at
      BY <1>1, <3>1 DEF Earned
    <3>4. Steepest * (old.last_harvest_at - old.registered_at) <= Steepest * (now - old.registered_at)
      <4> DEFINE y == old.last_harvest_at - old.registered_at
                 z == now - old.registered_at
      <4>1. y \in Nat /\ z \in Nat /\ y <= z
        BY <3>3
      <4> HIDE DEF y, z
      <4>2. y * Steepest <= z * Steepest
        BY <3>2, <4>1, MulMono
      <4>3. y * Steepest = Steepest * y /\ z * Steepest = Steepest * z
        BY <3>2, <4>1
      <4>4. Steepest * y <= Steepest * z
        BY <4>2, <4>3
      <4>5. QED
        BY <4>4 DEF y, z
    <3>5. old.total_harvested * BPS * YEAR \in Nat
      BY <2>1, PositionFields, MathAssumption, MulNat
    <3>6. Steepest * (old.last_harvest_at - old.registered_at) \in Nat
          /\ Steepest * (now - old.registered_at) \in Nat
      BY <3>2, <3>3, MulNat
    <3>7. old.total_harvested * BPS * YEAR <= Steepest * (now - old.registered_at)
      BY <3>1, <3>4, <3>5, <3>6 DEF Earned
    <3>8. QED
      BY <1>1, <2>3, <3>1, <3>7 DEF Earned
  <2>5. QED
    BY <1>2, <2>3, <2>4, PositionWritten
<1>5. QED
  BY <1>3, <1>4

\* What a claim pays is pending, and is in the bucket.
LEMMA PayableType ==
    ASSUME PoolTypeOK, RateModelIsInput, PositionTypes,
           NEW p \in Registered, Earned(position[p], now)
    PROVE  /\ Payable(p) \in Nat /\ Payable(p) <= Accrued(p)
           /\ position[p].asset \in Assets
           /\ retained_yield[position[p].asset] \in Nat
           /\ retained_yield[position[p].asset] <= U64_MAX
           /\ Payable(p) <= retained_yield[position[p].asset]
<1>1. position[p].asset \in Assets
  BY RegisteredFacts, PositionFields
<1>2. retained_yield[position[p].asset] \in 0..U64_MAX /\ U64_MAX \in Nat
  BY <1>1, PoolAssumption DEF PoolTypeOK
<1>3. Accrued(p) \in Nat
  BY AccruedBound
<1>4. Payable(p) = lesser(Accrued(p), retained_yield[position[p].asset])
  BY DEF Payable
<1> DEFINE x == Accrued(p)
           y == retained_yield[position[p].asset]
<1>5. x \in Nat /\ y \in Nat /\ y <= U64_MAX
  BY <1>2, <1>3
<1> HIDE DEF x, y
<1>6. lesser(x, y) \in Nat /\ lesser(x, y) <= x /\ lesser(x, y) <= y
  BY <1>5 DEF lesser
<1>7. QED
  BY <1>1, <1>4, <1>5, <1>6 DEF x, y

LEMMA ClaimEarned ==
    ASSUME PositionTypes, HarvestsEarned, PoolTypeOK, RateModelIsInput,
           NEW p \in Plans, ClaimPlanYield(p)
    PROVE  /\ PositionTypes' /\ HarvestsEarned'
           /\ retained_yield' \in [Assets -> U64]
<1> DEFINE old == position[p]
           x == Payable(p)
           q == harvested(old, x, now, U64_MAX)
           d == BPS * YEAR
           total == old.total_harvested
           since == old.last_harvest_at - old.registered_at
           e == now - old.last_harvest_at
<1>1. /\ p \in Registered /\ now' = now
      /\ position' = [position EXCEPT ![p] = q]
      /\ retained_yield' =
            [retained_yield EXCEPT ![old.asset] = saturating_sub(@, x)]
  BY DEF ClaimPlanYield
<1>2. old \in Positions /\ Earned(old, now)
  BY <1>1, RegisteredFacts DEF HarvestsEarned
<1>3. /\ x \in Nat /\ x <= Accrued(p) /\ old.asset \in Assets
      /\ retained_yield[old.asset] \in Nat /\ retained_yield[old.asset] <= U64_MAX
      /\ x <= retained_yield[old.asset]
  BY <1>1, <1>2, PayableType
<1>4. /\ Accrued(p) \in Nat
      /\ Accrued(p) * BPS * YEAR <= Steepest * e
  BY <1>1, <1>2, AccruedBound
<1>5. /\ total \in Nat /\ old.last_harvest_at \in Nat /\ old.registered_at \in Nat
      /\ now \in Nat /\ U64_MAX \in Nat /\ BPS \in Nat /\ YEAR \in Nat
  BY <1>2, PositionFields, PoolAssumption, MathAssumption DEF PoolTypeOK
<1>6. /\ old.principal \in Principals \cup {0} /\ Principals # {}
      /\ since \in Nat /\ e \in Nat
      /\ total * BPS * YEAR <= Steepest * since
  BY <1>2, <1>5 DEF Earned
<1>7. retained_yield' \in [Assets -> U64]
  <2> DEFINE y == retained_yield[old.asset]
  <2>1. saturating_sub(y, x) \in U64
    <3>1. y \in Nat /\ x \in Nat /\ x <= y /\ y <= U64_MAX
      BY <1>3
    <3> HIDE DEF x, y
    <3>2. QED
      BY <1>5, <3>1 DEF saturating_sub
  <2>2. retained_yield \in [Assets -> U64]
    BY DEF PoolTypeOK
  <2> HIDE DEF x
  <2>3. QED
    BY <1>1, <1>3, <2>1, <2>2
<1> DEFINE more == capped(total + x, U64_MAX)
<1>8. more \in U64 /\ more \in Nat /\ more <= total + x
  <2> HIDE DEF x, total
  <2>1. QED
    BY <1>3, <1>5 DEF capped
<1>9. /\ q \in Positions /\ q.principal = old.principal /\ q.last_harvest_at = now
      /\ q.total_harvested = more /\ q.registered_at = old.registered_at
  <2>1. q = [old EXCEPT !.last_harvest_at = now, !.total_harvested = more]
    BY DEF harvested
  <2> HIDE DEF more, q
  <2>2. QED
    BY <1>2, <1>5, <1>8, <2>1 DEF Positions, PositionOf
<1>10. more * BPS * YEAR <= Steepest * (now - old.registered_at)
  <2> DEFINE A == Accrued(p)
  <2>1. d \in Nat
    BY <1>5, MulNat
  <2>2. A \in Nat /\ x <= A
    BY <1>3, <1>4
  <2>3. A * BPS * YEAR = A * d /\ total * BPS * YEAR = total * d /\ more * BPS * YEAR = more * d
    <3>1. \A n \in Nat : n * BPS * YEAR = n * d
      BY <1>5
    <3> HIDE DEF A, total, more, d
    <3>2. total \in Nat
      BY <1>5
    <3>3. QED
      BY <1>8, <2>2, <3>1, <3>2
  <2>4. Steepest \in Nat
    BY <1>6, SteepestType
  <2>5. now - old.registered_at = since + e
    BY <1>5
  <2> HIDE DEF A, total, more, d, x, e, since
  <2>6. total \in Nat /\ e \in Nat /\ since \in Nat
    BY <1>5, <1>6
  <2>7. more * d <= (total + A) * d
    <3>1. more <= total + A /\ total + A \in Nat
      BY <1>3, <1>8, <2>2, <2>6
    <3>2. QED
      BY <1>8, <2>1, <3>1, MulMono
  <2>8. (total + A) * d = total * d + A * d
    BY <2>1, <2>2, <2>6
  <2>9. Steepest * (since + e) = Steepest * since + Steepest * e
    BY <2>4, <2>6
  <2>10. /\ more * d \in Nat /\ total * d \in Nat /\ A * d \in Nat
         /\ Steepest * since \in Nat /\ Steepest * e \in Nat
    BY <1>8, <2>1, <2>2, <2>4, <2>6, MulNat
  <2>11. total * d <= Steepest * since /\ A * d <= Steepest * e
    BY <1>4, <1>6, <2>3 DEF A
  <2>12. more * d <= Steepest * since + Steepest * e
    BY <2>7, <2>8, <2>10, <2>11
  <2>13. QED
    BY <2>3, <2>5, <2>9, <2>12
<1>11. Earned(q, now)
  <2> HIDE DEF q, more, x
  <2>1. old.registered_at <= now
    <3>1. old.registered_at <= old.last_harvest_at /\ old.last_harvest_at <= now
      BY <1>2 DEF Earned
    <3>2. QED
      BY <1>5, <3>1
  <2>2. QED
    BY <1>5, <1>6, <1>9, <1>10, <2>1 DEF Earned
<1>12. PositionTypes' /\ HarvestsEarned'
  <2> HIDE DEF q, more, x
  <2>1. QED
    BY <1>1, <1>9, <1>11, PositionWritten
<1>13. QED
  BY <1>7, <1>12

\* Stopping a position or changing its boost takes no time back.
LEMMA SetEarned ==
    ASSUME PositionTypes, HarvestsEarned, PoolTypeOK, NEW p \in Plans,
           UnregisterPlanYield(p) \/ \E b \in Boosts : SetPlanYieldBoost(p, b)
    PROVE  PositionTypes' /\ HarvestsEarned'
<1> DEFINE old == position[p]
<1>1. p \in Registered /\ now' = now
  BY DEF UnregisterPlanYield, SetPlanYieldBoost, PositionStep, vars
<1>2. old \in Positions /\ Earned(old, now)
  BY <1>1, RegisteredFacts DEF HarvestsEarned
<1>3. U64_MAX \in Nat /\ 0 \in U64 /\ MAX_YIELD_BOOST_BPS \in Nat /\ Boosts \subseteq Nat
  BY PoolAssumption, YieldAssumption
<1>4. CASE UnregisterPlanYield(p)
  <2> DEFINE q == [old EXCEPT !.active = FALSE, !.principal = 0]
  <2>1. position' = [position EXCEPT ![p] = q]
    BY <1>4 DEF UnregisterPlanYield, unregistered
  <2>2. /\ q \in Positions /\ q.principal = 0 /\ q.last_harvest_at = old.last_harvest_at
        /\ q.total_harvested = old.total_harvested /\ q.registered_at = old.registered_at
    BY <1>2, <1>3 DEF Positions, PositionOf
  <2>3. Earned(q, now)
    <3> HIDE DEF q
    <3>1. QED
      BY <1>2, <2>2 DEF Earned
  <2> HIDE DEF q
  <2>4. QED
    BY <1>1, <2>1, <2>2, <2>3, PositionWritten
<1>5. CASE \E b \in Boosts : SetPlanYieldBoost(p, b)
  <2>1. PICK b \in Boosts : SetPlanYieldBoost(p, b)
    BY <1>5
  <2> DEFINE q == [old EXCEPT !.boost_bps = b]
  <2>2. position' = [position EXCEPT ![p] = q] /\ b \in 0..MAX_YIELD_BOOST_BPS
    BY <1>3, <2>1 DEF SetPlanYieldBoost
  <2>3. /\ q \in Positions /\ q.principal = old.principal
        /\ q.last_harvest_at = old.last_harvest_at
        /\ q.total_harvested = old.total_harvested /\ q.registered_at = old.registered_at
    BY <1>2, <2>2 DEF Positions, PositionOf
  <2>4. Earned(q, now)
    <3> HIDE DEF q
    <3>1. QED
      BY <1>2, <2>3 DEF Earned
  <2> HIDE DEF q
  <2>5. QED
    BY <1>1, <2>2, <2>3, <2>4, PositionWritten
<1>6. QED
  BY <1>4, <1>5

LEMMA YieldStep ==
    ASSUME PositionTypes, HarvestsEarned, BookInv, RateModelIsInput, YieldNext
    PROVE  PositionTypes' /\ HarvestsEarned' /\ BookInv' /\ RateModelIsInput'
<1>1. PICK p \in Plans :
        \/ \E a \in Assets, x \in Principals : RegisterPlanYield(p, a, x)
        \/ ClaimPlanYield(p)
        \/ UnregisterPlanYield(p)
        \/ \E b \in Boosts : SetPlanYieldBoost(p, b)
  BY DEF YieldNext
<1>2. PoolTypeOK
  BY DEF BookInv
<1>3. settings' = settings
  BY <1>1 DEF RegisterPlanYield, ClaimPlanYield, UnregisterPlanYield, SetPlanYieldBoost,
       PositionStep, vars
<1>4. CASE ClaimPlanYield(p)
  <2>1. PositionTypes' /\ HarvestsEarned' /\ retained_yield' \in [Assets -> U64]
    BY <1>2, <1>4, ClaimEarned
  <2>2. held' \in [Tokens -> Nat]
    BY <1>2, <1>4 DEF ClaimPlanYield, PoolTypeOK
  <2>3. BookInv'
    BY <1>4, <2>1, <2>2, BookAside DEF ClaimPlanYield
  <2>4. QED
    BY <1>3, <2>1, <2>3 DEF RateModelIsInput
<1>5. CASE ~ClaimPlanYield(p)
  <2>1. PositionTypes' /\ HarvestsEarned'
    BY <1>1, <1>2, <1>5, RegisterEarned, SetEarned
  <2>2. UNCHANGED vars
    BY <1>1, <1>5 DEF RegisterPlanYield, UnregisterPlanYield, SetPlanYieldBoost, PositionStep
  <2>3. BookInv'
    BY <2>2, BookStep
  <2>4. QED
    BY <1>3, <2>1, <2>3 DEF RateModelIsInput
<1>6. QED
  BY <1>4, <1>5

-----------------------------------------------------------------------------
(* Staking *)

StakingTypes ==
    /\ reward_pool \in [Assets -> RewardPool]
    /\ user_stake \in [Users -> [Assets -> UserStake]]

LEMMA OrZeroType == \A x : OrZero(x) \in U64 /\ OrZero(x) \in Nat
<1>1. U64_MAX \in Nat
  BY PoolAssumption
<1>2. QED
  BY <1>1 DEF OrZero

LEMMA StakeFields ==
    ASSUME StakingTypes, NEW u \in Users, NEW a \in Assets
    PROVE  /\ reward_pool[a] \in RewardPool
           /\ reward_pool[a].total_staked \in Nat /\ reward_pool[a].total_staked <= U64_MAX
           /\ reward_pool[a].reward_rate \in Nat /\ reward_pool[a].last_update_time \in Nat
           /\ reward_pool[a].reward_per_token_stored \in U64
           /\ user_stake[u][a] \in UserStake
           /\ user_stake[u][a].amount \in Nat /\ user_stake[u][a].rewards \in U64
           /\ user_stake[u][a].reward_per_token_paid \in U64
           /\ U64_MAX \in Nat
BY PoolAssumption DEF StakingTypes, RewardPool, UserStake

\* Bringing the count up to date changes neither the stakes nor the rate.
LEMMA UpdatedType ==
    ASSUME StakingTypes, now \in Nat, NEW a \in Assets
    PROVE  /\ UpdatedRewardPool(a) \in RewardPool
           /\ UpdatedRewardPool(a).total_staked = reward_pool[a].total_staked
           /\ UpdatedRewardPool(a).last_update_time = now
<1> DEFINE r == reward_pool[a]
           elapsed == IF r.total_staked > 0
                      THEN saturating_sub(now, r.last_update_time) ELSE 0
           per_token == OrZero(elapsed * r.reward_rate)
           stored == OrZero(r.reward_per_token_stored + per_token)
           given == OrZero(r.total_rewards_distributed
                           + OrZero(per_token * r.total_staked) \div REWARD_PRECISION)
<1>1. r \in RewardPool
  BY DEF StakingTypes
<1>2. stored \in U64 /\ given \in U64
  BY OrZeroType
<1>3. UpdatedRewardPool(a) = [r EXCEPT !.reward_per_token_stored = stored,
                                       !.total_rewards_distributed = given,
                                       !.last_update_time = now]
  <2>1. r = [total_staked |-> r.total_staked, reward_rate |-> r.reward_rate,
             last_update_time |-> r.last_update_time,
             reward_per_token_stored |-> r.reward_per_token_stored,
             total_rewards_distributed |-> r.total_rewards_distributed]
    BY <1>1 DEF RewardPool
  <2>2. QED
    BY <2>1 DEF UpdatedRewardPool
<1> HIDE DEF stored, given, r
<1>4. QED
  BY <1>1, <1>2, <1>3 DEF RewardPool, r

LEMMA PendingType ==
    ASSUME StakingTypes, NEW u \in Users, NEW a \in Assets
    PROVE  PendingRewards(u, a) \in U64
BY OrZeroType, StakeFields DEF PendingRewards

LEMMA CreditedType ==
    ASSUME StakingTypes, NEW u \in Users, NEW a \in Assets
    PROVE  /\ CreditedStake(u, a) \in UserStake
           /\ CreditedStake(u, a).amount = user_stake[u][a].amount
<1> DEFINE x == PendingRewards(u, a)
           y == reward_pool[a].reward_per_token_stored
<1>1. x \in U64 /\ y \in U64 /\ user_stake[u][a] \in UserStake
  BY PendingType, StakeFields
<1>2. CreditedStake(u, a) = [user_stake[u][a] EXCEPT !.reward_per_token_paid = y, !.rewards = x]
  BY DEF CreditedStake
<1> HIDE DEF x, y
<1>3. QED
  BY <1>1, <1>2 DEF UserStake

StakedBy(stake, a) == [u \in Users |-> stake[u][a].amount]

LEMMA StakesMean ==
    /\ StakesAddUp <=> \A a \in Assets :
          reward_pool[a].total_staked = SumOver(StakedBy(user_stake, a), Users)
    /\ StakesAddUp' <=> \A a \in Assets :
          reward_pool'[a].total_staked = SumOver(StakedBy(user_stake', a), Users)
<1>1. \A s, a : SumFunction([u \in Users |-> s[u][a].amount]) = SumOver(StakedBy(s, a), Users)
  <2>1. SUFFICES ASSUME NEW s, NEW a
                 PROVE  SumFunction([u \in Users |-> s[u][a].amount]) = SumOver(StakedBy(s, a), Users)
    OBVIOUS
  <2>2. StakedBy(s, a) = [u \in Users |-> StakedBy(s, a)[u]]
    BY DEF StakedBy
  <2>3. SumFunction(StakedBy(s, a)) = SumOver(StakedBy(s, a), Users)
    BY <2>2, SumIsSumOver
  <2>4. QED
    BY <2>3 DEF StakedBy
<1>2. QED
  BY <1>1 DEF StakesAddUp

\* One pool is written, and at most one stake in it, which changes by as
\* much as the pool's total does.
LEMMA StakesWritten ==
    ASSUME StakingTypes, StakesAddUp, NEW u \in Users, NEW a \in Assets,
           NEW s \in UserStake, NEW r \in RewardPool,
           reward_pool' = [reward_pool EXCEPT ![a] = r],
           user_stake' = [user_stake EXCEPT ![u][a] = s],
           r.total_staked = reward_pool[a].total_staked - user_stake[u][a].amount + s.amount
    PROVE  StakingTypes' /\ StakesAddUp'
<1>1. StakingTypes'
  BY DEF StakingTypes
<1>2. /\ \A b \in Assets : reward_pool'[b] = IF b = a THEN r ELSE reward_pool[b]
      /\ \A v \in Users, b \in Assets :
            user_stake'[v][b] = IF v = u /\ b = a THEN s ELSE user_stake[v][b]
  BY DEF StakingTypes
<1>3. ASSUME NEW b \in Assets
      PROVE  reward_pool'[b].total_staked = SumOver(StakedBy(user_stake', b), Users)
  <2>1. PICK f, g : f = StakedBy(user_stake, b) /\ g = StakedBy(user_stake', b)
    OBVIOUS
  <2>2. reward_pool[b].total_staked = SumOver(f, Users)
    BY <2>1, StakesMean
  <2>3. /\ \A v \in Users : f[v] = user_stake[v][b].amount
        /\ \A v \in Users : g[v] = user_stake'[v][b].amount
    BY <2>1 DEF StakedBy
  <2>4. CASE b # a
    <3>1. \A v \in Users : g[v] = f[v]
      BY <1>2, <2>3, <2>4
    <3>2. SumOver(g, Users) = SumOver(f, Users)
      BY <3>1, SumOverSame
    <3>3. QED
      BY <1>2, <2>2, <2>4, <3>2, <2>1
  <2>5. CASE b = a
    <3>1. \A v \in Users : f[v] \in Int
      <4>1. \A v \in Users : user_stake[v][b].amount \in Nat
        BY StakeFields
      <4>2. QED
        BY <2>3, <4>1
    <3>2. \A v \in Users \ {u} : g[v] = f[v]
      BY <1>2, <2>3
    <3>3. g[u] = s.amount /\ g[u] \in Int /\ f[u] = user_stake[u][a].amount
      <4>1. s.amount \in Int
        BY PoolAssumption DEF UserStake
      <4>2. QED
        BY <1>2, <2>3, <2>5, <4>1
    <3>4. IsFiniteSet(Users)
      BY PoolAssumption
    <3>5. g[u] \in Int
      BY <3>3
    <3>6. u \in Users
      OBVIOUS
    <3>7. SumOver(g, Users) = SumOver(f, Users) - f[u] + g[u]
      BY ONLY <3>1, <3>2, <3>4, <3>5, <3>6, SumOverUpdate
    <3>8. QED
      BY <1>2, <2>2, <2>5, <3>3, <3>7, <2>1
  <2>6. QED
    BY <2>4, <2>5
<1>4. StakesAddUp'
  BY <1>3, StakesMean
<1>5. QED
  BY <1>1, <1>4

\* A pool's total covers every single stake in it.
LEMMA StakeInTotal ==
    ASSUME StakingTypes, StakesAddUp, NEW u \in Users, NEW a \in Assets
    PROVE  user_stake[u][a].amount <= reward_pool[a].total_staked
<1> DEFINE f == StakedBy(user_stake, a)
<1>1. /\ reward_pool[a].total_staked = SumOver(f, Users)
      /\ \A v \in Users : f[v] = user_stake[v][a].amount
  BY StakesMean DEF StakedBy
<1>2. \A v \in Users : f[v] \in Nat
  BY <1>1, StakeFields
<1>3. IsFiniteSet(Users)
  BY PoolAssumption
<1> HIDE DEF f
<1>4. f[u] <= SumOver(f, Users)
  BY <1>2, <1>3, SumOverNat
<1>5. QED
  BY <1>1, <1>4

\* One pool is written and no stake.
LEMMA PoolWritten ==
    ASSUME StakingTypes, StakesAddUp, NEW a \in Assets, NEW r \in RewardPool,
           reward_pool' = [reward_pool EXCEPT ![a] = r], user_stake' = user_stake,
           r.total_staked = reward_pool[a].total_staked
    PROVE  StakingTypes' /\ StakesAddUp'
<1>1. StakingTypes'
  BY DEF StakingTypes
<1>2. \A b \in Assets : reward_pool'[b].total_staked = reward_pool[b].total_staked
  BY DEF StakingTypes
<1>3. StakesAddUp'
  BY <1>2, StakesMean
<1>4. QED
  BY <1>1, <1>3

LEMMA StakeStep ==
    ASSUME StakingTypes, StakesAddUp, now \in Nat, NEW u \in Users, NEW a \in Assets,
           NEW x \in StakeAmounts, StakeLpTokens(u, a, x)
    PROVE  StakingTypes' /\ StakesAddUp'
<1> DEFINE old == user_stake[u][a].amount
           staked == reward_pool[a].total_staked
           up == UpdatedRewardPool(a)
           s == [amount |-> old + x, reward_per_token_paid |-> up.reward_per_token_stored,
                 rewards |-> 0]
           r == [up EXCEPT !.total_staked = staked + x]
<1>1. /\ up \in RewardPool /\ up.total_staked = staked
      /\ staked \in Nat /\ old \in Nat /\ U64_MAX \in Nat
  BY UpdatedType, StakeFields
<1>2. x \in Nat /\ old <= staked /\ staked + x <= MaxStaked /\ MaxStaked \in 0..U64_MAX
  BY <1>1, StakeInTotal, StakingAssumption DEF StakeLpTokens
<1>3. old + x \in U64 /\ staked + x \in U64
  <2> HIDE DEF old, staked
  <2>1. QED
    BY <1>1, <1>2
<1>4. user_stake' = [user_stake EXCEPT ![u][a] = s]
  <2>1. user_stake' = [user_stake EXCEPT
           ![u][a] = [amount |-> OrZero(@.amount + x),
                      reward_per_token_paid |-> up.reward_per_token_stored,
                      rewards |-> 0]]
    BY DEF StakeLpTokens
  <2>2. OrZero(old + x) = old + x
    BY <1>3 DEF OrZero
  <2> HIDE DEF up
  <2>3. QED
    BY <2>1, <2>2 DEF StakingTypes
<1>5. reward_pool' = [reward_pool EXCEPT ![a] = r]
  <2>1. reward_pool' = [reward_pool EXCEPT ![a] = [up EXCEPT !.total_staked = OrZero(@ + x)]]
    BY DEF StakeLpTokens
  <2>2. OrZero(up.total_staked + x) = staked + x
    BY <1>1, <1>3 DEF OrZero
  <2> HIDE DEF up, staked
  <2>3. QED
    BY <2>1, <2>2 DEF r
<1>6. s \in UserStake /\ s.amount = old + x
  <2>1. up.reward_per_token_stored \in U64 /\ 0 \in U64
    BY <1>1 DEF RewardPool
  <2> HIDE DEF up, old
  <2>2. QED
    BY <1>3, <2>1 DEF UserStake
<1>7. r \in RewardPool /\ r.total_staked = staked + x
  <2> HIDE DEF up, staked
  <2>1. QED
    BY <1>1, <1>3 DEF RewardPool
<1>8. r.total_staked = staked - old + s.amount
  <2> HIDE DEF r, s, old, staked
  <2>1. QED
    BY <1>1, <1>2, <1>6, <1>7
<1> HIDE DEF r, s
<1>9. QED
  BY <1>4, <1>5, <1>6, <1>7, <1>8, StakesWritten

LEMMA UnstakeStep ==
    ASSUME StakingTypes, StakesAddUp, now \in Nat, NEW u \in Users, NEW a \in Assets,
           NEW x \in StakeAmounts, UnstakeLpTokens(u, a, x)
    PROVE  StakingTypes' /\ StakesAddUp'
<1> DEFINE old == user_stake[u][a].amount
           staked == reward_pool[a].total_staked
           up == UpdatedRewardPool(a)
           credited == CreditedStake(u, a)
           mark == IF old = x THEN 0 ELSE credited.reward_per_token_paid
           s == [credited EXCEPT !.amount = old - x, !.reward_per_token_paid = mark]
           r == [up EXCEPT !.total_staked = staked - x]
<1>1. /\ up \in RewardPool /\ up.total_staked = staked
      /\ credited \in UserStake /\ credited.amount = old
      /\ staked \in Nat /\ staked <= U64_MAX /\ old \in Nat /\ U64_MAX \in Nat
  BY UpdatedType, StakeFields, CreditedType
<1>2. x \in Nat /\ old <= staked /\ x <= old
  BY <1>1, StakeInTotal, StakingAssumption, PoolAssumption DEF UnstakeLpTokens
<1>3. /\ old - x \in U64 /\ staked - x \in U64
      /\ saturating_sub(old, x) = old - x /\ saturating_sub(staked, x) = staked - x
  <2> HIDE DEF old, staked
  <2>1. QED
    BY <1>1, <1>2 DEF saturating_sub
<1>4. user_stake' = [user_stake EXCEPT ![u][a] = s]
  <2>1. user_stake' = [user_stake EXCEPT
           ![u][a] = [credited EXCEPT
               !.amount = saturating_sub(@, x),
               !.reward_per_token_paid = IF credited.amount = x THEN 0 ELSE @]]
    BY DEF UnstakeLpTokens
  <2> HIDE DEF credited
  <2>2. QED
    BY <1>1, <1>3, <2>1
<1>5. reward_pool' = [reward_pool EXCEPT ![a] = r]
  <2>1. reward_pool' = [reward_pool EXCEPT ![a] = [up EXCEPT !.total_staked = saturating_sub(@, x)]]
    BY DEF UnstakeLpTokens
  <2> HIDE DEF up, staked
  <2>2. QED
    BY <1>1, <1>3, <2>1 DEF r
<1>6. s \in UserStake /\ s.amount = old - x
  <2>1. mark \in U64
    BY <1>1 DEF UserStake
  <2> HIDE DEF credited, old, mark
  <2>2. QED
    BY <1>1, <1>3, <2>1 DEF UserStake
<1>7. r \in RewardPool /\ r.total_staked = staked - x
  <2> HIDE DEF up, staked
  <2>1. QED
    BY <1>1, <1>3 DEF RewardPool
<1>8. r.total_staked = staked - old + s.amount
  <2> HIDE DEF r, s, old, staked
  <2>1. QED
    BY <1>1, <1>2, <1>6, <1>7
<1> HIDE DEF r, s
<1>9. QED
  BY <1>4, <1>5, <1>6, <1>7, <1>8, StakesWritten

LEMMA ClaimRewardsStep ==
    ASSUME StakingTypes, StakesAddUp, now \in Nat, NEW u \in Users, NEW a \in Assets,
           ClaimRewards(u, a)
    PROVE  StakingTypes' /\ StakesAddUp'
<1> DEFINE r == UpdatedRewardPool(a)
           s == [CreditedStake(u, a) EXCEPT !.rewards = 0]
<1>1. /\ r \in RewardPool /\ r.total_staked = reward_pool[a].total_staked
      /\ r.total_staked \in Nat /\ user_stake[u][a].amount \in Nat
  BY UpdatedType, StakeFields
<1>2. s \in UserStake /\ s.amount = user_stake[u][a].amount
  <2>1. 0 \in U64
    BY PoolAssumption
  <2>2. QED
    BY <2>1, CreditedType DEF UserStake
<1>3. /\ reward_pool' = [reward_pool EXCEPT ![a] = r]
      /\ user_stake' = [user_stake EXCEPT ![u][a] = s]
  BY DEF ClaimRewards
<1> HIDE DEF r, s
<1>4. r.total_staked = reward_pool[a].total_staked - user_stake[u][a].amount + s.amount
  BY <1>1, <1>2
<1>5. QED
  BY <1>1, <1>2, <1>3, <1>4, StakesWritten

LEMMA StakingStep ==
    ASSUME StakingTypes, StakesAddUp, now \in Nat, StakingNext
    PROVE  StakingTypes' /\ StakesAddUp' /\ UNCHANGED vars
<1>1. PICK a \in Assets :
        \/ \E u \in Users :
              \/ \E x \in StakeAmounts : StakeLpTokens(u, a, x) \/ UnstakeLpTokens(u, a, x)
              \/ ClaimRewards(u, a)
        \/ GetPendingRewards(a)
        \/ \E r \in RewardRates : SetRewardRate(a, r)
  BY DEF StakingNext
<1>2. UNCHANGED vars
  BY <1>1 DEF StakeLpTokens, UnstakeLpTokens, ClaimRewards, GetPendingRewards, SetRewardRate
<1>3. CASE \E u \in Users :
              \/ \E x \in StakeAmounts : StakeLpTokens(u, a, x) \/ UnstakeLpTokens(u, a, x)
              \/ ClaimRewards(u, a)
  BY <1>2, <1>3, StakeStep, UnstakeStep, ClaimRewardsStep
<1> DEFINE up == UpdatedRewardPool(a)
<1>4. up \in RewardPool /\ up.total_staked = reward_pool[a].total_staked
  BY UpdatedType
<1>5. CASE GetPendingRewards(a)
  <2>1. reward_pool' = [reward_pool EXCEPT ![a] = up] /\ user_stake' = user_stake
    BY <1>5 DEF GetPendingRewards
  <2> HIDE DEF up
  <2>2. QED
    BY <1>2, <1>4, <2>1, PoolWritten
<1>6. CASE \E rate \in RewardRates : SetRewardRate(a, rate)
  <2>1. PICK rate \in RewardRates : SetRewardRate(a, rate)
    BY <1>6
  <2> DEFINE r == [up EXCEPT !.reward_rate = rate]
  <2>2. reward_pool' = [reward_pool EXCEPT ![a] = r] /\ user_stake' = user_stake
    BY <2>1 DEF SetRewardRate
  <2>3. rate \in U64
    BY StakingAssumption
  <2> HIDE DEF up
  <2>4. r \in RewardPool /\ r.total_staked = reward_pool[a].total_staked
    BY <1>4, <2>3 DEF RewardPool
  <2> HIDE DEF r
  <2>5. QED
    BY <1>2, <2>2, <2>4, PoolWritten
<1>7. QED
  BY <1>1, <1>3, <1>5, <1>6

\* A claim brings the count up to date and marks the stake with the count before.
LEMMA ClaimSettlesStep ==
    ASSUME StakingTypes, now \in Nat, NEW u \in Users, NEW a \in Assets, ClaimRewards(u, a)
    PROVE  PendingRewards(u, a)' <= NotYetCounted(u, a)
<1> DEFINE r == reward_pool[a]
           count == r.reward_per_token_stored
           total == UpdatedRewardPool(a).reward_per_token_stored
           s == user_stake'[u][a]
<1>1. now' = now
  BY DEF ClaimRewards, vars
<1>2. count \in U64 /\ U64_MAX \in Nat /\ count \in Nat
  BY StakeFields
<1>4. total \in U64 /\ total \in Nat /\ UpdatedRewardPool(a).last_update_time = now
  <2>1. total \in U64
    BY UpdatedType DEF RewardPool
  <2>2. QED
    BY <2>1, UpdatedType, PoolAssumption
<1>5. /\ s.rewards = 0 /\ s.reward_per_token_paid = count /\ s.amount = user_stake[u][a].amount
      /\ s.amount \in Nat
  <2>1. user_stake' = [user_stake EXCEPT ![u][a] = [CreditedStake(u, a) EXCEPT !.rewards = 0]]
    BY DEF ClaimRewards
  <2>2. s = [CreditedStake(u, a) EXCEPT !.rewards = 0]
    BY <2>1 DEF StakingTypes
  <2>3. /\ CreditedStake(u, a) \in UserStake
        /\ CreditedStake(u, a).amount = user_stake[u][a].amount
        /\ CreditedStake(u, a).reward_per_token_paid = count
    BY CreditedType, StakeFields DEF CreditedStake, UserStake
  <2>4. QED
    BY <2>2, <2>3, StakeFields DEF UserStake
<1>6. reward_pool'[a] = UpdatedRewardPool(a)
  BY DEF ClaimRewards, StakingTypes
<1> DEFINE n == reward_pool'[a]
<1>7. /\ n \in RewardPool /\ n.reward_per_token_stored = total /\ n.last_update_time = now
      /\ n.reward_rate \in Nat
  <2>1. n \in RewardPool
    BY <1>6, UpdatedType
  <2>2. QED
    BY <1>4, <1>6, <2>1, PoolAssumption DEF RewardPool
<1>8. UpdatedRewardPool(a)'.reward_per_token_stored = total
  <2> DEFINE elapsed == IF n.total_staked > 0
                        THEN saturating_sub(now', n.last_update_time) ELSE 0
             per_token == OrZero(elapsed * n.reward_rate)
  <2>1. elapsed = 0
    BY <1>1, <1>7 DEF saturating_sub
  <2>2. elapsed * n.reward_rate = 0
    <3> HIDE DEF elapsed, n
    <3>1. QED
      BY <1>7, <2>1
  <2>3. per_token = 0
    BY <1>2, <2>2 DEF OrZero
  <2>4. OrZero(n.reward_per_token_stored + per_token) = total
    <3> HIDE DEF per_token, total, n
    <3>1. QED
      BY <1>4, <1>7, <2>3 DEF OrZero
  <2>5. UpdatedRewardPool(a)'.reward_per_token_stored = OrZero(n.reward_per_token_stored + per_token)
    BY <1>7 DEF UpdatedRewardPool, RewardPool
  <2>6. QED
    BY <2>4, <2>5
<1>9. PendingRewards(u, a)' =
        LET diff == saturating_sub(UpdatedRewardPool(a)'.reward_per_token_stored,
                                   s.reward_per_token_paid)
        IN  IF s.amount = 0 THEN s.rewards
            ELSE OrZero(s.rewards + OrZero(diff * s.amount) \div REWARD_PRECISION)
  BY DEF PendingRewards
<1> DEFINE diff == saturating_sub(total, count)
           uncounted == OrZero(diff * s.amount) \div REWARD_PRECISION
<1>10. uncounted \in U64 /\ uncounted \in Nat
  <2>1. OrZero(diff * s.amount) \in U64
    <3> HIDE DEF diff, s
    <3>1. QED
      BY PoolAssumption DEF OrZero
  <2> HIDE DEF diff, s
  <2> DEFINE earned == OrZero(diff * s.amount)
  <2>2. earned \in Nat /\ earned <= U64_MAX /\ U64_MAX \in Nat
    BY <2>1, PoolAssumption
  <2> HIDE DEF earned
  <2>3. earned \div REWARD_PRECISION \in Nat /\ earned \div REWARD_PRECISION <= earned
    <3>1. 1 \in 0 .. REWARD_PRECISION /\ earned * 1 = earned
      BY <2>2, StakingAssumption
    <3>2. QED
      BY <2>2, <3>1, StakingAssumption, PartAtMost
  <2>4. QED
    BY <2>2, <2>3, PoolAssumption DEF earned
<1>11. NotYetCounted(u, a) = uncounted
  <2>1. NotYetCounted(u, a) = OrZero(diff * user_stake[u][a].amount) \div REWARD_PRECISION
    BY DEF NotYetCounted
  <2> HIDE DEF diff, s
  <2>2. QED
    BY <1>5, <2>1
<1> HIDE DEF s, count, total
<1>12. CASE s.amount = 0
  <2> HIDE DEF uncounted
  <2>1. PendingRewards(u, a)' = 0
    BY <1>5, <1>9, <1>12
  <2>2. QED
    BY <1>10, <1>11, <2>1
<1>13. CASE s.amount # 0
  <2>1. PendingRewards(u, a)' = OrZero(0 + uncounted)
    BY <1>5, <1>8, <1>9, <1>13
  <2> HIDE DEF uncounted
  <2>2. OrZero(0 + uncounted) = uncounted
    BY <1>10 DEF OrZero
  <2>3. QED
    BY <1>10, <1>11, <2>1, <2>2
<1>14. QED
  BY <1>12, <1>13

-----------------------------------------------------------------------------
(* Loan insurance *)

InsuranceTypes ==
    /\ policy \in [LoanIds -> LoanInsurance \cup {NoPolicy}]
    /\ insurance_fund \in InsuranceFund
    /\ premium_rate_bps \in 0..BPS

\* What the books count as paid for one policy, and for all of them.
CoverOf(p) == IF p # NoPolicy /\ p.claimed THEN p.coverage_amount ELSE 0
CoversPaid(policies) == [i \in LoanIds |-> CoverOf(policies[i])]

LEMMA CoverMeans ==
    /\ CoverPaidOnce <=>
          insurance_fund.total_claims_paid = lesser(SumOver(CoversPaid(policy), LoanIds), U64_MAX)
    /\ CoverPaidOnce' <=>
          insurance_fund'.total_claims_paid = lesser(SumOver(CoversPaid(policy'), LoanIds), U64_MAX)
<1>1. \A f : SumFunction([i \in LoanIds |-> IF f[i] # NoPolicy /\ f[i].claimed
                                            THEN f[i].coverage_amount ELSE 0])
                = SumOver(CoversPaid(f), LoanIds)
  <2>1. SUFFICES ASSUME NEW f
                 PROVE  SumFunction([i \in LoanIds |-> IF f[i] # NoPolicy /\ f[i].claimed
                                                       THEN f[i].coverage_amount ELSE 0])
                           = SumOver(CoversPaid(f), LoanIds)
    OBVIOUS
  <2>2. CoversPaid(f) = [i \in LoanIds |-> CoversPaid(f)[i]]
    BY DEF CoversPaid
  <2>3. SumFunction(CoversPaid(f)) = SumOver(CoversPaid(f), LoanIds)
    BY <2>2, SumIsSumOver
  <2>4. QED
    BY <2>3 DEF CoversPaid, CoverOf
<1>2. QED
  BY <1>1 DEF CoverPaidOnce

LEMMA InsuranceFields ==
    ASSUME InsuranceTypes
    PROVE  /\ \A i \in LoanIds :
                 /\ policy[i] \in LoanInsurance \cup {NoPolicy}
                 /\ policy[i] # NoPolicy =>
                       /\ policy[i] \in LoanInsurance /\ policy[i].coverage_amount \in Nat
                       /\ policy[i].premium_paid \in Nat
                       /\ policy[i].purchase_time \in Nat /\ policy[i].expires_at \in Nat
                 /\ CoverOf(policy[i]) \in Nat
           /\ insurance_fund.available_balance \in Nat
           /\ insurance_fund.total_claims_paid \in Nat
           /\ insurance_fund.available_balance <= U64_MAX
           /\ insurance_fund.total_claims_paid <= U64_MAX
           /\ U64_MAX \in Nat /\ IsFiniteSet(LoanIds)
           /\ premium_rate_bps \in Nat /\ premium_rate_bps <= BPS
<1>1. U64_MAX \in Nat /\ BPS \in Nat /\ IsFiniteSet(LoanIds)
  <2>1. U64_MAX \in Nat /\ BPS \in Nat /\ MaxLoanId \in Nat
    BY PoolAssumption, MathAssumption
  <2>2. QED
    BY <2>1, FS_Interval DEF LoanIds
<1>2. /\ insurance_fund.available_balance \in U64 /\ insurance_fund.total_claims_paid \in U64
      /\ premium_rate_bps \in 0..BPS
  BY DEF InsuranceTypes, InsuranceFund
<1>3. \A i \in LoanIds :
         /\ policy[i] \in LoanInsurance \cup {NoPolicy}
         /\ policy[i] # NoPolicy =>
               /\ policy[i] \in LoanInsurance /\ policy[i].coverage_amount \in Nat
               /\ policy[i].premium_paid \in Nat
               /\ policy[i].purchase_time \in Nat /\ policy[i].expires_at \in Nat
  BY <1>1 DEF InsuranceTypes, LoanInsurance
<1>4. QED
  BY <1>1, <1>2, <1>3 DEF CoverOf

LEMMA SaturatingAddIs ==
    ASSUME NEW x \in Nat, NEW y \in Nat, x <= U64_MAX
    PROVE  /\ SaturatingAdd(x, y) \in U64
           /\ SaturatingAdd(x, y) <= x + y
           /\ SaturatingAdd(x, 0) = x
BY PoolAssumption DEF SaturatingAdd, lesser

\* One policy is written that had no paid cover, and the fund counts what it
\* pays now.
LEMMA PolicyWritten ==
    ASSUME InsuranceTypes, CoverPaidOnce, NEW i \in LoanIds,
           NEW q \in LoanInsurance \cup {NoPolicy},
           policy' = [policy EXCEPT ![i] = q], CoverOf(policy[i]) = 0,
           insurance_fund' \in InsuranceFund, premium_rate_bps' = premium_rate_bps,
           insurance_fund'.total_claims_paid
              = SaturatingAdd(insurance_fund.total_claims_paid, CoverOf(q))
    PROVE  InsuranceTypes' /\ CoverPaidOnce'
<1>1. InsuranceTypes'
  BY DEF InsuranceTypes
<1>2. PICK f, g : f = CoversPaid(policy) /\ g = CoversPaid(policy')
  OBVIOUS
<1>3. \A j \in LoanIds : f[j] \in Nat
  BY <1>2, InsuranceFields DEF CoversPaid
<1>4. f[i] = 0 /\ g[i] = CoverOf(q) /\ \A j \in LoanIds \ {i} : g[j] = f[j]
  BY <1>2 DEF CoversPaid, InsuranceTypes
<1>5. CoverOf(q) \in Nat
  BY PoolAssumption DEF CoverOf, LoanInsurance
<1>6. IsFiniteSet(LoanIds)
  BY InsuranceFields
<1>7. SumOver(g, LoanIds) = SumOver(f, LoanIds) - f[i] + g[i]
  <2>1. \A j \in LoanIds : f[j] \in Int
    BY <1>3
  <2>2. g[i] \in Int
    BY <1>4, <1>5
  <2>3. \A j \in LoanIds \ {i} : g[j] = f[j]
    BY <1>4
  <2>4. i \in LoanIds
    OBVIOUS
  <2>5. QED
    BY ONLY <1>6, <2>1, <2>2, <2>3, <2>4, SumOverUpdate
<1>8. SumOver(f, LoanIds) \in Nat
  BY <1>3, <1>6, SumOverNat
<1>9. insurance_fund.total_claims_paid = lesser(SumOver(f, LoanIds), U64_MAX)
  BY <1>2, CoverMeans
<1>10. insurance_fund'.total_claims_paid = lesser(SumOver(g, LoanIds), U64_MAX)
  <2>1. \A x, y \in Nat : lesser(lesser(x, U64_MAX) + y, U64_MAX) = lesser(x + y, U64_MAX)
    BY PoolAssumption DEF lesser
  <2>2. SumOver(g, LoanIds) = SumOver(f, LoanIds) + CoverOf(q)
    BY <1>4, <1>5, <1>7, <1>8
  <2>3. QED
    BY <1>5, <1>8, <1>9, <2>1, <2>2 DEF SaturatingAdd
<1>11. CoverPaidOnce'
  BY <1>2, <1>10, CoverMeans
<1>12. QED
  BY <1>1, <1>11

\* No policy is written and no claim counted.
LEMMA PoliciesAside ==
    ASSUME InsuranceTypes, CoverPaidOnce, policy' = policy,
           insurance_fund' \in InsuranceFund, premium_rate_bps' \in 0..BPS,
           insurance_fund'.total_claims_paid = insurance_fund.total_claims_paid
    PROVE  InsuranceTypes' /\ CoverPaidOnce'
BY CoverMeans DEF InsuranceTypes

\* The fund's balance is written and its claims are not.
LEMMA BalanceWritten ==
    ASSUME InsuranceTypes, NEW x \in U64,
           insurance_fund' = [insurance_fund EXCEPT !.available_balance = x]
    PROVE  /\ insurance_fund' \in InsuranceFund
           /\ insurance_fund'.available_balance = x
           /\ insurance_fund'.total_claims_paid = insurance_fund.total_claims_paid
BY DEF InsuranceTypes, InsuranceFund

LEMMA PremiumType ==
    ASSUME InsuranceTypes, NEW x \in U64
    PROVE  Premium(x) \in U64 /\ Premium(x) \in Nat
<1>1. U64_MAX \in Nat /\ BPS \in Nat /\ BPS > 0
  BY PoolAssumption, MathAssumption
<1>2. x \in Nat /\ x <= U64_MAX /\ premium_rate_bps \in 0..BPS
  BY <1>1 DEF InsuranceTypes
<1>3. (x * premium_rate_bps) \div BPS \in Nat /\ (x * premium_rate_bps) \div BPS <= x
  BY <1>1, <1>2, PartAtMost
<1>4. Premium(x) \in Nat /\ Premium(x) <= x
  BY <1>3 DEF Premium
<1>5. QED
  BY <1>1, <1>2, <1>4

LEMMA RefundType ==
    ASSUME PoolTypeOK, NEW q \in LoanInsurance
    PROVE  Refund(q) \in Nat
<1> DEFINE total == saturating_sub(q.expires_at, q.purchase_time)
           remaining == saturating_sub(total, saturating_sub(now, q.purchase_time))
<1>1. /\ q.expires_at \in Nat /\ q.purchase_time \in Nat /\ q.premium_paid \in Nat
      /\ now \in Nat
  BY PoolAssumption DEF LoanInsurance, PoolTypeOK
<1>2. total \in Nat /\ remaining \in Nat
  BY <1>1 DEF saturating_sub
<1> HIDE DEF total, remaining
<1>3. total > 0 => (q.premium_paid * remaining) \div total \in Nat
  <2>1. q.premium_paid * remaining \in Nat
    BY <1>1, <1>2, MulNat
  <2>2. QED
    BY <1>2, <2>1, DivFloor
<1>4. QED
  BY <1>3 DEF Refund, total, remaining

LEMMA HeldMoves ==
    ASSUME PoolTypeOK, NEW x \in Nat
    PROVE  /\ PrimaryAsset \in Tokens
           /\ Bump(held, PrimaryAsset, x) \in [Tokens -> Nat]
           /\ x <= held[PrimaryAsset] => Drop(held, PrimaryAsset, x) \in [Tokens -> Nat]
BY PoolAssumption DEF PoolTypeOK, Bump, Drop

\* What a step of the insurance does, whichever it is: to the fund, to the
\* tokens it is paid in, and to nothing else of the contract.
FundMoves(in, out) ==
    /\ UNCHANGED <<bookVars, settings, depositorVars, loanVars, now>>
    /\ in \in Nat /\ out \in Nat /\ out <= held[PrimaryAsset] + in
    /\ held' = [held EXCEPT ![PrimaryAsset] = @ + in - out]
    /\ insurance_fund'.available_balance \in Nat
    /\ \/ insurance_fund'.available_balance <= insurance_fund.available_balance + in - out
       \/ RefundBeyondFund

InsuranceKept == InsuranceTypes' /\ CoverPaidOnce' /\ \E in, out \in Nat : FundMoves(in, out)

LEMMA PurchaseStep ==
    ASSUME InsuranceTypes, CoverPaidOnce, PoolTypeOK, NEW u \in Users, NEW i \in LoanIds,
           PurchaseLoanInsurance(u, i)
    PROVE  InsuranceKept
<1> DEFINE l == loan_by_id[i]
           x == Premium(l.principal)
           q == [borrower |-> u, coverage_amount |-> l.principal, premium_paid |-> x,
                 purchase_time |-> now, expires_at |-> GraceEnd(l), claimed |-> FALSE]
           old == insurance_fund.available_balance
           b == SaturatingAdd(old, x)
<1>1. l \in LoanRecord
  BY StoredLoan DEF PurchaseLoanInsurance
<1>2. l.principal \in U64 /\ x \in U64 /\ x \in Nat
  BY <1>1, LoanFields, PremiumType
<1>3. GraceEnd(l) \in Nat /\ now \in Nat
  <2>1. l.due_date \in Nat /\ l.asset \in Assets
    BY <1>1 DEF LoanRecord
  <2>2. settings.grace_period_seconds[l.asset] \in Nat /\ now \in Nat
    BY <2>1 DEF PoolTypeOK, Settings
  <2>3. QED
    BY <2>1, <2>2 DEF GraceEnd
<1>4. q \in LoanInsurance /\ CoverOf(q) = 0 /\ CoverOf(policy[i]) = 0
  <2>1. q \in LoanInsurance
    <3> HIDE DEF l, x
    <3>1. QED
      BY <1>2, <1>3 DEF LoanInsurance
  <2>2. q.claimed = FALSE
    OBVIOUS
  <2> HIDE DEF q
  <2>3. QED
    BY <2>1, <2>2 DEF CoverOf, PurchaseLoanInsurance
<1>5. /\ policy' = [policy EXCEPT ![i] = q]
      /\ insurance_fund' = [insurance_fund EXCEPT !.available_balance = b]
      /\ held' = Bump(held, PrimaryAsset, x)
      /\ UNCHANGED <<bookVars, settings, depositorVars, loanVars, now, premium_rate_bps>>
  BY DEF PurchaseLoanInsurance, BooksKept
<1>6. /\ old \in Nat /\ old <= U64_MAX /\ insurance_fund.total_claims_paid \in Nat
      /\ insurance_fund.total_claims_paid <= U64_MAX /\ U64_MAX \in Nat
  BY InsuranceFields
<1> HIDE DEF q, x, old
<1>7. b \in U64 /\ b \in Nat /\ b <= old + x
  <2>1. SaturatingAdd(old, x) \in U64 /\ SaturatingAdd(old, x) <= old + x
    BY ONLY <1>2, <1>6, SaturatingAddIs
  <2>2. QED
    BY <1>6, <2>1
<1> HIDE DEF b
<1>8. /\ insurance_fund' \in InsuranceFund
      /\ insurance_fund'.available_balance = b
      /\ insurance_fund'.total_claims_paid = insurance_fund.total_claims_paid
  BY <1>5, <1>7, BalanceWritten
<1>9. InsuranceTypes' /\ CoverPaidOnce'
  <2>1. insurance_fund'.total_claims_paid
           = SaturatingAdd(insurance_fund.total_claims_paid, CoverOf(q))
    BY <1>4, <1>6, <1>8, SaturatingAddIs
  <2>2. QED
    BY <1>4, <1>5, <1>8, <2>1, PolicyWritten
<1>10. FundMoves(x, 0)
  <2>1. held[PrimaryAsset] \in Nat /\ PrimaryAsset \in Tokens
    BY PoolAssumption DEF PoolTypeOK
  <2>2. held[PrimaryAsset] + x - 0 = held[PrimaryAsset] + x /\ 0 <= held[PrimaryAsset] + x
    BY <1>2, <2>1
  <2>3. b <= old + x - 0
    BY <1>2, <1>6, <1>7
  <2>4. QED
    BY <1>2, <1>5, <1>7, <1>8, <2>2, <2>3 DEF FundMoves, Bump, old
<1>11. QED
  BY <1>2, <1>9, <1>10 DEF InsuranceKept

\* A step that writes the fund's balance, moves as many tokens and writes no policy.
LEMMA FundStep ==
    ASSUME InsuranceTypes, CoverPaidOnce, PoolTypeOK, NEW in \in Nat, NEW out \in Nat,
           NEW x \in U64, out <= held[PrimaryAsset] + in,
           insurance_fund' = [insurance_fund EXCEPT !.available_balance = x],
           held' = [held EXCEPT ![PrimaryAsset] = @ + in - out],
           policy' = policy, premium_rate_bps' = premium_rate_bps,
           UNCHANGED <<bookVars, settings, depositorVars, loanVars, now>>,
           x <= insurance_fund.available_balance + in - out
    PROVE  InsuranceKept
<1>1. /\ insurance_fund' \in InsuranceFund
      /\ insurance_fund'.available_balance = x
      /\ insurance_fund'.total_claims_paid = insurance_fund.total_claims_paid
  BY BalanceWritten
<1>2. InsuranceTypes' /\ CoverPaidOnce'
  <2>1. premium_rate_bps' \in 0..BPS
    BY DEF InsuranceTypes
  <2>2. QED
    BY <1>1, <2>1, PoliciesAside
<1>3. x \in Nat
  BY PoolAssumption
<1>4. FundMoves(in, out)
  BY <1>1, <1>3 DEF FundMoves
<1>5. QED
  BY <1>2, <1>4 DEF InsuranceKept

LEMMA DepositFundStep ==
    ASSUME InsuranceTypes, CoverPaidOnce, PoolTypeOK, NEW x \in FundAmounts,
           DepositToInsuranceFund(x)
    PROVE  InsuranceKept
<1> DEFINE old == insurance_fund.available_balance
           b == SaturatingAdd(old, x)
<1>1. x \in Nat /\ U64_MAX \in Nat
  BY InsuranceAssumption, PoolAssumption
<1>2. old \in Nat /\ old <= U64_MAX
  BY InsuranceFields
<1>3. /\ insurance_fund' = [insurance_fund EXCEPT !.available_balance = b]
      /\ held' = Bump(held, PrimaryAsset, x)
      /\ policy' = policy /\ premium_rate_bps' = premium_rate_bps
      /\ UNCHANGED <<bookVars, settings, depositorVars, loanVars, now>>
  BY DEF DepositToInsuranceFund, BooksKept
<1>4. held[PrimaryAsset] \in Nat
  BY PoolAssumption DEF PoolTypeOK
<1> HIDE DEF old
<1>5. b \in U64 /\ b <= old + x
  BY ONLY <1>1, <1>2, SaturatingAddIs
<1> HIDE DEF b
<1>6. /\ b <= old + x - 0 /\ 0 <= held[PrimaryAsset] + x
      /\ held[PrimaryAsset] + x - 0 = held[PrimaryAsset] + x
  BY <1>1, <1>2, <1>4, <1>5
<1>7. held' = [held EXCEPT ![PrimaryAsset] = @ + x - 0]
  BY <1>3, <1>6 DEF Bump
<1>8. 0 \in Nat
  OBVIOUS
<1>9. QED
  BY <1>1, <1>3, <1>5, <1>6, <1>7, <1>8, FundStep DEF old

LEMMA WithdrawFundStep ==
    ASSUME InsuranceTypes, CoverPaidOnce, PoolTypeOK, NEW x \in FundAmounts,
           WithdrawFromInsuranceFund(x)
    PROVE  InsuranceKept
<1> DEFINE old == insurance_fund.available_balance
           b == old - x
<1>1. x \in Nat /\ U64_MAX \in Nat
  BY InsuranceAssumption, PoolAssumption
<1>2. old \in Nat /\ old <= U64_MAX
  BY InsuranceFields
<1>3. /\ insurance_fund' = [insurance_fund EXCEPT !.available_balance = b]
      /\ held' = Drop(held, PrimaryAsset, x)
      /\ policy' = policy /\ premium_rate_bps' = premium_rate_bps
      /\ x <= old /\ x <= held[PrimaryAsset]
      /\ UNCHANGED <<bookVars, settings, depositorVars, loanVars, now>>
  BY DEF WithdrawFromInsuranceFund, BooksKept
<1>4. held[PrimaryAsset] \in Nat
  BY PoolAssumption DEF PoolTypeOK
<1> HIDE DEF old
<1>5. /\ b \in U64 /\ b <= old + 0 - x /\ x <= held[PrimaryAsset] + 0
      /\ held[PrimaryAsset] + 0 - x = held[PrimaryAsset] - x
  BY <1>1, <1>2, <1>3, <1>4
<1> HIDE DEF b
<1>6. held' = [held EXCEPT ![PrimaryAsset] = @ + 0 - x]
  BY <1>3, <1>5 DEF Drop
<1>7. 0 \in Nat
  OBVIOUS
<1>8. QED
  BY <1>1, <1>3, <1>5, <1>6, <1>7, FundStep DEF old

LEMMA ClaimInsuranceStep ==
    ASSUME InsuranceTypes, CoverPaidOnce, PoolTypeOK, NEW i \in LoanIds, ClaimInsurance(i)
    PROVE  InsuranceKept
<1> DEFINE p == policy[i]
           q == [p EXCEPT !.claimed = TRUE]
           cover == p.coverage_amount
           paid == insurance_fund.total_claims_paid
           old == insurance_fund.available_balance
           n == SaturatingAdd(paid, cover)
           b == old - cover
<1>1. /\ policy' = [policy EXCEPT ![i] = q]
      /\ insurance_fund' = [insurance_fund EXCEPT !.total_claims_paid = n, !.available_balance = b]
      /\ p # NoPolicy /\ ~p.claimed /\ cover <= old
      /\ premium_rate_bps' = premium_rate_bps /\ held' = held
      /\ UNCHANGED <<bookVars, settings, depositorVars, loanVars, now>>
  BY DEF ClaimInsurance, vars, InsuranceTypes, InsuranceFund
<1>2. /\ p \in LoanInsurance /\ cover \in Nat
      /\ old \in Nat /\ old <= U64_MAX /\ paid \in Nat /\ paid <= U64_MAX /\ U64_MAX \in Nat
  BY <1>1, InsuranceFields
<1>3. q \in LoanInsurance /\ CoverOf(q) = cover /\ CoverOf(p) = 0
  <2>1. q \in LoanInsurance /\ q.claimed = TRUE /\ q.coverage_amount = cover
    BY <1>2 DEF LoanInsurance
  <2> HIDE DEF q, cover, p
  <2>2. QED
    BY <1>1, <2>1, PolicyMarkAssumption DEF CoverOf
<1> HIDE DEF q, p, cover, paid, old
<1>4. n \in U64
  BY ONLY <1>2, SaturatingAddIs
<1>5. b \in U64 /\ b \in Nat /\ b <= old + 0 - 0
  BY <1>1, <1>2
<1> HIDE DEF n, b
<1>6. /\ insurance_fund' \in InsuranceFund /\ insurance_fund'.total_claims_paid = n
      /\ insurance_fund'.available_balance = b
  BY <1>1, <1>4, <1>5 DEF InsuranceTypes, InsuranceFund
<1>7. InsuranceTypes' /\ CoverPaidOnce'
  <2>1. n = SaturatingAdd(insurance_fund.total_claims_paid, CoverOf(q))
    BY <1>3 DEF n, paid
  <2>2. QED
    BY <1>1, <1>3, <1>6, <2>1, PolicyWritten DEF p
<1>8. FundMoves(0, 0)
  <2>1. held[PrimaryAsset] \in Nat /\ held \in [Tokens -> Nat]
    BY PoolAssumption DEF PoolTypeOK
  <2>2. held[PrimaryAsset] + 0 - 0 = held[PrimaryAsset] /\ 0 <= held[PrimaryAsset] + 0
    BY <2>1
  <2>3. held = [held EXCEPT ![PrimaryAsset] = @ + 0 - 0]
    BY <2>1, <2>2
  <2>4. QED
    BY <1>1, <1>5, <1>6, <2>2, <2>3 DEF FundMoves, old
<1>9. QED
  BY <1>7, <1>8 DEF InsuranceKept

LEMMA CancelStep ==
    ASSUME InsuranceTypes, CoverPaidOnce, PoolTypeOK, NEW u \in Users, NEW i \in LoanIds,
           CancelInsurance(u, i)
    PROVE  InsuranceKept
<1> DEFINE p == policy[i]
           r == Refund(p)
           old == insurance_fund.available_balance
           b == saturating_sub(old, r)
<1>1. /\ policy' = [policy EXCEPT ![i] = NoPolicy]
      /\ insurance_fund' = [insurance_fund EXCEPT !.available_balance = b]
      /\ held' = Drop(held, PrimaryAsset, r)
      /\ p # NoPolicy /\ ~p.claimed /\ r <= held[PrimaryAsset]
      /\ UNCHANGED <<bookVars, settings, depositorVars, loanVars, now, premium_rate_bps>>
  BY DEF CancelInsurance, BooksKept
<1>2. /\ p \in LoanInsurance /\ old \in Nat /\ old <= U64_MAX /\ U64_MAX \in Nat
      /\ insurance_fund.total_claims_paid \in Nat
      /\ insurance_fund.total_claims_paid <= U64_MAX
  BY <1>1, InsuranceFields
<1>3. r \in Nat /\ CoverOf(p) = 0 /\ CoverOf(NoPolicy) = 0
  BY <1>1, <1>2, RefundType DEF CoverOf
<1>4. \/ r > old /\ RefundBeyondFund
      \/ r <= old
  BY <1>2, <1>3 DEF RefundBeyondFund
<1>5. held[PrimaryAsset] \in Nat
  BY PoolAssumption DEF PoolTypeOK
<1> HIDE DEF p, r, old
<1>6. b \in U64 /\ b \in Nat /\ (r <= old => b <= old + 0 - r)
  BY <1>2, <1>3 DEF saturating_sub
<1> HIDE DEF b
<1>7. /\ insurance_fund' \in InsuranceFund
      /\ insurance_fund'.available_balance = b
      /\ insurance_fund'.total_claims_paid = insurance_fund.total_claims_paid
  BY <1>1, <1>6, BalanceWritten
<1>8. InsuranceTypes' /\ CoverPaidOnce'
  <2>1. insurance_fund'.total_claims_paid
           = SaturatingAdd(insurance_fund.total_claims_paid, CoverOf(NoPolicy))
    BY <1>2, <1>3, <1>7, SaturatingAddIs
  <2>2. NoPolicy \in LoanInsurance \cup {NoPolicy}
    OBVIOUS
  <2>3. QED
    BY <1>1, <1>3, <1>7, <2>1, <2>2, PolicyWritten DEF p
<1>9. FundMoves(0, r)
  <2>1. held[PrimaryAsset] + 0 - r = held[PrimaryAsset] - r /\ r <= held[PrimaryAsset] + 0
    BY <1>1, <1>3, <1>5
  <2>2. held' = [held EXCEPT ![PrimaryAsset] = @ + 0 - r]
    BY <1>1, <2>1 DEF Drop
  <2>3. QED
    BY <1>1, <1>3, <1>4, <1>6, <1>7, <2>1, <2>2 DEF FundMoves, old
<1>10. QED
  BY <1>3, <1>8, <1>9 DEF InsuranceKept

LEMMA InsuranceStep ==
    ASSUME InsuranceTypes, CoverPaidOnce, PoolTypeOK, InsuranceNext
    PROVE  InsuranceKept
<1>1. CASE \E rate \in PremiumRates : SetInsurancePremiumRate(rate)
  <2>1. PICK rate \in PremiumRates : SetInsurancePremiumRate(rate)
    BY <1>1
  <2>2. /\ premium_rate_bps' \in 0..BPS /\ policy' = policy
        /\ insurance_fund' = insurance_fund /\ UNCHANGED vars
    BY <2>1, InsuranceAssumption, MathAssumption DEF SetInsurancePremiumRate
  <2>3. InsuranceTypes' /\ CoverPaidOnce'
    BY <2>2, PoliciesAside DEF InsuranceTypes
  <2>4. FundMoves(0, 0)
    <3>1. held[PrimaryAsset] \in Nat /\ held \in [Tokens -> Nat]
      BY PoolAssumption DEF PoolTypeOK
    <3>2. held[PrimaryAsset] + 0 - 0 = held[PrimaryAsset] /\ 0 <= held[PrimaryAsset] + 0
      BY <3>1
    <3>3. held = [held EXCEPT ![PrimaryAsset] = @ + 0 - 0]
      BY <3>1, <3>2
    <3>4. insurance_fund.available_balance \in Nat
      BY InsuranceFields
    <3>5. insurance_fund.available_balance <= insurance_fund.available_balance + 0 - 0
      BY <3>4
    <3>6. QED
      BY <2>2, <3>2, <3>3, <3>4, <3>5 DEF FundMoves, vars
  <2>5. QED
    BY <2>3, <2>4 DEF InsuranceKept
<1>2. CASE \E i \in LoanIds :
             \/ ClaimInsurance(i)
             \/ \E u \in Users : PurchaseLoanInsurance(u, i) \/ CancelInsurance(u, i)
  BY <1>2, ClaimInsuranceStep, PurchaseStep, CancelStep
<1>3. CASE \E x \in FundAmounts : DepositToInsuranceFund(x) \/ WithdrawFromInsuranceFund(x)
  BY <1>3, DepositFundStep, WithdrawFundStep
<1>4. QED
  BY <1>1, <1>2, <1>3 DEF InsuranceNext

\* The insurance leaves the pools' books as they were.
LEMMA InsuranceBooks ==
    ASSUME BookInv, NEW in \in Nat, NEW out \in Nat, FundMoves(in, out)
    PROVE  BookInv' /\ now' = now /\ settings' = settings
<1>1. PoolTypeOK
  BY DEF BookInv
<1>2. held' \in [Tokens -> Nat]
  <2>1. held \in [Tokens -> Nat] /\ held[PrimaryAsset] \in Nat
    BY <1>1, PoolAssumption DEF PoolTypeOK
  <2>2. held[PrimaryAsset] + in - out \in Nat
    BY <2>1 DEF FundMoves
  <2>3. QED
    BY <2>1, <2>2 DEF FundMoves
<1>3. retained_yield' \in [Assets -> U64]
  BY <1>1 DEF FundMoves, bookVars, PoolTypeOK
<1>4. QED
  BY <1>2, <1>3, BookAside DEF FundMoves, bookVars

-----------------------------------------------------------------------------
(* The three services and the pools together *)

ServiceInv ==
    /\ BookInv /\ RateModelIsInput
    /\ PositionTypes /\ HarvestsEarned
    /\ StakingTypes /\ StakesAddUp
    /\ InsuranceTypes /\ CoverPaidOnce

LEMMA ServiceInit == ServicesInit => ServiceInv
<1> SUFFICES ASSUME ServicesInit PROVE ServiceInv
  OBVIOUS
<1>1. BookInv /\ now \in Nat
  <2>1. PoolInit
    BY DEF ServicesInit
  <2>2. PoolTypeOK
    BY <2>1, InitType
  <2>3. QED
    BY <2>1, <2>2 DEF PoolInit, BookInv, LoanBookConsistent, OpenIds, PoolTypeOK
<1>2. RateModelIsInput
  BY DEF ServicesInit, PoolInit, InitialSettings, RateModelIsInput
<1>3. PositionTypes /\ HarvestsEarned
  BY DEF ServicesInit, YieldInit, PositionTypes, HarvestsEarned, Registered
<1>4. 0 \in U64 /\ U64_MAX \in Nat
  BY PoolAssumption
<1>5. StakingTypes
  <2>1. DEFAULT_REWARD_RATE \in U64
    BY StakingAssumption
  <2>2. QED
    BY <1>1, <1>4, <2>1 DEF ServicesInit, StakingInit, StakingTypes, RewardPool, UserStake
<1>6. StakesAddUp
  <2>1. ASSUME NEW a \in Assets
        PROVE  reward_pool[a].total_staked = SumOver(StakedBy(user_stake, a), Users)
    <3>1. PICK f : f = StakedBy(user_stake, a)
      OBVIOUS
    <3>2. \A u \in Users : f[u] = 0
      BY <3>1 DEF StakedBy, ServicesInit, StakingInit
    <3>3. IsFiniteSet(Users)
      BY PoolAssumption
    <3>4. SumOver(f, Users) = 0
      BY <3>2, <3>3, SumOverZero
    <3>5. QED
      BY <3>1, <3>4 DEF ServicesInit, StakingInit
  <2>2. QED
    BY <2>1, StakesMean
<1>7. InsuranceTypes
  BY <1>4, InsuranceAssumption DEF ServicesInit, InsuranceInit, InsuranceTypes, InsuranceFund
<1>8. CoverPaidOnce
  <2>1. PICK f : f = CoversPaid(policy)
    OBVIOUS
  <2>2. \A i \in LoanIds : f[i] = 0
    BY <2>1 DEF CoversPaid, CoverOf, ServicesInit, InsuranceInit
  <2>3. IsFiniteSet(LoanIds)
    BY <1>7, InsuranceFields
  <2>4. SumOver(f, LoanIds) = 0
    BY <2>2, <2>3, SumOverZero
  <2>5. insurance_fund.total_claims_paid = 0 /\ lesser(0, U64_MAX) = 0
    BY <1>4 DEF ServicesInit, InsuranceInit, lesser
  <2>6. QED
    BY <2>1, <2>4, <2>5, CoverMeans
<1>9. QED
  BY <1>1, <1>2, <1>3, <1>5, <1>6, <1>7, <1>8 DEF ServiceInv

\* The services keep their records when only others act.
LEMMA StakingAside ==
    ASSUME StakingTypes, StakesAddUp, UNCHANGED stakingVars
    PROVE  StakingTypes' /\ StakesAddUp'
BY StakesMean DEF StakingTypes, stakingVars

LEMMA InsuranceAside ==
    ASSUME InsuranceTypes, CoverPaidOnce, UNCHANGED insuranceVars
    PROVE  InsuranceTypes' /\ CoverPaidOnce'
BY CoverMeans DEF InsuranceTypes, insuranceVars

LEMMA ServiceStep ==
    ASSUME ServiceInv, [ServicesNext]_allVars
    PROVE  ServiceInv'
<1>1. PoolTypeOK /\ now \in Nat
  BY DEF ServiceInv, BookInv, PoolTypeOK
<1>2. CASE YieldNext /\ UNCHANGED <<stakingVars, insuranceVars>>
  BY <1>2, YieldStep, StakingAside, InsuranceAside DEF ServiceInv
<1>3. ASSUME BookInv', now' >= now, position' = position
      PROVE  PositionTypes' /\ HarvestsEarned'
  <2>1. PoolTypeOK'
    BY <1>3 DEF BookInv
  <2>2. QED
    BY <1>1, <1>3, <2>1, PositionsAside DEF ServiceInv
<1>4. CASE [Next]_vars /\ UNCHANGED serviceVars
  <2>1. BookInv' /\ now' >= now
    BY <1>1, <1>4, BookStep, PoolStepFacts DEF ServiceInv
  <2>2. RateModelIsInput'
    BY <1>1, <1>4, PoolStepFacts DEF ServiceInv, RateModelIsInput
  <2>3. QED
    BY <1>3, <1>4, <2>1, <2>2, StakingAside, InsuranceAside DEF ServiceInv, serviceVars
<1>5. CASE StakingNext /\ UNCHANGED <<position, insuranceVars>>
  <2>1. StakingTypes' /\ StakesAddUp' /\ UNCHANGED vars
    BY <1>1, <1>5, StakingStep DEF ServiceInv
  <2>2. BookInv' /\ now' >= now /\ RateModelIsInput'
    BY <1>1, <2>1, BookStep DEF ServiceInv, RateModelIsInput, vars
  <2>3. QED
    BY <1>3, <1>5, <2>1, <2>2, InsuranceAside DEF ServiceInv
<1>6. CASE InsuranceNext /\ UNCHANGED <<position, stakingVars>>
  <2>1. InsuranceKept
    BY <1>1, <1>6, InsuranceStep DEF ServiceInv
  <2>2. BookInv' /\ now' = now /\ settings' = settings
    BY <2>1, InsuranceBooks DEF InsuranceKept, ServiceInv
  <2>3. now' >= now /\ RateModelIsInput'
    BY <1>1, <2>2 DEF ServiceInv, RateModelIsInput
  <2>4. QED
    BY <1>3, <1>6, <2>1, <2>2, <2>3, StakingAside DEF ServiceInv, InsuranceKept
<1>7. QED
  BY <1>2, <1>4, <1>5, <1>6 DEF ServicesNext, allVars

\* Every record of the three services stays in its type; no second of plan
\* yield is paid twice, a pool's total_staked is the sum of its stakes and the
\* fund counts exactly the covers it paid, through every mixture of their
\* operations with the pools' and the loans'.
THEOREM ServicesKeepBooks == ServicesSpec => []ServiceBooks
<1>1. ServiceInv => ServiceBooks
  BY EarnedMeans DEF ServiceInv, ServiceBooks, ServicesTypeOK, BookInv, PositionTypes,
     StakingTypes, InsuranceTypes
<1>2. QED
  BY <1>1, ServiceInit, ServiceStep, PTL DEF ServicesSpec

\* claim_rewards leaves pending at most what was earned since the stored count was
\* last brought up to date, and nothing if that count is current.
THEOREM ClaimedRewardsAreSettled == ServicesSpec => ClaimSettles
<1>1. ServiceInv /\ [ServicesNext]_allVars =>
        [\A u \in Users, a \in Assets :
            ClaimRewards(u, a) => PendingRewards(u, a)' <= NotYetCounted(u, a)]_stakingVars
  BY ClaimSettlesStep DEF ServiceInv, BookInv, PoolTypeOK
<1>2. QED
  BY <1>1, ServiceInit, ServiceStep, PTL DEF ServicesSpec, ClaimSettles

-----------------------------------------------------------------------------
(* Elapsed time *)

\* A position harvested in this very ledger, or not active, has nothing to claim.
LEMMA NothingAccrued ==
    ASSUME NEW q \in Positions, NEW s \in Nat, NEW t \in Nat,
           q.last_harvest_at = t \/ ~q.active
    PROVE  accrued_for_position(q, s, t) = 0
<1>1. q.principal \in Nat /\ q.boost_bps \in Nat /\ q.last_harvest_at \in Nat
  BY PositionFields
<1>2. CASE q.active
  <2> DEFINE x == q.principal * (s + q.boost_bps)
  <2>1. t - q.last_harvest_at = 0 /\ s + q.boost_bps \in Nat
    BY <1>1, <1>2
  <2>2. x \in Nat
    BY <1>1, <2>1, MulNat
  <2> HIDE DEF x
  <2>3. x * 0 = 0
    BY <2>2
  <2>4. BPS * YEAR \in Nat /\ BPS * YEAR > 0
    BY MathAssumption
  <2>5. 0 \div (BPS * YEAR) = 0
    BY <2>4
  <2>6. QED
    BY <1>2, <2>1, <2>3, <2>5 DEF accrued_for_position, simulate_plan_yield, x
<1>3. CASE ~q.active
  BY <1>3 DEF accrued_for_position
<1>4. QED
  BY <1>2, <1>3

\* The rate reads nothing that a position's operations write.
LEMMA AccruedAfter ==
    ASSUME PoolTypeOK, RateModelIsInput, NEW p \in Plans, position'[p] \in Positions,
           UNCHANGED <<total_deposits, total_borrowed, settings, now>>,
           position'[p].last_harvest_at = now \/ ~position'[p].active
    PROVE  Accrued(p)' = 0
<1> DEFINE a == position'[p].asset
<1>1. a \in Assets /\ now \in Nat
  BY PositionFields DEF PoolTypeOK
<1>2. SupplyRate(a) \in Nat
  BY <1>1, SupplyRateBound
<1>3. Accrued(p)' = accrued_for_position(position'[p], SupplyRate(a), now)
  BY DEF Accrued, SupplyRate, CurrentRate
<1>4. QED
  BY <1>1, <1>2, <1>3, NothingAccrued

LEMMA SettledStep ==
    ASSUME PositionTypes, HarvestsEarned, PoolTypeOK, RateModelIsInput, YieldNext,
           NEW p \in Registered
    PROVE  \/ position'[p] = [position[p] EXCEPT !.boost_bps = position'[p].boost_bps]
           \/ Accrued(p)' = 0
<1> DEFINE old == position[p]
<1>1. p \in Plans /\ old # NoPosition /\ old \in Positions /\ now \in Nat
  BY RegisteredFacts DEF PoolTypeOK
<1>2. old = [old EXCEPT !.boost_bps = old.boost_bps]
  BY <1>1 DEF Positions, PositionOf
<1>3. ASSUME NEW r \in Plans, NEW a \in Assets, NEW x \in Principals, RegisterPlanYield(r, a, x)
      PROVE  position'[p] = old \/ Accrued(p)' = 0
  <2>1. CASE r = p
    <3>1. position'[p] = [old EXCEPT !.asset = a, !.principal = x,
                                     !.last_harvest_at = now, !.active = TRUE]
      BY <1>1, <1>3, <2>1 DEF RegisterPlanYield, registered, PositionTypes
    <3>2. x \in U64
      BY YieldAssumption
    <3>3. position'[p] \in Positions /\ position'[p].last_harvest_at = now
      BY <1>1, <3>1, <3>2 DEF Positions, PositionOf
    <3>4. UNCHANGED <<total_deposits, total_borrowed, settings, now>>
      BY <1>3 DEF RegisterPlanYield, PositionStep, vars, bookVars
    <3>5. QED
      BY <1>1, <3>3, <3>4, AccruedAfter
  <2>2. CASE r # p
    BY <1>1, <1>3, <2>2 DEF RegisterPlanYield, PositionTypes
  <2>3. QED
    BY <2>1, <2>2
<1>4. ASSUME NEW r \in Plans, ClaimPlanYield(r)
      PROVE  position'[p] = old \/ Accrued(p)' = 0
  <2>1. CASE r = p
    <3> DEFINE sum == capped(old.total_harvested + Payable(p), U64_MAX)
    <3>1. position'[p] = [old EXCEPT !.last_harvest_at = now, !.total_harvested = sum]
      BY <1>1, <1>4, <2>1 DEF ClaimPlanYield, harvested, PositionTypes
    <3>2. position'[p].last_harvest_at = now
      BY <1>1, <3>1 DEF Positions, PositionOf
    <3>3. UNCHANGED <<total_deposits, total_borrowed, settings, now>>
      BY <1>4 DEF ClaimPlanYield
    <3>4. sum \in U64
      <4>1. Payable(p) \in Nat /\ old.total_harvested \in Nat /\ U64_MAX \in Nat
        BY <1>1, <1>4, <2>1, PayableType, PositionFields, PoolAssumption DEF HarvestsEarned
      <4> HIDE DEF old
      <4>2. QED
        BY <4>1 DEF capped
    <3>5. position'[p] \in Positions
      BY <1>1, <3>1, <3>4 DEF Positions, PositionOf
    <3>6. QED
      BY <1>1, <3>2, <3>3, <3>5, AccruedAfter
  <2>2. CASE r # p
    BY <1>1, <1>4, <2>2 DEF ClaimPlanYield, PositionTypes
  <2>3. QED
    BY <2>1, <2>2
<1>5. ASSUME NEW r \in Plans, UnregisterPlanYield(r)
      PROVE  position'[p] = old \/ Accrued(p)' = 0
  <2>1. CASE r = p
    <3>1. position'[p] = [old EXCEPT !.active = FALSE, !.principal = 0]
      BY <1>1, <1>5, <2>1 DEF UnregisterPlanYield, unregistered, PositionTypes
    <3>2. 0 \in U64
      BY PoolAssumption
    <3>3. position'[p] \in Positions /\ ~position'[p].active
      BY <1>1, <3>1, <3>2 DEF Positions, PositionOf
    <3>4. UNCHANGED <<total_deposits, total_borrowed, settings, now>>
      BY <1>5 DEF UnregisterPlanYield, PositionStep, vars, bookVars
    <3>5. QED
      BY <1>1, <3>3, <3>4, AccruedAfter
  <2>2. CASE r # p
    BY <1>1, <1>5, <2>2 DEF UnregisterPlanYield, PositionTypes
  <2>3. QED
    BY <2>1, <2>2
<1>6. ASSUME NEW r \in Plans, NEW b \in Boosts, SetPlanYieldBoost(r, b)
      PROVE  position'[p] = old \/ position'[p] = [old EXCEPT !.boost_bps = b]
  BY <1>1, <1>6 DEF SetPlanYieldBoost, PositionTypes
<1>7. ASSUME NEW b, position'[p] = [old EXCEPT !.boost_bps = b]
      PROVE  position'[p] = [old EXCEPT !.boost_bps = position'[p].boost_bps]
  <2>1. position'[p].boost_bps = b
    BY <1>1, <1>7 DEF Positions, PositionOf
  <2>2. QED
    BY <1>7, <2>1
<1>8. QED
  BY <1>2, <1>3, <1>4, <1>5, <1>6, <1>7 DEF YieldNext

\* However a position is re-registered, moved to another pool, deactivated or
\* harvested, the time before is settled with it and never priced again.
THEOREM ElapsedTimeStaysSettled == ServicesSpec => ElapsedTimeIsSettled
<1>1. ServiceInv /\ [ServicesNext]_allVars =>
        [\A p \in Registered :
            \/ position'[p] = [position[p] EXCEPT !.boost_bps = position'[p].boost_bps]
            \/ Accrued(p)' = 0]_position
  <2>1. SUFFICES ASSUME ServiceInv, [ServicesNext]_allVars, position' # position,
                        NEW p \in Registered
                 PROVE  \/ position'[p] = [position[p] EXCEPT !.boost_bps = position'[p].boost_bps]
                        \/ Accrued(p)' = 0
    OBVIOUS
  <2>2. YieldNext
    BY <2>1 DEF ServicesNext, allVars, serviceVars
  <2>3. QED
    BY <2>1, <2>2, SettledStep DEF ServiceInv, BookInv
<1>2. QED
  BY <1>1, ServiceInit, ServiceStep, PTL DEF ServicesSpec, ElapsedTimeIsSettled

-----------------------------------------------------------------------------
(* What the contract holds beyond every book *)

Spare(t) == held[t] - Claims(t)
SpareTokens == SumOver([t \in Tokens |-> Spare(t)], Tokens)
CreditedBy(p) == IF position[p] = NoPosition THEN 0 ELSE position[p].total_harvested
Credited == SumOver([p \in Plans |-> CreditedBy(p)], Plans)

ServiceTypes == PoolTypeOK /\ PositionTypes /\ InsuranceTypes

SurplusSplit == ServiceTypes =>
    /\ Surplus = SpareTokens - insurance_fund.available_balance - Credited
    /\ SpareTokens \in Int /\ Credited \in Int
    /\ insurance_fund.available_balance \in Int
    /\ \A t \in Tokens : Spare(t) \in Int
    /\ \A p \in Plans : CreditedBy(p) \in Nat

LEMMA SurplusIsSplit == SurplusSplit
<1>1. SUFFICES ASSUME ServiceTypes
               PROVE  /\ Surplus = SpareTokens - insurance_fund.available_balance - Credited
                      /\ SpareTokens \in Int /\ Credited \in Int
                      /\ insurance_fund.available_balance \in Int
                      /\ \A t \in Tokens : Spare(t) \in Int
                      /\ \A p \in Plans : CreditedBy(p) \in Nat
  BY DEF SurplusSplit
<1>2. IsFiniteSet(Tokens) /\ IsFiniteSet(Plans)
  BY ServicesAssumption, YieldAssumption
<1>3. \A t \in Tokens : Spare(t) \in Int
  <2>1. SUFFICES ASSUME NEW t \in Tokens PROVE Spare(t) \in Int
    OBVIOUS
  <2>2. /\ Claims(t) = BookTotal(CollateralIn(t), loan_by_id) + Books(t)
        /\ BookTotal(CollateralIn(t), loan_by_id) \in Nat
        /\ Books(t) \in Int /\ held[t] \in Nat
    BY <1>1, ClaimsAreSplit DEF ClaimsSplit, ServiceTypes
  <2>3. QED
    BY <2>2 DEF Spare
<1>4. \A p \in Plans : CreditedBy(p) \in Nat
  <2>1. SUFFICES ASSUME NEW p \in Plans, position[p] # NoPosition
                 PROVE  position[p].total_harvested \in Nat
    BY DEF CreditedBy
  <2>2. position[p] \in Positions
    BY <1>1, <2>1 DEF ServiceTypes, PositionTypes
  <2>3. QED
    BY <2>2, PositionFields
<1>5. PICK f, g : f = [t \in Tokens |-> Spare(t)] /\ g = [p \in Plans |-> CreditedBy(p)]
  OBVIOUS
<1>6. SumFunction(f) = SumOver(f, Tokens) /\ SumFunction(g) = SumOver(g, Plans)
  <2>1. f = [t \in Tokens |-> f[t]] /\ g = [p \in Plans |-> g[p]]
    BY <1>5
  <2>2. QED
    BY <2>1, SumIsSumOver
<1>7. SumOver(f, Tokens) \in Int /\ SumOver(g, Plans) \in Int
  <2>1. (\A t \in Tokens : f[t] \in Int) /\ \A p \in Plans : g[p] \in Int
    BY <1>3, <1>4, <1>5
  <2>2. QED
    BY <1>2, <2>1, SumOverFacts
<1>8. SumOver(f, Tokens) = SpareTokens /\ SumOver(g, Plans) = Credited
  BY <1>5 DEF SpareTokens, Credited
<1>9. Surplus = SumFunction(f) - insurance_fund.available_balance - SumFunction(g)
  BY <1>5 DEF Surplus, Spare, CreditedBy
<1>10. insurance_fund.available_balance \in Int
  BY <1>1, InsuranceFields DEF ServiceTypes
<1>11. QED
  BY <1>3, <1>4, <1>6, <1>7, <1>8, <1>9, <1>10

LEMMA SurplusIsSplitNext == SurplusSplit'
BY SurplusIsSplit, PTL

\* A step that spares at least as many tokens as it adds to the fund and to
\* the plans' credit does not lower the surplus.
LEMMA SurplusStep ==
    ASSUME ServiceTypes, ServiceTypes', NEW n \in Int, NEW m \in Int,
           SpareTokens' >= SpareTokens + n,
           insurance_fund'.available_balance <= insurance_fund.available_balance + m,
           Credited' <= Credited + n - m
    PROVE  Surplus' >= Surplus
<1>1. /\ Surplus = SpareTokens - insurance_fund.available_balance - Credited
      /\ SpareTokens \in Int /\ Credited \in Int
      /\ insurance_fund.available_balance \in Int
  BY SurplusIsSplit DEF SurplusSplit
<1>2. /\ Surplus' = SpareTokens' - insurance_fund'.available_balance - Credited'
      /\ SpareTokens' \in Int /\ Credited' \in Int
      /\ insurance_fund'.available_balance \in Int
  BY SurplusIsSplitNext DEF SurplusSplit
<1>3. QED
  BY <1>1, <1>2

\* Only one token's cover changes.
LEMMA SpareMoves ==
    ASSUME ServiceTypes, ServiceTypes', NEW t \in Tokens, NEW n \in Int,
           loan_by_id' = loan_by_id,
           held'[t] - Books(t)' = held[t] - Books(t) + n,
           \A s \in Tokens \ {t} : held'[s] = held[s] /\ Books(s)' = Books(s)
    PROVE  SpareTokens' = SpareTokens + n
<1>1. \A s \in Tokens : Spare(s) \in Int /\ Spare(s)' \in Int
  BY SurplusIsSplit, SurplusIsSplitNext DEF SurplusSplit
<1>2. ASSUME NEW s \in Tokens
      PROVE  Spare(s)' - Spare(s) = (held'[s] - Books(s)') - (held[s] - Books(s))
  <2> DEFINE c == BookTotal(CollateralIn(s), loan_by_id)
  <2>1. Claims(s) = c + Books(s) /\ c \in Nat /\ Books(s) \in Int /\ held[s] \in Nat
    BY ClaimsAreSplit DEF ClaimsSplit, ServiceTypes
  <2>2. /\ Claims(s)' = BookTotal(CollateralIn(s), loan_by_id') + Books(s)'
        /\ Books(s)' \in Int /\ held'[s] \in Nat
    BY ClaimsAreSplitNext DEF ClaimsSplit, ServiceTypes, CollateralIn
  <2>3. BookTotal(CollateralIn(s), loan_by_id') = c
    OBVIOUS
  <2> HIDE DEF c
  <2>4. Spare(s) = held[s] - (c + Books(s)) /\ Spare(s)' = held'[s] - (c + Books(s)')
    BY <2>1, <2>2, <2>3 DEF Spare
  <2>5. QED
    BY <2>1, <2>2, <2>4
<1>3. Spare(t)' = Spare(t) + n
  <2>1. Books(t) \in Int /\ Books(t)' \in Int /\ held[t] \in Nat /\ held'[t] \in Nat
    BY ClaimsAreSplit, ClaimsAreSplitNext DEF ClaimsSplit, ServiceTypes
  <2>2. Spare(t)' - Spare(t) = (held'[t] - Books(t)') - (held[t] - Books(t))
    BY <1>2
  <2>3. QED
    BY <1>1, <2>1, <2>2
<1>4. ASSUME NEW s \in Tokens \ {t}
      PROVE  Spare(s)' = Spare(s)
  <2>1. Books(s) \in Int /\ held[s] \in Nat
    BY ClaimsAreSplit DEF ClaimsSplit, ServiceTypes
  <2>2. Spare(s)' - Spare(s) = (held'[s] - Books(s)') - (held[s] - Books(s))
    BY <1>2
  <2>3. held'[s] = held[s] /\ Books(s)' = Books(s)
    OBVIOUS
  <2>4. QED
    BY <1>1, <2>1, <2>2, <2>3
<1>5. PICK f, g : f = [s \in Tokens |-> Spare(s)] /\ g = [s \in Tokens |-> Spare(s)']
  OBVIOUS
<1>6. SpareTokens = SumOver(f, Tokens) /\ SpareTokens' = SumOver(g, Tokens)
  BY <1>5 DEF SpareTokens
<1>7. SumOver(g, Tokens) = SumOver(f, Tokens) - f[t] + g[t]
  <2>1. \A s \in Tokens : f[s] \in Int
    BY <1>1, <1>5
  <2>2. g[t] \in Int
    BY <1>1, <1>5
  <2>3. \A s \in Tokens \ {t} : g[s] = f[s]
    BY <1>4, <1>5
  <2>4. IsFiniteSet(Tokens) /\ t \in Tokens
    BY ServicesAssumption
  <2>5. QED
    BY ONLY <2>1, <2>2, <2>3, <2>4, SumOverUpdate
<1>8. f[t] = Spare(t) /\ g[t] = Spare(t) + n
  BY <1>3, <1>5
<1>9. SpareTokens \in Int
  BY SurplusIsSplit DEF SurplusSplit
<1>10. QED
  BY <1>1, <1>6, <1>7, <1>8, <1>9

\* No token's cover falls.
LEMMA SpareKept ==
    ASSUME ServiceTypes, ServiceTypes', CoverKept
    PROVE  SpareTokens' >= SpareTokens
<1>1. \A s \in Tokens : Spare(s) \in Int /\ Spare(s)' \in Int
  BY SurplusIsSplit, SurplusIsSplitNext DEF SurplusSplit
<1>2. \A s \in Tokens : Spare(s)' >= Spare(s)
  BY DEF CoverKept, Spare
<1>3. PICK f, g : f = [s \in Tokens |-> Spare(s)] /\ g = [s \in Tokens |-> Spare(s)']
  OBVIOUS
<1>4. SpareTokens = SumOver(f, Tokens) /\ SpareTokens' = SumOver(g, Tokens)
  BY <1>3 DEF SpareTokens
<1>5. SumOver(f, Tokens) <= SumOver(g, Tokens)
  <2>1. \A s \in Tokens : f[s] \in Int /\ g[s] \in Int /\ f[s] <= g[s]
    BY <1>1, <1>2, <1>3
  <2>2. IsFiniteSet(Tokens)
    BY ServicesAssumption
  <2>3. QED
    BY ONLY <2>1, <2>2, SumOverMonotone
<1>6. SpareTokens \in Int /\ SpareTokens' \in Int
  BY SurplusIsSplit, SurplusIsSplitNext DEF SurplusSplit
<1>7. QED
  BY <1>4, <1>5, <1>6

\* One plan is credited at most n more.
LEMMA CreditedMoves ==
    ASSUME ServiceTypes, ServiceTypes', NEW p \in Plans, NEW n \in Nat,
           CreditedBy(p)' <= CreditedBy(p) + n,
           \A r \in Plans \ {p} : position'[r] = position[r]
    PROVE  Credited' <= Credited + n
<1>1. \A r \in Plans : CreditedBy(r) \in Nat /\ CreditedBy(r)' \in Nat
  BY SurplusIsSplit, SurplusIsSplitNext DEF SurplusSplit
<1>2. PICK f, g : f = [r \in Plans |-> CreditedBy(r)] /\ g = [r \in Plans |-> CreditedBy(r)']
  OBVIOUS
<1>3. Credited = SumOver(f, Plans) /\ Credited' = SumOver(g, Plans)
  BY <1>2 DEF Credited
<1>4. SumOver(g, Plans) = SumOver(f, Plans) - f[p] + g[p]
  <2>1. \A r \in Plans : f[r] \in Int
    BY <1>1, <1>2
  <2>2. g[p] \in Int
    BY <1>1, <1>2
  <2>3. \A r \in Plans \ {p} : g[r] = f[r]
    BY <1>2 DEF CreditedBy
  <2>4. IsFiniteSet(Plans) /\ p \in Plans
    BY YieldAssumption
  <2>5. QED
    BY ONLY <2>1, <2>2, <2>3, <2>4, SumOverUpdate
<1>5. f[p] = CreditedBy(p) /\ g[p] = CreditedBy(p)'
  BY <1>2
<1>6. Credited \in Int
  BY SurplusIsSplit DEF SurplusSplit
<1>7. QED
  BY <1>1, <1>3, <1>4, <1>5, <1>6

LEMMA CoverSame ==
    ASSUME ServiceTypes, UNCHANGED <<bookVars, loan_by_id, held>>
    PROVE  CoverKept
<1>1. ASSUME NEW t \in Tokens
      PROVE  (held[t] - Claims(t))' >= held[t] - Claims(t)
  <2>1. Spare(t) \in Int
    BY SurplusIsSplit DEF SurplusSplit
  <2>2. Spare(t)' = Spare(t)
    BY DEF Spare, Claims, CollateralLocked, OpenIds, bookVars
  <2>3. QED
    BY <2>1, <2>2 DEF Spare
<1>2. QED
  BY <1>1 DEF CoverKept

\* A position written without a payment credits nothing.
LEMMA WriteKeepsSurplus ==
    ASSUME ServiceTypes, ServiceTypes', UNCHANGED <<vars, insuranceVars>>, NEW p \in Plans,
           CreditedBy(p)' = CreditedBy(p),
           \A r \in Plans \ {p} : position'[r] = position[r]
    PROVE  Surplus' >= Surplus
<1>1. SpareTokens' >= SpareTokens + 0
  <2>1. CoverKept
    BY CoverSame DEF vars, loanVars
  <2>2. SpareTokens \in Int /\ SpareTokens' \in Int
    BY SurplusIsSplit, SurplusIsSplitNext DEF SurplusSplit
  <2>3. QED
    BY <2>1, <2>2, SpareKept
<1>2. Credited' <= Credited + 0 - 0
  <2>1. CreditedBy(p)' <= CreditedBy(p) + 0
    BY SurplusIsSplit DEF SurplusSplit
  <2>2. Credited' <= Credited + 0
    BY <2>1, CreditedMoves
  <2>3. Credited \in Int
    BY SurplusIsSplit DEF SurplusSplit
  <2>4. QED
    BY <2>2, <2>3
<1>3. insurance_fund'.available_balance <= insurance_fund.available_balance + 0
  BY SurplusIsSplit DEF SurplusSplit, insuranceVars
<1>4. QED
  BY <1>1, <1>2, <1>3, SurplusStep

\* A claim credits the plan no more than it takes out of the pool's bucket.
LEMMA ClaimKeepsSurplus ==
    ASSUME ServiceInv, ServiceTypes, ServiceTypes', NEW p \in Plans, ClaimPlanYield(p),
           UNCHANGED insuranceVars
    PROVE  Surplus' >= Surplus
<1> DEFINE old == position[p]
           x == Payable(p)
           total == old.total_harvested
<1>1. PICK a : a = old.asset
  OBVIOUS
<1>2. PoolTypeOK /\ p \in Registered /\ Earned(old, now)
  BY DEF ServiceTypes, ClaimPlanYield, ServiceInv, HarvestsEarned
<1>3. /\ x \in Nat /\ a \in Assets /\ retained_yield[a] \in Nat /\ x <= retained_yield[a]
  BY <1>1, <1>2, PayableType DEF ServiceInv, ServiceTypes
<1>4. old \in Positions /\ old # NoPosition /\ total \in Nat /\ U64_MAX \in Nat
  BY <1>2, RegisteredFacts, PositionFields, PoolAssumption DEF ServiceTypes
<1> DEFINE more == capped(total + x, U64_MAX)
           q == harvested(old, x, now, U64_MAX)
<1>5. /\ position' = [position EXCEPT ![p] = q]
      /\ retained_yield' = [retained_yield EXCEPT ![a] = saturating_sub(@, x)]
      /\ UNCHANGED <<total_deposits, total_borrowed, bad_debt_reserve, held, loan_by_id>>
  BY <1>1 DEF ClaimPlanYield, loanVars
<1>6. q.total_harvested = more /\ more <= total + x /\ more \in Nat
  <2>1. q.total_harvested = more
    BY <1>4 DEF harvested, Positions, PositionOf
  <2> HIDE DEF total, x
  <2>2. QED
    BY <1>3, <1>4, <2>1 DEF capped
<1>7. \A r \in Plans : position'[r] = IF r = p THEN q ELSE position[r]
  BY <1>5 DEF ServiceTypes, PositionTypes
<1>8. Credited' <= Credited + x
  <2>1. CreditedBy(p)' <= CreditedBy(p) + x
    <3>1. CreditedBy(p) = total
      BY <1>4 DEF CreditedBy
    <3>2. CreditedBy(p)' = more \/ CreditedBy(p)' = 0
      BY <1>6, <1>7 DEF CreditedBy
    <3> HIDE DEF total, x, more
    <3>3. QED
      BY <1>3, <1>4, <1>6, <3>1, <3>2
  <2>2. \A r \in Plans \ {p} : position'[r] = position[r]
    BY <1>7
  <2> HIDE DEF x
  <2>3. QED
    BY <1>3, <2>1, <2>2, CreditedMoves
<1>9. SpareTokens' = SpareTokens + x
  <2>1. a \in Tokens /\ retained_yield \in [Assets -> U64]
    BY <1>2, <1>3, PoolAssumption DEF PoolTypeOK
  <2>2. /\ retained_yield'[a] = retained_yield[a] - x
        /\ \A s \in Assets \ {a} : retained_yield'[s] = retained_yield[s]
    <3>1. saturating_sub(retained_yield[a], x) = retained_yield[a] - x
      BY <1>3 DEF saturating_sub
    <3> HIDE DEF x
    <3>2. QED
      BY <1>3, <1>5, <2>1, <3>1
  <2>3. held'[a] - Books(a)' = held[a] - Books(a) + x
    <3>1. /\ held[a] \in Nat /\ total_deposits[a] \in Nat /\ total_borrowed[a] \in Nat
          /\ bad_debt_reserve[a] \in Nat
      BY <1>2, <1>3, <2>1, PoolAssumption DEF PoolTypeOK
    <3>2. Books(a) = total_deposits[a] - total_borrowed[a] + retained_yield[a] + bad_debt_reserve[a]
      BY <1>3 DEF Books
    <3>3. Books(a)' = total_deposits[a] - total_borrowed[a] + (retained_yield[a] - x)
                         + bad_debt_reserve[a]
      BY <1>3, <1>5, <2>2 DEF Books
    <3> HIDE DEF x
    <3>4. QED
      BY <1>3, <1>5, <3>1, <3>2, <3>3
  <2>4. \A s \in Tokens \ {a} : held'[s] = held[s] /\ Books(s)' = Books(s)
    BY <1>5, <2>2 DEF Books
  <2> HIDE DEF x
  <2>5. QED
    BY <1>3, <1>5, <2>1, <2>3, <2>4, SpareMoves
<1>10. insurance_fund'.available_balance <= insurance_fund.available_balance + 0
  BY SurplusIsSplit DEF SurplusSplit, insuranceVars
<1> HIDE DEF x
<1>11. SpareTokens' >= SpareTokens + x /\ Credited' <= Credited + x - 0 /\ x \in Int
  <2>1. SpareTokens \in Int /\ Credited \in Int
    BY SurplusIsSplit DEF SurplusSplit
  <2>2. QED
    BY <1>3, <1>8, <1>9, <2>1
<1>12. QED
  BY <1>10, <1>11, SurplusStep

LEMMA YieldKeepsSurplus ==
    ASSUME ServiceInv, ServiceTypes, ServiceTypes', YieldNext, UNCHANGED insuranceVars
    PROVE  Surplus' >= Surplus
<1>1. PICK p \in Plans :
        \/ \E a \in Assets, x \in Principals : RegisterPlanYield(p, a, x)
        \/ ClaimPlanYield(p)
        \/ UnregisterPlanYield(p)
        \/ \E b \in Boosts : SetPlanYieldBoost(p, b)
  BY DEF YieldNext
<1> DEFINE old == position[p]
           Kept(q) == /\ position' = [position EXCEPT ![p] = q]
                      /\ q # NoPosition
                      /\ IF old = NoPosition THEN q.total_harvested = 0
                         ELSE q.total_harvested = old.total_harvested
<1>2. position \in [Plans -> Positions \cup {NoPosition}]
  BY DEF ServiceTypes, PositionTypes
<1>3. old # NoPosition => old \in Positions
  BY <1>2
<1>4. ASSUME NEW q, Kept(q), UNCHANGED vars
      PROVE  Surplus' >= Surplus
  <2>1. CreditedBy(p)' = CreditedBy(p)
    BY <1>2, <1>4 DEF CreditedBy
  <2>2. \A r \in Plans \ {p} : position'[r] = position[r]
    BY <1>2, <1>4
  <2>3. QED
    BY <1>4, <2>1, <2>2, WriteKeepsSurplus
<1>5. ASSUME NEW q, position' = [position EXCEPT ![p] = q], q # NoPosition,
             old # NoPosition, q.total_harvested = old.total_harvested, UNCHANGED vars
      PROVE  Surplus' >= Surplus
  <2>1. Kept(q)
    BY <1>5
  <2> HIDE DEF Kept
  <2>2. QED
    BY <1>4, <1>5, <2>1
<1>6. ASSUME NEW a \in Assets, NEW x \in Principals, RegisterPlanYield(p, a, x)
      PROVE  Surplus' >= Surplus
  <2> DEFINE q == registered(old, a, x, now)
  <2>1. position' = [position EXCEPT ![p] = q] /\ UNCHANGED vars
    BY <1>6 DEF RegisterPlanYield, PositionStep
  <2>2. position'[p] \in Positions \cup {NoPosition} /\ position'[p] = q
    BY <1>2, <2>1 DEF ServiceTypes, PositionTypes
  <2>3. IF old = NoPosition THEN q.total_harvested = 0
        ELSE q.total_harvested = old.total_harvested
    BY <1>3 DEF registered, Positions, PositionOf
  <2>4. CreditedBy(p)' = CreditedBy(p)
    <3> HIDE DEF q
    <3>1. CASE q # NoPosition
      BY <2>2, <2>3, <3>1 DEF CreditedBy
    <3>2. CASE q = NoPosition
      <4>1. x \in U64 /\ now \in Nat /\ U64_MAX \in Nat
        BY YieldAssumption, PoolAssumption DEF ServiceTypes, PoolTypeOK
      <4>2. 0 \in U64 /\ 0 \in 0..MAX_YIELD_BOOST_BPS
        BY <4>1, YieldAssumption
      <4>3. q \in Positions
        BY <1>3, <4>1, <4>2 DEF registered, Positions, PositionOf, q
      <4>4. QED
        BY <3>2, <4>3, PositionMarkAssumption
    <3>3. QED
      BY <3>1, <3>2
  <2>5. \A r \in Plans \ {p} : position'[r] = position[r]
    BY <1>2, <2>1
  <2>6. QED
    BY <2>1, <2>4, <2>5, WriteKeepsSurplus
<1>7. CASE UnregisterPlanYield(p)
  <2> DEFINE q == [old EXCEPT !.active = FALSE, !.principal = 0]
  <2>1. position' = [position EXCEPT ![p] = q] /\ UNCHANGED vars /\ old # NoPosition
    BY <1>7 DEF UnregisterPlanYield, unregistered, PositionStep, Registered
  <2>2. q \in Positions /\ q.total_harvested = old.total_harvested
    <3>1. 0 \in U64
      BY PoolAssumption
    <3> HIDE DEF U64
    <3>2. QED
      BY <1>3, <2>1, <3>1 DEF Positions, PositionOf
  <2>3. q # NoPosition
    BY <2>2, PositionMarkAssumption
  <2> HIDE DEF q, old
  <2>4. QED
    BY <1>5, <2>1, <2>2, <2>3
<1>8. ASSUME NEW b \in Boosts, SetPlanYieldBoost(p, b)
      PROVE  Surplus' >= Surplus
  <2> DEFINE q == [old EXCEPT !.boost_bps = b]
  <2>1. /\ position' = [position EXCEPT ![p] = q] /\ UNCHANGED vars /\ old # NoPosition
        /\ b \in 0..MAX_YIELD_BOOST_BPS
    BY <1>8, YieldAssumption DEF SetPlanYieldBoost, PositionStep, Registered
  <2>2. q \in Positions /\ q.total_harvested = old.total_harvested
    BY <1>3, <2>1 DEF Positions, PositionOf
  <2>3. q # NoPosition
    BY <2>2, PositionMarkAssumption
  <2> HIDE DEF q, old
  <2>4. QED
    BY <1>5, <2>1, <2>2, <2>3
<1>9. QED
  BY <1>1, <1>6, <1>7, <1>8, ClaimKeepsSurplus

\* The fund takes no more into its balance than it is paid in tokens, unless
\* it refunds what it no longer has.
LEMMA InsuranceKeepsSurplus ==
    ASSUME ServiceTypes, ServiceTypes', position' = position,
           NEW in \in Nat, NEW out \in Nat, FundMoves(in, out)
    PROVE  Surplus' >= Surplus \/ RefundBeyondFund
<1> DEFINE n == in - out
<1>1. n \in Int /\ PrimaryAsset \in Tokens
  BY PoolAssumption
<1>2. /\ held' = [held EXCEPT ![PrimaryAsset] = @ + in - out] /\ loan_by_id' = loan_by_id
      /\ \A s \in Tokens : Books(s)' = Books(s)
  BY DEF FundMoves, loanVars, bookVars, Books
<1>3. SpareTokens' = SpareTokens + n
  <2>1. held \in [Tokens -> Nat] /\ Books(PrimaryAsset) \in Int
    BY <1>1, ClaimsAreSplit DEF ServiceTypes, PoolTypeOK, ClaimsSplit
  <2>2. held'[PrimaryAsset] = held[PrimaryAsset] + in - out
    BY <1>1, <1>2, <2>1
  <2>3. held'[PrimaryAsset] - Books(PrimaryAsset)' = held[PrimaryAsset] - Books(PrimaryAsset) + n
    <3>1. held[PrimaryAsset] \in Nat /\ Books(PrimaryAsset)' = Books(PrimaryAsset)
      BY <1>1, <1>2, <2>1
    <3>2. QED
      BY <2>1, <2>2, <3>1
  <2>4. \A s \in Tokens \ {PrimaryAsset} : held'[s] = held[s] /\ Books(s)' = Books(s)
    BY <1>2, <2>1
  <2> HIDE DEF n
  <2>5. QED
    BY <1>1, <1>2, <2>3, <2>4, SpareMoves
<1>4. Credited' = Credited /\ Credited \in Int /\ SpareTokens \in Int
      /\ insurance_fund.available_balance \in Int
  BY SurplusIsSplit DEF SurplusSplit, Credited, CreditedBy
<1>5. CASE insurance_fund'.available_balance <= insurance_fund.available_balance + in - out
  <2>1. insurance_fund'.available_balance <= insurance_fund.available_balance + n
    <3>1. insurance_fund.available_balance + n = insurance_fund.available_balance + in - out
      BY <1>4
    <3>2. QED
      BY <1>5, <3>1
  <2> HIDE DEF n
  <2>2. Credited' <= Credited + n - n /\ SpareTokens' >= SpareTokens + n
    BY <1>1, <1>3, <1>4
  <2>3. QED
    BY <1>1, <2>1, <2>2, SurplusStep
<1>6. QED
  BY <1>5 DEF FundMoves

\* Whoever acts leaves aside what no record credits.
LEMMA ServiceStepKeepsSurplus ==
    ASSUME ServiceInv, [ServicesNext]_allVars
    PROVE  Surplus' >= Surplus \/ BooksOutrunTokens \/ RefundBeyondFund
<1>1. ServiceInv'
  BY ServiceStep
<1>2. ServiceTypes /\ ServiceTypes'
  BY <1>1 DEF ServiceInv, ServiceTypes, BookInv
<1>3. ASSUME CoverKept, UNCHANGED <<position, insuranceVars>>
      PROVE  Surplus' >= Surplus
  <2>1. Credited' = Credited /\ Credited \in Int /\ SpareTokens \in Int /\ SpareTokens' \in Int
        /\ insurance_fund.available_balance \in Int
    BY <1>2, SurplusIsSplit, SurplusIsSplitNext, <1>3 DEF SurplusSplit, Credited, CreditedBy
  <2>2. SpareTokens' >= SpareTokens + 0 /\ Credited' <= Credited + 0 - 0
    BY <1>2, <1>3, <2>1, SpareKept
  <2>3. insurance_fund'.available_balance <= insurance_fund.available_balance + 0
    BY <1>3, <2>1 DEF insuranceVars
  <2>4. QED
    BY <1>2, <2>2, <2>3, SurplusStep
<1>4. CASE [Next]_vars /\ UNCHANGED serviceVars
  <2>1. BooksOutrunTokens \/ CoverKept
    BY <1>4, StepKeepsCover DEF ServiceInv
  <2>2. QED
    BY <1>3, <1>4, <2>1 DEF serviceVars
<1>5. CASE YieldNext /\ UNCHANGED <<stakingVars, insuranceVars>>
  BY <1>2, <1>5, YieldKeepsSurplus
<1>6. CASE StakingNext /\ UNCHANGED <<position, insuranceVars>>
  <2>1. UNCHANGED vars
    BY <1>6, StakingStep DEF ServiceInv, BookInv, PoolTypeOK
  <2>2. CoverKept
    BY <1>2, <2>1, CoverSame DEF vars, loanVars
  <2>3. QED
    BY <1>3, <1>6, <2>2
<1>7. CASE InsuranceNext /\ UNCHANGED <<position, stakingVars>>
  <2>1. InsuranceKept
    BY <1>7, InsuranceStep DEF ServiceInv, BookInv
  <2>2. QED
    BY <1>2, <1>7, <2>1, InsuranceKeepsSurplus DEF InsuranceKept
<1>8. QED
  BY <1>4, <1>5, <1>6, <1>7 DEF ServicesNext, allVars

\* No operation of the pools and the services pays out, credits or promises
\* value the contract does not hold beyond its books, save the loan handlers
\* of BooksOutrunTokens and a refund the insurance fund no longer covers.
THEOREM ServicesNeverDrainPools == ServicesSpec => ServicesKeepBacking
<1>1. ServiceInv /\ [ServicesNext]_allVars =>
        [Surplus' >= Surplus \/ BooksOutrunTokens \/ RefundBeyondFund
          ]_<<held, bookVars, loan_by_id, insurance_fund, position>>
  BY ServiceStepKeepsSurplus
<1>2. QED
  BY <1>1, ServiceInit, ServiceStep, PTL DEF ServicesSpec, ServicesKeepBacking
=============================================================================
