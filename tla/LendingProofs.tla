--------------------------- MODULE LendingProofs ---------------------------
(***************************************************************************)
(* The lending contract's invariants for every set of users and tokens,    *)
(* every scale of the constants and every bound.                           *)
(***************************************************************************)
EXTENDS Lending, ArithmeticProofs, SequenceTheorems

-----------------------------------------------------------------------------
(* The arithmetic of the contract, for every scale *)

(* Scaling by at most one whole and dividing by it does not exceed the     *)
(* scaled value: fees and shares are parts of what they are taken from.    *)
LEMMA PartOfWhole ==
    ASSUME NEW x \in Nat, NEW k \in 0..BPS
    PROVE  /\ (x * k) \div BPS \in Nat
           /\ (x * k) \div BPS <= x
BY PartAtMost, MathAssumption

(* shares_for_deposit never mints shares worth more than the deposit.      *)
LEMMA SharesForDepositFair ==
    ASSUME NEW D \in Nat, NEW S \in Nat, NEW amount \in Nat, D > 0, S > 0
    PROVE  /\ shares_for_deposit(D, S, amount) \in Nat
           /\ shares_for_deposit(D, S, amount) * D <= amount * S
BY DivFloor, MulNat DEF shares_for_deposit

(* assets_for_shares never pays more than the shares are worth, and pays   *)
(* the whole pool only for all the shares.                                 *)
LEMMA AssetsForSharesFair ==
    ASSUME NEW D \in Nat, NEW S \in Nat, NEW n \in Nat, S > 0
    PROVE  /\ assets_for_shares(D, S, n) \in Nat
           /\ assets_for_shares(D, S, n) * S <= n * D
           /\ D > 0 /\ n < S => assets_for_shares(D, S, n) < D
<1> DEFINE q == assets_for_shares(D, S, n)
<1>1. q \in Nat /\ q * S <= n * D
  BY DivFloor, MulNat DEF assets_for_shares
<1> HIDE DEF q
<1>2. ASSUME D > 0, n < S PROVE q < D
  <2>1. SUFFICES ASSUME q >= D PROVE FALSE
    BY <1>1
  <2>2. q * S >= D * S
    BY <1>1, <2>1, MulMono
  <2>3. n * D < S * D
    <3>1. n + 1 <= S
      BY <1>2
    <3>2. (n + 1) * D <= S * D
      BY <3>1, MulMono
    <3>3. (n + 1) * D = n * D + D
      OBVIOUS
    <3>4. n * D \in Nat /\ S * D \in Nat
      BY MulNat
    <3>5. QED
      BY <3>2, <3>3, <3>4, <1>2
  <2>4. D * S = S * D
    OBVIOUS
  <2>5. D * S \in Nat /\ q * S \in Nat /\ n * D \in Nat
    BY MulNat, <1>1
  <2>6. QED
    BY <1>1, <2>2, <2>3, <2>4, <2>5
<1>3. QED
  BY <1>1, <1>2 DEF q

(* A deposit that is withdrawn at once never returns more than was paid:   *)
(* both roundings of the share price favour the pool.                      *)
THEOREM DepositRoundTripIsNoGain ==
    ASSUME NEW D \in Nat, NEW S \in Nat, NEW amount \in Nat, D > 0, S > 0
    PROVE  LET minted == shares_for_deposit(D, S, amount)
           IN  assets_for_shares(D + amount, S + minted, minted) <= amount
<1> DEFINE m == shares_for_deposit(D, S, amount)
           q == assets_for_shares(D + amount, S + m, m)
<1>1. m \in Nat /\ m * D <= amount * S
  BY SharesForDepositFair
<1> HIDE DEF m
<1>2. q \in Nat /\ q * (S + m) <= m * (D + amount)
  <2>1. S + m \in Nat /\ S + m > 0 /\ D + amount \in Nat
    BY <1>1
  <2>2. QED
    BY <1>1, <2>1, AssetsForSharesFair
<1> HIDE DEF q
<1>3. m * (D + amount) <= amount * (S + m)
  BY <1>1
<1>4. q * (S + m) <= amount * (S + m)
  <2>1. /\ q * (S + m) \in Nat /\ m * (D + amount) \in Nat
        /\ amount * (S + m) \in Nat
    BY <1>1, <1>2, MulNat
  <2>2. QED
    BY <1>2, <1>3, <2>1
<1>5. q <= amount
  <2>1. SUFFICES ASSUME q >= amount + 1 PROVE FALSE
    BY <1>2
  <2>2. q * (S + m) >= (amount + 1) * (S + m)
    BY <1>1, <1>2, <2>1, MulMono
  <2>3. (amount + 1) * (S + m) = amount * (S + m) + (S + m)
    BY <1>1
  <2>4. QED
    BY <1>1, <1>2, <1>4, <2>2, <2>3, MulNat
<1>6. QED
  BY <1>5 DEF m, q

(* The three shares repay splits interest into are naturals that add up to *)
(* the interest the borrower paid, whatever the two protocol constants.    *)
THEOREM InterestSplitIsExact ==
    ASSUME NEW interest \in Nat
    PROVE  /\ pool_share(interest) \in Nat
           /\ retained_share(interest) \in Nat
           /\ reserve_share(interest) \in Nat
           /\ pool_share(interest) + retained_share(interest)
                + reserve_share(interest) = interest
<1>1. protocol_share(interest) \in Nat /\ protocol_share(interest) <= interest
  BY PartOfWhole, MathAssumption DEF protocol_share
<1>2. /\ reserve_share(interest) \in Nat
      /\ reserve_share(interest) <= protocol_share(interest)
  BY <1>1, PartOfWhole, MathAssumption DEF reserve_share
<1>3. QED
  BY <1>1, <1>2 DEF pool_share, retained_share, saturating_sub

(* A pool whose utilization is under 100% has lent less than it holds: the *)
(* cap that borrow and refinance_loan check keeps borrows below deposits.  *)
THEOREM UtilizationUnderCap ==
    ASSUME NEW B \in Nat, NEW D \in Nat, get_utilization_bps(B, D) < BPS
    PROVE  B <= D
<1>1. SUFFICES ASSUME B > D PROVE FALSE
  OBVIOUS
<1>2. saturating_sub(D, B) + B = B
  BY <1>1 DEF saturating_sub
<1>3. mul_div(B, BPS, B) = BPS
  <2>1. BPS \in Nat /\ BPS > 0 /\ B > 0
    BY <1>1, MathAssumption
  <2>2. (B * BPS) \div B \in Nat /\ ((B * BPS) \div B) * B <= B * BPS
        /\ B * BPS < ((B * BPS) \div B) * B + B
    BY <2>1, MulNat, DivFloor
  <2> DEFINE q == (B * BPS) \div B
  <2> HIDE DEF q
  <2>3. q \in Nat /\ q * B <= B * BPS /\ B * BPS < q * B + B
    BY <2>2 DEF q
  <2>4. q <= BPS
    <3>1. SUFFICES ASSUME q >= BPS + 1 PROVE FALSE
      BY <2>1, <2>3
    <3>2. q * B >= (BPS + 1) * B
      BY <3>1, <2>1, <2>3, MulMono
    <3>3. (BPS + 1) * B = B * BPS + B
      BY <2>1
    <3>4. QED
      BY <3>2, <3>3, <2>1, <2>3, MulNat
  <2>5. q >= BPS
    <3>1. SUFFICES ASSUME q + 1 <= BPS PROVE FALSE
      BY <2>1, <2>3
    <3>2. (q + 1) * B <= BPS * B
      BY <3>1, <2>1, <2>3, MulMono
    <3>3. (q + 1) * B = q * B + B /\ BPS * B = B * BPS
      BY <2>1, <2>3
    <3>4. QED
      BY <3>2, <3>3, <2>1, <2>3, MulNat
  <2>6. QED
    BY <2>1, <2>3, <2>4, <2>5 DEF mul_div, q
<1>4. get_utilization_bps(B, D) = BPS
  BY <1>2, <1>3, MathAssumption DEF get_utilization_bps, lesser
<1>5. QED
  BY <1>4, MathAssumption

-----------------------------------------------------------------------------

USE DEF U64

-----------------------------------------------------------------------------
(* Types of the views of a loan *)

(* Simple interest on natural inputs is a natural number. *)
LEMMA InterestType ==
    ASSUME NEW p \in Nat, NEW rate \in Nat, NEW elapsed \in Nat
    PROVE  calculate_interest(p, rate, elapsed) \in Nat
<1>1. BPS * YEAR \in Nat /\ BPS * YEAR > 0
  BY MathAssumption
<1>2. p * rate * elapsed \in Nat
  BY MulNat
<1>3. (BPS * YEAR) \div 2 \in Nat
  BY <1>1, DivFloor
<1> DEFINE c == BPS * YEAR
           num == p * rate * elapsed + c \div 2
<1>4. c \in Nat /\ c > 0 /\ num \in Nat
  BY <1>1, <1>2, <1>3
<1> HIDE DEF c, num
<1>5. num \div c \in Nat
  BY <1>4, DivFloor
<1>6. QED
  BY <1>5 DEF calculate_interest, num, c

(* A cast to u64 gives a natural number that is no larger. *)
LEMMA CastType ==
    ASSUME NEW x \in Nat
    PROVE  as_u64(x) \in Nat /\ as_u64(x) <= x /\ as_u64(x) <= U64_MAX
BY PoolAssumption DEF as_u64

(* Interest, late fee and outstanding amount of a stored loan. *)
LEMMA LoanViewType ==
    ASSUME PoolTypeOK, NEW l \in LoanRecord
    PROVE  /\ Interest(l) \in Nat
           /\ GraceEnd(l) \in Nat
           /\ LateFee(l) \in Nat
           /\ Outstanding(l) \in Nat
           /\ Outstanding(l) >= l.principal
           /\ RefinancingFee(Outstanding(l)) \in Nat
<1>1. /\ l.principal \in Nat /\ l.interest_rate_bps \in Nat /\ l.asset \in Assets
      /\ l.borrow_time \in Nat /\ l.due_date \in Nat /\ now \in Nat
  BY PoolAssumption DEF LoanRecord, PoolTypeOK
<1>2. Interest(l) \in Nat
  <2>1. saturating_sub(now, l.borrow_time) \in Nat
    BY <1>1 DEF saturating_sub
  <2>2. QED
    BY <1>1, <2>1, InterestType, CastType DEF Interest
<1>3. GraceEnd(l) \in Nat
  BY <1>1 DEF GraceEnd, PoolTypeOK, Settings
<1>4. LateFee(l) \in Nat
  <2>1. settings.late_fee_rate_bps[l.asset] \in Nat
    BY <1>1 DEF PoolTypeOK, Settings
  <2> DEFINE fee == settings.late_fee_rate_bps[l.asset]
             ge == GraceEnd(l)
  <2>2. fee \in Nat /\ ge \in Nat
    BY <1>3, <2>1
  <2> HIDE DEF fee, ge
  <2>3. (l.principal * fee) \div BPS \in Nat
    BY <1>1, <2>2, MulNat, DivFloor, MathAssumption
  <2>4. CASE now > ge
    <3>1. (now - ge) \div DAY \in Nat
      BY <1>1, <2>2, <2>4, DivFloor, MathAssumption
    <3>2. ((now - ge) \div DAY) * ((l.principal * fee) \div BPS) \in Nat
      BY <2>3, <3>1, MulNat
    <3>3. QED
      BY <3>2, <2>4, <2>2, <1>1, CastType DEF LateFee, calculate_late_fee, fee, ge
  <2>5. CASE now <= ge
    BY <2>5, CastType DEF LateFee, calculate_late_fee, fee, ge
  <2>6. QED
    BY <2>4, <2>5, <2>2, <1>1
<1>5. Outstanding(l) \in Nat /\ Outstanding(l) >= l.principal
  BY <1>1, <1>2 DEF Outstanding
<1>6. RefinancingFee(Outstanding(l)) \in Nat
  BY <1>5, LoanAssumption, MathAssumption, MulNat, DivFloor DEF RefinancingFee
<1>7. QED
  BY <1>2, <1>3, <1>4, <1>5, <1>6

(* Utilization is a natural number. *)
LEMMA UtilizationType ==
    ASSUME NEW B \in Nat, NEW D \in Nat
    PROVE  get_utilization_bps(B, D) \in Nat
<1>1. saturating_sub(D, B) + B \in Nat
  BY DEF saturating_sub
<1> DEFINE den == saturating_sub(D, B) + B
<1> HIDE DEF den
<1>2. mul_div(B, BPS, den) \in Nat
  BY <1>1, MathAssumption, MulNat, DivFloor DEF mul_div, den
<1>3. QED
  BY <1>2, MathAssumption DEF get_utilization_bps, lesser, den

(* The rate a new loan gets, on either curve, is a natural number. *)
LEMMA RateType ==
    ASSUME PoolTypeOK, NEW a \in Assets, NEW borrowed \in Nat
    PROVE  CurrentRate(a, borrowed) \in Nat
<1> DEFINE u == get_utilization_bps(borrowed, total_deposits[a])
           m == settings.rate_model
<1>1. u \in Nat
  <2>1. total_deposits[a] \in Nat
    BY PoolAssumption DEF PoolTypeOK
  <2>2. QED
    BY <2>1, UtilizationType
<1>2. m = NoModel \/ m \in UsableRateModel
  BY DEF PoolTypeOK, Settings
<1> HIDE DEF u, m
<1>3. CASE m = NoModel
  <2>1. (u * MultiplierBps) \div BPS \in Nat
    BY <1>1, MulNat, DivFloor, PoolAssumption, MathAssumption
  <2>2. QED
    BY <1>3, <2>1, PoolAssumption DEF CurrentRate, calculate_dynamic_rate, u, m
<1>4. CASE m # NoModel
  <2> DEFINE w == lesser(u, BPS)
             o == m.optimal_utilization_bps
  <2>1. /\ m.base_rate_bps \in Nat /\ m.slope1_bps \in Nat /\ m.slope2_bps \in Nat
        /\ o \in Nat /\ o > 0 /\ BPS - o \in Nat /\ BPS - o > 0
    BY <1>2, <1>4, MathAssumption DEF UsableRateModel, RateModel
  <2>2. w \in Nat
    BY <1>1, MathAssumption DEF lesser
  <2> HIDE DEF w, o
  <2>3. (w * m.slope1_bps) \div o \in Nat
    BY <2>1, <2>2, MulNat, DivFloor
  <2>4. w > o => ((w - o) * m.slope2_bps) \div (BPS - o) \in Nat
    BY <2>1, <2>2, MulNat, DivFloor
  <2>5. two_slope_rate(m, u) \in Nat
    BY <2>1, <2>2, <2>3, <2>4 DEF two_slope_rate, w, o
  <2>6. QED
    BY <2>5, <1>4 DEF CurrentRate, u, m
<1>5. QED
  BY <1>3, <1>4

-----------------------------------------------------------------------------
(* Type preservation *)

(* deposit, withdraw, flash_loan, the buckets and the clock keep the type. *)
LEMMA SupplyKeepsType ==
    ASSUME PoolTypeOK, SupplyNext
    PROVE  PoolTypeOK'
<1> USE PoolAssumption
<1>1. ASSUME NEW u \in Users, NEW a \in Assets, NEW x \in DepositAmounts,
             Deposit(u, a, x)
      PROVE  PoolTypeOK'
  <2> DEFINE minted == SharesToDepositor(a, x)
             lock == LockedShares(a)
  <2>1. /\ total_deposits' = Bump(total_deposits, a, x)
        /\ total_deposits[a] + x \in U64
        /\ total_shares' = Bump(total_shares, a, lock + minted)
        /\ total_shares[a] + lock + minted \in U64
        /\ shares' = [shares EXCEPT ![u][a] = @ + minted]
        /\ shares[u][a] + minted \in U64
        /\ deposit_ledger' = [deposit_ledger EXCEPT ![u][a] = now]
        /\ held' = Bump(held, a, x)
        /\ UNCHANGED <<total_borrowed, retained_yield, bad_debt_reserve,
                       total_protocol_revenue, settings, loanVars, now>>
    BY <1>1 DEF Deposit
  <2>2. minted \in Int /\ lock \in Nat
    <3>1. /\ total_deposits[a] \in Nat /\ total_shares[a] \in Nat /\ x \in Nat
          /\ lock \in Nat
      BY DEF PoolTypeOK, LockedShares
    <3>2. shares_for_deposit(total_deposits[a], total_shares[a], x) \in Nat
      BY <3>1, SharesForDepositFair DEF shares_for_deposit
    <3>3. QED
      BY <3>1, <3>2 DEF SharesToDepositor
  <2> HIDE DEF minted, lock
  <2>3. total_shares[a] + (lock + minted) \in U64
    BY <2>1, <2>2 DEF PoolTypeOK
  <2>4. /\ total_deposits' \in [Assets -> U64]
        /\ total_shares' \in [Assets -> U64]
        /\ held' \in [Tokens -> Nat]
    BY <2>1, <2>3 DEF Bump, PoolTypeOK
  <2>5. /\ shares' \in [Users -> [Assets -> U64]]
        /\ deposit_ledger' \in [Users -> [Assets -> Nat]]
    BY <2>1 DEF PoolTypeOK
  <2>6. QED
    BY <2>1, <2>4, <2>5 DEF PoolTypeOK, loanVars
<1>2. ASSUME NEW u \in Users, NEW a \in Assets, NEW s \in WithdrawShares,
             Withdraw(u, a, s)
      PROVE  PoolTypeOK'
  <2>1. /\ total_deposits[a] \in Nat /\ total_shares[a] \in Nat
        /\ total_borrowed[a] \in Nat /\ s \in Nat /\ total_shares[a] > 0
    BY <1>2 DEF Withdraw, PoolTypeOK
  <2> DEFINE amount == assets_for_shares(total_deposits[a], total_shares[a], s)
  <2>2. amount \in Nat
    BY <2>1, AssetsForSharesFair
  <2> HIDE DEF amount
  <2>3. amount <= total_deposits[a] /\ amount <= held[a]
    BY <1>2, <2>1, <2>2 DEF Withdraw, PaidFor, Available, saturating_sub, amount
  <2>4. /\ total_deposits' = Drop(total_deposits, a, amount)
        /\ held' = Drop(held, a, amount)
    BY <1>2 DEF Withdraw, PaidFor, amount
  <2>5. total_deposits' \in [Assets -> U64] /\ held' \in [Tokens -> Nat]
    BY <2>1, <2>2, <2>3, <2>4 DEF Drop, PoolTypeOK
  <2>6. QED
    BY <1>2, <2>1, <2>5 DEF Withdraw, PoolTypeOK, Drop, loanVars
<1>3. ASSUME NEW u \in Users, NEW a \in Assets, NEW x \in FlashAmounts,
             NEW tip \in FlashTips, FlashLoan(u, a, x, tip)
      PROVE  PoolTypeOK'
  <2> DEFINE fee == (x * settings.flash_loan_fee_bps) \div BPS
  <2>1. fee \in Nat
    <3>1. x \in Nat /\ settings.flash_loan_fee_bps \in Nat
      BY DEF PoolTypeOK, Settings
    <3>2. QED
      BY <3>1, MulNat, DivFloor, MathAssumption
  <2> HIDE DEF fee
  <2>2. /\ total_deposits' = Bump(total_deposits, a, fee)
        /\ total_deposits[a] + fee \in U64
        /\ held' = Bump(held, a, fee + tip)
    BY <1>3 DEF FlashLoan, fee
  <2>3. total_deposits' \in [Assets -> U64] /\ held' \in [Tokens -> Nat]
    BY <2>1, <2>2 DEF Bump, PoolTypeOK
  <2>4. QED
    BY <1>3, <2>3 DEF FlashLoan, PoolTypeOK, depositorVars, loanVars
<1>4. ASSUME NEW a \in Assets, NEW x \in BucketAmounts, WithdrawPriority(a, x)
      PROVE  PoolTypeOK'
  BY <1>4 DEF WithdrawPriority, PoolTypeOK, Drop, depositorVars, loanVars
<1>5. ASSUME NEW a \in Assets, NEW x \in BucketAmounts, FundRetainedYield(a, x)
      PROVE  PoolTypeOK'
  BY <1>5 DEF FundRetainedYield, PoolTypeOK, Bump, depositorVars, loanVars
<1>6. ASSUME NEW a \in Assets, NEW x \in BucketAmounts, TakeFromReserve(a, x)
      PROVE  PoolTypeOK'
  BY <1>6 DEF TakeFromReserve, PoolTypeOK, Drop, depositorVars, loanVars
<1>7. ASSUME NEW a \in Assets, NEW x \in BucketAmounts,
             ReplenishBadDebtReserve(a, x)
      PROVE  PoolTypeOK'
  BY <1>7 DEF ReplenishBadDebtReserve, PoolTypeOK, Bump, lesser,
              depositorVars, loanVars
<1>8. ASSUME NEW d \in TimeSteps, Tick(d)
      PROVE  PoolTypeOK'
  BY <1>8 DEF Tick, PoolTypeOK, bookVars, depositorVars, loanVars
<1>9. QED
  BY <1>1, <1>2, <1>3, <1>4, <1>5, <1>6, <1>7, <1>8
     DEF SupplyNext, WithdrawReserves, AllocateReserves

(* The admin settings keep the type. *)
LEMMA SettingKeepsType ==
    ASSUME PoolTypeOK, SettingNext
    PROVE  PoolTypeOK'
<1> USE PoolAssumption
<1>1. ASSUME NEW new \in Settings, Set(new)
      PROVE  PoolTypeOK'
  BY <1>1 DEF Set, SettingStep, PoolTypeOK, bookVars, depositorVars
<1>2. settings \in Settings
  BY DEF PoolTypeOK
<1>3. ASSUME NEW a \in Assets, AddAssetPool(a)
      PROVE  PoolTypeOK'
  <2>1. [settings EXCEPT !.supported = @ \cup {a}] \in Settings
    BY <1>2 DEF Settings
  <2>2. QED
    BY <1>1, <1>3, <2>1 DEF AddAssetPool
<1>4. ASSUME NEW a \in Assets, NEW b \in BOOLEAN, PauseAssetPool(a, b)
      PROVE  PoolTypeOK'
  <2>1. [settings EXCEPT !.is_paused[a] = b] \in Settings
    BY <1>2 DEF Settings
  <2>2. QED
    BY <1>1, <1>4, <2>1 DEF PauseAssetPool
<1>5. ASSUME NEW a \in Assets, NEW g \in Nat, SetGracePeriod(a, g)
      PROVE  PoolTypeOK'
  <2>1. [settings EXCEPT !.grace_period_seconds[a] = g] \in Settings
    BY <1>2 DEF Settings
  <2>2. QED
    BY <1>1, <1>5, <2>1 DEF SetGracePeriod
<1>6. ASSUME NEW a \in Assets, NEW r \in Nat, SetLateFeeRate(a, r)
      PROVE  PoolTypeOK'
  <2>1. [settings EXCEPT !.late_fee_rate_bps[a] = r] \in Settings
    BY <1>2 DEF Settings
  <2>2. QED
    BY <1>1, <1>6, <2>1 DEF SetLateFeeRate
<1>7. ASSUME NEW a \in Assets, NEW r \in Nat, SetReserveFactor(a, r)
      PROVE  PoolTypeOK'
  <2>1. r \in 0..BPS
    BY <1>7, MathAssumption DEF SetReserveFactor
  <2>2. [settings EXCEPT !.reserve_factor_bps[a] = r] \in Settings
    BY <1>2, <2>1 DEF Settings
  <2>3. QED
    BY <1>1, <1>7, <2>2 DEF SetReserveFactor
<1>8. ASSUME NEW t \in Tokens, WhitelistCollateral(t) \/ RemoveCollateral(t)
      PROVE  PoolTypeOK'
  <2>1. /\ [settings EXCEPT !.whitelisted = @ \cup {t}] \in Settings
        /\ [settings EXCEPT !.whitelisted = @ \ {t}] \in Settings
    BY <1>2 DEF Settings
  <2>2. QED
    BY <1>1, <1>8, <2>1 DEF WhitelistCollateral, RemoveCollateral
<1>9. ASSUME NEW t \in Tokens, AddReserve(t)
      PROVE  PoolTypeOK'
  <2>1. [settings EXCEPT !.whitelisted = @ \cup {t}] \in Settings
    BY <1>2 DEF Settings
  <2>2. [total_borrowed |-> 0, total_collateral |-> 0] \in ReserveConfig
    BY DEF ReserveConfig
  <2>3. QED
    BY <1>9, <2>1, <2>2
       DEF AddReserve, SettingStep, PoolTypeOK, bookVars, depositorVars
<1>10. ASSUME NEW u \in Users,
              WhitelistFlashLoanReceiver(u) \/ RemoveFlashLoanReceiver(u)
       PROVE  PoolTypeOK'
  <2>1. /\ [settings EXCEPT !.flash_receivers = @ \cup {u}] \in Settings
        /\ [settings EXCEPT !.flash_receivers = @ \ {u}] \in Settings
    BY <1>2 DEF Settings
  <2>2. QED
    BY <1>1, <1>10, <2>1 DEF WhitelistFlashLoanReceiver, RemoveFlashLoanReceiver
<1>11. ASSUME NEW f \in Nat, SetFlashLoanFee(f)
       PROVE  PoolTypeOK'
  <2>1. [settings EXCEPT !.flash_loan_fee_bps = f] \in Settings
    BY <1>2 DEF Settings
  <2>2. QED
    BY <1>1, <1>11, <2>1 DEF SetFlashLoanFee
<1>12. ASSUME NEW m \in RateModels, SetRateModel(m)
       PROVE  PoolTypeOK'
  <2>1. m \in UsableRateModel
    BY <1>12, RecordAssumption DEF SetRateModel, UsableRateModel
  <2>2. [settings EXCEPT !.rate_model = m] \in Settings
    BY <1>2, <2>1 DEF Settings
  <2>3. QED
    BY <1>1, <1>12, <2>2 DEF SetRateModel
<1>13. ASSUME NEW n \in NftTokens, SetNftToken(n)
       PROVE  PoolTypeOK'
  <2>1. [settings EXCEPT !.nft_token = n] \in Settings
    BY <1>2 DEF Settings
  <2>2. QED
    BY <1>1, <1>13, <2>1 DEF SetNftToken
<1>14. ASSUME Pause \/ Unpause
       PROVE  PoolTypeOK'
  <2>1. /\ [settings EXCEPT !.contract_paused = TRUE] \in Settings
        /\ [settings EXCEPT !.contract_paused = FALSE] \in Settings
    BY <1>2 DEF Settings
  <2>2. QED
    BY <1>1, <1>14, <2>1 DEF Pause, Unpause
<1>15. QED
  BY <1>3, <1>4, <1>5, <1>6, <1>7, <1>8, <1>9, <1>10, <1>11, <1>12, <1>13,
     <1>14 DEF SettingNext

(* A record built from typed fields is a loan record. *)
LEMMA NewLoanType ==
    ASSUME PoolTypeOK, NEW i \in LoanIds, NEW b \in Users, NEW a \in Assets,
           NEW p \in U64, NEW c \in U64, NEW t \in Tokens, NEW d \in Nat,
           NEW r \in Nat
    PROVE  NewLoan(i, b, a, p, c, t, d, r) \in LoanRecord
BY DEF NewLoan, LoanRecord, PoolTypeOK

(* Ids handed out by increment_loan_id, within the bound. *)
LEMMA FreshIdsType ==
    ASSUME PoolTypeOK, NEW n \in Nat, next_loan_id + n <= MaxLoanId + 1
    PROVE  /\ FreshIds(n) \subseteq LoanIds
           /\ \A i \in FreshIds(n) : i \in Nat /\ i >= next_loan_id
                                     /\ i < next_loan_id + n
           /\ n >= 1 => next_loan_id + n - 1 \in FreshIds(n)
BY PoolAssumption DEF FreshIds, LoanIds, PoolTypeOK

(* Closing and opening loans keeps the type of the loan book. *)
LEMMA ReplaceLoansType ==
    ASSUME PoolTypeOK, NEW b \in Users, NEW closed, NEW opened, NEW n \in Nat,
           NEW primary \in LoanRecord \cup {NoLoan},
           \A i \in FreshIds(n) : opened[i] \in LoanRecord,
           ReplaceLoans(b, closed, opened, n, primary)
    PROVE  /\ loan' \in [Users -> LoanRecord \cup {NoLoan}]
           /\ loan_by_id' \in [LoanIds -> LoanRecord \cup {NoLoan}]
           /\ user_loans' \in [Users -> SUBSET LoanIds]
           /\ next_loan_id' \in Nat \ {0}
           /\ \A i \in FreshIds(n) : loan_by_id'[i] \in LoanRecord
<1>1. FreshIds(n) \subseteq LoanIds
  BY FreshIdsType DEF ReplaceLoans
<1>2. loan_by_id' \in [LoanIds -> LoanRecord \cup {NoLoan}]
  BY DEF ReplaceLoans, PoolTypeOK
<1>3. user_loans' \in [Users -> SUBSET LoanIds]
  BY <1>1 DEF ReplaceLoans, PoolTypeOK
<1>4. \A i \in FreshIds(n) : loan_by_id'[i] \in LoanRecord
  BY <1>1 DEF ReplaceLoans
<1>5. QED
  BY <1>2, <1>3, <1>4 DEF ReplaceLoans, PoolTypeOK

(* Mints and burns keep the type of the NFT contracts. *)
LEMMA ReplaceNftsType ==
    ASSUME PoolTypeOK, NEW closed, NEW minted \in SUBSET LoanIds,
           ReplaceNfts(closed, minted)
    PROVE  nft_minted' \in [NftTokens -> SUBSET LoanIds]
BY DEF ReplaceNfts, PoolTypeOK, Settings

(* The reserve tallies keep their type. *)
LEMMA ReserveTallyType ==
    ASSUME PoolTypeOK, NEW t \in Tokens, NEW c \in Nat, NEW x \in Nat,
           AddToReserve(t, c, x) \/ SubFromReserve(t, c, x)
    PROVE  reserves' \in [Tokens -> ReserveConfig \cup {NoReserve}]
<1>1. CASE reserves[t] = NoReserve
  BY <1>1 DEF AddToReserve, SubFromReserve, PoolTypeOK
<1>2. CASE reserves[t] # NoReserve
  <2>1. reserves[t] \in ReserveConfig /\ U64_MAX \in Nat
    BY <1>2, PoolAssumption DEF PoolTypeOK
  <2> DEFINE r == reserves[t]
  <2>2. /\ r.total_collateral \in U64 /\ r.total_borrowed \in U64
        /\ lesser(r.total_collateral + c, U64_MAX) \in U64
        /\ lesser(r.total_borrowed + x, U64_MAX) \in U64
        /\ saturating_sub(r.total_collateral, c) \in U64
        /\ saturating_sub(r.total_borrowed, x) \in U64
    BY <2>1 DEF ReserveConfig, lesser, saturating_sub
  <2>3. ASSUME NEW v \in U64, NEW w \in U64
        PROVE  [reserves EXCEPT ![t].total_collateral = v, ![t].total_borrowed = w]
                  \in [Tokens -> ReserveConfig \cup {NoReserve}]
    BY <2>1 DEF ReserveConfig, PoolTypeOK
  <2>4. CASE AddToReserve(t, c, x)
    BY <1>2, <2>2, <2>3, <2>4 DEF AddToReserve
  <2>5. CASE SubFromReserve(t, c, x)
    BY <1>2, <2>2, <2>3, <2>5 DEF SubFromReserve
  <2>6. QED
    BY <2>4, <2>5
<1>3. QED
  BY <1>1, <1>2

(* Adding to and taking from one entry of a book, within its range. *)
LEMMA BookType ==
    ASSUME NEW S, NEW f, NEW x \in S, NEW n \in Nat
    PROVE  /\ f \in [S -> Nat] => Bump(f, x, n) \in [S -> Nat]
           /\ f \in [S -> Nat] /\ n <= f[x] => Drop(f, x, n) \in [S -> Nat]
           /\ f \in [S -> U64] /\ f[x] + n \in U64 => Bump(f, x, n) \in [S -> U64]
           /\ f \in [S -> U64] /\ n <= f[x] => Drop(f, x, n) \in [S -> U64]
BY PoolAssumption DEF Bump, Drop

(* The books of a pool are naturals. *)
LEMMA BookNat ==
    ASSUME PoolTypeOK, NEW a \in Assets
    PROVE  /\ total_deposits[a] \in Nat /\ total_shares[a] \in Nat
           /\ total_borrowed[a] \in Nat
BY PoolAssumption DEF PoolTypeOK

(* Fields of a stored loan. *)
LEMMA LoanFields ==
    ASSUME NEW l \in LoanRecord
    PROVE  /\ l.loan_id \in LoanIds /\ l.borrower \in Users /\ l.asset \in Assets
           /\ l.principal \in U64 /\ l.collateral_amount \in U64
           /\ l.collateral_token \in Tokens /\ l.asset \in Tokens
           /\ l.principal \in Nat /\ l.collateral_amount \in Nat
BY PoolAssumption DEF LoanRecord

(* The record stored under a borrower who has one, and under an open id. *)
LEMMA StoredLoan ==
    ASSUME PoolTypeOK
    PROVE  /\ \A b \in Users : loan[b] # NoLoan => loan[b] \in LoanRecord
           /\ \A i \in LoanIds : loan_by_id[i] # NoLoan => loan_by_id[i] \in LoanRecord
BY DEF PoolTypeOK

(* borrow keeps the type. *)
LEMMA BorrowKeepsType ==
    ASSUME PoolTypeOK, NEW b \in Users, NEW a \in Assets, NEW x \in BorrowAmounts,
           NEW t \in CollateralTokens, NEW c \in CollateralAmounts,
           NEW d \in Durations, Borrow(b, a, x, t, c, d)
    PROVE  PoolTypeOK' /\ \A i \in FreshIds(1) : loan_by_id'[i] \in LoanRecord
<1> DEFINE borrowed == total_borrowed[a] + x
           rate == CurrentRate(a, borrowed)
           opened == NewLoan(next_loan_id, b, a, x, c, t, d, rate)
           custody == Bump(held, t, c)
           record == [i \in FreshIds(1) |-> opened]
<1>1. /\ x \in U64 /\ c \in U64 /\ d \in Nat /\ t \in Tokens /\ a \in Tokens
      /\ x \in Nat /\ c \in Nat /\ total_borrowed[a] \in Nat
  BY PoolAssumption, LoanAssumption DEF PoolTypeOK
<1>2. /\ borrowed \in U64
      /\ x <= custody[a]
      /\ held' = Drop(custody, a, x)
      /\ total_borrowed' = [total_borrowed EXCEPT ![a] = borrowed]
      /\ AddToReserve(t, c, x)
      /\ ReplaceLoans(b, {}, record, 1, opened)
      /\ ReplaceNfts({}, FreshIds(1))
      /\ UNCHANGED <<total_deposits, total_shares, retained_yield,
                     bad_debt_reserve, total_protocol_revenue, settings,
                     depositorVars, now>>
  BY DEF Borrow
<1>3. rate \in Nat
  BY <1>1, RateType
<1>4. FreshIds(1) \subseteq LoanIds /\ next_loan_id \in LoanIds
  <2>1. next_loan_id + 1 <= MaxLoanId + 1 /\ next_loan_id + 1 - 1 = next_loan_id
    BY <1>2 DEF ReplaceLoans, PoolTypeOK
  <2>2. QED
    BY <2>1, FreshIdsType
<1>5. opened \in LoanRecord
  BY <1>1, <1>3, <1>4, NewLoanType
<1> HIDE DEF rate, opened, borrowed
<1>6. held' \in [Tokens -> Nat]
  <2>1. custody \in [Tokens -> Nat]
    BY <1>1, BookType DEF PoolTypeOK
  <2>2. QED
    BY <1>1, <1>2, <2>1, BookType
<1>7. /\ loan' \in [Users -> LoanRecord \cup {NoLoan}]
      /\ loan_by_id' \in [LoanIds -> LoanRecord \cup {NoLoan}]
      /\ user_loans' \in [Users -> SUBSET LoanIds]
      /\ next_loan_id' \in Nat \ {0}
      /\ \A i \in FreshIds(1) : loan_by_id'[i] \in LoanRecord
  <2>1. \A i \in FreshIds(1) : record[i] \in LoanRecord
    BY <1>5
  <2> HIDE DEF record
  <2>2. QED
    BY <1>2, <1>5, <2>1, ReplaceLoansType
<1>8. nft_minted' \in [NftTokens -> SUBSET LoanIds]
  BY <1>2, <1>4, ReplaceNftsType
<1>9. reserves' \in [Tokens -> ReserveConfig \cup {NoReserve}]
  BY <1>1, <1>2, ReserveTallyType
<1>10. QED
  BY <1>2, <1>6, <1>7, <1>8, <1>9 DEF PoolTypeOK, depositorVars

(* repay keeps the type. *)
LEMMA RepayKeepsType ==
    ASSUME PoolTypeOK, NEW b \in Users, Repay(b)
    PROVE  PoolTypeOK'
<1> DEFINE l == loan[b]
           interest == Interest(l)
           custody == Bump(held, l.asset, RepaymentAmount(l))
<1>1. l \in LoanRecord
  BY StoredLoan DEF Repay
<1>2. /\ l.loan_id \in LoanIds /\ l.asset \in Assets
      /\ l.principal \in Nat /\ l.collateral_amount \in Nat
      /\ l.collateral_token \in Tokens /\ l.asset \in Tokens
  BY <1>1, LoanFields
<1>3. /\ l.collateral_amount <= custody[l.collateral_token]
      /\ l.principal <= total_borrowed[l.asset]
      /\ total_deposits[l.asset] + pool_share(interest) \in U64
      /\ retained_yield[l.asset] + retained_share(interest) + LateFee(l) \in U64
      /\ bad_debt_reserve[l.asset] + reserve_share(interest) \in U64
      /\ held' = Drop(custody, l.collateral_token, l.collateral_amount)
      /\ total_borrowed' = Drop(total_borrowed, l.asset, l.principal)
      /\ total_deposits' = Bump(total_deposits, l.asset, pool_share(interest))
      /\ retained_yield' =
            Bump(retained_yield, l.asset, retained_share(interest) + LateFee(l))
      /\ bad_debt_reserve' = Bump(bad_debt_reserve, l.asset, reserve_share(interest))
      /\ SubFromReserve(l.collateral_token, l.collateral_amount, l.principal)
      /\ ReplaceLoans(b, {l.loan_id}, <<>>, 0, NoLoan)
      /\ ReplaceNfts({l.loan_id}, {})
      /\ UNCHANGED <<total_shares, total_protocol_revenue, settings,
                     depositorVars, now>>
  BY DEF Repay
<1>4. /\ interest \in Nat /\ LateFee(l) \in Nat /\ RepaymentAmount(l) \in Nat
      /\ pool_share(interest) \in Nat /\ retained_share(interest) \in Nat
      /\ reserve_share(interest) \in Nat
  <2>1. Interest(l) \in Nat /\ LateFee(l) \in Nat /\ Outstanding(l) \in Nat
    BY <1>1, LoanViewType
  <2>2. QED
    BY <2>1, InterestSplitIsExact DEF RepaymentAmount
<1> DEFINE late == LateFee(l)
           kept == retained_share(interest)
<1> HIDE DEF l, interest, late, kept
<1>5. held' \in [Tokens -> Nat]
  <2>1. custody \in [Tokens -> Nat]
    BY <1>2, <1>4, BookType DEF PoolTypeOK
  <2>2. QED
    BY <1>2, <1>3, <2>1, BookType
<1>6. /\ total_borrowed' \in [Assets -> U64]
      /\ total_deposits' \in [Assets -> U64]
      /\ bad_debt_reserve' \in [Assets -> U64]
  BY <1>2, <1>3, <1>4, BookType DEF PoolTypeOK
<1>7. retained_yield' \in [Assets -> U64]
  <2>1. /\ kept \in Nat /\ late \in Nat /\ retained_yield[l.asset] \in Nat
        /\ retained_yield[l.asset] + kept + late \in U64
        /\ retained_yield' = Bump(retained_yield, l.asset, kept + late)
    BY <1>2, <1>3, <1>4 DEF kept, late, PoolTypeOK
  <2>2. retained_yield[l.asset] + (kept + late) \in U64 /\ kept + late \in Nat
    BY <2>1
  <2>3. QED
    BY <1>2, <2>1, <2>2, BookType DEF PoolTypeOK
<1>8. /\ loan' \in [Users -> LoanRecord \cup {NoLoan}]
      /\ loan_by_id' \in [LoanIds -> LoanRecord \cup {NoLoan}]
      /\ user_loans' \in [Users -> SUBSET LoanIds]
      /\ next_loan_id' \in Nat \ {0}
  <2>1. \A i \in FreshIds(0) : <<>>[i] \in LoanRecord
    BY DEF FreshIds, PoolTypeOK
  <2>2. QED
    BY <1>3, <2>1, ReplaceLoansType
<1>9. nft_minted' \in [NftTokens -> SUBSET LoanIds]
  BY <1>3, ReplaceNftsType
<1>10. reserves' \in [Tokens -> ReserveConfig \cup {NoReserve}]
  BY <1>2, <1>3, ReserveTallyType
<1>11. QED
  BY <1>3, <1>5, <1>6, <1>7, <1>8, <1>9, <1>10 DEF PoolTypeOK, depositorVars

(* liquidate keeps the type. *)
LEMMA LiquidateKeepsType ==
    ASSUME PoolTypeOK, NEW b \in Users, NEW x \in LiquidateAmounts, Liquidate(b, x)
    PROVE  PoolTypeOK'
<1> DEFINE l == loan[b]
           seized == as_u64((x * LIQUIDATION_SEIZE_BPS) \div BPS)
           custody == Bump(held, l.asset, x)
<1>1. l \in LoanRecord
  BY StoredLoan DEF Liquidate
<1>2. l.asset \in Assets /\ l.collateral_token \in Tokens /\ l.asset \in Tokens
  BY <1>1, LoanFields
<1>3. x \in Nat /\ seized \in Nat
  <2>1. x \in Nat /\ LIQUIDATION_SEIZE_BPS \in Nat
    BY LoanAssumption, PoolAssumption
  <2>2. (x * LIQUIDATION_SEIZE_BPS) \div BPS \in Nat
    BY <2>1, MulNat, DivFloor, MathAssumption
  <2>3. QED
    BY <2>1, <2>2, CastType
<1>4. /\ seized <= custody[l.collateral_token]
      /\ total_deposits[l.asset] + x \in U64
      /\ held' = Drop(custody, l.collateral_token, seized)
      /\ total_borrowed' =
            [total_borrowed EXCEPT ![l.asset] = saturating_sub(@, x)]
      /\ total_deposits' = Bump(total_deposits, l.asset, x)
      /\ UNCHANGED <<total_shares, retained_yield, bad_debt_reserve,
                     total_protocol_revenue, settings, depositorVars, loanVars,
                     now>>
  BY DEF Liquidate
<1> HIDE DEF l, seized
<1>5. held' \in [Tokens -> Nat]
  <2>1. custody \in [Tokens -> Nat]
    BY <1>2, <1>3, BookType DEF PoolTypeOK
  <2>2. QED
    BY <1>2, <1>3, <1>4, <2>1, BookType
<1>6. total_deposits' \in [Assets -> U64]
  BY <1>2, <1>3, <1>4, BookType DEF PoolTypeOK
<1>7. total_borrowed' \in [Assets -> U64]
  BY <1>2, <1>3, <1>4, PoolAssumption DEF PoolTypeOK, saturating_sub
<1>8. QED
  BY <1>4, <1>5, <1>6, <1>7 DEF PoolTypeOK, depositorVars, loanVars

(* liquidate_bad_debt keeps the type. *)
LEMMA BadDebtKeepsType ==
    ASSUME PoolTypeOK, NEW b \in Users, LiquidateBadDebt(b)
    PROVE  PoolTypeOK'
<1> DEFINE l == loan[b]
           shortfall == saturating_sub(RepaymentAmount(l), l.collateral_amount)
<1>1. l \in LoanRecord
  BY StoredLoan DEF LiquidateBadDebt
<1>2. /\ l.asset \in Assets /\ l.principal \in Nat /\ l.collateral_amount \in Nat
  BY <1>1, LoanFields
<1>3. shortfall \in Nat
  <2>1. LateFee(l) \in Nat /\ Outstanding(l) \in Nat
    BY <1>1, LoanViewType
  <2>2. QED
    BY <1>2, <2>1 DEF RepaymentAmount, saturating_sub
<1>4. /\ shortfall <= bad_debt_reserve[l.asset]
      /\ bad_debt_reserve' = Drop(bad_debt_reserve, l.asset, shortfall)
      /\ total_borrowed' =
            [total_borrowed EXCEPT ![l.asset] = saturating_sub(@, l.principal)]
      /\ ReplaceLoans(b, {l.loan_id}, <<>>, 0, NoLoan)
      /\ UNCHANGED <<total_deposits, total_shares, retained_yield,
                     total_protocol_revenue, settings, depositorVars, reserves,
                     nft_minted, held, now>>
  BY DEF LiquidateBadDebt
<1> HIDE DEF l, shortfall
<1>5. bad_debt_reserve' \in [Assets -> U64]
  BY <1>2, <1>3, <1>4, BookType DEF PoolTypeOK
<1>6. total_borrowed' \in [Assets -> U64]
  <2>1. saturating_sub(total_borrowed[l.asset], l.principal) \in U64
    BY <1>2, PoolAssumption DEF PoolTypeOK, saturating_sub
  <2>2. QED
    BY <1>2, <1>4, <2>1 DEF PoolTypeOK
<1>7. /\ loan' \in [Users -> LoanRecord \cup {NoLoan}]
      /\ loan_by_id' \in [LoanIds -> LoanRecord \cup {NoLoan}]
      /\ user_loans' \in [Users -> SUBSET LoanIds]
      /\ next_loan_id' \in Nat \ {0}
  <2>1. \A i \in FreshIds(0) : <<>>[i] \in LoanRecord
    BY DEF FreshIds, PoolTypeOK
  <2>2. QED
    BY <1>4, <2>1, ReplaceLoansType
<1>8. QED
  BY <1>4, <1>5, <1>6, <1>7 DEF PoolTypeOK, depositorVars

(* accrue_interest_with_reserve keeps the type. *)
LEMMA AccrueKeepsType ==
    ASSUME PoolTypeOK, NEW id \in LoanIds, AccrueInterestWithReserve(id)
    PROVE  PoolTypeOK'
<1> DEFINE l == loan_by_id[id]
           factor == settings.reserve_factor_bps[l.asset]
           protocol == protocol_interest(Interest(l), factor)
           depositors == depositor_interest(Interest(l), factor)
<1>1. l \in LoanRecord
  BY StoredLoan DEF AccrueInterestWithReserve
<1>2. l.asset \in Assets
  BY <1>1, LoanFields
<1>3. protocol \in Nat /\ depositors \in Nat
  <2>1. Interest(l) \in Nat
    BY <1>1, LoanViewType
  <2>2. factor \in 0..BPS
    BY <1>2 DEF PoolTypeOK, Settings
  <2> HIDE DEF l, factor
  <2>3. protocol \in Nat
    BY <2>1, <2>2, PartOfWhole DEF protocol_interest
  <2>4. QED
    BY <2>1, <2>3 DEF depositor_interest, saturating_sub
<1>4. /\ retained_yield' =
            [retained_yield EXCEPT ![l.asset] = lesser(@ + depositors, U64_MAX)]
      /\ bad_debt_reserve' =
            [bad_debt_reserve EXCEPT ![l.asset] = lesser(@ + protocol, U64_MAX)]
      /\ total_protocol_revenue' =
            [total_protocol_revenue EXCEPT ![l.asset] = lesser(@ + protocol, U64_MAX)]
      /\ UNCHANGED <<total_deposits, total_shares, total_borrowed, settings,
                     depositorVars, loanVars, held, now>>
  BY DEF AccrueInterestWithReserve
<1> HIDE DEF l, protocol, depositors
<1>5. ASSUME NEW f \in [Assets -> U64], NEW n \in Nat
      PROVE  [f EXCEPT ![l.asset] = lesser(@ + n, U64_MAX)] \in [Assets -> U64]
  BY <1>2, PoolAssumption DEF lesser
<1>6. /\ retained_yield' \in [Assets -> U64]
      /\ bad_debt_reserve' \in [Assets -> U64]
      /\ total_protocol_revenue' \in [Assets -> U64]
  BY <1>3, <1>4, <1>5 DEF PoolTypeOK
<1>7. QED
  BY <1>4, <1>6 DEF PoolTypeOK, depositorVars, loanVars

(* The fee that refinancing, consolidation and splitting charge moves into *)
(* custody and into the pool's retained yield.                             *)
LEMMA FeeKeepsType ==
    ASSUME PoolTypeOK, NEW a \in Assets, NEW fee \in Nat,
           retained_yield[a] + fee \in U64,
           held' = Bump(held, a, fee),
           retained_yield' = Bump(retained_yield, a, fee)
    PROVE  held' \in [Tokens -> Nat] /\ retained_yield' \in [Assets -> U64]
<1>1. a \in Tokens
  BY PoolAssumption
<1>2. QED
  BY <1>1, BookType DEF PoolTypeOK

(* refinance_loan keeps the type. *)
LEMMA RefinanceKeepsType ==
    ASSUME PoolTypeOK, NEW b \in Users, NEW d \in RefinanceDurations,
           RefinanceLoan(b, d)
    PROVE  PoolTypeOK' /\ \A i \in FreshIds(1) : loan_by_id'[i] \in LoanRecord
<1> DEFINE l == loan[b]
           fee == RefinancingFee(Outstanding(l))
           principal == Outstanding(l) + fee
           borrowed == total_borrowed[l.asset] + AdditionalPrincipal(l, principal)
           rate == CurrentRate(l.asset, total_borrowed[l.asset])
           opened == NewLoan(next_loan_id, b, l.asset, principal,
                             l.collateral_amount, l.collateral_token, d, rate)
           record == [i \in FreshIds(1) |-> opened]
<1>1. l \in LoanRecord
  BY StoredLoan DEF RefinanceLoan
<1>2. /\ l.asset \in Assets /\ l.collateral_token \in Tokens
      /\ l.collateral_amount \in U64
  BY <1>1, LoanFields
<1>3. fee \in Nat
  BY <1>1, LoanViewType
<1>4. rate \in Nat
  <2>1. total_borrowed[l.asset] \in Nat
    BY <1>2, PoolAssumption DEF PoolTypeOK
  <2>2. QED
    BY <1>2, <2>1, RateType
<1>5. /\ principal \in U64
      /\ borrowed \in U64
      /\ retained_yield[l.asset] + fee \in U64
      /\ held' = Bump(held, l.asset, fee)
      /\ retained_yield' = Bump(retained_yield, l.asset, fee)
      /\ total_borrowed' = [total_borrowed EXCEPT ![l.asset] = borrowed]
      /\ ReplaceLoans(b, {l.loan_id}, record, 1, opened)
      /\ ReplaceNfts({l.loan_id}, FreshIds(1))
      /\ UNCHANGED <<total_deposits, total_shares, bad_debt_reserve,
                     total_protocol_revenue, settings, depositorVars, reserves,
                     now>>
  BY DEF RefinanceLoan
<1>6. FreshIds(1) \subseteq LoanIds /\ next_loan_id \in LoanIds
  <2>1. next_loan_id + 1 <= MaxLoanId + 1 /\ next_loan_id + 1 - 1 = next_loan_id
    BY <1>5 DEF ReplaceLoans, PoolTypeOK
  <2>2. QED
    BY <2>1, FreshIdsType
<1>7. opened \in LoanRecord
  <2>1. d \in Nat
    BY LoanAssumption
  <2> HIDE DEF l, principal, rate
  <2>2. QED
    BY <1>2, <1>4, <1>5, <1>6, <2>1, NewLoanType
<1> HIDE DEF l, fee, principal, borrowed, rate, opened
<1>8. held' \in [Tokens -> Nat] /\ retained_yield' \in [Assets -> U64]
  BY <1>2, <1>3, <1>5, FeeKeepsType
<1>9. total_borrowed' \in [Assets -> U64]
  BY <1>2, <1>5 DEF PoolTypeOK
<1>10. /\ loan' \in [Users -> LoanRecord \cup {NoLoan}]
       /\ loan_by_id' \in [LoanIds -> LoanRecord \cup {NoLoan}]
       /\ user_loans' \in [Users -> SUBSET LoanIds]
       /\ next_loan_id' \in Nat \ {0}
       /\ \A i \in FreshIds(1) : loan_by_id'[i] \in LoanRecord
  <2>1. \A i \in FreshIds(1) : record[i] \in LoanRecord
    BY <1>7
  <2> HIDE DEF record
  <2>2. QED
    BY <1>5, <1>7, <2>1, ReplaceLoansType
<1>11. nft_minted' \in [NftTokens -> SUBSET LoanIds]
  BY <1>5, <1>6, ReplaceNftsType
<1>12. QED
  BY <1>5, <1>8, <1>9, <1>10, <1>11 DEF PoolTypeOK, depositorVars

(* consolidate_loans keeps the type. *)
LEMMA ConsolidateKeepsType ==
    ASSUME PoolTypeOK, NEW b \in Users, NEW n \in 1..MaxConsolidate,
           NEW ids \in [1..n -> LoanIds], NEW d \in ConsolidateDurations,
           ConsolidateLoans(b, ids, d)
    PROVE  PoolTypeOK' /\ \A i \in FreshIds(1) : loan_by_id'[i] \in LoanRecord
<1> DEFINE l == loan_by_id[ids[1]]
           outstanding == SumFunction([k \in DOMAIN ids |-> Outstanding(loan_by_id[ids[k]])])
           collateral == SumFunction([k \in DOMAIN ids |-> loan_by_id[ids[k]].collateral_amount])
           fee == RefinancingFee(outstanding)
           rate == CurrentRate(l.asset, total_borrowed[l.asset])
           opened == NewLoan(next_loan_id, b, l.asset, outstanding + fee,
                             collateral, l.collateral_token, d, rate)
           record == [i \in FreshIds(1) |-> opened]
<1>1. /\ loan_by_id[ids[1]] # NoLoan
      /\ outstanding \in U64
      /\ outstanding + fee \in U64
      /\ collateral \in U64
      /\ retained_yield[l.asset] + fee \in U64
      /\ held' = Bump(held, l.asset, fee)
      /\ retained_yield' = Bump(retained_yield, l.asset, fee)
      /\ ReplaceLoans(b, Elements(ids), record, 1, opened)
      /\ ReplaceNfts(Elements(ids), FreshIds(1))
      /\ UNCHANGED <<total_deposits, total_shares, total_borrowed,
                     bad_debt_reserve, total_protocol_revenue, settings,
                     depositorVars, reserves, now>>
  <2>1. 1 \in DOMAIN ids
    BY LoanAssumption
  <2>2. QED
    BY <2>1 DEF ConsolidateLoans
<1>2. l \in LoanRecord
  <2>1. ids[1] \in LoanIds
    BY LoanAssumption
  <2>2. QED
    BY <1>1, <2>1, StoredLoan
<1> HIDE DEF l, outstanding, collateral
<1>3. l.asset \in Assets /\ l.collateral_token \in Tokens
  BY <1>2, LoanFields
<1>4. fee \in Nat
  <2>1. outstanding \in Nat /\ REFINANCING_FEE_BPS \in Nat
    BY <1>1, PoolAssumption, LoanAssumption
  <2>2. QED
    BY <2>1, MathAssumption, MulNat, DivFloor DEF RefinancingFee
<1>5. rate \in Nat
  <2>1. total_borrowed[l.asset] \in Nat
    BY <1>3, BookNat
  <2>2. QED
    BY <1>3, <2>1, RateType
<1>6. FreshIds(1) \subseteq LoanIds /\ next_loan_id \in LoanIds
  <2>1. next_loan_id + 1 <= MaxLoanId + 1 /\ next_loan_id + 1 - 1 = next_loan_id
    BY <1>1 DEF ReplaceLoans, PoolTypeOK
  <2>2. QED
    BY <2>1, FreshIdsType
<1> HIDE DEF fee, rate
<1>7. opened \in LoanRecord
  <2>1. d \in Nat
    BY LoanAssumption
  <2>2. QED
    BY <1>1, <1>3, <1>5, <1>6, <2>1, NewLoanType
<1> HIDE DEF opened
<1>8. held' \in [Tokens -> Nat] /\ retained_yield' \in [Assets -> U64]
  BY <1>1, <1>3, <1>4, FeeKeepsType
<1>9. /\ loan' \in [Users -> LoanRecord \cup {NoLoan}]
      /\ loan_by_id' \in [LoanIds -> LoanRecord \cup {NoLoan}]
      /\ user_loans' \in [Users -> SUBSET LoanIds]
      /\ next_loan_id' \in Nat \ {0}
      /\ \A i \in FreshIds(1) : loan_by_id'[i] \in LoanRecord
  <2>1. \A i \in FreshIds(1) : record[i] \in LoanRecord
    BY <1>7
  <2> HIDE DEF record
  <2>2. QED
    BY <1>1, <1>7, <2>1, ReplaceLoansType
<1>10. nft_minted' \in [NftTokens -> SUBSET LoanIds]
  BY <1>1, <1>6, ReplaceNftsType
<1>11. QED
  BY <1>1, <1>8, <1>9, <1>10 DEF PoolTypeOK, depositorVars

(* A part's collateral never exceeds the collateral of the loan split. *)
LEMMA SplitCollateralBound ==
    ASSUME PoolTypeOK, NEW l \in LoanRecord, NEW x \in Nat, x <= Outstanding(l)
    PROVE  SplitCollateral(l, x) \in 0..l.collateral_amount
<1> DEFINE o == Outstanding(l)
           part == mul_div(x, BPS, o)
<1>1. o \in Nat /\ BPS \in Nat /\ BPS > 0 /\ l.collateral_amount \in Nat
  BY LoanViewType, LoanFields, MathAssumption
<1> HIDE DEF o
<1>2. part \in 0..BPS
  <2>1. CASE o = 0
    BY <1>1, <2>1 DEF mul_div
  <2>2. CASE o > 0
    <3>1. x <= o
      BY DEF o
    <3>2. x * BPS \in Nat /\ x * BPS <= o * BPS
      BY <1>1, <3>1, MulNat, MulMono
    <3> DEFINE q == (x * BPS) \div o
    <3>3. q \in Nat /\ q * o <= x * BPS
      BY <1>1, <2>2, <3>2, DivFloor
    <3> HIDE DEF q
    <3>4. q <= BPS
      <4>1. SUFFICES ASSUME q >= BPS + 1 PROVE FALSE
        BY <1>1, <3>3
      <4>2. (BPS + 1) * o <= q * o
        BY <1>1, <3>3, <4>1, MulMono
      <4>3. (BPS + 1) * o = o * BPS + o
        BY <1>1
      <4>4. QED
        BY <1>1, <2>2, <3>2, <3>3, <4>2, <4>3, MulNat
    <3>5. QED
      BY <1>1, <2>2, <3>3, <3>4 DEF mul_div, q
  <2>3. QED
    BY <1>1, <2>1, <2>2
<1> HIDE DEF part
<1>3. /\ (l.collateral_amount * part) \div BPS \in Nat
      /\ (l.collateral_amount * part) \div BPS <= l.collateral_amount
  BY <1>1, <1>2, PartOfWhole
<1>4. QED
  BY <1>1, <1>3 DEF SplitCollateral, mul_div, part, o

(* split_loan keeps the type. *)
LEMMA SplitKeepsType ==
    ASSUME PoolTypeOK, NEW b \in Users, NEW n \in 1..MaxSplit,
           NEW parts \in [1..n -> SplitAmounts], NEW d \in Durations,
           SplitLoan(b, parts, d)
    PROVE  PoolTypeOK' /\ \A i \in FreshIds(n) : loan_by_id'[i] \in LoanRecord
<1> DEFINE l == loan[b]
           fee == RefinancingFee(Outstanding(l))
           rate == CurrentRate(l.asset, total_borrowed[l.asset])
           Part(i) == parts[i - next_loan_id + 1]
           record == [i \in FreshIds(n) |->
                        NewLoan(i, b, l.asset, Part(i), SplitCollateral(l, Part(i)),
                                l.collateral_token, d, rate)]
<1>1. n \in Nat /\ n >= 1 /\ Len(parts) = n
  <2>1. n \in Nat /\ n >= 1
    BY LoanAssumption
  <2>2. parts \in Seq(SplitAmounts)
    BY <2>1, SeqDef
  <2>3. QED
    BY <2>1, <2>2, LenProperties
<1>2. /\ loan[b] # NoLoan
      /\ \A k \in DOMAIN parts : parts[k] <= Outstanding(l)
      /\ retained_yield[l.asset] + fee \in U64
      /\ held' = Bump(held, l.asset, fee)
      /\ retained_yield' = Bump(retained_yield, l.asset, fee)
      /\ ReplaceLoans(b, {l.loan_id}, record, n, record[next_loan_id + n - 1])
      /\ ReplaceNfts({l.loan_id}, FreshIds(n))
      /\ UNCHANGED <<total_deposits, total_shares, total_borrowed,
                     bad_debt_reserve, total_protocol_revenue, settings,
                     depositorVars, reserves, now>>
  BY <1>1 DEF SplitLoan
<1>3. l \in LoanRecord
  BY <1>2, StoredLoan
<1>4. fee \in Nat
  BY <1>3, LoanViewType
<1>5. /\ l.asset \in Assets /\ l.collateral_token \in Tokens
      /\ l.collateral_amount \in U64
  BY <1>3, LoanFields
<1>6. rate \in Nat
  <2>1. total_borrowed[l.asset] \in Nat
    BY <1>5, BookNat
  <2>2. QED
    BY <1>5, <2>1, RateType
<1>7. /\ FreshIds(n) \subseteq LoanIds /\ next_loan_id + n - 1 \in FreshIds(n)
      /\ \A i \in FreshIds(n) : i - next_loan_id + 1 \in 1..n
  <2>1. next_loan_id + n <= MaxLoanId + 1
    BY <1>2 DEF ReplaceLoans
  <2>2. QED
    BY <1>1, <2>1, FreshIdsType DEF PoolTypeOK
<1> HIDE DEF l, fee, rate
<1>8. \A i \in FreshIds(n) : record[i] \in LoanRecord
  <2>1. SUFFICES ASSUME NEW i \in FreshIds(n) PROVE record[i] \in LoanRecord
    OBVIOUS
  <2>2. /\ Part(i) \in U64 /\ Part(i) \in Nat
        /\ Part(i) <= Outstanding(l)
    <3>1. i - next_loan_id + 1 \in 1..n
      BY <1>7
    <3>2. Part(i) \in SplitAmounts /\ Part(i) <= Outstanding(l)
      BY <1>2, <3>1
    <3> HIDE DEF Part
    <3>3. QED
      BY <3>2, LoanAssumption, PoolAssumption
  <2> HIDE DEF Part
  <2>3. SplitCollateral(l, Part(i)) \in U64
    <3>1. SplitCollateral(l, Part(i)) \in 0..l.collateral_amount
      BY <1>3, <2>2, SplitCollateralBound
    <3>2. QED
      BY <1>5, <3>1, PoolAssumption
  <2>4. i \in LoanIds /\ d \in Nat
    BY <1>7, LoanAssumption
  <2>5. QED
    BY <1>5, <1>6, <2>2, <2>3, <2>4, NewLoanType
<1> HIDE DEF record
<1>9. held' \in [Tokens -> Nat] /\ retained_yield' \in [Assets -> U64]
  BY <1>2, <1>4, <1>5, FeeKeepsType
<1>10. /\ loan' \in [Users -> LoanRecord \cup {NoLoan}]
       /\ loan_by_id' \in [LoanIds -> LoanRecord \cup {NoLoan}]
       /\ user_loans' \in [Users -> SUBSET LoanIds]
       /\ next_loan_id' \in Nat \ {0}
       /\ \A i \in FreshIds(n) : loan_by_id'[i] \in LoanRecord
  BY <1>1, <1>2, <1>7, <1>8, ReplaceLoansType
<1>11. nft_minted' \in [NftTokens -> SUBSET LoanIds]
  BY <1>2, <1>7, ReplaceNftsType
<1>12. QED
  BY <1>2, <1>9, <1>10, <1>11 DEF PoolTypeOK, depositorVars

(* The initial state is typed. *)
LEMMA InitType == PoolInit => PoolTypeOK
<1>1. SUFFICES ASSUME PoolInit PROVE PoolTypeOK
  OBVIOUS
<1>2. settings \in Settings
  BY <1>1, PoolAssumption, MathAssumption DEF PoolInit, InitialSettings, Settings
<1>3. QED
  BY <1>1, <1>2, PoolAssumption DEF PoolInit, PoolTypeOK

(* Every step keeps the type. *)
LEMMA NextKeepsType == PoolTypeOK /\ [Next]_vars => PoolTypeOK'
<1>1. SUFFICES ASSUME PoolTypeOK, [Next]_vars PROVE PoolTypeOK'
  OBVIOUS
<1>2. CASE SupplyNext
  BY <1>1, <1>2, SupplyKeepsType
<1>3. CASE SettingNext
  BY <1>1, <1>3, SettingKeepsType
<1>4. CASE LoanNext
  BY <1>1, <1>4, BorrowKeepsType, RepayKeepsType, LiquidateKeepsType,
     BadDebtKeepsType, RefinanceKeepsType, ConsolidateKeepsType, SplitKeepsType
     DEF LoanNext
<1>5. CASE AccrualNext
  BY <1>1, <1>5, AccrueKeepsType, LoanAssumption DEF AccrualNext
<1>6. CASE UNCHANGED vars
  BY <1>1, <1>6 DEF vars, PoolTypeOK, bookVars, depositorVars, loanVars
<1>7. QED
  BY <1>1, <1>2, <1>3, <1>4, <1>5, <1>6 DEF Next

(* In every reachable state every book, record and setting of the lending  *)
(* contract has its type: amounts stay in u64 and subtractions never pass  *)
(* below zero, whatever the users, tokens, inputs and bounds.              *)
THEOREM TypeCorrect == Spec => []PoolTypeOK
<1>1. PoolInit => PoolTypeOK
  BY InitType
<1>2. PoolTypeOK /\ [Next]_vars => PoolTypeOK'
  BY NextKeepsType
<1>3. QED
  BY <1>1, <1>2, PTL DEF Spec

-----------------------------------------------------------------------------
(* Depositors' shares: the share ledger balances, shares and deposits are  *)
(* backed by each other, and no step lowers the value of a share.          *)
(*                                                                         *)
(* The three are not inductive alone.  A loan's interest or liquidation    *)
(* adds to total_deposits, so a pool nobody holds shares of must have no   *)
(* loan; and that withdraw cannot empty a pool of shares follows from the  *)
(* ledger, which keeps the locked shares out of every depositor's reach.   *)


\* A pool that has a loan has shares: the borrowed tokens were deposited, and
\* the locked shares of a first deposit are never burned.
LoansHaveShares ==
    /\ \A u \in Users : loan[u] # NoLoan => total_shares[loan[u].asset] > 0
    /\ \A i \in OpenIds : total_shares[loan_by_id[i].asset] > 0

\* The inductive invariant.
ShareInv == PoolTypeOK /\ ShareLedger /\ SharesBacked /\ LoansHaveShares

-----------------------------------------------------------------------------
(* Counting shares *)

Units(f) == UNION {{u} \X (1..f[u]) : u \in Users}

(* The elements counted are the pairs of a holder and one of its shares. *)
LEMMA UnitsAre ==
    ASSUME NEW f
    PROVE  Units(f) = {p \in Users \X Nat : p[2] \in 1..f[p[1]]}
<1>1. ASSUME NEW p \in Units(f)
      PROVE  p \in {q \in Users \X Nat : q[2] \in 1..f[q[1]]}
  <2>1. PICK u \in Users : p \in {u} \X (1..f[u])
    BY <1>1 DEF Units
  <2>2. QED
    BY <2>1
<1>2. ASSUME NEW p \in Users \X Nat, p[2] \in 1..f[p[1]]
      PROVE  p \in Units(f)
  <2>1. p \in {p[1]} \X (1..f[p[1]])
    BY <1>2
  <2>2. QED
    BY <1>2, <2>1 DEF Units
<1>3. QED
  BY <1>1, <1>2

(* Bounded balances give finitely many shares. *)
LEMMA UnitsFinite ==
    ASSUME NEW f \in [Users -> U64]
    PROVE  IsFiniteSet(Units(f)) /\ Cardinality(Units(f)) \in Nat
<1>1. IsFiniteSet(Users \X (0..U64_MAX))
  <2>1. IsFiniteSet(0..U64_MAX)
    BY FS_Interval, PoolAssumption
  <2>2. QED
    BY <2>1, FS_Product, PoolAssumption
<1>2. Units(f) \in SUBSET (Users \X (0..U64_MAX))
  <2>1. SUFFICES ASSUME NEW p \in Users \X Nat, p[2] \in 1..f[p[1]]
                 PROVE  p \in Users \X (0..U64_MAX)
    BY UnitsAre
  <2>2. f[p[1]] \in U64 /\ p[2] \in Nat
    OBVIOUS
  <2>3. p[2] \in 0..U64_MAX
    BY <2>1, <2>2, PoolAssumption
  <2>4. QED
    BY <2>3
<1>3. QED
  BY <1>1, <1>2, FS_Subset, FS_CardinalityType

(* n more shares for one holder are n more shares. *)
LEMMA UnitsGrow ==
    ASSUME NEW f \in [Users -> U64], NEW g \in [Users -> U64], NEW v \in Users,
           NEW n \in Nat, g[v] = f[v] + n, \A u \in Users \ {v} : g[u] = f[u]
    PROVE  Cardinality(Units(g)) = Cardinality(Units(f)) + n
<1> DEFINE more == {v} \X ((f[v] + 1)..(f[v] + n))
<1>1. f[v] \in Nat /\ g[v] = f[v] + n /\ \A u \in Users \ {v} : g[u] = f[u]
  BY PoolAssumption
<1>2. IsFiniteSet(more) /\ Cardinality(more) = n
  <2> DEFINE new == (f[v] + 1)..(f[v] + n)
  <2>1. IsFiniteSet(new) /\ Cardinality(new) = n
    <3>1. /\ IsFiniteSet(new)
          /\ Cardinality(new) = IF f[v] + 1 > f[v] + n THEN 0
                                ELSE (f[v] + n) - (f[v] + 1) + 1
      <4>1. f[v] + 1 \in Int /\ f[v] + n \in Int
        BY <1>1
      <4>2. QED
        BY <4>1, FS_Interval
    <3>2. QED
      BY <1>1, <3>1
  <2>2. IsFiniteSet({v}) /\ Cardinality({v}) = 1
    BY FS_Singleton
  <2> HIDE DEF new
  <2>3. IsFiniteSet({v} \X new) /\ Cardinality({v} \X new) = 1 * n
    BY <2>1, <2>2, FS_Product
  <2>4. QED
    BY <2>3 DEF new
<1>3. Units(g) = Units(f) \cup more
  <2>1. ASSUME NEW p \in Users \X Nat
        PROVE  p[2] \in 1..g[p[1]] <=> p[2] \in 1..f[p[1]] \/ p \in more
    <3>1. CASE p[1] = v
      <4>1. p \in more <=> p[2] \in (f[v] + 1)..(f[v] + n)
        BY <3>1
      <4>2. QED
        BY <1>1, <3>1, <4>1
    <3>2. CASE p[1] # v
      BY <1>1, <3>2
    <3>3. QED
      BY <3>1, <3>2
  <2>2. more \subseteq Users \X Nat
    BY <1>1
  <2> HIDE DEF more
  <2>3. QED
    BY <2>1, <2>2, UnitsAre
<1>4. Units(f) \cap more = {}
  <2>1. SUFFICES ASSUME NEW p \in more, p \in Units(f) PROVE FALSE
    OBVIOUS
  <2>2. p[1] = v /\ p[2] \in (f[v] + 1)..(f[v] + n) /\ p[2] \in 1..f[p[1]]
    BY <2>1, UnitsAre
  <2>3. QED
    BY <1>1, <2>2
<1> HIDE DEF more
<1>5. QED
  <2>1. Cardinality(Units(f) \cap more) = 0
    BY <1>4, FS_EmptySet
  <2>2. Cardinality(Units(f)) \in Nat /\ IsFiniteSet(Units(f))
    BY UnitsFinite
  <2>3. Cardinality(Units(f) \cup more) =
            Cardinality(Units(f)) + Cardinality(more) - Cardinality(Units(f) \cap more)
    BY <1>2, <2>2, FS_Union
  <2>4. Cardinality(Units(g)) = Cardinality(Units(f) \cup more)
    BY <1>3
  <2> DEFINE before == Cardinality(Units(f))
             added == Cardinality(more)
             common == Cardinality(Units(f) \cap more)
             after == Cardinality(Units(g))
  <2>5. before \in Nat /\ added = n /\ common = 0 /\ after = before + added - common
    BY <1>2, <2>1, <2>2, <2>3, <2>4
  <2> HIDE DEF before, added, common, after
  <2>6. after = before + n
    BY <2>5
  <2>7. QED
    BY <2>6 DEF before, after

(* No holder has more shares than there are. *)
LEMMA UnitsBound ==
    ASSUME NEW f \in [Users -> U64], NEW v \in Users
    PROVE  f[v] <= Cardinality(Units(f))
<1> DEFINE g == [f EXCEPT ![v] = 0]
<1>1. g \in [Users -> U64] /\ f[v] \in Nat /\ g[v] = 0
  BY PoolAssumption
<1>2. f[v] = g[v] + f[v] /\ \A u \in Users \ {v} : f[u] = g[u]
  BY <1>1
<1> HIDE DEF g
<1>3. Cardinality(Units(f)) = Cardinality(Units(g)) + f[v]
  BY <1>1, <1>2, UnitsGrow
<1>4. Cardinality(Units(g)) \in Nat
  BY <1>1, UnitsFinite
<1>5. QED
  BY <1>1, <1>3, <1>4

-----------------------------------------------------------------------------
(* Deposits and withdrawals *)

Balance(a) == [u \in Users |-> shares[u][a]]

\* What a step may do to the value of one share of each pool.
PriceHolds == \A a \in Assets :
    total_deposits'[a] * total_shares[a] >= total_deposits[a] * total_shares'[a]

(* The shares counted are the depositors' balances. *)
LEMMA ShareUnitsAre ==
    ASSUME PoolTypeOK, NEW a \in Assets
    PROVE  /\ ShareUnits(a) = Units(Balance(a))
           /\ Balance(a) \in [Users -> U64]
BY DEF ShareUnits, Units, Balance, PoolTypeOK

(* The ledger of one pool, in arithmetic. *)
LEMMA LedgerOf ==
    ASSUME ShareInv, NEW a \in Assets
    PROVE  /\ Cardinality(ShareUnits(a)) \in Nat
           /\ total_shares[a] = 0 => Cardinality(ShareUnits(a)) = 0
           /\ total_shares[a] # 0 =>
                 total_shares[a] = Cardinality(ShareUnits(a)) + MINIMUM_LIQUIDITY
           /\ \A u \in Users : shares[u][a] <= Cardinality(ShareUnits(a))
<1>1. ShareUnits(a) = Units(Balance(a)) /\ Balance(a) \in [Users -> U64]
  BY ShareUnitsAre DEF ShareInv
<1>2. Cardinality(ShareUnits(a)) \in Nat
  BY <1>1, UnitsFinite
<1>3. \A u \in Users : shares[u][a] <= Cardinality(ShareUnits(a))
  <2>1. \A u \in Users : Balance(a)[u] = shares[u][a]
    BY DEF Balance
  <2>2. QED
    BY <1>1, <2>1, UnitsBound
<1> DEFINE c == Cardinality(ShareUnits(a))
           S == total_shares[a]
<1>4. /\ c = IF S = 0 THEN 0 ELSE S - MINIMUM_LIQUIDITY
      /\ S \in Nat /\ MINIMUM_LIQUIDITY \in Nat
  BY BookNat, PoolAssumption DEF ShareInv, ShareLedger
<1> HIDE DEF c, S
<1>5. (S = 0 => c = 0) /\ (S # 0 => S = c + MINIMUM_LIQUIDITY)
  BY <1>4
<1>6. QED
  BY <1>2, <1>3, <1>5 DEF c, S

(* deposit mints in the depositor's and the pool's book alike, locks the   *)
(* minimum of a first deposit, and rounds in the pool's favour.            *)
LEMMA DepositStep ==
    ASSUME ShareInv, NEW u \in Users, NEW a \in Assets, NEW x \in DepositAmounts,
           Deposit(u, a, x)
    PROVE  ShareLedger' /\ SharesBacked' /\ LoansHaveShares' /\ PriceHolds
<1> DEFINE D == total_deposits[a]
           S == total_shares[a]
           lock == LockedShares(a)
           minted == SharesToDepositor(a, x)
<1>1. PoolTypeOK /\ PoolTypeOK'
  <2>1. SupplyNext
    BY DEF SupplyNext
  <2>2. QED
    BY <2>1, SupplyKeepsType DEF ShareInv
<1>2. /\ D \in Nat /\ S \in Nat /\ x \in Nat /\ lock \in Nat
      /\ MINIMUM_LIQUIDITY \in Nat /\ MINIMUM_LIQUIDITY > 0
      /\ S = 0 <=> D = 0
  BY <1>1, BookNat, PoolAssumption DEF LockedShares, ShareInv, SharesBacked
<1>3. /\ x > 0 /\ minted > 0
      /\ total_deposits' = Bump(total_deposits, a, x)
      /\ total_shares' = Bump(total_shares, a, lock + minted)
      /\ shares' = [shares EXCEPT ![u][a] = @ + minted]
      /\ UNCHANGED loanVars
  BY DEF Deposit
<1>4. /\ S = 0 => lock = MINIMUM_LIQUIDITY
      /\ S > 0 => lock = 0 /\ minted * D <= x * S
      /\ minted \in Nat
  <2>1. CASE S = 0
    BY <1>2, <1>3, <2>1 DEF LockedShares, SharesToDepositor, shares_for_deposit
  <2>2. CASE S > 0
    <3>1. lock = 0 /\ D > 0
      BY <1>2, <2>2 DEF LockedShares
    <3>2. /\ shares_for_deposit(D, S, x) \in Nat
          /\ shares_for_deposit(D, S, x) * D <= x * S
      BY <1>2, <2>2, <3>1, SharesForDepositFair
    <3>3. minted = shares_for_deposit(D, S, x)
      BY <3>1, <3>2 DEF SharesToDepositor
    <3>4. QED
      BY <2>2, <3>1, <3>2, <3>3
  <2>3. QED
    BY <1>2, <2>1, <2>2
<1>5. /\ total_deposits'[a] = D + x /\ total_shares'[a] = S + lock + minted
      /\ \A c \in Assets \ {a} : /\ total_deposits'[c] = total_deposits[c]
                                 /\ total_shares'[c] = total_shares[c]
  <2>1. D + x = total_deposits'[a] /\ S + (lock + minted) = total_shares'[a]
    BY <1>1, <1>3 DEF Bump, PoolTypeOK
  <2> HIDE DEF D, S, lock, minted
  <2>2. S + (lock + minted) = S + lock + minted
    BY <1>2, <1>4
  <2>3. QED
    BY <1>1, <1>3, <2>1, <2>2 DEF Bump, PoolTypeOK
<1> HIDE DEF D, S, lock, minted
<1>6. PriceHolds
  <2>1. (D + x) * S >= D * (S + lock + minted)
    <3>1. CASE S = 0
      BY <1>2, <1>4, <3>1
    <3>2. CASE S > 0
      <4>1. lock = 0 /\ minted * D <= x * S
        BY <1>4, <3>2
      <4>2. (D + x) * S = D * S + x * S /\ D * (S + 0 + minted) = D * S + minted * D
        BY <1>2, <1>4
      <4>3. D * S \in Nat /\ x * S \in Nat /\ minted * D \in Nat
        BY <1>2, <1>4, MulNat
      <4>4. QED
        BY <4>1, <4>2, <4>3
    <3>3. QED
      BY <1>2, <3>1, <3>2
  <2>2. ASSUME NEW c \in Assets \ {a}
        PROVE  total_deposits'[c] * total_shares[c] >= total_deposits[c] * total_shares'[c]
    <3>1. total_deposits[c] \in Nat /\ total_shares[c] \in Nat
      BY <1>1, BookNat
    <3>2. QED
      BY <1>5, <3>1, MulNat
  <2>3. QED
    BY <1>5, <2>1, <2>2 DEF PriceHolds, D, S
<1>7. SharesBacked'
  <2>1. ~(D + x = 0) /\ ~(S + lock + minted = 0)
    BY <1>2, <1>3, <1>4
  <2>2. \A c \in Assets : total_shares'[c] = 0 <=> total_deposits'[c] = 0
    BY <1>5, <2>1 DEF ShareInv, SharesBacked
  <2>3. QED
    BY <2>2 DEF SharesBacked
<1>8. LoansHaveShares'
  <2>1. \A c \in Assets : total_shares[c] > 0 => total_shares'[c] > 0
    BY <1>2, <1>4, <1>5 DEF S
  <2>2. UNCHANGED <<loan, loan_by_id>>
    BY <1>3 DEF loanVars
  <2>3. /\ \A v \in Users : loan[v] # NoLoan => loan[v].asset \in Assets
        /\ \A i \in OpenIds : loan_by_id[i].asset \in Assets
    BY <1>1, StoredLoan, LoanFields DEF OpenIds
  <2>4. QED
    BY <2>1, <2>2, <2>3 DEF ShareInv, LoansHaveShares, OpenIds
<1>9. ShareLedger'
  <2>1. ASSUME NEW c \in Assets
        PROVE  Cardinality(ShareUnits(c)') =
                  IF total_shares'[c] = 0 THEN 0 ELSE total_shares'[c] - MINIMUM_LIQUIDITY
    <3>1. /\ ShareUnits(c) = Units(Balance(c)) /\ Balance(c) \in [Users -> U64]
          /\ ShareUnits(c)' = Units(Balance(c)') /\ Balance(c)' \in [Users -> U64]
      <4>1. ShareUnits(c)' = Units(Balance(c)') /\ Balance(c)' \in [Users -> U64]
        BY <1>1 DEF ShareUnits, Units, Balance, PoolTypeOK
      <4>2. QED
        BY <1>1, <4>1, ShareUnitsAre
    <3>2. CASE c = a
      <4>1. /\ Balance(c)'[u] = Balance(c)[u] + minted
            /\ \A v \in Users \ {u} : Balance(c)'[v] = Balance(c)[v]
        BY <1>1, <1>3, <3>2 DEF Balance, PoolTypeOK
      <4> DEFINE k == Cardinality(ShareUnits(c))
                 f == Balance(c)
                 g == Balance(c)'
                 after == Cardinality(ShareUnits(c)')
      <4>2. /\ f \in [Users -> U64] /\ g \in [Users -> U64] /\ minted \in Nat
            /\ g[u] = f[u] + minted /\ \A v \in Users \ {u} : g[v] = f[v]
        BY <1>4, <3>1, <4>1
      <4> HIDE DEF f, g
      <4>3. Cardinality(Units(g)) = Cardinality(Units(f)) + minted
        BY <4>2, UnitsGrow
      <4>4. after = k + minted
        BY <3>1, <4>3 DEF f, g
      <4>5. k \in Nat /\ (S = 0 => k = 0) /\ (S # 0 => S = k + MINIMUM_LIQUIDITY)
        BY <3>2, LedgerOf DEF S
      <4> HIDE DEF k, after
      <4>6. k + minted = S + lock + minted - MINIMUM_LIQUIDITY
            /\ S + lock + minted # 0
        BY <1>2, <1>3, <1>4, <4>5
      <4>7. total_shares'[c] = S + lock + minted
        BY <1>5, <3>2
      <4>8. after = IF total_shares'[c] = 0 THEN 0
                    ELSE total_shares'[c] - MINIMUM_LIQUIDITY
        BY <1>2, <4>2, <4>4, <4>5, <4>6, <4>7
      <4>9. QED
        BY <4>8 DEF after
    <3>3. CASE c # a
      <4>1. Balance(c)' = Balance(c)
        BY <1>1, <1>3, <3>3 DEF Balance, PoolTypeOK
      <4>2. QED
        BY <1>5, <3>1, <3>3, <4>1 DEF ShareInv, ShareLedger
    <3>4. QED
      BY <3>2, <3>3
  <2>2. QED
    BY <2>1 DEF ShareLedger
<1>10. QED
  BY <1>6, <1>7, <1>8, <1>9

(* withdraw burns in both books alike and cannot reach the locked shares,  *)
(* so neither the shares nor the deposits of a pool ever run out.          *)
LEMMA WithdrawStep ==
    ASSUME ShareInv, NEW u \in Users, NEW a \in Assets, NEW s \in WithdrawShares,
           Withdraw(u, a, s)
    PROVE  ShareLedger' /\ SharesBacked' /\ LoansHaveShares' /\ PriceHolds
<1> DEFINE D == total_deposits[a]
           S == total_shares[a]
           q == assets_for_shares(D, S, s)
<1>1. PoolTypeOK /\ PoolTypeOK'
  <2>1. SupplyNext
    BY DEF SupplyNext
  <2>2. QED
    BY <2>1, SupplyKeepsType DEF ShareInv
<1>2. /\ D \in Nat /\ S \in Nat /\ s \in Nat
      /\ MINIMUM_LIQUIDITY \in Nat /\ MINIMUM_LIQUIDITY > 0
      /\ S = 0 <=> D = 0
  BY <1>1, BookNat, PoolAssumption DEF ShareInv, SharesBacked
<1>3. /\ s > 0 /\ s <= shares[u][a] /\ s <= S
      /\ total_deposits' = Drop(total_deposits, a, q)
      /\ total_shares' = Drop(total_shares, a, s)
      /\ shares' = [shares EXCEPT ![u][a] = @ - s]
      /\ UNCHANGED loanVars
  BY DEF Withdraw, PaidFor
<1>4. s <= Cardinality(ShareUnits(a)) /\ s + MINIMUM_LIQUIDITY <= S
  <2> DEFINE k == Cardinality(ShareUnits(a))
  <2>1. /\ k \in Nat /\ (S # 0 => S = k + MINIMUM_LIQUIDITY)
        /\ shares[u][a] <= k /\ shares[u][a] \in Nat
    BY <1>1, LedgerOf, PoolAssumption DEF PoolTypeOK
  <2> HIDE DEF k, S
  <2>2. s <= k /\ s + MINIMUM_LIQUIDITY <= S
    BY <1>2, <1>3, <2>1
  <2>3. QED
    BY <2>2 DEF k
<1>5. q \in Nat /\ q * S <= s * D /\ q < D
  <2>1. S > 0 /\ D > 0 /\ s < S
    BY <1>2, <1>3, <1>4
  <2>2. QED
    BY <1>2, <2>1, AssetsForSharesFair
<1>6. /\ total_deposits'[a] = D - q /\ total_shares'[a] = S - s
      /\ \A c \in Assets \ {a} : /\ total_deposits'[c] = total_deposits[c]
                                 /\ total_shares'[c] = total_shares[c]
  BY <1>1, <1>3 DEF Drop, PoolTypeOK
<1> HIDE DEF D, S, q
<1>7. PriceHolds
  <2>1. (D - q) * S >= D * (S - s)
    <3>1. (D - q) * S = D * S - q * S /\ D * (S - s) = D * S - s * D
      BY <1>2, <1>5
    <3>2. D * S \in Nat /\ q * S \in Nat /\ s * D \in Nat
      BY <1>2, <1>5, MulNat
    <3>3. QED
      BY <1>5, <3>1, <3>2
  <2>2. ASSUME NEW c \in Assets \ {a}
        PROVE  total_deposits'[c] * total_shares[c] >= total_deposits[c] * total_shares'[c]
    <3>1. total_deposits[c] \in Nat /\ total_shares[c] \in Nat
      BY <1>1, BookNat
    <3>2. QED
      BY <1>6, <3>1, MulNat
  <2>3. QED
    BY <1>6, <2>1, <2>2 DEF PriceHolds, D, S
<1>8. SharesBacked'
  <2>1. ~(D - q = 0) /\ ~(S - s = 0)
    BY <1>2, <1>4, <1>5
  <2>2. \A c \in Assets : total_shares'[c] = 0 <=> total_deposits'[c] = 0
    BY <1>6, <2>1 DEF ShareInv, SharesBacked
  <2>3. QED
    BY <2>2 DEF SharesBacked
<1>9. LoansHaveShares'
  <2>1. \A c \in Assets : total_shares[c] > 0 => total_shares'[c] > 0
    BY <1>2, <1>4, <1>6
  <2>2. UNCHANGED <<loan, loan_by_id>>
    BY <1>3 DEF loanVars
  <2>3. /\ \A v \in Users : loan[v] # NoLoan => loan[v].asset \in Assets
        /\ \A i \in OpenIds : loan_by_id[i].asset \in Assets
    BY <1>1, StoredLoan, LoanFields DEF OpenIds
  <2>4. QED
    BY <2>1, <2>2, <2>3 DEF ShareInv, LoansHaveShares, OpenIds
<1>10. ShareLedger'
  <2>1. ASSUME NEW c \in Assets
        PROVE  Cardinality(ShareUnits(c)') =
                  IF total_shares'[c] = 0 THEN 0 ELSE total_shares'[c] - MINIMUM_LIQUIDITY
    <3>1. /\ ShareUnits(c) = Units(Balance(c)) /\ Balance(c) \in [Users -> U64]
          /\ ShareUnits(c)' = Units(Balance(c)') /\ Balance(c)' \in [Users -> U64]
      <4>1. ShareUnits(c)' = Units(Balance(c)') /\ Balance(c)' \in [Users -> U64]
        BY <1>1 DEF ShareUnits, Units, Balance, PoolTypeOK
      <4>2. QED
        BY <1>1, <4>1, ShareUnitsAre
    <3>2. CASE c = a
      <4>1. /\ Balance(c)'[u] = Balance(c)[u] - s
            /\ \A v \in Users \ {u} : Balance(c)'[v] = Balance(c)[v]
        BY <1>1, <1>3, <3>2 DEF Balance, PoolTypeOK
      <4> DEFINE k == Cardinality(ShareUnits(c))
                 f == Balance(c)
                 g == Balance(c)'
                 after == Cardinality(ShareUnits(c)')
      <4>2. /\ f \in [Users -> U64] /\ g \in [Users -> U64]
            /\ f[u] = g[u] + s /\ \A v \in Users \ {u} : f[v] = g[v]
        BY <1>2, <3>1, <4>1, PoolAssumption
      <4> HIDE DEF f, g
      <4>3. /\ Cardinality(Units(f)) = Cardinality(Units(g)) + s
            /\ Cardinality(Units(g)) \in Nat
        BY <1>2, <4>2, UnitsGrow, UnitsFinite
      <4>4. k = after + s /\ after \in Nat
        BY <3>1, <4>3 DEF f, g
      <4>5. k \in Nat /\ (S # 0 => S = k + MINIMUM_LIQUIDITY)
        BY <3>2, LedgerOf DEF S
      <4> HIDE DEF k, after
      <4>6. total_shares'[c] = S - s
        BY <1>6, <3>2
      <4>7. after = IF total_shares'[c] = 0 THEN 0
                    ELSE total_shares'[c] - MINIMUM_LIQUIDITY
        BY <1>2, <1>4, <4>4, <4>5, <4>6
      <4>8. QED
        BY <4>7 DEF after
    <3>3. CASE c # a
      <4>1. Balance(c)' = Balance(c)
        BY <1>1, <1>3, <3>3 DEF Balance, PoolTypeOK
      <4>2. QED
        BY <1>6, <3>1, <3>3, <4>1 DEF ShareInv, ShareLedger
    <3>4. QED
      BY <3>2, <3>3
  <2>2. QED
    BY <2>1 DEF ShareLedger
<1>11. QED
  BY <1>7, <1>8, <1>9, <1>10

-----------------------------------------------------------------------------
(* Every other operation *)

\* A step that leaves shares alone, takes from no deposits, adds to them only
\* where there are shares, and opens loans only in pools that have shares.
KeepsShares ==
    /\ UNCHANGED <<shares, total_shares>>
    /\ \A a \in Assets :
          /\ total_deposits'[a] >= total_deposits[a]
          /\ total_deposits'[a] # total_deposits[a] => total_shares[a] > 0
    /\ LoansHaveShares'

(* Such a step keeps the ledger, the backing and the price. *)
LEMMA KeepsSharesStep ==
    ASSUME ShareInv, PoolTypeOK', KeepsShares
    PROVE  ShareLedger' /\ SharesBacked' /\ LoansHaveShares' /\ PriceHolds
<1>1. ShareLedger'
  BY DEF ShareInv, ShareLedger, ShareUnits, KeepsShares
<1>2. ASSUME NEW a \in Assets
      PROVE  /\ total_shares'[a] = 0 <=> total_deposits'[a] = 0
             /\ total_deposits'[a] * total_shares[a] >= total_deposits[a] * total_shares'[a]
  <2> DEFINE D == total_deposits[a]
             E == total_deposits'[a]
             S == total_shares[a]
  <2>1. /\ D \in Nat /\ S \in Nat /\ E \in Nat /\ (S = 0 <=> D = 0)
        /\ E >= D /\ (E # D => S > 0) /\ total_shares'[a] = S
    BY BookNat, PoolAssumption DEF ShareInv, SharesBacked, KeepsShares, PoolTypeOK
  <2> HIDE DEF D, E, S
  <2>2. E * S >= D * S
    BY <2>1, MulMono
  <2>3. S = 0 <=> E = 0
    BY <2>1
  <2>4. QED
    BY <2>1, <2>2, <2>3 DEF D, E, S
<1>3. QED
  BY <1>1, <1>2 DEF SharesBacked, PriceHolds, KeepsShares

(* Closing loans, and opening loans in pools that have shares. *)
LEMMA ReplaceKeepsShares ==
    ASSUME ShareInv, NEW b \in Users, NEW closed, NEW opened, NEW n \in Nat,
           NEW primary, ReplaceLoans(b, closed, opened, n, primary),
           total_shares' = total_shares,
           primary # NoLoan => total_shares[primary.asset] > 0,
           \A i \in FreshIds(n) : total_shares[opened[i].asset] > 0
    PROVE  LoansHaveShares'
<1>1. ASSUME NEW u \in Users, loan'[u] # NoLoan
      PROVE  total_shares'[loan'[u].asset] > 0
  BY <1>1 DEF ReplaceLoans, ShareInv, LoansHaveShares, PoolTypeOK
<1>2. ASSUME NEW i \in LoanIds, loan_by_id'[i] # NoLoan
      PROVE  total_shares'[loan_by_id'[i].asset] > 0
  BY <1>2 DEF ReplaceLoans, ShareInv, LoansHaveShares, OpenIds, PoolTypeOK
<1>3. QED
  BY <1>1, <1>2 DEF LoansHaveShares, OpenIds

(* The loans of the book are in pools that have shares. *)
LEMMA StoredLoanHasShares ==
    ASSUME ShareInv
    PROVE  /\ \A b \in Users : loan[b] # NoLoan => total_shares[loan[b].asset] > 0
           /\ \A i \in LoanIds : loan_by_id[i] # NoLoan =>
                 total_shares[loan_by_id[i].asset] > 0
BY DEF ShareInv, LoansHaveShares, OpenIds

(* A step on neither deposits nor loans. *)
LEMMA IdleKeepsShares ==
    ASSUME ShareInv,
           UNCHANGED <<shares, total_shares, total_deposits, loan, loan_by_id>>
    PROVE  KeepsShares
<1>1. LoansHaveShares'
  BY DEF ShareInv, LoansHaveShares, OpenIds
<1>2. \A a \in Assets : total_deposits[a] \in Nat
  BY BookNat DEF ShareInv
<1>3. QED
  BY <1>1, <1>2 DEF KeepsShares

(* Tokens added to the deposits of a pool that has shares. *)
LEMMA CreditKeepsShares ==
    ASSUME ShareInv, NEW a \in Assets, NEW n \in Nat,
           total_deposits' = Bump(total_deposits, a, n), total_shares[a] > 0,
           UNCHANGED <<shares, total_shares>>, LoansHaveShares'
    PROVE  KeepsShares
<1>1. ASSUME NEW c \in Assets
      PROVE  /\ total_deposits'[c] >= total_deposits[c]
             /\ total_deposits'[c] # total_deposits[c] => total_shares[c] > 0
  <2>1. total_deposits[c] \in Nat
    BY BookNat DEF ShareInv
  <2>2. QED
    BY <2>1 DEF ShareInv, PoolTypeOK, Bump
<1>2. QED
  BY <1>1 DEF KeepsShares

(* flash_loan, the buckets and the clock. *)
LEMMA SupplyKeepsShares ==
    ASSUME ShareInv
    PROVE  /\ \A u \in Users, a \in Assets, x \in FlashAmounts, tip \in FlashTips :
                 FlashLoan(u, a, x, tip) => KeepsShares
           /\ \A a \in Assets, x \in BucketAmounts :
                 WithdrawPriority(a, x) \/ FundRetainedYield(a, x)
                   \/ TakeFromReserve(a, x) \/ ReplenishBadDebtReserve(a, x)
                   => KeepsShares
           /\ \A d \in TimeSteps : Tick(d) => KeepsShares
<1>1. ASSUME NEW u \in Users, NEW a \in Assets, NEW x \in FlashAmounts,
             NEW tip \in FlashTips, FlashLoan(u, a, x, tip)
      PROVE  KeepsShares
  <2> DEFINE fee == (x * settings.flash_loan_fee_bps) \div BPS
  <2>1. fee \in Nat
    <3>1. x \in Nat /\ settings.flash_loan_fee_bps \in Nat
      BY PoolAssumption DEF ShareInv, PoolTypeOK, Settings
    <3>2. QED
      BY <3>1, MulNat, DivFloor, MathAssumption
  <2> HIDE DEF fee
  <2>2. /\ total_deposits' = Bump(total_deposits, a, fee)
        /\ x > 0 /\ x <= Available(a)
        /\ UNCHANGED <<total_shares, depositorVars, loanVars>>
    BY <1>1 DEF FlashLoan, fee
  <2>3. total_shares[a] > 0
    <3>1. /\ total_deposits[a] \in Nat /\ total_borrowed[a] \in Nat
          /\ total_shares[a] \in Nat /\ x \in Nat
      BY BookNat, PoolAssumption DEF ShareInv
    <3>2. total_deposits[a] # 0
      BY <2>2, <3>1 DEF Available, saturating_sub
    <3>3. QED
      BY <3>1, <3>2 DEF ShareInv, SharesBacked
  <2>4. LoansHaveShares' /\ UNCHANGED <<shares, total_shares>>
    BY <2>2 DEF ShareInv, LoansHaveShares, OpenIds, loanVars, depositorVars
  <2>5. QED
    BY <2>1, <2>2, <2>3, <2>4, CreditKeepsShares
<1>2. ASSUME NEW a \in Assets, NEW x \in BucketAmounts,
             \/ WithdrawPriority(a, x) \/ FundRetainedYield(a, x)
             \/ TakeFromReserve(a, x) \/ ReplenishBadDebtReserve(a, x)
      PROVE  KeepsShares
  <2>1. UNCHANGED <<shares, total_shares, total_deposits, loan, loan_by_id>>
    BY <1>2 DEF WithdrawPriority, FundRetainedYield, TakeFromReserve,
                ReplenishBadDebtReserve, depositorVars, loanVars
  <2>2. QED
    BY <2>1, IdleKeepsShares
<1>3. ASSUME NEW d \in TimeSteps, Tick(d)
      PROVE  KeepsShares
  <2>1. UNCHANGED <<shares, total_shares, total_deposits, loan, loan_by_id>>
    BY <1>3 DEF Tick, bookVars, depositorVars, loanVars
  <2>2. QED
    BY <2>1, IdleKeepsShares
<1>4. QED
  BY <1>1, <1>2, <1>3

(* The admin settings. *)
LEMMA SettingKeepsShares ==
    ASSUME ShareInv, SettingNext
    PROVE  KeepsShares
<1>1. SettingStep
  BY DEF SettingNext, AddAssetPool, PauseAssetPool, SetGracePeriod,
         SetLateFeeRate, SetReserveFactor, Pause, Unpause, WhitelistCollateral,
         RemoveCollateral, AddReserve, WhitelistFlashLoanReceiver,
         RemoveFlashLoanReceiver, SetFlashLoanFee, SetRateModel, SetNftToken, Set
<1>2. UNCHANGED <<shares, total_shares, total_deposits, loan, loan_by_id>>
  BY <1>1 DEF SettingStep, bookVars, depositorVars
<1>3. QED
  BY <1>2, IdleKeepsShares

(* A step that opens or closes loans and leaves deposits alone. *)
LEMMA LoanStepKeepsShares ==
    ASSUME ShareInv, UNCHANGED <<shares, total_shares, total_deposits>>,
           LoansHaveShares'
    PROVE  KeepsShares
<1>1. \A a \in Assets : total_deposits[a] \in Nat
  BY BookNat DEF ShareInv
<1>2. QED
  BY <1>1 DEF KeepsShares

(* borrow lends what depositors hold shares of. *)
LEMMA BorrowKeepsShares ==
    ASSUME ShareInv, NEW b \in Users, NEW a \in Assets, NEW x \in BorrowAmounts,
           NEW t, NEW c, NEW d, Borrow(b, a, x, t, c, d)
    PROVE  KeepsShares
<1> DEFINE opened == NewLoan(next_loan_id, b, a, x, c, t, d,
                             CurrentRate(a, total_borrowed[a] + x))
           record == [i \in FreshIds(1) |-> opened]
<1>1. /\ x > 0 /\ x <= Available(a)
      /\ ReplaceLoans(b, {}, record, 1, opened)
      /\ UNCHANGED <<total_deposits, total_shares, depositorVars>>
  BY DEF Borrow
<1>2. total_shares[a] > 0
  <2>1. /\ total_deposits[a] \in Nat /\ total_borrowed[a] \in Nat
        /\ total_shares[a] \in Nat /\ x \in Nat
    BY BookNat, PoolAssumption, LoanAssumption DEF ShareInv
  <2>2. total_deposits[a] # 0
    BY <1>1, <2>1 DEF Available, saturating_sub
  <2>3. QED
    BY <2>1, <2>2 DEF ShareInv, SharesBacked
<1>3. opened.asset = a /\ \A i \in FreshIds(1) : record[i].asset = a
  BY DEF NewLoan
<1> HIDE DEF record, opened
<1>4. LoansHaveShares'
  BY <1>1, <1>2, <1>3, ReplaceKeepsShares
<1>5. QED
  BY <1>1, <1>4, LoanStepKeepsShares DEF depositorVars

(* repay credits interest to the pool the loan was taken from. *)
LEMMA RepayKeepsShares ==
    ASSUME ShareInv, NEW b \in Users, Repay(b)
    PROVE  KeepsShares
<1> DEFINE l == loan[b]
           share == pool_share(Interest(l))
<1>1. /\ l # NoLoan
      /\ total_deposits' = Bump(total_deposits, l.asset, share)
      /\ ReplaceLoans(b, {l.loan_id}, <<>>, 0, NoLoan)
      /\ UNCHANGED <<total_shares, depositorVars>>
  BY DEF Repay
<1>2. l \in LoanRecord /\ l.asset \in Assets /\ total_shares[l.asset] > 0
  BY <1>1, StoredLoan, LoanFields, StoredLoanHasShares DEF ShareInv
<1>3. share \in Nat
  BY <1>2, LoanViewType, InterestSplitIsExact DEF ShareInv
<1> HIDE DEF l, share
<1>4. LoansHaveShares'
  <2>1. \A i \in FreshIds(0) : total_shares[<<>>[i].asset] > 0
    BY DEF FreshIds, ShareInv, PoolTypeOK
  <2>2. QED
    BY <1>1, <2>1, ReplaceKeepsShares
<1>5. QED
  BY <1>1, <1>2, <1>3, <1>4, CreditKeepsShares DEF depositorVars

(* liquidate adds the repaid amount to the deposits. *)
LEMMA LiquidateKeepsShares ==
    ASSUME ShareInv, NEW b \in Users, NEW x \in LiquidateAmounts, Liquidate(b, x)
    PROVE  KeepsShares
<1> DEFINE l == loan[b]
<1>1. /\ l # NoLoan
      /\ total_deposits' = Bump(total_deposits, l.asset, x)
      /\ UNCHANGED <<total_shares, depositorVars, loanVars>>
  BY DEF Liquidate
<1>2. l.asset \in Assets /\ total_shares[l.asset] > 0
  BY <1>1, StoredLoan, LoanFields, StoredLoanHasShares DEF ShareInv
<1>3. x \in Nat
  BY LoanAssumption, PoolAssumption
<1> HIDE DEF l
<1>4. LoansHaveShares'
  BY <1>1 DEF ShareInv, LoansHaveShares, OpenIds, loanVars
<1>5. QED
  BY <1>1, <1>2, <1>3, <1>4, CreditKeepsShares DEF depositorVars

(* liquidate_bad_debt closes the loan and takes nothing from depositors. *)
LEMMA BadDebtKeepsShares ==
    ASSUME ShareInv, NEW b \in Users, LiquidateBadDebt(b)
    PROVE  KeepsShares
<1>1. /\ ReplaceLoans(b, {loan[b].loan_id}, <<>>, 0, NoLoan)
      /\ UNCHANGED <<total_deposits, total_shares, depositorVars>>
  BY DEF LiquidateBadDebt
<1>2. LoansHaveShares'
  <2>1. \A i \in FreshIds(0) : total_shares[<<>>[i].asset] > 0
    BY DEF FreshIds, ShareInv, PoolTypeOK
  <2>2. QED
    BY <1>1, <2>1, ReplaceKeepsShares
<1>3. QED
  BY <1>1, <1>2, LoanStepKeepsShares DEF depositorVars

(* refinance_loan reopens the loan in the same pool. *)
LEMMA RefinanceKeepsShares ==
    ASSUME ShareInv, NEW b \in Users, NEW d, RefinanceLoan(b, d)
    PROVE  KeepsShares
<1> DEFINE l == loan[b]
           fee == RefinancingFee(Outstanding(l))
           opened == NewLoan(next_loan_id, b, l.asset, Outstanding(l) + fee,
                             l.collateral_amount, l.collateral_token, d,
                             CurrentRate(l.asset, total_borrowed[l.asset]))
           record == [i \in FreshIds(1) |-> opened]
<1>1. /\ l # NoLoan
      /\ ReplaceLoans(b, {l.loan_id}, record, 1, opened)
      /\ UNCHANGED <<total_deposits, total_shares, depositorVars>>
  BY DEF RefinanceLoan
<1>2. total_shares[l.asset] > 0
  BY <1>1, StoredLoanHasShares
<1>3. opened.asset = l.asset /\ \A i \in FreshIds(1) : record[i].asset = l.asset
  BY DEF NewLoan
<1> HIDE DEF record, opened, l
<1>4. LoansHaveShares'
  BY <1>1, <1>2, <1>3, ReplaceKeepsShares
<1>5. QED
  BY <1>1, <1>4, LoanStepKeepsShares DEF depositorVars

(* consolidate_loans opens the joint loan in the pool of its parts. *)
LEMMA ConsolidateKeepsShares ==
    ASSUME ShareInv, NEW b \in Users, NEW n \in 1..MaxConsolidate,
           NEW ids \in [1..n -> LoanIds], NEW d, ConsolidateLoans(b, ids, d)
    PROVE  KeepsShares
<1> DEFINE l == loan_by_id[ids[1]]
           outstanding == SumFunction([k \in DOMAIN ids |-> Outstanding(loan_by_id[ids[k]])])
           collateral == SumFunction([k \in DOMAIN ids |-> loan_by_id[ids[k]].collateral_amount])
           opened == NewLoan(next_loan_id, b, l.asset,
                             outstanding + RefinancingFee(outstanding), collateral,
                             l.collateral_token, d,
                             CurrentRate(l.asset, total_borrowed[l.asset]))
           record == [i \in FreshIds(1) |-> opened]
<1>1. 1 \in DOMAIN ids /\ ids[1] \in LoanIds
  BY LoanAssumption
<1>2. /\ l # NoLoan
      /\ ReplaceLoans(b, Elements(ids), record, 1, opened)
      /\ UNCHANGED <<total_deposits, total_shares, depositorVars>>
  BY <1>1 DEF ConsolidateLoans
<1>3. total_shares[l.asset] > 0
  BY <1>1, <1>2, StoredLoanHasShares
<1>4. opened.asset = l.asset /\ \A i \in FreshIds(1) : record[i].asset = l.asset
  BY DEF NewLoan
<1> HIDE DEF record, opened, l
<1>5. LoansHaveShares'
  BY <1>2, <1>3, <1>4, ReplaceKeepsShares
<1>6. QED
  BY <1>2, <1>5, LoanStepKeepsShares DEF depositorVars

(* split_loan opens the parts in the pool of the whole. *)
LEMMA SplitKeepsShares ==
    ASSUME ShareInv, NEW b \in Users, NEW n \in 1..MaxSplit,
           NEW parts \in [1..n -> SplitAmounts], NEW d, SplitLoan(b, parts, d)
    PROVE  KeepsShares
<1> DEFINE l == loan[b]
           rate == CurrentRate(l.asset, total_borrowed[l.asset])
           Part(i) == parts[i - next_loan_id + 1]
           record == [i \in FreshIds(n) |->
                        NewLoan(i, b, l.asset, Part(i), SplitCollateral(l, Part(i)),
                                l.collateral_token, d, rate)]
           primary == record[next_loan_id + n - 1]
<1>1. n \in Nat /\ n >= 1 /\ Len(parts) = n
  <2>1. n \in Nat /\ n >= 1
    BY LoanAssumption
  <2>2. parts \in Seq(SplitAmounts)
    BY <2>1, SeqDef
  <2>3. QED
    BY <2>1, <2>2, LenProperties
<1>2. /\ l # NoLoan
      /\ ReplaceLoans(b, {l.loan_id}, record, n, primary)
      /\ UNCHANGED <<total_deposits, total_shares, depositorVars>>
  BY <1>1 DEF SplitLoan
<1>3. total_shares[l.asset] > 0
  BY <1>2, StoredLoanHasShares
<1>4. \A i \in FreshIds(n) : record[i].asset = l.asset
  BY DEF NewLoan
<1>5. next_loan_id + n - 1 \in FreshIds(n)
  BY <1>1 DEF FreshIds, ShareInv, PoolTypeOK
<1>6. primary.asset = l.asset
  BY <1>4, <1>5
<1> HIDE DEF record, primary, l
<1>7. LoansHaveShares'
  BY <1>1, <1>2, <1>3, <1>4, <1>6, ReplaceKeepsShares
<1>8. QED
  BY <1>2, <1>7, LoanStepKeepsShares DEF depositorVars

-----------------------------------------------------------------------------
(* The theorems about shares *)

(* Every step keeps the invariant, and the price of every pool's shares. *)
LEMMA ShareStep ==
    ASSUME ShareInv, [Next]_vars
    PROVE  ShareInv' /\ PriceHolds
<1>1. PoolTypeOK'
  BY NextKeepsType DEF ShareInv
<1>2. CASE \E u \in Users, a \in Assets, x \in DepositAmounts : Deposit(u, a, x)
  BY <1>1, <1>2, DepositStep DEF ShareInv
<1>3. CASE \E u \in Users, a \in Assets, s \in WithdrawShares : Withdraw(u, a, s)
  BY <1>1, <1>3, WithdrawStep DEF ShareInv
<1>4. CASE KeepsShares
  BY <1>1, <1>4, KeepsSharesStep DEF ShareInv
<1>5. CASE SupplyNext
  <2>1. \/ \E u \in Users, a \in Assets, x \in DepositAmounts : Deposit(u, a, x)
        \/ \E u \in Users, a \in Assets, s \in WithdrawShares : Withdraw(u, a, s)
        \/ KeepsShares
    BY <1>5, SupplyKeepsShares DEF SupplyNext, WithdrawReserves, AllocateReserves
  <2>2. QED
    BY <2>1, <1>2, <1>3, <1>4
<1>6. CASE SettingNext
  BY <1>4, <1>6, SettingKeepsShares
<1>7. CASE LoanNext
  <2>1. KeepsShares
    BY <1>7, BorrowKeepsShares, RepayKeepsShares, LiquidateKeepsShares,
       BadDebtKeepsShares, RefinanceKeepsShares, ConsolidateKeepsShares,
       SplitKeepsShares DEF LoanNext
  <2>2. QED
    BY <1>4, <2>1
<1>8. CASE AccrualNext
  <2>1. UNCHANGED <<shares, total_shares, total_deposits, loan, loan_by_id>>
    BY <1>8 DEF AccrualNext, AccrueInterestWithReserve, depositorVars, loanVars
  <2>2. QED
    BY <1>4, <2>1, IdleKeepsShares
<1>9. CASE UNCHANGED vars
  <2>1. UNCHANGED <<shares, total_shares, total_deposits, loan, loan_by_id>>
    BY <1>9 DEF vars, bookVars, depositorVars, loanVars
  <2>2. QED
    BY <1>4, <2>1, IdleKeepsShares
<1>10. QED
  BY <1>5, <1>6, <1>7, <1>8, <1>9 DEF Next

(* The invariant holds of a fresh contract. *)
LEMMA ShareInit ==
    ASSUME PoolInit
    PROVE  ShareInv
<1>1. PoolTypeOK
  BY InitType
<1>2. SharesBacked /\ LoansHaveShares
  BY DEF PoolInit, SharesBacked, LoansHaveShares, OpenIds
<1>3. ASSUME NEW a \in Assets
      PROVE  Cardinality(ShareUnits(a)) = 0
  <2>1. ShareUnits(a) = {}
    <3>1. \A u \in Users : shares[u][a] = 0
      BY DEF PoolInit
    <3>2. \A u \in Users : {u} \X (1..shares[u][a]) = {}
      BY <3>1
    <3>3. QED
      BY <3>2 DEF ShareUnits
  <2>2. QED
    BY <2>1, FS_EmptySet
<1>4. ShareLedger
  BY <1>3 DEF PoolInit, ShareLedger
<1>5. QED
  BY <1>1, <1>2, <1>4 DEF ShareInv

(* The strengthening is an invariant of the contract. *)
THEOREM ShareInvariant == Spec => []ShareInv
<1>1. PoolInit => ShareInv
  BY ShareInit
<1>2. ShareInv /\ [Next]_vars => ShareInv'
  BY ShareStep
<1>3. QED
  BY <1>1, <1>2, PTL DEF Spec

(* deposit and withdraw keep total_shares equal to what depositors hold    *)
(* plus the locked minimum, for every number of users and pools.           *)
THEOREM ShareLedgerBalances == Spec => []ShareLedger
<1>1. ShareInv => ShareLedger
  BY DEF ShareInv
<1>2. QED
  BY <1>1, ShareInvariant, PTL

(* A pool has deposits exactly when somebody's shares stand for them.      *)
THEOREM SharesAreBacked == Spec => []SharesBacked
<1>1. ShareInv => SharesBacked
  BY DEF ShareInv
<1>2. QED
  BY <1>1, ShareInvariant, PTL

(* No operation of the contract, in any state it can reach, lowers the     *)
(* value of a share.                                                       *)
THEOREM SharePriceIsMonotone == Spec => SharePriceNeverFalls
<1>1. ShareInv /\ [Next]_vars =>
         [\A a \in Assets :
             total_deposits'[a] * total_shares[a] >= total_deposits[a] * total_shares'[a]]_vars
  BY ShareStep DEF PriceHolds
<1>2. QED
  BY <1>1, ShareInvariant, PTL DEF Spec, SharePriceNeverFalls

-----------------------------------------------------------------------------
(* The loan book: its three indexes agree, ids are never reused, and with  *)
(* a cap below 100% no pool lends more than it has.                        *)

\* The loan book's inductive invariant.
BookInv == PoolTypeOK /\ LoanBookConsistent

\* What one step may do to the record under each id.
IdsFresh == \A i \in LoanIds :
    \/ loan_by_id'[i] = loan_by_id[i]
    \/ loan_by_id[i] # NoLoan /\ loan_by_id'[i] = NoLoan
    \/ loan_by_id[i] = NoLoan /\ i >= next_loan_id /\ i < next_loan_id'

-----------------------------------------------------------------------------
(* The agreement of the indexes, id by id. *)
LEMMA BookFacts ==
    ASSUME BookInv
    PROVE  /\ PoolTypeOK /\ next_loan_id \in Nat /\ NoLoan \notin LoanRecord
           /\ \A i \in LoanIds : loan_by_id[i] # NoLoan =>
                 /\ loan_by_id[i].loan_id = i /\ i < next_loan_id
                 /\ loan_by_id[i] \in LoanRecord
           /\ \A u \in Users, i \in LoanIds :
                 i \in user_loans[u] <=> loan_by_id[i] # NoLoan /\ loan_by_id[i].borrower = u
           /\ \A u \in Users : user_loans[u] \subseteq LoanIds
           /\ \A u \in Users : loan[u] # NoLoan =>
                 /\ loan[u] \in LoanRecord
                 /\ loan[u].loan_id \in user_loans[u]
                 /\ loan_by_id[loan[u].loan_id] = loan[u]
BY RecordAssumption DEF BookInv, LoanBookConsistent, OpenIds, PoolTypeOK

\* The loans closed are the borrower's, those opened are the borrower's under
\* the ids handed out, and the primary record is one of them or none.
Replacement(b, closed, opened, n, primary) ==
    /\ closed \subseteq user_loans[b]
    /\ \A i \in FreshIds(n) : /\ loan_by_id'[i] \in LoanRecord
                              /\ opened[i].loan_id = i
                              /\ opened[i].borrower = b
    /\ primary = NoLoan \/ \E i \in FreshIds(n) : primary = opened[i]

(* Closing loans of one borrower and opening others under fresh ids keeps  *)
(* the indexes in agreement and reuses no id.                              *)
LEMMA ReplaceKeepsBook ==
    ASSUME BookInv, NEW b \in Users, NEW closed, NEW n \in Nat, NEW opened,
           NEW primary, Replacement(b, closed, opened, n, primary),
           ReplaceLoans(b, closed, opened, n, primary)
    PROVE  LoanBookConsistent' /\ IdsFresh
<1> USE DEF Replacement
<1>1. /\ FreshIds(n) \subseteq LoanIds
      /\ \A i \in FreshIds(n) : i \in Nat /\ i >= next_loan_id /\ i < next_loan_id + n
      /\ next_loan_id' = next_loan_id + n /\ next_loan_id \in Nat
  BY BookFacts, FreshIdsType DEF ReplaceLoans
<1>2. \A i \in LoanIds : i \in Nat
  BY PoolAssumption DEF LoanIds
<1>3. ASSUME NEW i \in LoanIds
      PROVE  /\ i \in FreshIds(n) => loan_by_id'[i] = opened[i] /\ loan_by_id[i] = NoLoan
             /\ i \in closed => loan_by_id'[i] = NoLoan /\ loan_by_id[i] # NoLoan
             /\ i \notin FreshIds(n) \cup closed => loan_by_id'[i] = loan_by_id[i]
  <2>1. i \in FreshIds(n) => loan_by_id[i] = NoLoan
    BY <1>1, <1>2, BookFacts
  <2>2. i \in closed => loan_by_id[i] # NoLoan
    BY BookFacts
  <2>3. QED
    BY <2>1, <2>2 DEF ReplaceLoans
<1>4. IdsFresh
  <2>1. ASSUME NEW i \in LoanIds
        PROVE  \/ loan_by_id'[i] = loan_by_id[i]
               \/ loan_by_id[i] # NoLoan /\ loan_by_id'[i] = NoLoan
               \/ loan_by_id[i] = NoLoan /\ i >= next_loan_id /\ i < next_loan_id'
    BY <1>1, <1>3
  <2>2. QED
    BY <2>1 DEF IdsFresh
<1>5. ASSUME NEW i \in LoanIds, loan_by_id'[i] # NoLoan
      PROVE  loan_by_id'[i].loan_id = i /\ i < next_loan_id'
  <2>1. CASE i \in FreshIds(n)
    BY <1>1, <1>3, <2>1
  <2>2. CASE i \notin FreshIds(n)
    BY <1>1, <1>2, <1>3, <1>5, <2>2, BookFacts
  <2>3. QED
    BY <2>1, <2>2
<1>6. ASSUME NEW u \in Users
      PROVE  user_loans'[u] =
                {i \in LoanIds : loan_by_id'[i] # NoLoan /\ loan_by_id'[i].borrower = u}
  <2>1. user_loans'[u] = IF u = b THEN (user_loans[b] \ closed) \cup FreshIds(n)
                         ELSE user_loans[u]
    BY BookFacts DEF ReplaceLoans, PoolTypeOK
  <2>2. user_loans'[u] \subseteq LoanIds
    BY <1>1, <2>1, BookFacts
  <2>3. ASSUME NEW i \in LoanIds
        PROVE  i \in user_loans'[u] <=>
                  loan_by_id'[i] # NoLoan /\ loan_by_id'[i].borrower = u
    <3>1. CASE i \in FreshIds(n)
      BY <1>3, <2>1, <3>1, BookFacts
    <3>2. CASE i \in closed
      <4>1. i \in user_loans[b] /\ loan_by_id[i].borrower = b
        BY <3>2, BookFacts
      <4>2. QED
        BY <1>3, <2>1, <3>2, <4>1, BookFacts
    <3>3. CASE i \notin FreshIds(n) \cup closed
      BY <1>3, <2>1, <3>3, BookFacts
    <3>4. QED
      BY <3>1, <3>2, <3>3
  <2>4. QED
    BY <2>2, <2>3
<1>7. ASSUME NEW u \in Users, loan'[u] # NoLoan
      PROVE  loan'[u].loan_id \in user_loans'[u] /\ loan_by_id'[loan'[u].loan_id] = loan'[u]
  <2>1. loan'[u] = IF u = b THEN primary ELSE loan[u]
    BY BookFacts DEF ReplaceLoans, PoolTypeOK
  <2>2. CASE u = b
    <3>1. PICK i \in FreshIds(n) : primary = opened[i]
      BY <1>7, <2>1, <2>2
    <3>2. loan'[u] = opened[i] /\ loan'[u].loan_id = i /\ i \in LoanIds
      BY <1>1, <2>1, <2>2, <3>1
    <3>3. loan_by_id'[i] = opened[i] /\ opened[i] # NoLoan /\ opened[i].borrower = u
      BY <1>3, <2>2, <3>2, BookFacts
    <3>4. QED
      BY <1>6, <3>2, <3>3
  <2>3. CASE u # b
    <3> DEFINE i == loan[u].loan_id
    <3>1. i \in LoanIds /\ i \in user_loans[u] /\ loan_by_id[i] = loan[u] /\ loan[u] # NoLoan
      BY <1>7, <2>1, <2>3, BookFacts
    <3>2. loan_by_id[i].borrower = u
      BY <3>1, BookFacts
    <3>3. i \notin closed
      BY <2>3, <3>1, <3>2, BookFacts
    <3>4. i \notin FreshIds(n)
      BY <1>3, <3>1
    <3>5. loan_by_id'[i] = loan_by_id[i]
      BY <1>3, <3>1, <3>3, <3>4
    <3> HIDE DEF i
    <3>6. i \in user_loans'[u]
      BY <1>6, <3>1, <3>2, <3>5
    <3>7. QED
      BY <2>1, <2>3, <3>1, <3>5, <3>6 DEF i
  <2>4. QED
    BY <2>2, <2>3
<1>8. QED
  BY <1>4, <1>5, <1>6, <1>7 DEF LoanBookConsistent, OpenIds

(* Restructured and new loans: one step per operation that opens or closes *)
(* records.                                                                *)
LEMMA BorrowKeepsBook ==
    ASSUME BookInv, NEW b \in Users, NEW a \in Assets, NEW x \in BorrowAmounts,
           NEW t \in CollateralTokens, NEW c \in CollateralAmounts,
           NEW d \in Durations, Borrow(b, a, x, t, c, d)
    PROVE  LoanBookConsistent' /\ IdsFresh
<1> DEFINE opened == NewLoan(next_loan_id, b, a, x, c, t, d,
                             CurrentRate(a, total_borrowed[a] + x))
           record == [i \in FreshIds(1) |-> opened]
<1>1. ReplaceLoans(b, {}, record, 1, opened)
  BY DEF Borrow
<1>2. \A i \in FreshIds(1) : loan_by_id'[i] \in LoanRecord
  BY BorrowKeepsType DEF BookInv
<1>3. FreshIds(1) = {next_loan_id}
  BY BookFacts DEF FreshIds
<1>4. /\ \A i \in FreshIds(1) : record[i].loan_id = i /\ record[i].borrower = b
      /\ opened = record[next_loan_id]
  BY <1>3 DEF NewLoan
<1> HIDE DEF record, opened
<1>5. Replacement(b, {}, record, 1, opened)
  BY <1>2, <1>3, <1>4 DEF Replacement
<1>6. QED
  BY <1>1, <1>5, ReplaceKeepsBook

LEMMA CloseKeepsBook ==
    ASSUME BookInv, NEW b \in Users, loan[b] # NoLoan,
           ReplaceLoans(b, {loan[b].loan_id}, <<>>, 0, NoLoan)
    PROVE  LoanBookConsistent' /\ IdsFresh
<1>1. FreshIds(0) = {}
  BY BookFacts DEF FreshIds
<1>2. {loan[b].loan_id} \in SUBSET user_loans[b]
  BY BookFacts
<1>3. Replacement(b, {loan[b].loan_id}, <<>>, 0, NoLoan)
  BY <1>1, <1>2 DEF Replacement
<1>4. QED
  BY <1>3, ReplaceKeepsBook

LEMMA RefinanceKeepsBook ==
    ASSUME BookInv, NEW b \in Users, NEW d \in RefinanceDurations,
           RefinanceLoan(b, d)
    PROVE  LoanBookConsistent' /\ IdsFresh
<1> DEFINE l == loan[b]
           fee == RefinancingFee(Outstanding(l))
           opened == NewLoan(next_loan_id, b, l.asset, Outstanding(l) + fee,
                             l.collateral_amount, l.collateral_token, d,
                             CurrentRate(l.asset, total_borrowed[l.asset]))
           record == [i \in FreshIds(1) |-> opened]
<1>1. l # NoLoan /\ ReplaceLoans(b, {l.loan_id}, record, 1, opened)
  BY DEF RefinanceLoan
<1>2. \A i \in FreshIds(1) : loan_by_id'[i] \in LoanRecord
  BY RefinanceKeepsType DEF BookInv
<1>3. FreshIds(1) = {next_loan_id} /\ {l.loan_id} \in SUBSET user_loans[b]
  BY <1>1, BookFacts DEF FreshIds
<1>4. /\ \A i \in FreshIds(1) : record[i].loan_id = i /\ record[i].borrower = b
      /\ opened = record[next_loan_id]
  BY <1>3 DEF NewLoan
<1> HIDE DEF record, opened, l
<1>5. Replacement(b, {l.loan_id}, record, 1, opened)
  BY <1>2, <1>3, <1>4 DEF Replacement
<1>6. QED
  BY <1>1, <1>5, ReplaceKeepsBook

LEMMA ConsolidateKeepsBook ==
    ASSUME BookInv, NEW b \in Users, NEW n \in 1..MaxConsolidate,
           NEW ids \in [1..n -> LoanIds], NEW d \in ConsolidateDurations,
           ConsolidateLoans(b, ids, d)
    PROVE  LoanBookConsistent' /\ IdsFresh
<1> DEFINE l == loan_by_id[ids[1]]
           outstanding == SumFunction([k \in DOMAIN ids |-> Outstanding(loan_by_id[ids[k]])])
           collateral == SumFunction([k \in DOMAIN ids |-> loan_by_id[ids[k]].collateral_amount])
           opened == NewLoan(next_loan_id, b, l.asset,
                             outstanding + RefinancingFee(outstanding), collateral,
                             l.collateral_token, d,
                             CurrentRate(l.asset, total_borrowed[l.asset]))
           record == [i \in FreshIds(1) |-> opened]
<1>1. /\ \A k \in DOMAIN ids : /\ loan_by_id[ids[k]] # NoLoan
                               /\ loan_by_id[ids[k]].borrower = b
      /\ ReplaceLoans(b, Elements(ids), record, 1, opened)
  BY DEF ConsolidateLoans
<1>2. \A i \in FreshIds(1) : loan_by_id'[i] \in LoanRecord
  BY ConsolidateKeepsType DEF BookInv
<1>3. FreshIds(1) = {next_loan_id}
  BY BookFacts DEF FreshIds
<1>4. Elements(ids) \in SUBSET user_loans[b]
  <2>1. ASSUME NEW k \in 1..n PROVE ids[k] \in user_loans[b]
    BY <1>1, BookFacts
  <2>2. QED
    BY <2>1 DEF Elements
<1>5. /\ \A i \in FreshIds(1) : record[i].loan_id = i /\ record[i].borrower = b
      /\ opened = record[next_loan_id]
  BY <1>3 DEF NewLoan
<1> HIDE DEF record, opened
<1>6. Replacement(b, Elements(ids), record, 1, opened)
  BY <1>2, <1>3, <1>4, <1>5 DEF Replacement
<1>7. QED
  BY <1>1, <1>6, ReplaceKeepsBook

LEMMA SplitKeepsBook ==
    ASSUME BookInv, NEW b \in Users, NEW n \in 1..MaxSplit,
           NEW parts \in [1..n -> SplitAmounts], NEW d \in Durations,
           SplitLoan(b, parts, d)
    PROVE  LoanBookConsistent' /\ IdsFresh
<1> DEFINE l == loan[b]
           rate == CurrentRate(l.asset, total_borrowed[l.asset])
           Part(i) == parts[i - next_loan_id + 1]
           record == [i \in FreshIds(n) |->
                        NewLoan(i, b, l.asset, Part(i), SplitCollateral(l, Part(i)),
                                l.collateral_token, d, rate)]
           primary == record[next_loan_id + n - 1]
<1>1. n \in Nat /\ n >= 1 /\ Len(parts) = n
  <2>1. n \in Nat /\ n >= 1
    BY LoanAssumption
  <2>2. parts \in Seq(SplitAmounts)
    BY <2>1, SeqDef
  <2>3. QED
    BY <2>1, <2>2, LenProperties
<1>2. l # NoLoan /\ ReplaceLoans(b, {l.loan_id}, record, n, primary)
  BY <1>1 DEF SplitLoan
<1>3. \A i \in FreshIds(n) : loan_by_id'[i] \in LoanRecord
  BY SplitKeepsType DEF BookInv
<1>4. \A i \in FreshIds(n) : record[i].loan_id = i /\ record[i].borrower = b
  BY DEF NewLoan
<1>5. next_loan_id + n - 1 \in FreshIds(n)
  BY <1>1, BookFacts DEF FreshIds
<1>6. {l.loan_id} \in SUBSET user_loans[b]
  BY <1>2, BookFacts
<1> HIDE DEF record, l
<1>7. Replacement(b, {l.loan_id}, record, n, primary)
  BY <1>3, <1>4, <1>5, <1>6 DEF Replacement
<1>8. QED
  BY <1>1, <1>2, <1>7, ReplaceKeepsBook

(* Every step keeps the indexes in agreement and reuses no id. *)
LEMMA BookStep ==
    ASSUME BookInv, [Next]_vars
    PROVE  BookInv' /\ IdsFresh
<1>1. PoolTypeOK'
  BY NextKeepsType DEF BookInv
<1>2. CASE UNCHANGED <<loan, loan_by_id, user_loans, next_loan_id>>
  BY <1>1, <1>2 DEF BookInv, LoanBookConsistent, OpenIds, IdsFresh
<1>3. CASE SupplyNext
  <2>1. UNCHANGED <<loan, loan_by_id, user_loans, next_loan_id>>
    BY <1>3 DEF SupplyNext, Deposit, Withdraw, FlashLoan, WithdrawPriority,
                FundRetainedYield, WithdrawReserves, AllocateReserves,
                TakeFromReserve, ReplenishBadDebtReserve, Tick, loanVars
  <2>2. QED
    BY <1>2, <2>1
<1>4. CASE SettingNext
  <2>1. SettingStep
    BY <1>4 DEF SettingNext, AddAssetPool, PauseAssetPool, SetGracePeriod,
         SetLateFeeRate, SetReserveFactor, Pause, Unpause, WhitelistCollateral,
         RemoveCollateral, AddReserve, WhitelistFlashLoanReceiver,
         RemoveFlashLoanReceiver, SetFlashLoanFee, SetRateModel, SetNftToken, Set
  <2>2. QED
    BY <1>2, <2>1 DEF SettingStep
<1>5. CASE LoanNext
  <2>1. ASSUME NEW b \in Users, Repay(b) \/ LiquidateBadDebt(b)
        PROVE  LoanBookConsistent' /\ IdsFresh
    BY <2>1, CloseKeepsBook DEF Repay, LiquidateBadDebt
  <2>2. ASSUME NEW b \in Users, NEW x \in LiquidateAmounts, Liquidate(b, x)
        PROVE  UNCHANGED <<loan, loan_by_id, user_loans, next_loan_id>>
    BY <2>2 DEF Liquidate, loanVars
  <2>3. \/ LoanBookConsistent' /\ IdsFresh
        \/ UNCHANGED <<loan, loan_by_id, user_loans, next_loan_id>>
    BY <1>5, <2>1, <2>2, BorrowKeepsBook, RefinanceKeepsBook,
       ConsolidateKeepsBook, SplitKeepsBook DEF LoanNext
  <2>4. QED
    BY <1>1, <1>2, <2>3 DEF BookInv
<1>6. CASE AccrualNext
  <2>1. UNCHANGED <<loan, loan_by_id, user_loans, next_loan_id>>
    BY <1>6 DEF AccrualNext, AccrueInterestWithReserve, loanVars
  <2>2. QED
    BY <1>2, <2>1
<1>7. CASE UNCHANGED vars
  BY <1>2, <1>7 DEF vars, loanVars
<1>8. QED
  BY <1>3, <1>4, <1>5, <1>6, <1>7 DEF Next

(* The loan book's indexes agree in every reachable state. *)
THEOREM LoanBookAgrees == Spec => []LoanBookConsistent
<1>1. PoolInit => BookInv
  BY InitType DEF PoolInit, BookInv, LoanBookConsistent, OpenIds
<1>2. BookInv /\ [Next]_vars => BookInv'
  BY BookStep
<1>3. BookInv => LoanBookConsistent
  BY DEF BookInv
<1>4. QED
  BY <1>1, <1>2, <1>3, PTL DEF Spec

(* No operation gives a loan id out twice or edits a stored loan. *)
THEOREM LoanIdsAreFresh == Spec => LoanIdsNeverReused
<1>1. PoolInit => BookInv
  BY InitType DEF PoolInit, BookInv, LoanBookConsistent, OpenIds
<1>2. BookInv /\ [Next]_vars => BookInv'
  BY BookStep
<1>3. BookInv /\ [Next]_vars =>
        [\A i \in LoanIds :
           \/ loan_by_id'[i] = loan_by_id[i]
           \/ loan_by_id[i] # NoLoan /\ loan_by_id'[i] = NoLoan
           \/ loan_by_id[i] = NoLoan /\ i >= next_loan_id /\ i < next_loan_id']_vars
  BY BookStep DEF IdsFresh
<1>4. QED
  BY <1>1, <1>2, <1>3, PTL DEF Spec, LoanIdsNeverReused

-----------------------------------------------------------------------------
(* The cap *)

\* A step that may only widen the margin between deposits and borrows.
WidensMargin == \A a \in Assets :
    /\ total_deposits'[a] >= total_deposits[a]
    /\ total_borrowed'[a] <= total_borrowed[a]

\* A step after which the loans of one pool are within its cap.
CappedAt(a) ==
    /\ total_deposits' = total_deposits
    /\ \E n \in Nat : /\ total_borrowed' = [total_borrowed EXCEPT ![a] = n]
                      /\ get_utilization_bps(n, total_deposits[a]) <= UtilizationCapBps

(* Both kinds of step keep borrows within deposits. *)
LEMMA MarginStep ==
    ASSUME PoolTypeOK, PoolTypeOK', LendingWithinDeposits,
           WidensMargin \/ \E a \in Assets : CappedAt(a)
    PROVE  LendingWithinDeposits'
<1>1. SUFFICES ASSUME UtilizationCapBps < BPS, NEW a \in Assets
               PROVE  total_borrowed'[a] <= total_deposits'[a]
  BY DEF LendingWithinDeposits
<1>2. /\ total_deposits[a] \in Nat /\ total_borrowed[a] \in Nat
      /\ total_deposits'[a] \in Nat /\ total_borrowed'[a] \in Nat
      /\ total_borrowed[a] <= total_deposits[a]
  BY <1>1, PoolAssumption DEF PoolTypeOK, LendingWithinDeposits
<1>3. CASE WidensMargin
  BY <1>2, <1>3 DEF WidensMargin
<1>4. ASSUME NEW c \in Assets, CappedAt(c)
      PROVE  total_borrowed'[a] <= total_deposits'[a]
  <2>1. PICK n \in Nat : /\ total_borrowed' = [total_borrowed EXCEPT ![c] = n]
                         /\ get_utilization_bps(n, total_deposits[c]) <= UtilizationCapBps
    BY <1>4 DEF CappedAt
  <2>2. CASE a = c
    <3>1. get_utilization_bps(n, total_deposits[a]) < BPS
      <4> DEFINE util == get_utilization_bps(n, total_deposits[a])
      <4>1. util \in Nat
        BY <1>2, UtilizationType
      <4>2. util <= UtilizationCapBps
        BY <2>1, <2>2
      <4> HIDE DEF util
      <4>3. util < BPS
        BY <1>1, <4>1, <4>2, PoolAssumption, MathAssumption
      <4>4. QED
        BY <4>3 DEF util
    <3>2. n <= total_deposits[a]
      BY <1>2, <3>1, UtilizationUnderCap
    <3>3. QED
      BY <1>4, <2>1, <2>2, <3>2 DEF CappedAt, PoolTypeOK
  <2>3. CASE a # c
    BY <1>2, <1>4, <2>1, <2>3 DEF CappedAt, PoolTypeOK
  <2>4. QED
    BY <2>2, <2>3
<1>5. QED
  BY <1>3, <1>4

(* A step on neither deposits nor borrows. *)
LEMMA IdleWidens ==
    ASSUME PoolTypeOK, UNCHANGED <<total_deposits, total_borrowed>>
    PROVE  WidensMargin
BY BookNat DEF WidensMargin

(* A step that adds to the deposits of a pool and takes from its borrows. *)
LEMMA CreditWidens ==
    ASSUME PoolTypeOK, NEW a \in Assets, NEW n \in Nat,
           total_deposits' = Bump(total_deposits, a, n),
           \/ total_borrowed' = total_borrowed
           \/ \E m \in Nat : m <= total_borrowed[a]
                             /\ total_borrowed' = [total_borrowed EXCEPT ![a] = m]
    PROVE  WidensMargin
<1>1. ASSUME NEW c \in Assets
      PROVE  total_deposits'[c] >= total_deposits[c] /\ total_borrowed'[c] <= total_borrowed[c]
  <2>1. total_deposits[c] \in Nat /\ total_borrowed[c] \in Nat
    BY BookNat
  <2>2. total_deposits'[c] >= total_deposits[c]
    BY <2>1 DEF Bump, PoolTypeOK
  <2>3. total_borrowed'[c] <= total_borrowed[c]
    BY <2>1 DEF PoolTypeOK
  <2>4. QED
    BY <2>2, <2>3
<1>2. QED
  BY <1>1 DEF WidensMargin

(* Supply side: deposits and fees widen the margin, a withdrawal takes at  *)
(* most what is unlent.                                                    *)
LEMMA SupplyKeepsMargin ==
    ASSUME PoolTypeOK, PoolTypeOK', LendingWithinDeposits, SupplyNext
    PROVE  LendingWithinDeposits'
<1>1. ASSUME NEW u \in Users, NEW a \in Assets, NEW x \in DepositAmounts,
             Deposit(u, a, x)
      PROVE  WidensMargin
  <2>1. /\ x \in Nat /\ total_deposits' = Bump(total_deposits, a, x)
        /\ total_borrowed' = total_borrowed
    BY <1>1, PoolAssumption DEF Deposit
  <2>2. QED
    BY <2>1, CreditWidens
<1>2. ASSUME NEW u \in Users, NEW a \in Assets, NEW s \in WithdrawShares,
             Withdraw(u, a, s)
      PROVE  LendingWithinDeposits'
  <2> DEFINE q == assets_for_shares(total_deposits[a], total_shares[a], s)
  <2>1. /\ q > 0 /\ q <= Available(a)
        /\ total_deposits' = Drop(total_deposits, a, q)
        /\ total_borrowed' = total_borrowed
    BY <1>2 DEF Withdraw, PaidFor
  <2>2. q \in Nat
    <3>1. s \in Nat /\ total_shares[a] > 0 /\ total_shares[a] \in Nat
      BY <1>2, BookNat, PoolAssumption DEF Withdraw
    <3>2. QED
      BY <3>1, BookNat, AssetsForSharesFair
  <2> HIDE DEF q
  <2>3. /\ total_deposits[a] \in Nat /\ total_borrowed[a] \in Nat
        /\ total_borrowed[a] <= total_deposits[a] - q
    BY <2>1, <2>2, BookNat DEF Available, saturating_sub
  <2>4. ASSUME NEW c \in Assets, UtilizationCapBps < BPS
        PROVE  total_borrowed'[c] <= total_deposits'[c]
    BY <2>1, <2>3, <2>4 DEF Drop, PoolTypeOK, LendingWithinDeposits
  <2>5. QED
    BY <2>4 DEF LendingWithinDeposits
<1>3. ASSUME NEW u \in Users, NEW a \in Assets, NEW x \in FlashAmounts,
             NEW tip \in FlashTips, FlashLoan(u, a, x, tip)
      PROVE  WidensMargin
  <2> DEFINE fee == (x * settings.flash_loan_fee_bps) \div BPS
  <2>1. fee \in Nat
    <3>1. x \in Nat /\ settings.flash_loan_fee_bps \in Nat
      BY PoolAssumption DEF PoolTypeOK, Settings
    <3>2. QED
      BY <3>1, MulNat, DivFloor, MathAssumption
  <2> HIDE DEF fee
  <2>2. /\ total_deposits' = Bump(total_deposits, a, fee)
        /\ total_borrowed' = total_borrowed
    BY <1>3 DEF FlashLoan, fee
  <2>3. QED
    BY <2>1, <2>2, CreditWidens
<1>4. ASSUME NEW a \in Assets, NEW x \in BucketAmounts,
             \/ WithdrawPriority(a, x) \/ FundRetainedYield(a, x)
             \/ TakeFromReserve(a, x) \/ ReplenishBadDebtReserve(a, x)
      PROVE  WidensMargin
  BY <1>4, IdleWidens DEF WithdrawPriority, FundRetainedYield, TakeFromReserve,
                          ReplenishBadDebtReserve
<1>5. ASSUME NEW d \in TimeSteps, Tick(d)
      PROVE  WidensMargin
  BY <1>5, IdleWidens DEF Tick, bookVars
<1>6. LendingWithinDeposits' \/ WidensMargin
  BY <1>1, <1>2, <1>3, <1>4, <1>5
     DEF SupplyNext, WithdrawReserves, AllocateReserves
<1>7. QED
  BY <1>6, MarginStep

(* Loan side: what lends checks the cap, what closes loans widens the      *)
(* margin, and the rest of restructuring leaves both totals alone.         *)
LEMMA LoanKeepsMargin ==
    ASSUME PoolTypeOK, PoolTypeOK', LendingWithinDeposits, LoanNext
    PROVE  LendingWithinDeposits'
<1>1. ASSUME NEW b \in Users, NEW a \in Assets, NEW x \in BorrowAmounts,
             NEW t, NEW c, NEW d, Borrow(b, a, x, t, c, d)
      PROVE  CappedAt(a)
  <2>1. total_borrowed[a] + x \in Nat
    BY BookNat, LoanAssumption, PoolAssumption
  <2>2. QED
    BY <1>1, <2>1 DEF Borrow, CappedAt, WithinUtilizationCap
<1>2. ASSUME NEW b \in Users, Repay(b)
      PROVE  WidensMargin
  <2> DEFINE l == loan[b]
             share == pool_share(Interest(l))
             m == total_borrowed[l.asset] - l.principal
  <2>1. l \in LoanRecord /\ l.asset \in Assets /\ l.principal \in Nat
    BY <1>2, StoredLoan, LoanFields DEF Repay
  <2>2. share \in Nat
    BY <2>1, LoanViewType, InterestSplitIsExact
  <2>3. m \in Nat /\ m <= total_borrowed[l.asset]
    BY <1>2, <2>1, BookNat DEF Repay
  <2>4. /\ total_deposits' = Bump(total_deposits, l.asset, share)
        /\ total_borrowed' = [total_borrowed EXCEPT ![l.asset] = m]
    BY <1>2 DEF Repay, Drop
  <2> HIDE DEF l, share, m
  <2>5. QED
    BY <2>1, <2>2, <2>3, <2>4, CreditWidens
<1>3. ASSUME NEW b \in Users, NEW x \in LiquidateAmounts, Liquidate(b, x)
      PROVE  WidensMargin
  <2> DEFINE l == loan[b]
             m == saturating_sub(total_borrowed[l.asset], x)
  <2>1. l \in LoanRecord /\ l.asset \in Assets /\ x \in Nat
    BY <1>3, StoredLoan, LoanFields, LoanAssumption, PoolAssumption DEF Liquidate
  <2>2. m \in Nat /\ m <= total_borrowed[l.asset]
    BY <2>1, BookNat DEF saturating_sub
  <2>3. /\ total_deposits' = Bump(total_deposits, l.asset, x)
        /\ total_borrowed' = [total_borrowed EXCEPT ![l.asset] = m]
    BY <1>3 DEF Liquidate
  <2> HIDE DEF l, m
  <2>4. QED
    BY <2>1, <2>2, <2>3, CreditWidens
<1>4. ASSUME NEW b \in Users, LiquidateBadDebt(b)
      PROVE  WidensMargin
  <2> DEFINE l == loan[b]
             m == saturating_sub(total_borrowed[l.asset], l.principal)
  <2>1. l \in LoanRecord /\ l.asset \in Assets /\ l.principal \in Nat
    BY <1>4, StoredLoan, LoanFields DEF LiquidateBadDebt
  <2>2. m \in Nat /\ m <= total_borrowed[l.asset]
    BY <2>1, BookNat DEF saturating_sub
  <2>3. /\ total_deposits' = Bump(total_deposits, l.asset, 0)
        /\ total_borrowed' = [total_borrowed EXCEPT ![l.asset] = m]
    <3>1. total_deposits' = total_deposits /\ total_deposits[l.asset] \in Nat
      BY <1>4, <2>1, BookNat DEF LiquidateBadDebt
    <3>2. QED
      BY <1>4, <2>1, <3>1 DEF LiquidateBadDebt, Bump, PoolTypeOK
  <2> HIDE DEF l, m
  <2>4. QED
    BY <2>1, <2>2, <2>3, CreditWidens
<1>5. ASSUME NEW b \in Users, NEW d, RefinanceLoan(b, d)
      PROVE  WidensMargin \/ \E a \in Assets : CappedAt(a)
  <2> DEFINE l == loan[b]
             principal == Outstanding(l) + RefinancingFee(Outstanding(l))
             n == total_borrowed[l.asset] + (principal - l.principal)
  <2>1. l \in LoanRecord /\ l.asset \in Assets /\ l.principal \in Nat
    BY <1>5, StoredLoan, LoanFields DEF RefinanceLoan
  <2>2. principal \in Nat /\ principal >= l.principal
    BY <2>1, LoanViewType
  <2>3. n \in Nat /\ (principal = l.principal => n = total_borrowed[l.asset])
    BY <2>1, <2>2, BookNat
  <2>4. /\ total_deposits' = total_deposits
        /\ total_borrowed' = [total_borrowed EXCEPT ![l.asset] = n]
        /\ principal > l.principal =>
              get_utilization_bps(n, total_deposits[l.asset]) <= UtilizationCapBps
    BY <1>5 DEF RefinanceLoan, AdditionalPrincipal, WithinUtilizationCap
  <2> HIDE DEF l, principal, n
  <2>5. CASE principal > l.principal
    BY <2>1, <2>3, <2>4, <2>5 DEF CappedAt
  <2>6. CASE principal = l.principal
    <3>1. total_borrowed' = total_borrowed
      BY <2>1, <2>3, <2>4, <2>6 DEF PoolTypeOK
    <3>2. QED
      BY <2>4, <3>1, IdleWidens
  <2>7. QED
    BY <2>1, <2>2, <2>5, <2>6
<1>6. ASSUME NEW b \in Users, NEW ids, NEW d, ConsolidateLoans(b, ids, d)
      PROVE  WidensMargin
  BY <1>6, IdleWidens DEF ConsolidateLoans
<1>7. ASSUME NEW b \in Users, NEW parts, NEW d, SplitLoan(b, parts, d)
      PROVE  WidensMargin
  BY <1>7, IdleWidens DEF SplitLoan
<1>8. WidensMargin \/ \E a \in Assets : CappedAt(a)
  BY <1>1, <1>2, <1>3, <1>4, <1>5, <1>6, <1>7 DEF LoanNext
<1>9. QED
  BY <1>8, MarginStep

(* With a cap below 100% no sequence of borrowing, refinancing, withdrawal *)
(* and liquidation makes a pool lend more than its deposits.               *)
THEOREM PoolsLendWithinDeposits == Spec => []LendingWithinDeposits
<1> DEFINE Inv == PoolTypeOK /\ LendingWithinDeposits
<1>1. PoolInit => Inv
  BY InitType DEF PoolInit, LendingWithinDeposits
<1>2. Inv /\ [Next]_vars => Inv'
  <2>1. SUFFICES ASSUME Inv, [Next]_vars PROVE LendingWithinDeposits'
    BY NextKeepsType
  <2>2. PoolTypeOK'
    BY <2>1, NextKeepsType
  <2>3. CASE UNCHANGED <<total_deposits, total_borrowed>>
    BY <2>1, <2>2, <2>3, IdleWidens, MarginStep
  <2>4. CASE SupplyNext
    BY <2>1, <2>2, <2>4, SupplyKeepsMargin
  <2>5. CASE LoanNext
    BY <2>1, <2>2, <2>5, LoanKeepsMargin
  <2>6. CASE SettingNext
    <3>1. SettingStep
      BY <2>6 DEF SettingNext, AddAssetPool, PauseAssetPool, SetGracePeriod,
         SetLateFeeRate, SetReserveFactor, Pause, Unpause, WhitelistCollateral,
         RemoveCollateral, AddReserve, WhitelistFlashLoanReceiver,
         RemoveFlashLoanReceiver, SetFlashLoanFee, SetRateModel, SetNftToken, Set
    <3>2. QED
      BY <2>3, <3>1 DEF SettingStep, bookVars
  <2>7. CASE AccrualNext
    BY <2>3, <2>7 DEF AccrualNext, AccrueInterestWithReserve
  <2>8. CASE UNCHANGED vars
    BY <2>3, <2>8 DEF vars, bookVars
  <2>9. QED
    BY <2>1, <2>4, <2>5, <2>6, <2>7, <2>8 DEF Next
<1>3. Inv => LendingWithinDeposits
  OBVIOUS
<1>4. QED
  BY <1>1, <1>2, <1>3, PTL DEF Spec

-----------------------------------------------------------------------------
(* Sums over the loan book *)

\* What each stored record weighs, and the weight of a whole book.
Weigh(w, book) == [i \in LoanIds |-> IF book[i] = NoLoan THEN 0 ELSE w[book[i]]]
BookTotal(w, book) == SumOver(Weigh(w, book), LoanIds)

CollateralIn(t) == [l \in LoanRecord |->
                      IF l.collateral_token = t THEN l.collateral_amount ELSE 0]
PrincipalIn(a) == [l \in LoanRecord |-> IF l.asset = a THEN l.principal ELSE 0]

LEMMA WeightType ==
    /\ \A t : CollateralIn(t) \in [LoanRecord -> Nat]
    /\ \A a : PrincipalIn(a) \in [LoanRecord -> Nat]
BY LoanFields DEF CollateralIn, PrincipalIn

LEMMA WeighType ==
    ASSUME PoolTypeOK, NEW w \in [LoanRecord -> Nat]
    PROVE  /\ IsFiniteSet(LoanIds)
           /\ \A i \in LoanIds : Weigh(w, loan_by_id)[i] \in Nat
           /\ BookTotal(w, loan_by_id) \in Nat
           /\ \A i \in LoanIds : loan_by_id[i] # NoLoan =>
                  w[loan_by_id[i]] <= BookTotal(w, loan_by_id)
<1>1. IsFiniteSet(LoanIds)
  BY FS_Interval, PoolAssumption DEF LoanIds
<1>2. \A i \in LoanIds : Weigh(w, loan_by_id)[i] \in Nat
  BY StoredLoan DEF Weigh
<1>3. /\ BookTotal(w, loan_by_id) \in Nat
      /\ \A i \in LoanIds : Weigh(w, loan_by_id)[i] <= BookTotal(w, loan_by_id)
  BY <1>1, <1>2, SumOverNat DEF BookTotal
<1>4. \A i \in LoanIds : loan_by_id[i] # NoLoan =>
         Weigh(w, loan_by_id)[i] = w[loan_by_id[i]]
  BY DEF Weigh
<1>5. QED
  BY <1>1, <1>2, <1>3, <1>4

(* The sums of the specification are totals of the book. *)
LEMMA LockedIsTotal ==
    ASSUME PoolTypeOK, NEW t
    PROVE  CollateralLocked(t) = BookTotal(CollateralIn(t), loan_by_id)
<1> DEFINE f == [i \in LoanIds |->
                   IF i \in OpenIds /\ loan_by_id[i].collateral_token = t
                   THEN loan_by_id[i].collateral_amount ELSE 0]
<1>1. \A i \in LoanIds : f[i] = Weigh(CollateralIn(t), loan_by_id)[i]
  BY StoredLoan DEF OpenIds, Weigh, CollateralIn
<1>2. CollateralLocked(t) = SumOver(f, LoanIds)
  BY SumIsSumOver DEF CollateralLocked
<1> HIDE DEF f
<1>3. QED
  BY <1>1, <1>2, SumOverSame DEF BookTotal

LEMMA PrincipalIsTotal ==
    ASSUME PoolTypeOK, NEW a
    PROVE  PrincipalOnLoan(a) = BookTotal(PrincipalIn(a), loan_by_id)
<1> DEFINE f == [i \in LoanIds |->
                   IF i \in OpenIds /\ loan_by_id[i].asset = a
                   THEN loan_by_id[i].principal ELSE 0]
<1>1. \A i \in LoanIds : f[i] = Weigh(PrincipalIn(a), loan_by_id)[i]
  BY StoredLoan DEF OpenIds, Weigh, PrincipalIn
<1>2. PrincipalOnLoan(a) = SumOver(f, LoanIds)
  BY SumIsSumOver DEF PrincipalOnLoan
<1> HIDE DEF f
<1>3. QED
  BY <1>1, <1>2, SumOverSame DEF BookTotal

(* Replacing loans takes the weight of the closed records out of a total   *)
(* and puts that of the opened ones in.                                    *)
LEMMA ReplaceTotals ==
    ASSUME BookInv, PoolTypeOK', NEW b \in Users, NEW closed, NEW n \in Nat,
           NEW opened, NEW primary, closed \subseteq user_loans[b],
           ReplaceLoans(b, closed, opened, n, primary),
           NEW w \in [LoanRecord -> Nat]
    PROVE  LET out == SumOver(Weigh(w, loan_by_id), closed)
               in  == SumOver(Weigh(w, loan_by_id'), FreshIds(n))
           IN  /\ out \in Int /\ in \in Int
               /\ BookTotal(w, loan_by_id') = BookTotal(w, loan_by_id) - out + in
<1> DEFINE f == Weigh(w, loan_by_id)
           g == Weigh(w, loan_by_id')
<1>1. /\ FreshIds(n) \subseteq LoanIds
      /\ \A i \in FreshIds(n) : i >= next_loan_id /\ i \in Nat
  BY FreshIdsType DEF ReplaceLoans, BookInv
<1>2. closed \subseteq LoanIds /\ \A i \in closed : loan_by_id[i] # NoLoan
  BY BookFacts
<1>3. \A i \in FreshIds(n) : loan_by_id[i] = NoLoan
  BY <1>1, BookFacts
<1>4. closed \cap FreshIds(n) = {}
  BY <1>2, <1>3
<1>5. \A i \in closed : loan_by_id'[i] = NoLoan
  BY <1>2, <1>4 DEF ReplaceLoans
<1>6. \A i \in LoanIds : i \notin closed /\ i \notin FreshIds(n) =>
          loan_by_id'[i] = loan_by_id[i]
  BY DEF ReplaceLoans
<1>7. \A i \in LoanIds : f[i] \in Int /\ g[i] \in Int
  <2>1. \A i \in LoanIds : loan_by_id'[i] # NoLoan => loan_by_id'[i] \in LoanRecord
    BY DEF PoolTypeOK
  <2>2. \A i \in LoanIds : loan_by_id[i] # NoLoan => loan_by_id[i] \in LoanRecord
    BY StoredLoan DEF BookInv
  <2>3. QED
    BY <2>1, <2>2 DEF Weigh
<1>8. \A i \in closed : g[i] = 0
  BY <1>2, <1>5 DEF Weigh
<1>9. \A i \in FreshIds(n) : f[i] = 0
  BY <1>1, <1>3 DEF Weigh
<1>10. \A i \in LoanIds : i \notin closed /\ i \notin FreshIds(n) => g[i] = f[i]
  BY <1>6 DEF Weigh
<1>11. IsFiniteSet(LoanIds)
  BY WeighType DEF BookInv
<1>12. closed \subseteq LoanIds /\ FreshIds(n) \subseteq LoanIds
  BY <1>1, <1>2
<1> HIDE DEF f, g
<1>13. SumOver(g, LoanIds) =
             SumOver(f, LoanIds) - SumOver(f, closed) + SumOver(g, FreshIds(n))
  BY <1>4, <1>7, <1>8, <1>9, <1>10, <1>11, <1>12, SumOverReplace
<1>14. SumOver(f, closed) \in Int /\ SumOver(g, FreshIds(n)) \in Int
  BY <1>7, <1>11, <1>12, SumOverFacts, FS_Subset
<1>15. QED
  BY <1>13, <1>14 DEF BookTotal, f, g

(* What leaves a total when the primary loan is closed, and what enters it *)
(* when one loan is opened.                                                *)
LEMMA ClosedWeight ==
    ASSUME BookInv, NEW b \in Users, loan[b] # NoLoan,
           NEW w \in [LoanRecord -> Nat]
    PROVE  SumOver(Weigh(w, loan_by_id), {loan[b].loan_id}) = w[loan[b]]
<1> DEFINE f == Weigh(w, loan_by_id)
           id == loan[b].loan_id
<1>1. id \in LoanIds /\ loan_by_id[id] = loan[b] /\ loan[b] \in LoanRecord
  BY BookFacts
<1>2. f[id] = w[loan[b]] /\ f[id] \in Int
  BY <1>1 DEF Weigh
<1> HIDE DEF f, id
<1>3. SumOver(f, {id}) = f[id]
  BY <1>2, SumOverSingle
<1>4. QED
  BY <1>2, <1>3 DEF f, id

LEMMA OpenedIsRecord ==
    ASSUME BookInv, NEW b \in Users, NEW closed, NEW opened,
           ReplaceLoans(b, closed, [i \in FreshIds(1) |-> opened], 1, opened),
           \A i \in FreshIds(1) : loan_by_id'[i] \in LoanRecord
    PROVE  opened \in LoanRecord
<1>1. FreshIds(1) = {next_loan_id} /\ next_loan_id \in LoanIds
  BY BookFacts, FreshIdsType DEF FreshIds, ReplaceLoans, LoanIds
<1>2. loan_by_id'[next_loan_id] = opened
  BY <1>1 DEF ReplaceLoans
<1>3. QED
  BY <1>1, <1>2

LEMMA OpenedWeight ==
    ASSUME BookInv, NEW b \in Users, NEW closed, NEW opened \in LoanRecord,
           ReplaceLoans(b, closed, [i \in FreshIds(1) |-> opened], 1, opened),
           NEW w \in [LoanRecord -> Nat]
    PROVE  SumOver(Weigh(w, loan_by_id'), FreshIds(1)) = w[opened]
<1> DEFINE g == Weigh(w, loan_by_id')
<1>1. FreshIds(1) = {next_loan_id} /\ next_loan_id \in LoanIds
  BY BookFacts, FreshIdsType DEF FreshIds, ReplaceLoans, LoanIds
<1>2. loan_by_id'[next_loan_id] = opened /\ opened # NoLoan
  BY <1>1, BookFacts DEF ReplaceLoans
<1>3. g[next_loan_id] = w[opened] /\ g[next_loan_id] \in Int
  BY <1>1, <1>2 DEF Weigh
<1> HIDE DEF g
<1>4. SumOver(g, {next_loan_id}) = g[next_loan_id]
  BY <1>3, SumOverSingle
<1>5. QED
  BY <1>1, <1>3, <1>4 DEF g

LEMMA CloseTotals ==
    ASSUME BookInv, PoolTypeOK', NEW b \in Users, loan[b] # NoLoan,
           ReplaceLoans(b, {loan[b].loan_id}, <<>>, 0, NoLoan),
           NEW w \in [LoanRecord -> Nat]
    PROVE  BookTotal(w, loan_by_id') = BookTotal(w, loan_by_id) - w[loan[b]]
<1>1. {loan[b].loan_id} \subseteq user_loans[b]
  BY BookFacts
<1>2. FreshIds(0) = {}
  BY BookFacts DEF FreshIds
<1> DEFINE in == SumOver(Weigh(w, loan_by_id'), FreshIds(0))
<1>3. in = 0
  BY <1>2, FS_EmptySet, SumOverZero
<1>4. BookTotal(w, loan_by_id') =
         BookTotal(w, loan_by_id) - SumOver(Weigh(w, loan_by_id), {loan[b].loan_id}) + in
  BY <1>1, ReplaceTotals
<1> HIDE DEF in
<1>5. BookTotal(w, loan_by_id) \in Nat /\ w[loan[b]] \in Nat
  BY WeighType, BookFacts DEF BookInv
<1>6. QED
  BY <1>3, <1>4, <1>5, ClosedWeight

LEMMA SwapTotals ==
    ASSUME BookInv, PoolTypeOK', NEW b \in Users, NEW closed,
           closed \subseteq user_loans[b], NEW opened \in LoanRecord,
           ReplaceLoans(b, closed, [i \in FreshIds(1) |-> opened], 1, opened),
           NEW w \in [LoanRecord -> Nat]
    PROVE  /\ SumOver(Weigh(w, loan_by_id), closed) \in Int
           /\ BookTotal(w, loan_by_id') =
                BookTotal(w, loan_by_id) - SumOver(Weigh(w, loan_by_id), closed) + w[opened]
<1>1. SumOver(Weigh(w, loan_by_id'), FreshIds(1)) = w[opened]
  BY OpenedWeight
<1>2. SumOver(Weigh(w, loan_by_id), closed) \in Int
  BY ReplaceTotals
<1>3. BookTotal(w, loan_by_id') =
         BookTotal(w, loan_by_id) - SumOver(Weigh(w, loan_by_id), closed)
            + SumOver(Weigh(w, loan_by_id'), FreshIds(1))
  BY ReplaceTotals
<1>4. QED
  BY <1>1, <1>2, <1>3

-----------------------------------------------------------------------------
(* Solvency: what the contract holds of a token beyond its books *)

Books(t) == IF t \in Assets
            THEN total_deposits[t] - total_borrowed[t] + retained_yield[t] + bad_debt_reserve[t]
            ELSE 0

(* The ledgers as functions of integers, entry by entry. *)
LEMMA LedgersType ==
    ASSUME PoolTypeOK
    PROVE  /\ total_deposits \in [Assets -> Int] /\ total_borrowed \in [Assets -> Int]
           /\ retained_yield \in [Assets -> Int] /\ bad_debt_reserve \in [Assets -> Int]
           /\ held \in [Tokens -> Int]
BY PoolAssumption DEF PoolTypeOK

ClaimsSplit ==
    PoolTypeOK => \A t \in Tokens :
        /\ Claims(t) = BookTotal(CollateralIn(t), loan_by_id) + Books(t)
        /\ BookTotal(CollateralIn(t), loan_by_id) \in Nat
        /\ Books(t) \in Int /\ held[t] \in Nat

LEMMA ClaimsAreSplit == ClaimsSplit
<1>1. SUFFICES ASSUME PoolTypeOK, NEW t \in Tokens
               PROVE  /\ Claims(t) = BookTotal(CollateralIn(t), loan_by_id) + Books(t)
                      /\ BookTotal(CollateralIn(t), loan_by_id) \in Nat
                      /\ Books(t) \in Int /\ held[t] \in Nat
  BY DEF ClaimsSplit
<1>2. BookTotal(CollateralIn(t), loan_by_id) \in Nat
  BY <1>1, WeightType, WeighType
<1>3. Books(t) \in Int /\ held[t] \in Nat
  BY <1>1, PoolAssumption DEF Books, PoolTypeOK
<1>4. CollateralLocked(t) = BookTotal(CollateralIn(t), loan_by_id)
  BY <1>1, LockedIsTotal
<1>5. QED
  BY <1>2, <1>3, <1>4 DEF Claims, Books

LEMMA ClaimsAreSplitNext == ClaimsSplit'
BY ClaimsAreSplit, PTL

\* What BackingNeverEroded asks of a step.
CoverKept == \A t \in Tokens : (held[t] - Claims(t))' >= held[t] - Claims(t)

\* A step that adds at least as many tokens as it adds claims.
LEMMA CoverStep ==
    ASSUME PoolTypeOK, PoolTypeOK',
           \A t \in Tokens :
              held'[t] - held[t] >=
                 BookTotal(CollateralIn(t), loan_by_id')
                    - BookTotal(CollateralIn(t), loan_by_id) + Books(t)' - Books(t)
    PROVE  CoverKept
<1>1. ASSUME NEW t \in Tokens
      PROVE  (held[t] - Claims(t))' >= held[t] - Claims(t)
  <2> DEFINE c  == BookTotal(CollateralIn(t), loan_by_id)
             c1 == BookTotal(CollateralIn(t), loan_by_id')
  <2>1. /\ Claims(t) = c + Books(t) /\ c \in Nat
        /\ Books(t) \in Int /\ held[t] \in Nat
    BY ClaimsAreSplit DEF ClaimsSplit
  <2>2. /\ Claims(t)' = c1 + Books(t)' /\ c1 \in Nat
        /\ Books(t)' \in Int /\ held'[t] \in Nat
    BY ClaimsAreSplitNext DEF ClaimsSplit, CollateralIn
  <2>3. held'[t] - held[t] >= c1 - c + Books(t)' - Books(t)
    OBVIOUS
  <2> HIDE DEF c, c1
  <2>4. QED
    BY <2>1, <2>2, <2>3
<1>2. QED
  BY <1>1 DEF CoverKept

\* A step on no loan record.
LEMMA SupplyCoverStep ==
    ASSUME PoolTypeOK, PoolTypeOK', loan_by_id' = loan_by_id,
           \A t \in Tokens : held'[t] - held[t] >= Books(t)' - Books(t)
    PROVE  CoverKept
<1>1. ASSUME NEW t \in Tokens
      PROVE  held'[t] - held[t] >=
                 BookTotal(CollateralIn(t), loan_by_id')
                    - BookTotal(CollateralIn(t), loan_by_id) + Books(t)' - Books(t)
  <2>1. /\ BookTotal(CollateralIn(t), loan_by_id') = BookTotal(CollateralIn(t), loan_by_id)
        /\ BookTotal(CollateralIn(t), loan_by_id) \in Nat
        /\ Books(t) \in Int
    BY ClaimsAreSplit DEF ClaimsSplit
  <2>2. Books(t)' \in Int
    BY ClaimsAreSplitNext DEF ClaimsSplit
  <2>3. held'[t] \in Nat /\ held[t] \in Nat
    BY DEF PoolTypeOK
  <2>4. QED
    BY <2>1, <2>2, <2>3
<1>2. QED
  BY <1>1, CoverStep

(* Deposits, withdrawals, flash loans and the buckets move tokens and      *)
(* books by the same amounts.                                              *)
LEMMA SupplyKeepsCover ==
    ASSUME PoolTypeOK, SupplyNext
    PROVE  CoverKept
<1>1. PoolTypeOK'
  BY SupplyKeepsType
<1>2. ASSUME NEW u \in Users, NEW a \in Assets, NEW x \in DepositAmounts,
             Deposit(u, a, x)
      PROVE  CoverKept
  <2>1. \A t \in Tokens : held'[t] - held[t] >= Books(t)' - Books(t)
    BY <1>2, PoolAssumption DEF Deposit, Books, Bump, PoolTypeOK
  <2>2. loan_by_id' = loan_by_id
    BY <1>2 DEF Deposit, loanVars
  <2>3. QED
    BY <1>1, <2>1, <2>2, SupplyCoverStep
<1>3. ASSUME NEW u \in Users, NEW a \in Assets, NEW s \in WithdrawShares,
             Withdraw(u, a, s)
      PROVE  CoverKept
  <2> DEFINE q == PaidFor(a, s)
  <2>1. q \in Nat
    <3>1. s \in Nat /\ total_shares[a] > 0
      BY <1>3, BookNat, PoolAssumption DEF Withdraw
    <3>2. QED
      BY <3>1, BookNat, AssetsForSharesFair DEF PaidFor
  <2>2. /\ held' = Drop(held, a, q) /\ total_deposits' = Drop(total_deposits, a, q)
        /\ UNCHANGED <<total_borrowed, retained_yield, bad_debt_reserve, loan_by_id>>
    BY <1>3 DEF Withdraw, loanVars
  <2> HIDE DEF q
  <2>3. \A t \in Tokens : held'[t] - held[t] >= Books(t)' - Books(t)
    BY <2>1, <2>2, PoolAssumption DEF Books, Drop, PoolTypeOK
  <2>4. QED
    BY <1>1, <2>2, <2>3, SupplyCoverStep
<1>4. ASSUME NEW u \in Users, NEW a \in Assets, NEW x \in FlashAmounts,
             NEW tip \in FlashTips, FlashLoan(u, a, x, tip)
      PROVE  CoverKept
  <2> DEFINE fee == (x * settings.flash_loan_fee_bps) \div BPS
  <2>1. fee \in Nat /\ tip \in Nat
    <3>1. x \in Nat /\ tip \in Nat /\ settings.flash_loan_fee_bps \in Nat
      BY PoolAssumption DEF PoolTypeOK, Settings
    <3>2. QED
      BY <3>1, MulNat, DivFloor, MathAssumption
  <2>2. /\ held' = Bump(held, a, fee + tip)
        /\ total_deposits' = Bump(total_deposits, a, fee)
        /\ UNCHANGED <<total_borrowed, retained_yield, bad_debt_reserve, loan_by_id>>
    BY <1>4 DEF FlashLoan, loanVars
  <2> HIDE DEF fee
  <2>3. \A t \in Tokens : held'[t] - held[t] >= Books(t)' - Books(t)
    BY <2>1, <2>2, PoolAssumption DEF Books, Bump, PoolTypeOK
  <2>4. QED
    BY <1>1, <2>2, <2>3, SupplyCoverStep
<1>5. ASSUME NEW a \in Assets, NEW x \in BucketAmounts,
             \/ WithdrawPriority(a, x) \/ FundRetainedYield(a, x)
             \/ TakeFromReserve(a, x) \/ ReplenishBadDebtReserve(a, x)
      PROVE  CoverKept
  <2>1. CASE WithdrawPriority(a, x)
    <3>1. \A t \in Tokens : held'[t] - held[t] >= Books(t)' - Books(t)
      BY <2>1, PoolAssumption DEF WithdrawPriority, Books, Drop, PoolTypeOK
    <3>2. QED
      BY <1>1, <2>1, <3>1, SupplyCoverStep DEF WithdrawPriority, loanVars
  <2>2. CASE FundRetainedYield(a, x)
    <3>1. \A t \in Tokens : held'[t] - held[t] >= Books(t)' - Books(t)
      BY <2>2, PoolAssumption DEF FundRetainedYield, Books, Bump, PoolTypeOK
    <3>2. QED
      BY <1>1, <2>2, <3>1, SupplyCoverStep DEF FundRetainedYield, loanVars
  <2>3. CASE TakeFromReserve(a, x)
    <3>1. \A t \in Tokens : held'[t] - held[t] >= Books(t)' - Books(t)
      BY <2>3, PoolAssumption DEF TakeFromReserve, Books, Drop, PoolTypeOK
    <3>2. QED
      BY <1>1, <2>3, <3>1, SupplyCoverStep DEF TakeFromReserve, loanVars
  <2>4. CASE ReplenishBadDebtReserve(a, x)
    <3>1. \A t \in Tokens : held'[t] - held[t] >= Books(t)' - Books(t)
      BY <2>4, PoolAssumption DEF ReplenishBadDebtReserve, Books, Bump, lesser, PoolTypeOK
    <3>2. QED
      BY <1>1, <2>4, <3>1, SupplyCoverStep DEF ReplenishBadDebtReserve, loanVars
  <2>5. QED
    BY <1>5, <2>1, <2>2, <2>3, <2>4
<1>6. ASSUME NEW d \in TimeSteps, Tick(d)
      PROVE  CoverKept
  <2>1. UNCHANGED <<bookVars, held, loan_by_id>>
    BY <1>6 DEF Tick, loanVars
  <2>2. \A t \in Tokens : held'[t] - held[t] >= Books(t)' - Books(t)
    BY <2>1, PoolAssumption DEF Books, bookVars, PoolTypeOK
  <2>3. QED
    BY <1>1, <2>1, <2>2, SupplyCoverStep
<1>7. QED
  BY <1>2, <1>3, <1>4, <1>5, <1>6 DEF SupplyNext, WithdrawReserves, AllocateReserves

\* borrow takes the collateral in and lends what it books as borrowed.
LEMMA BorrowKeepsCover ==
    ASSUME BookInv, NEW b \in Users, NEW a \in Assets, NEW x \in BorrowAmounts,
           NEW c \in CollateralTokens, NEW m \in CollateralAmounts,
           NEW d \in Durations, Borrow(b, a, x, c, m, d)
    PROVE  CoverKept
<1> DEFINE opened == NewLoan(next_loan_id, b, a, x, m, c, d,
                             CurrentRate(a, total_borrowed[a] + x))
           custody == Bump(held, c, m)
<1>1. PoolTypeOK /\ PoolTypeOK' /\ x \in Nat /\ m \in Nat /\ c \in Tokens /\ a \in Tokens
  BY BorrowKeepsType, PoolAssumption, LoanAssumption DEF BookInv
<1>2. /\ ReplaceLoans(b, {}, [i \in FreshIds(1) |-> opened], 1, opened)
      /\ held' = Drop(custody, a, x)
      /\ total_borrowed' = [total_borrowed EXCEPT ![a] = total_borrowed[a] + x]
      /\ UNCHANGED <<total_deposits, retained_yield, bad_debt_reserve>>
  BY DEF Borrow
<1>3. opened.collateral_token = c /\ opened.collateral_amount = m
  BY DEF NewLoan
<1> HIDE DEF opened
<1>4. opened \in LoanRecord
  BY <1>1, <1>2, BorrowKeepsType, OpenedIsRecord DEF BookInv
<1>5. ASSUME NEW t \in Tokens
      PROVE  held'[t] - held[t] >=
                 BookTotal(CollateralIn(t), loan_by_id')
                    - BookTotal(CollateralIn(t), loan_by_id) + Books(t)' - Books(t)
  <2> DEFINE w  == CollateralIn(t)
             c0 == BookTotal(w, loan_by_id)
             c1 == BookTotal(w, loan_by_id')
             out == SumOver(Weigh(w, loan_by_id), {})
  <2>1. w \in [LoanRecord -> Nat] /\ w[opened] = IF t = c THEN m ELSE 0
    BY <1>3, <1>4, WeightType DEF CollateralIn
  <2> HIDE DEF w
  <2>2. c1 = c0 - out + w[opened]
    BY <1>1, <1>2, <1>4, <2>1, SwapTotals
  <2>3. out = 0
    BY FS_EmptySet, SumOverZero
  <2>4. c0 \in Nat
    BY <1>1, <2>1, WeighType
  <2>5. held'[t] = held[t] + (IF t = c THEN m ELSE 0) - (IF t = a THEN x ELSE 0)
        /\ held[t] \in Int
    <3>1. held \in [Tokens -> Int] /\ x \in Int /\ m \in Int
      BY <1>1, LedgersType
    <3> HIDE DEF custody
    <3>2. /\ custody \in [Tokens -> Int]
          /\ custody[t] = IF t = c THEN held[t] + m ELSE held[t]
      BY <1>1, <3>1 DEF custody, Bump
    <3>3. held'[t] = IF t = a THEN custody[t] - x ELSE custody[t]
      BY <1>1, <1>2, <3>1, <3>2 DEF Drop
    <3>4. held[t] \in Int
      BY <3>1
    <3>5. QED
      BY <3>1, <3>2, <3>3, <3>4
  <2>6. Books(t)' = Books(t) - (IF t = a THEN x ELSE 0) /\ Books(t) \in Int
    BY <1>1, <1>2, PoolAssumption DEF Books, PoolTypeOK
  <2> HIDE DEF c0, c1, out
  <2>7. held'[t] - held[t] >= c1 - c0 + Books(t)' - Books(t)
    BY <1>1, <2>1, <2>2, <2>3, <2>4, <2>5, <2>6
  <2>8. QED
    BY <2>7 DEF c0, c1, w
<1>6. QED
  BY <1>1, <1>5, CoverStep

\* repay gives the collateral back and books all it is paid.
LEMMA RepayKeepsCover ==
    ASSUME BookInv, NEW b \in Users, Repay(b)
    PROVE  CoverKept
<1> DEFINE l == loan[b]
           interest == Interest(l)
           late == LateFee(l)
           custody == Bump(held, l.asset, RepaymentAmount(l))
<1>1. PoolTypeOK /\ PoolTypeOK' /\ l # NoLoan /\ l \in LoanRecord
  BY RepayKeepsType, StoredLoan DEF BookInv, Repay
<1>2. /\ l.asset \in Assets /\ l.asset \in Tokens /\ l.collateral_token \in Tokens
      /\ l.principal \in Nat /\ l.collateral_amount \in Nat
  BY <1>1, LoanFields
<1>3. interest \in Nat /\ late \in Nat /\ RepaymentAmount(l) = l.principal + interest + late
  BY <1>1, LoanViewType DEF RepaymentAmount, Outstanding
<1>4. /\ pool_share(interest) \in Nat /\ retained_share(interest) \in Nat
      /\ reserve_share(interest) \in Nat
      /\ pool_share(interest) + retained_share(interest) + reserve_share(interest) = interest
  BY <1>3, InterestSplitIsExact
<1> DEFINE p == pool_share(interest)
           r == retained_share(interest)
           v == reserve_share(interest)
<1>5. /\ held' = Drop(custody, l.collateral_token, l.collateral_amount)
      /\ total_borrowed' = Drop(total_borrowed, l.asset, l.principal)
      /\ total_deposits' = Bump(total_deposits, l.asset, p)
      /\ retained_yield' = Bump(retained_yield, l.asset, r + late)
      /\ bad_debt_reserve' = Bump(bad_debt_reserve, l.asset, v)
      /\ ReplaceLoans(b, {l.loan_id}, <<>>, 0, NoLoan)
  BY DEF Repay
<1> HIDE DEF interest, late, p, r, v
<1>6. ASSUME NEW t \in Tokens
      PROVE  held'[t] - held[t] >=
                 BookTotal(CollateralIn(t), loan_by_id')
                    - BookTotal(CollateralIn(t), loan_by_id) + Books(t)' - Books(t)
  <2> DEFINE w  == CollateralIn(t)
             c0 == BookTotal(w, loan_by_id)
             c1 == BookTotal(w, loan_by_id')
             back == IF t = l.collateral_token THEN l.collateral_amount ELSE 0
             paid == IF t = l.asset THEN RepaymentAmount(l) ELSE 0
  <2>1. w \in [LoanRecord -> Nat] /\ w[l] = back
    BY <1>1, WeightType DEF CollateralIn
  <2> HIDE DEF w
  <2>2. c1 = c0 - w[l]
    BY <1>1, <1>5, <2>1, CloseTotals
  <2>3. c0 \in Nat
    BY <1>1, <2>1, WeighType
  <2>4. held'[t] = held[t] + paid - back /\ held[t] \in Int /\ paid \in Int /\ back \in Int
    <3> DEFINE rep == RepaymentAmount(l)
    <3>1. held \in [Tokens -> Int] /\ rep \in Int /\ l.collateral_amount \in Int
      BY <1>1, <1>2, <1>3, LedgersType
    <3> HIDE DEF custody, rep
    <3>2. /\ custody \in [Tokens -> Int]
          /\ custody[t] = IF t = l.asset THEN held[t] + rep ELSE held[t]
      BY <1>2, <3>1 DEF custody, rep, Bump
    <3>3. held'[t] = IF t = l.collateral_token THEN custody[t] - l.collateral_amount
                     ELSE custody[t]
      BY <1>2, <1>5, <3>1, <3>2 DEF Drop
    <3>4. held[t] \in Int /\ paid = IF t = l.asset THEN rep ELSE 0
      BY <3>1 DEF rep
    <3> HIDE DEF l, paid
    <3>5. QED
      BY <3>1, <3>2, <3>3, <3>4
  <2>5. Books(t)' = Books(t) + paid /\ Books(t) \in Int
    <3>1. CASE t = l.asset
      <4>1. /\ p \in Int /\ r + late \in Int /\ v \in Int /\ l.principal \in Int
            /\ r \in Int /\ late \in Int
            /\ RepaymentAmount(l) = l.principal + (p + r + v) + late
        BY <1>2, <1>3, <1>4 DEF p, r, v
      <4>2. total_deposits'[t] = total_deposits[t] + p /\ total_deposits[t] \in Int
        BY <1>1, <1>2, <1>5, <3>1, <4>1, LedgersType DEF Bump
      <4>3. retained_yield'[t] = retained_yield[t] + (r + late) /\ retained_yield[t] \in Int
        BY <1>1, <1>2, <1>5, <3>1, <4>1, LedgersType DEF Bump
      <4>4. bad_debt_reserve'[t] = bad_debt_reserve[t] + v /\ bad_debt_reserve[t] \in Int
        BY <1>1, <1>2, <1>5, <3>1, <4>1, LedgersType DEF Bump
      <4>5. total_borrowed'[t] = total_borrowed[t] - l.principal /\ total_borrowed[t] \in Int
        BY <1>1, <1>2, <1>5, <3>1, <4>1, LedgersType DEF Drop
      <4>6. t \in Assets /\ paid = l.principal + (p + r + v) + late
        BY <1>2, <3>1, <4>1
      <4>7. /\ Books(t) = total_deposits[t] - total_borrowed[t] + retained_yield[t]
                          + bad_debt_reserve[t]
            /\ Books(t)' = total_deposits'[t] - total_borrowed'[t] + retained_yield'[t]
                           + bad_debt_reserve'[t]
        BY <4>6 DEF Books
      <4>8. /\ total_deposits'[t] \in Int /\ retained_yield'[t] \in Int
            /\ bad_debt_reserve'[t] \in Int /\ total_borrowed'[t] \in Int
        BY <4>1, <4>2, <4>3, <4>4, <4>5
      <4> HIDE DEF paid, l
      <4>9. QED
        BY <4>1, <4>2, <4>3, <4>4, <4>5, <4>6, <4>7, <4>8
    <3>2. CASE t # l.asset
      <4>1. /\ t \in Assets => /\ total_deposits'[t] = total_deposits[t]
                               /\ total_borrowed'[t] = total_borrowed[t]
                               /\ retained_yield'[t] = retained_yield[t]
                               /\ bad_debt_reserve'[t] = bad_debt_reserve[t]
            /\ paid = 0
        BY <1>1, <1>5, <3>2, LedgersType DEF Bump, Drop
      <4>2. Books(t)' = Books(t) /\ Books(t) \in Int
        BY <1>1, <4>1, LedgersType DEF Books
      <4>3. QED
        BY <4>1, <4>2
    <3>3. QED
      BY <3>1, <3>2
  <2> HIDE DEF c0, c1, back, paid
  <2>6. held'[t] - held[t] >= c1 - c0 + Books(t)' - Books(t)
    BY <2>1, <2>2, <2>3, <2>4, <2>5
  <2>7. QED
    BY <2>6 DEF c0, c1, w
<1>7. QED
  BY <1>1, <1>6, CoverStep

(* Restructuring pays a fee into the retained yield; the collateral of the *)
(* new loans is at most that of the old.                                   *)
LEMMA FeeKeepsCover ==
    ASSUME PoolTypeOK, PoolTypeOK', NEW a \in Assets, NEW fee \in Nat,
           held' = Bump(held, a, fee), retained_yield' = Bump(retained_yield, a, fee),
           UNCHANGED <<total_deposits, bad_debt_reserve>>,
           \A c \in Assets : total_borrowed'[c] >= total_borrowed[c],
           \A t \in Tokens : BookTotal(CollateralIn(t), loan_by_id')
                                <= BookTotal(CollateralIn(t), loan_by_id)
    PROVE  CoverKept
<1>1. ASSUME NEW t \in Tokens
      PROVE  held'[t] - held[t] >=
                 BookTotal(CollateralIn(t), loan_by_id')
                    - BookTotal(CollateralIn(t), loan_by_id) + Books(t)' - Books(t)
  <2> DEFINE c0 == BookTotal(CollateralIn(t), loan_by_id)
             c1 == BookTotal(CollateralIn(t), loan_by_id')
             paid == IF t = a THEN fee ELSE 0
  <2>1. c0 \in Nat /\ Books(t) \in Int /\ c1 <= c0
    BY ClaimsAreSplit DEF ClaimsSplit
  <2>2. c1 \in Nat /\ Books(t)' \in Int
    BY ClaimsAreSplitNext DEF ClaimsSplit, CollateralIn
  <2>3. held'[t] = held[t] + paid /\ held[t] \in Int /\ paid \in Int
    BY LedgersType DEF Bump
  <2>4. Books(t)' <= Books(t) + paid
    <3>1. CASE t \in Assets
      <4>1. /\ total_deposits[t] \in Int /\ total_borrowed[t] \in Int
            /\ retained_yield[t] \in Int /\ bad_debt_reserve[t] \in Int
        BY <3>1, LedgersType
      <4>2. /\ total_borrowed'[t] \in Int /\ total_borrowed'[t] >= total_borrowed[t]
        BY <3>1, PoolAssumption DEF PoolTypeOK
      <4>3. retained_yield'[t] = retained_yield[t] + paid
        BY <3>1, <4>1, LedgersType DEF Bump
      <4>4. total_deposits'[t] = total_deposits[t] /\ bad_debt_reserve'[t] = bad_debt_reserve[t]
        OBVIOUS
      <4> HIDE DEF paid
      <4>5. QED
        BY <2>3, <3>1, <4>1, <4>2, <4>3, <4>4 DEF Books
    <3>2. CASE t \notin Assets
      BY <3>2, <2>3 DEF Books
    <3>3. QED
      BY <3>1, <3>2
  <2> HIDE DEF c0, c1, paid
  <2>5. held'[t] - held[t] >= c1 - c0 + Books(t)' - Books(t)
    BY <2>1, <2>2, <2>3, <2>4
  <2>6. QED
    BY <2>5 DEF c0, c1
<1>2. QED
  BY <1>1, CoverStep

\* refinance_loan carries the collateral over and books its own fee.
LEMMA RefinanceKeepsCover ==
    ASSUME BookInv, NEW b \in Users, NEW d \in RefinanceDurations,
           RefinanceLoan(b, d)
    PROVE  CoverKept
<1> DEFINE l == loan[b]
           fee == RefinancingFee(Outstanding(l))
           principal == Outstanding(l) + fee
           n == total_borrowed[l.asset] + (principal - l.principal)
           opened == NewLoan(next_loan_id, b, l.asset, principal,
                             l.collateral_amount, l.collateral_token, d,
                             CurrentRate(l.asset, total_borrowed[l.asset]))
<1>1. PoolTypeOK /\ PoolTypeOK' /\ l # NoLoan /\ l \in LoanRecord
  BY RefinanceKeepsType, StoredLoan DEF BookInv, RefinanceLoan
<1>2. l.asset \in Assets /\ l.principal \in Nat /\ {l.loan_id} \subseteq user_loans[b]
  BY <1>1, LoanFields, BookFacts
<1>3. fee \in Nat /\ principal \in Nat /\ principal >= l.principal
  BY <1>1, <1>2, LoanViewType
<1>4. /\ ReplaceLoans(b, {l.loan_id}, [i \in FreshIds(1) |-> opened], 1, opened)
      /\ held' = Bump(held, l.asset, fee)
      /\ retained_yield' = Bump(retained_yield, l.asset, fee)
      /\ total_borrowed' = [total_borrowed EXCEPT ![l.asset] = n]
      /\ UNCHANGED <<total_deposits, bad_debt_reserve>>
  BY DEF RefinanceLoan, AdditionalPrincipal
<1>5. /\ opened.collateral_token = l.collateral_token
      /\ opened.collateral_amount = l.collateral_amount
  BY DEF NewLoan
<1>6. \A i \in FreshIds(1) : loan_by_id'[i] \in LoanRecord
  BY RefinanceKeepsType DEF BookInv
<1> HIDE DEF opened
<1>7. opened \in LoanRecord
  BY <1>4, <1>6, OpenedIsRecord
<1>8. ASSUME NEW t \in Tokens
      PROVE  BookTotal(CollateralIn(t), loan_by_id') <= BookTotal(CollateralIn(t), loan_by_id)
  <2> DEFINE w == CollateralIn(t)
             out == SumOver(Weigh(w, loan_by_id), {l.loan_id})
  <2>1. w \in [LoanRecord -> Nat] /\ w[opened] = w[l] /\ w[l] \in Nat
    BY <1>1, <1>5, <1>7, WeightType DEF CollateralIn
  <2> HIDE DEF w
  <2>2. BookTotal(w, loan_by_id') = BookTotal(w, loan_by_id) - out + w[opened]
    BY <1>1, <1>2, <1>4, <1>7, <2>1, SwapTotals
  <2>3. out = w[l]
    BY <1>1, <2>1, ClosedWeight
  <2>4. BookTotal(w, loan_by_id) \in Nat
    BY <1>1, <2>1, WeighType
  <2> HIDE DEF out
  <2>5. QED
    BY <2>1, <2>2, <2>3, <2>4 DEF w
<1>9. \A c \in Assets : total_borrowed'[c] >= total_borrowed[c]
  <2>1. n \in Int /\ n >= total_borrowed[l.asset]
    BY <1>1, <1>2, <1>3, BookNat
  <2> HIDE DEF n
  <2>2. total_borrowed \in [Assets -> Int]
    BY <1>1, LedgersType
  <2>3. QED
    BY <1>2, <1>4, <2>1, <2>2
<1> HIDE DEF l, fee
<1>10. QED
  BY <1>1, <1>2, <1>3, <1>4, <1>8, <1>9, FeeKeepsCover

\* consolidate_loans of distinct loans adds up their collateral.
LEMMA ConsolidateKeepsCover ==
    ASSUME BookInv, NEW b \in Users, NEW n \in 1..MaxConsolidate,
           NEW ids \in [1..n -> LoanIds], NEW d \in ConsolidateDurations,
           ConsolidateLoans(b, ids, d),
           \A j, k \in 1..n : ids[j] = ids[k] => j = k
    PROVE  CoverKept
<1> DEFINE l == loan_by_id[ids[1]]
           pledged == [k \in DOMAIN ids |-> loan_by_id[ids[k]].collateral_amount]
           outstanding == SumFunction([k \in DOMAIN ids |-> Outstanding(loan_by_id[ids[k]])])
           fee == RefinancingFee(outstanding)
           opened == NewLoan(next_loan_id, b, l.asset, outstanding + fee,
                             SumFunction(pledged), l.collateral_token, d,
                             CurrentRate(l.asset, total_borrowed[l.asset]))
<1>1. PoolTypeOK /\ PoolTypeOK'
  BY ConsolidateKeepsType DEF BookInv
<1>2. \A k \in 1..n : /\ loan_by_id[ids[k]] \in LoanRecord
                      /\ loan_by_id[ids[k]].borrower = b
                      /\ loan_by_id[ids[k]].collateral_token = l.collateral_token
                      /\ ids[k] \in user_loans[b] /\ loan_by_id[ids[k]] # NoLoan
  <2>1. \A k \in 1..n : /\ loan_by_id[ids[k]] # NoLoan
                        /\ loan_by_id[ids[k]].borrower = b
                        /\ loan_by_id[ids[k]].collateral_token = l.collateral_token
    BY DEF ConsolidateLoans
  <2>2. QED
    BY <2>1, BookFacts
<1>3. /\ ReplaceLoans(b, Elements(ids), [i \in FreshIds(1) |-> opened], 1, opened)
      /\ held' = Bump(held, l.asset, fee)
      /\ retained_yield' = Bump(retained_yield, l.asset, fee)
      /\ UNCHANGED <<total_deposits, total_borrowed, bad_debt_reserve>>
  BY DEF ConsolidateLoans
<1>4. n \in Nat /\ n >= 1 /\ IsFiniteSet(1..n) /\ DOMAIN ids = 1..n
  BY FS_Interval, LoanAssumption
<1>5. l \in LoanRecord /\ l.asset \in Assets
  BY <1>2, <1>4, LoanFields
<1>6. fee \in Nat
  <2> DEFINE owed == [k \in DOMAIN ids |-> Outstanding(loan_by_id[ids[k]])]
  <2>1. \A k \in 1..n : owed[k] \in Nat
    BY <1>1, <1>2, <1>4, LoanViewType
  <2>2. outstanding = SumOver(owed, 1..n)
    BY <1>4, SumIsSumOver
  <2> HIDE DEF owed
  <2>3. outstanding \in Nat
    BY <1>4, <2>1, <2>2, SumOverNat
  <2> HIDE DEF outstanding
  <2>4. REFINANCING_FEE_BPS \in Nat /\ BPS \in Nat /\ BPS > 0
    BY LoanAssumption, MathAssumption
  <2>5. QED
    BY <2>3, <2>4, MulNat, DivFloor DEF RefinancingFee
<1>7. /\ opened.collateral_token = l.collateral_token
      /\ opened.collateral_amount = SumFunction(pledged)
  BY DEF NewLoan
<1>8. \A i \in FreshIds(1) : loan_by_id'[i] \in LoanRecord
  BY ConsolidateKeepsType DEF BookInv
<1>9. SumFunction(pledged) = SumOver(pledged, 1..n)
  BY <1>4, SumIsSumOver
<1>10. \A k \in 1..n : pledged[k] = loan_by_id[ids[k]].collateral_amount /\ pledged[k] \in Nat
  BY <1>2, <1>4, LoanFields
<1>11. Elements(ids) = {ids[k] : k \in 1..n} /\ Elements(ids) \subseteq user_loans[b]
  BY <1>2, <1>4 DEF Elements
<1> HIDE DEF opened, pledged, fee
<1>12. opened \in LoanRecord
  BY <1>3, <1>8, OpenedIsRecord
<1>13. ASSUME NEW t \in Tokens
      PROVE  BookTotal(CollateralIn(t), loan_by_id') <= BookTotal(CollateralIn(t), loan_by_id)
  <2> DEFINE w == CollateralIn(t)
             f == Weigh(w, loan_by_id)
             closed == Elements(ids)
             out == SumOver(f, closed)
  <2>1. w \in [LoanRecord -> Nat]
        /\ \A r \in LoanRecord : w[r] = IF r.collateral_token = t THEN r.collateral_amount ELSE 0
    BY WeightType DEF CollateralIn
  <2> HIDE DEF w
  <2>2. out \in Int /\ BookTotal(w, loan_by_id') = BookTotal(w, loan_by_id) - out + w[opened]
    <3>1. ReplaceLoans(b, closed, [i \in FreshIds(1) |-> opened], 1, opened)
      BY <1>3
    <3>2. closed \subseteq user_loans[b]
      BY <1>11
    <3> HIDE DEF closed
    <3>3. SumOver(Weigh(w, loan_by_id), closed) \in Int
      BY <1>1, <1>12, <2>1, <3>1, <3>2, SwapTotals
    <3>4. w \in [LoanRecord -> Nat]
      BY <2>1
    <3>5. BookTotal(w, loan_by_id') =
             BookTotal(w, loan_by_id) - SumOver(Weigh(w, loan_by_id), closed) + w[opened]
      BY <1>1, <1>12, <3>1, <3>2, <3>4, SwapTotals
    <3>6. QED
      BY <3>3, <3>5
  <2>3. BookTotal(w, loan_by_id) \in Nat
    BY <1>1, <2>1, WeighType
  <2>4. w[opened] <= out /\ w[opened] \in Nat
    <3>1. CASE t = l.collateral_token
      <4>1. \A k \in 1..n : pledged[k] \in Int /\ f[ids[k]] = pledged[k]
        BY <1>2, <1>10, <2>1, <3>1 DEF Weigh
      <4>2. w[opened] = SumOver(pledged, 1..n)
        BY <1>7, <1>9, <1>12, <2>1, <3>1
      <4>3. ids \in [1..n -> closed] /\ closed = {ids[k] : k \in 1..n}
        BY <1>11
      <4> HIDE DEF f, closed
      <4>4. SumOver(f, closed) = SumOver(pledged, 1..n)
        BY <1>4, <4>1, <4>3, SumOverRename
      <4>5. w[opened] \in Nat
        BY <1>12, <2>1
      <4>6. QED
        BY <2>2, <4>2, <4>4, <4>5
    <3>2. CASE t # l.collateral_token
      <4>1. w[opened] = 0
        BY <1>7, <1>12, <2>1, <3>2
      <4>2. IsFiniteSet(closed) /\ \A i \in closed : f[i] \in Nat
        <5>1. closed \subseteq LoanIds
          BY <1>11, BookFacts
        <5>2. IsFiniteSet(LoanIds) /\ \A i \in LoanIds : f[i] \in Nat
          BY <1>1, <2>1, WeighType
        <5>3. QED
          BY <5>1, <5>2, FS_Subset
      <4> HIDE DEF f, closed
      <4>3. SumOver(f, closed) \in Nat
        BY <4>2, SumOverNat
      <4>4. QED
        BY <4>1, <4>3
    <3>3. QED
      BY <3>1, <3>2
  <2> HIDE DEF out
  <2>5. QED
    BY <2>2, <2>3, <2>4 DEF w
<1>14. \A c \in Assets : total_borrowed'[c] >= total_borrowed[c]
  <2>1. \A c \in Assets : total_borrowed'[c] = total_borrowed[c] /\ total_borrowed[c] \in Int
    BY <1>1, <1>3, BookNat
  <2>2. QED
    BY <2>1
<1> HIDE DEF l
<1>15. QED
  BY <1>1, <1>3, <1>5, <1>6, <1>13, <1>14, FeeKeepsCover

\* A part's collateral is at most its share of the debt: both divisions
\* round down.
LEMMA SplitCollateralShare ==
    ASSUME PoolTypeOK, NEW l \in LoanRecord, NEW x \in Nat
    PROVE  /\ SplitCollateral(l, x) \in Nat
           /\ SplitCollateral(l, x) * Outstanding(l) <= l.collateral_amount * x
<1> DEFINE o == Outstanding(l)
           c == l.collateral_amount
           part == mul_div(x, BPS, o)
           q == SplitCollateral(l, x)
<1>1. o \in Nat /\ c \in Nat /\ BPS \in Nat /\ BPS > 0
  BY LoanViewType, LoanFields, MathAssumption
<1> HIDE DEF o, c
<1>2. part \in Nat /\ part * o <= x * BPS
  <2>1. x * BPS \in Nat
    BY <1>1, MulNat
  <2>2. CASE o = 0
    BY <2>1, <2>2 DEF mul_div
  <2>3. CASE o # 0
    BY <1>1, <2>1, <2>3, DivFloor DEF mul_div
  <2>4. QED
    BY <2>2, <2>3
<1> HIDE DEF part
<1>3. q \in Nat /\ q * BPS <= c * part
  <2>1. c * part \in Nat
    BY <1>1, <1>2, MulNat
  <2>2. q = (c * part) \div BPS
    BY <1>1 DEF SplitCollateral, mul_div, part, o, c
  <2> HIDE DEF q
  <2>3. QED
    BY <1>1, <2>1, <2>2, DivFloor
<1> HIDE DEF q
<1>4. (q * BPS) * o <= (c * part) * o
  BY <1>1, <1>2, <1>3, MulNat, MulMono
<1>5. (part * o) * c <= (x * BPS) * c
  BY <1>1, <1>2, MulNat, MulMono
<1>6. (q * o) * BPS <= (c * x) * BPS
  <2>1. (c * part) * o = (part * o) * c /\ (x * BPS) * c = (c * x) * BPS
        /\ (q * BPS) * o = (q * o) * BPS
    BY <1>1, <1>2, <1>3
  <2>2. (q * BPS) * o \in Nat /\ (part * o) * c \in Nat /\ (x * BPS) * c \in Nat
    BY <1>1, <1>2, <1>3, MulNat
  <2>3. QED
    BY <1>4, <1>5, <2>1, <2>2
<1>7. q * o <= c * x
  BY <1>1, <1>3, <1>6, MulNat, MulCancel
<1>8. QED
  BY <1>3, <1>7 DEF q, o, c

\* Together the parts get no more collateral than the loan had.
LEMMA SplitCollateralTotal ==
    ASSUME PoolTypeOK, NEW l \in LoanRecord, NEW n \in Nat,
           NEW parts \in [1..n -> Nat], SumFunction(parts) = Outstanding(l),
           NEW f, \A k \in 1..n : f[k] = SplitCollateral(l, parts[k])
    PROVE  SumOver(f, 1..n) <= l.collateral_amount
<1> DEFINE o == Outstanding(l)
           c == l.collateral_amount
           K == 1..n
<1>1. o \in Nat /\ c \in Nat /\ IsFiniteSet(K)
  BY LoanViewType, LoanFields, FS_Interval
<1>2. \A k \in K : f[k] \in Nat /\ f[k] * o <= c * parts[k] /\ parts[k] \in Nat
  BY SplitCollateralShare
<1>3. SumOver(parts, K) = o
  BY SumIsSumOver
<1>4. \A k \in K : o = 0 => f[k] = 0
  BY <1>1, MathAssumption DEF SplitCollateral, mul_div
<1> HIDE DEF o, c, K
<1>5. CASE o = 0
  <2>1. SumOver(f, K) = 0
    BY <1>1, <1>4, <1>5, SumOverZero
  <2>2. QED
    BY <1>1, <2>1 DEF c, K
<1>6. CASE o # 0
  <2> DEFINE g == [k \in K |-> o * f[k]]
             h == [k \in K |-> c * parts[k]]
  <2>1. o \in Int /\ c \in Int
    BY <1>1
  <2>2. \A k \in K : f[k] \in Int /\ g[k] = o * f[k]
    BY <1>2
  <2>3. \A k \in K : parts[k] \in Int /\ h[k] = c * parts[k]
    BY <1>2
  <2>4. \A k \in K : g[k] \in Int /\ h[k] \in Int /\ g[k] <= h[k]
    <3>1. ASSUME NEW k \in K PROVE g[k] \in Int /\ h[k] \in Int /\ g[k] <= h[k]
      <4>1. o * f[k] = f[k] * o /\ o * f[k] \in Int /\ c * parts[k] \in Int
        BY <1>1, <1>2, MulNat
      <4>2. QED
        BY <1>2, <2>2, <2>3, <4>1
    <3>2. QED
      BY <3>1
  <2> HIDE DEF g, h
  <2>5. SumOver(g, K) = o * SumOver(f, K)
    BY <1>1, <2>2, <2>1, SumOverScale
  <2>6. SumOver(h, K) = c * SumOver(parts, K)
    BY <1>1, <2>3, SumOverScale
  <2>7. SumOver(g, K) <= SumOver(h, K)
    BY <1>1, <2>4, SumOverMonotone
  <2>8. SumOver(f, K) \in Nat
    BY <1>1, <1>2, SumOverNat
  <2> DEFINE total == SumOver(f, K)
  <2>9. total * o <= c * o
    <3>1. o * total = total * o
      BY <1>1, <2>8
    <3>2. QED
      BY <1>3, <2>5, <2>6, <2>7, <3>1
  <2> HIDE DEF total
  <2>10. total <= c
    BY <1>1, <1>6, <2>8, <2>9, MulCancel DEF total
  <2>11. QED
    BY <2>10 DEF total, c, K
<1>7. QED
  BY <1>5, <1>6

\* split_loan hands the collateral out in parts.
LEMMA SplitKeepsCover ==
    ASSUME BookInv, NEW b \in Users, NEW n \in 1..MaxSplit,
           NEW parts \in [1..n -> SplitAmounts], NEW d \in Durations,
           SplitLoan(b, parts, d)
    PROVE  CoverKept
<1> DEFINE l == loan[b]
           fee == RefinancingFee(Outstanding(l))
           rate == CurrentRate(l.asset, total_borrowed[l.asset])
           Part(i) == parts[i - next_loan_id + 1]
           record == [i \in FreshIds(n) |->
                        NewLoan(i, b, l.asset, Part(i), SplitCollateral(l, Part(i)),
                                l.collateral_token, d, rate)]
           primary == record[next_loan_id + n - 1]
<1>1. PoolTypeOK /\ PoolTypeOK' /\ l # NoLoan /\ l \in LoanRecord
  BY SplitKeepsType, StoredLoan DEF BookInv, SplitLoan
<1>2. l.asset \in Assets /\ {l.loan_id} \subseteq user_loans[b] /\ next_loan_id \in Nat
  BY <1>1, LoanFields, BookFacts
<1>3. fee \in Nat
  BY <1>1, LoanViewType
<1>4. n \in Nat /\ n >= 1 /\ Len(parts) = n /\ IsFiniteSet(1..n)
  <2>1. n \in Nat /\ n >= 1
    BY LoanAssumption
  <2>2. parts \in Seq(SplitAmounts)
    BY <2>1, SeqDef
  <2>3. QED
    BY <2>1, <2>2, LenProperties, FS_Interval
<1>5. /\ ReplaceLoans(b, {l.loan_id}, record, n, primary)
      /\ SumFunction(parts) = Outstanding(l)
      /\ held' = Bump(held, l.asset, fee)
      /\ retained_yield' = Bump(retained_yield, l.asset, fee)
      /\ UNCHANGED <<total_deposits, total_borrowed, bad_debt_reserve>>
  BY <1>4 DEF SplitLoan
<1>6. /\ FreshIds(n) \subseteq LoanIds
      /\ FreshIds(n) = next_loan_id..(next_loan_id + n - 1)
  BY <1>1, <1>4, <1>5, FreshIdsType DEF ReplaceLoans, FreshIds
<1>7. \A i \in FreshIds(n) : /\ loan_by_id'[i] = record[i]
                             /\ loan_by_id'[i] \in LoanRecord
                             /\ loan_by_id'[i] # NoLoan
  <2>1. \A i \in FreshIds(n) : loan_by_id'[i] \in LoanRecord
    BY SplitKeepsType DEF BookInv
  <2>2. \A i \in FreshIds(n) : loan_by_id'[i] = record[i]
    BY <1>5, <1>6 DEF ReplaceLoans
  <2>3. QED
    BY <2>1, <2>2, BookFacts
<1>8. \A i \in FreshIds(n) : /\ record[i].collateral_token = l.collateral_token
                             /\ record[i].collateral_amount = SplitCollateral(l, Part(i))
  BY DEF NewLoan
<1> HIDE DEF record, primary, rate
<1>9. parts \in [1..n -> Nat]
  BY LoanAssumption, PoolAssumption
<1>10. ASSUME NEW t \in Tokens
      PROVE  BookTotal(CollateralIn(t), loan_by_id') <= BookTotal(CollateralIn(t), loan_by_id)
  <2> DEFINE w == CollateralIn(t)
             g == Weigh(w, loan_by_id')
             out == SumOver(Weigh(w, loan_by_id), {l.loan_id})
             fresh == FreshIds(n)
             in == SumOver(g, fresh)
  <2>1. /\ w \in [LoanRecord -> Nat]
        /\ \A r \in LoanRecord : w[r] = IF r.collateral_token = t THEN r.collateral_amount ELSE 0
    BY WeightType DEF CollateralIn
  <2>2. w \in [LoanRecord -> Nat]
    BY <2>1
  <2> HIDE DEF w
  <2>3. in \in Int
    <3>1. \A i \in fresh : g[i] \in Int
      BY <1>6, <1>7, <2>2 DEF Weigh
    <3>2. IsFiniteSet(fresh)
      BY <1>2, <1>4, <1>6, FS_Interval
    <3> HIDE DEF g, fresh
    <3>3. QED
      BY <3>1, <3>2, SumOverFacts
  <2>4. out \in Int
    BY <1>1, <1>2, <1>4, <1>5, <2>2, ReplaceTotals
  <2>5. BookTotal(w, loan_by_id') = BookTotal(w, loan_by_id) - out + in
    BY <1>1, <1>2, <1>4, <1>5, <2>2, ReplaceTotals
  <2>6. BookTotal(w, loan_by_id) \in Nat
    BY <1>1, <2>2, WeighType
  <2>7. out = w[l] /\ w[l] \in Nat
    BY <1>1, <2>2, ClosedWeight
  <2>8. in <= w[l]
    <3>1. CASE t = l.collateral_token
      <4> DEFINE f == [k \in 1..n |-> SplitCollateral(l, parts[k])]
                 m == [k \in 1..n |-> next_loan_id + k - 1]
      <4>1. m \in [1..n -> fresh]
        BY <1>2, <1>4, <1>6
      <4>2. fresh = {m[k] : k \in 1..n}
        <5>1. ASSUME NEW i \in fresh PROVE \E k \in 1..n : m[k] = i
          <6>1. i - next_loan_id + 1 \in 1..n
            BY <1>2, <1>4, <1>6
          <6>2. m[i - next_loan_id + 1] = i
            BY <1>2, <1>4, <1>6, <6>1
          <6>3. QED
            BY <6>1, <6>2
        <5>2. QED
          BY <4>1, <5>1
      <4>3. \A j, k \in 1..n : m[j] = m[k] => j = k
        BY <1>2, <1>4
      <4>4. \A k \in 1..n : f[k] = SplitCollateral(l, parts[k]) /\ f[k] \in Int
        BY <1>1, <1>9, SplitCollateralShare
      <4>5. \A k \in 1..n : m[k] - next_loan_id + 1 = k
        BY <1>2, <1>4
      <4>6. \A k \in 1..n : g[m[k]] = f[k]
        <5>1. ASSUME NEW k \in 1..n PROVE g[m[k]] = f[k]
          <6>1. m[k] \in FreshIds(n) /\ m[k] \in LoanIds
            BY <1>6, <4>1
          <6>2. g[m[k]] = w[record[m[k]]] /\ record[m[k]] \in LoanRecord
            BY <1>7, <6>1 DEF Weigh
          <6>3. record[m[k]].collateral_amount = f[k]
                /\ record[m[k]].collateral_token = t
            BY <1>8, <3>1, <4>5, <6>1
          <6>4. QED
            BY <2>1, <6>2, <6>3
        <5>2. QED
          BY <5>1
      <4>7. SumOver(f, 1..n) <= l.collateral_amount
        BY <1>1, <1>4, <1>5, <1>9, SplitCollateralTotal
      <4>8. \A k \in 1..n : f[k] \in Int /\ g[m[k]] = f[k]
        BY <4>4, <4>6
      <4>9. IsFiniteSet(1..n)
        BY <1>4
      <4> DEFINE K == 1..n
      <4>10. fresh = {m[k] : k \in K}
        BY <4>2
      <4>11. \A j, k \in K : m[j] = m[k] => j = k
        BY <4>3
      <4>12. m \in [K -> fresh] /\ IsFiniteSet(K)
        BY <4>1, <4>9
      <4>13. \A k \in K : f[k] \in Int /\ g[m[k]] = f[k]
        BY <4>8
      <4> HIDE DEF f, m, g, fresh, K
      <4>14. SumOver(g, fresh) = SumOver(f, K)
        BY <4>10, <4>11, <4>12, <4>13, SumOverRename
      <4>15. SumOver(g, fresh) = SumOver(f, 1..n)
        BY <4>14 DEF K
      <4>16. w[l] = l.collateral_amount
        BY <1>1, <2>1, <3>1
      <4>17. QED
        BY <4>7, <4>15, <4>16
    <3>2. CASE t # l.collateral_token
      <4>1. \A i \in fresh : g[i] = 0
        BY <1>6, <1>7, <1>8, <2>1, <3>2 DEF Weigh
      <4>2. IsFiniteSet(fresh)
        BY <1>2, <1>4, <1>6, FS_Interval
      <4> HIDE DEF g, fresh
      <4>3. in = 0
        BY <4>1, <4>2, SumOverZero
      <4>4. QED
        BY <2>7, <4>3
    <3>3. QED
      BY <3>1, <3>2
  <2> HIDE DEF in, out
  <2>9. QED
    BY <2>3, <2>4, <2>5, <2>6, <2>7, <2>8 DEF w
<1>11. \A c \in Assets : total_borrowed'[c] >= total_borrowed[c]
  <2>1. \A c \in Assets : total_borrowed'[c] = total_borrowed[c] /\ total_borrowed[c] \in Int
    BY <1>1, <1>5, BookNat
  <2>2. QED
    BY <2>1
<1> HIDE DEF l, fee
<1>12. QED
  BY <1>1, <1>2, <1>3, <1>5, <1>10, <1>11, FeeKeepsCover

\* Every operation whose bookkeeping is matched by tokens keeps the cover.
LEMMA StepKeepsCover ==
    ASSUME BookInv, [Next]_vars
    PROVE  BooksOutrunTokens \/ CoverKept
<1>1. PoolTypeOK /\ PoolTypeOK'
  BY NextKeepsType DEF BookInv
<1>2. CASE UNCHANGED <<bookVars, loan_by_id, held>>
  <2>1. \A t \in Tokens : held'[t] - held[t] >= Books(t)' - Books(t)
    BY <1>1, <1>2, PoolAssumption DEF Books, bookVars, PoolTypeOK
  <2>2. QED
    BY <1>1, <1>2, <2>1, SupplyCoverStep
<1>3. CASE SupplyNext
  BY <1>1, <1>3, SupplyKeepsCover
<1>4. CASE SettingNext
  <2>1. SettingStep
    BY <1>4 DEF SettingNext, AddAssetPool, PauseAssetPool, SetGracePeriod,
         SetLateFeeRate, SetReserveFactor, Pause, Unpause, WhitelistCollateral,
         RemoveCollateral, AddReserve, WhitelistFlashLoanReceiver,
         RemoveFlashLoanReceiver, SetFlashLoanFee, SetRateModel, SetNftToken, Set
  <2>2. QED
    BY <1>2, <2>1 DEF SettingStep
<1>5. CASE LoanNext
  <2>1. ASSUME NEW b \in Users, Liquidate(b, 0) \/ LiquidateBadDebt(b)
                 \/ \E x \in LiquidateAmounts : Liquidate(b, x)
        PROVE  BooksOutrunTokens \/ CoverKept
    <3>1. ~ Liquidate(b, 0)
      BY DEF Liquidate
    <3>2. QED
      BY <2>1, <3>1 DEF BooksOutrunTokens
  <2>2. ASSUME NEW b \in Users, NEW n \in 1..MaxConsolidate,
               NEW ids \in [1..n -> LoanIds], NEW d \in ConsolidateDurations,
               ConsolidateLoans(b, ids, d)
        PROVE  BooksOutrunTokens \/ CoverKept
    <3>1. CASE \A j, k \in 1..n : ids[j] = ids[k] => j = k
      BY <2>2, <3>1, ConsolidateKeepsCover
    <3>2. CASE \E j, k \in 1..n : j # k /\ ids[j] = ids[k]
      BY <2>2, <3>2 DEF BooksOutrunTokens
    <3>3. QED
      BY <3>1, <3>2
  <2>3. ASSUME NEW b \in Users, Repay(b)
        PROVE  CoverKept
    BY <2>3, RepayKeepsCover
  <2>4. QED
    BY <1>5, <2>1, <2>2, <2>3, BorrowKeepsCover, RefinanceKeepsCover, SplitKeepsCover
       DEF LoanNext
<1>6. CASE AccrualNext
  BY <1>6 DEF BooksOutrunTokens
<1>7. CASE UNCHANGED vars
  BY <1>2, <1>7 DEF vars, loanVars
<1>8. QED
  BY <1>3, <1>4, <1>5, <1>6, <1>7 DEF Next

(* Apart from the handlers named in BooksOutrunTokens, no operation makes  *)
(* the contract less able to pay what its books promise, in any token.     *)
THEOREM BackingIsNeverEroded == Spec => BackingNeverEroded
<1>1. PoolInit => BookInv
  BY InitType DEF PoolInit, BookInv, LoanBookConsistent, OpenIds
<1>2. BookInv /\ [Next]_vars => BookInv'
  BY BookStep
<1>3. BookInv /\ [Next]_vars =>
        [BooksOutrunTokens \/
         \A t \in Tokens : (held[t] - Claims(t))' >= held[t] - Claims(t)]_vars
  BY StepKeepsCover DEF CoverKept
<1>4. QED
  BY <1>1, <1>2, <1>3, PTL DEF Spec, BackingNeverEroded

(* The contract starts with nothing and owing nothing, so a run in which   *)
(* those handlers are not called leaves it able to pay every claim.        *)
THEOREM SolventWithoutOutrunning ==
    Spec /\ [][~BooksOutrunTokens]_vars => []Solvent
<1> DEFINE Inv == BookInv /\ Solvent
<1>1. PoolInit => Inv
  <2>1. SUFFICES ASSUME PoolInit PROVE Inv
    OBVIOUS
  <2>2. BookInv
    BY <2>1, InitType DEF PoolInit, BookInv, LoanBookConsistent, OpenIds
  <2>3. ASSUME NEW t \in Tokens PROVE held[t] >= Claims(t)
    <3> DEFINE f == Weigh(CollateralIn(t), loan_by_id)
    <3>1. \A i \in LoanIds : f[i] = 0
      BY <2>1 DEF PoolInit, Weigh
    <3>2. IsFiniteSet(LoanIds)
      BY FS_Interval, PoolAssumption DEF LoanIds
    <3> HIDE DEF f
    <3>3. BookTotal(CollateralIn(t), loan_by_id) = 0
      BY <3>1, <3>2, SumOverZero DEF BookTotal, f
    <3>4. Books(t) = 0 /\ held[t] = 0
      BY <2>1, PoolAssumption DEF PoolInit, Books
    <3>5. Claims(t) = BookTotal(CollateralIn(t), loan_by_id) + Books(t)
      BY <2>2, ClaimsAreSplit DEF ClaimsSplit, BookInv
    <3>6. QED
      BY <3>3, <3>4, <3>5
  <2>4. QED
    BY <2>2, <2>3 DEF Solvent
<1>2. Inv /\ [Next]_vars /\ [~BooksOutrunTokens]_vars => Inv'
  <2>1. SUFFICES ASSUME Inv, [Next]_vars, [~BooksOutrunTokens]_vars PROVE Inv'
    OBVIOUS
  <2>2. BookInv'
    BY <2>1, BookStep
  <2>3. CoverKept
    <3>1. CASE ~BooksOutrunTokens
      BY <2>1, <3>1, StepKeepsCover
    <3>2. CASE UNCHANGED vars
      <4>1. UNCHANGED <<bookVars, loan_by_id, held>>
        BY <3>2 DEF vars, loanVars
      <4>2. \A t \in Tokens : held'[t] - held[t] >= Books(t)' - Books(t)
        BY <2>1, <4>1, PoolAssumption DEF Books, bookVars, PoolTypeOK, BookInv
      <4>3. QED
        BY <2>1, <2>2, <4>1, <4>2, SupplyCoverStep DEF BookInv
    <3>3. QED
      BY <2>1, <3>1, <3>2
  <2>4. ASSUME NEW t \in Tokens PROVE (held[t] >= Claims(t))'
    <3>1. Claims(t) \in Int /\ held[t] \in Int /\ held[t] >= Claims(t)
      BY <2>1, ClaimsAreSplit DEF ClaimsSplit, BookInv, Solvent
    <3>2. Claims(t)' \in Int /\ held'[t] \in Int
      <4>1. PoolTypeOK'
        BY <2>2 DEF BookInv
      <4>2. ClaimsSplit'
        BY <4>1, ClaimsAreSplitNext
      <4>3. QED
        BY <4>1, <4>2 DEF ClaimsSplit, PoolTypeOK
    <3>3. held'[t] - Claims(t)' >= held[t] - Claims(t)
      BY <2>3 DEF CoverKept
    <3>4. QED
      BY <3>1, <3>2, <3>3
  <2>5. QED
    BY <2>2, <2>4 DEF Solvent
<1>3. Inv => Solvent
  OBVIOUS
<1>4. QED
  BY <1>1, <1>2, <1>3, PTL DEF Spec

-----------------------------------------------------------------------------
(* The pools' borrowed totals against the loan book *)

\* The operations that change what borrowers owe without counting it as
\* borrowed, or count less as borrowed without changing what they owe.
RestatesDebt ==
    \E b \in Users :
       \/ \E x \in LiquidateAmounts : Liquidate(b, x)
       \/ \E n \in 1..MaxConsolidate, d \in ConsolidateDurations :
             \E ids \in [1..n -> LoanIds] : ConsolidateLoans(b, ids, d)
       \/ \E n \in 1..MaxSplit, d \in Durations :
             \E parts \in [1..n -> SplitAmounts] : SplitLoan(b, parts, d)

Owed(a) == BookTotal(PrincipalIn(a), loan_by_id)
DebtMatches == \A a \in Assets : total_borrowed[a] = Owed(a)

LEMMA OwedType ==
    ASSUME PoolTypeOK, NEW a \in Assets
    PROVE  /\ total_borrowed[a] \in Nat /\ Owed(a) \in Nat
           /\ \A i \in LoanIds : loan_by_id[i] # NoLoan /\ loan_by_id[i].asset = a =>
                  loan_by_id[i].principal <= Owed(a)
<1>1. PrincipalIn(a) \in [LoanRecord -> Nat]
  BY WeightType
<1>2. /\ BookTotal(PrincipalIn(a), loan_by_id) \in Nat
      /\ \A i \in LoanIds : loan_by_id[i] # NoLoan =>
            PrincipalIn(a)[loan_by_id[i]] <= BookTotal(PrincipalIn(a), loan_by_id)
  BY <1>1, WeighType
<1>3. \A i \in LoanIds : loan_by_id[i] # NoLoan /\ loan_by_id[i].asset = a =>
          PrincipalIn(a)[loan_by_id[i]] = loan_by_id[i].principal
  BY StoredLoan DEF PrincipalIn
<1>4. total_borrowed[a] \in Nat
  BY BookNat
<1>5. QED
  BY <1>2, <1>3, <1>4 DEF Owed

\* borrow adds the new loan's principal to its pool's total.
LEMMA BorrowMatches ==
    ASSUME BookInv, DebtMatches, NEW b \in Users, NEW a \in Assets,
           NEW x \in BorrowAmounts, NEW c \in CollateralTokens,
           NEW m \in CollateralAmounts, NEW d \in Durations,
           Borrow(b, a, x, c, m, d)
    PROVE  DebtMatches'
<1> DEFINE opened == NewLoan(next_loan_id, b, a, x, m, c, d,
                             CurrentRate(a, total_borrowed[a] + x))
<1>1. PoolTypeOK /\ PoolTypeOK' /\ x \in Nat
  BY BorrowKeepsType, PoolAssumption, LoanAssumption DEF BookInv
<1>2. /\ ReplaceLoans(b, {}, [i \in FreshIds(1) |-> opened], 1, opened)
      /\ total_borrowed' = [total_borrowed EXCEPT ![a] = total_borrowed[a] + x]
  BY DEF Borrow
<1>3. opened.asset = a /\ opened.principal = x
  BY DEF NewLoan
<1> HIDE DEF opened
<1>4. opened \in LoanRecord
  BY <1>1, <1>2, BorrowKeepsType, OpenedIsRecord DEF BookInv
<1>5. ASSUME NEW t \in Assets
      PROVE  total_borrowed'[t] = BookTotal(PrincipalIn(t), loan_by_id')
  <2> DEFINE w   == PrincipalIn(t)
             out == SumOver(Weigh(w, loan_by_id), {})
             c0  == BookTotal(w, loan_by_id)
             c1  == BookTotal(w, loan_by_id')
  <2>1. w \in [LoanRecord -> Nat] /\ w[opened] = IF t = a THEN x ELSE 0
    BY <1>3, <1>4, WeightType DEF PrincipalIn
  <2>2. total_borrowed[t] = c0 /\ total_borrowed[t] \in Nat
    BY <1>1, OwedType DEF DebtMatches, Owed
  <2> HIDE DEF w
  <2>3. c1 = c0 - out + w[opened]
    BY <1>1, <1>2, <1>4, <2>1, SwapTotals
  <2>4. out = 0
    BY FS_EmptySet, SumOverZero
  <2>5. total_borrowed'[t] = IF t = a THEN total_borrowed[t] + x ELSE total_borrowed[t]
    BY <1>1, <1>2, LedgersType
  <2> HIDE DEF out, c0, c1
  <2>6. total_borrowed'[t] = c1
    BY <1>1, <2>1, <2>2, <2>3, <2>4, <2>5
  <2>7. QED
    BY <2>6 DEF c1, w
<1>6. QED
  BY <1>5 DEF DebtMatches, Owed, PrincipalIn

\* repay and the write-off take the closed loan's principal out of the total,
\* which it is part of: the write-off's saturating subtraction never saturates.
LEMMA CloseMatches ==
    ASSUME BookInv, PoolTypeOK', DebtMatches, NEW b \in Users, loan[b] # NoLoan,
           ReplaceLoans(b, {loan[b].loan_id}, <<>>, 0, NoLoan),
           total_borrowed' =
               [total_borrowed EXCEPT ![loan[b].asset] =
                   saturating_sub(total_borrowed[loan[b].asset], loan[b].principal)]
               \/ total_borrowed' = Drop(total_borrowed, loan[b].asset, loan[b].principal)
    PROVE  DebtMatches'
<1> DEFINE l == loan[b]
<1>1. PoolTypeOK /\ l \in LoanRecord /\ l.asset \in Assets /\ l.principal \in Nat
  BY StoredLoan, LoanFields DEF BookInv
<1>2. l.principal <= total_borrowed[l.asset]
  <2>1. l.loan_id \in LoanIds /\ loan_by_id[l.loan_id] = l
    BY BookFacts
  <2>2. QED
    BY <1>1, <2>1, OwedType DEF DebtMatches
<1>3. total_borrowed' = [total_borrowed EXCEPT ![l.asset] = total_borrowed[l.asset] - l.principal]
  BY <1>1, <1>2, OwedType DEF Drop, saturating_sub
<1>4. ASSUME NEW t \in Assets
      PROVE  total_borrowed'[t] = BookTotal(PrincipalIn(t), loan_by_id')
  <2> DEFINE w  == PrincipalIn(t)
             c0 == BookTotal(w, loan_by_id)
             c1 == BookTotal(w, loan_by_id')
  <2>1. w \in [LoanRecord -> Nat] /\ w[l] = IF t = l.asset THEN l.principal ELSE 0
    BY <1>1, WeightType DEF PrincipalIn
  <2>2. total_borrowed[t] = c0 /\ total_borrowed[t] \in Nat
    BY <1>1, OwedType DEF DebtMatches, Owed
  <2> HIDE DEF w
  <2>3. c1 = c0 - w[l]
    BY <1>1, <2>1, CloseTotals
  <2>4. total_borrowed'[t] = IF t = l.asset THEN total_borrowed[t] - l.principal
                             ELSE total_borrowed[t]
    BY <1>1, <1>3, LedgersType
  <2> HIDE DEF c0, c1
  <2>5. total_borrowed'[t] = c1
    BY <1>1, <2>1, <2>2, <2>3, <2>4
  <2>6. QED
    BY <2>5 DEF c1, w
<1>5. QED
  BY <1>4 DEF DebtMatches, Owed, PrincipalIn

\* refinance_loan counts the interest and fee it adds to the principal.
LEMMA RefinanceMatches ==
    ASSUME BookInv, DebtMatches, NEW b \in Users, NEW d \in RefinanceDurations,
           RefinanceLoan(b, d)
    PROVE  DebtMatches'
<1> DEFINE l == loan[b]
           principal == Outstanding(l) + RefinancingFee(Outstanding(l))
           opened == NewLoan(next_loan_id, b, l.asset, principal,
                             l.collateral_amount, l.collateral_token, d,
                             CurrentRate(l.asset, total_borrowed[l.asset]))
<1>1. PoolTypeOK /\ PoolTypeOK' /\ l # NoLoan /\ l \in LoanRecord
  BY RefinanceKeepsType, StoredLoan DEF BookInv, RefinanceLoan
<1>2. l.asset \in Assets /\ l.principal \in Nat /\ {l.loan_id} \subseteq user_loans[b]
  BY <1>1, LoanFields, BookFacts
<1>3. principal \in Nat
  BY <1>1, <1>2, LoanViewType
<1>4. /\ ReplaceLoans(b, {l.loan_id}, [i \in FreshIds(1) |-> opened], 1, opened)
      /\ total_borrowed' = [total_borrowed EXCEPT ![l.asset] =
                               total_borrowed[l.asset] + (principal - l.principal)]
  BY DEF RefinanceLoan, AdditionalPrincipal
<1>5. opened.asset = l.asset /\ opened.principal = principal
  BY DEF NewLoan
<1>6. \A i \in FreshIds(1) : loan_by_id'[i] \in LoanRecord
  BY RefinanceKeepsType DEF BookInv
<1> HIDE DEF opened
<1>7. opened \in LoanRecord
  BY <1>4, <1>6, OpenedIsRecord
<1> HIDE DEF principal
<1>8. ASSUME NEW t \in Assets
      PROVE  total_borrowed'[t] = BookTotal(PrincipalIn(t), loan_by_id')
  <2> DEFINE w   == PrincipalIn(t)
             out == SumOver(Weigh(w, loan_by_id), {l.loan_id})
             c0  == BookTotal(w, loan_by_id)
             c1  == BookTotal(w, loan_by_id')
  <2>1. /\ w \in [LoanRecord -> Nat]
        /\ w[opened] = IF t = l.asset THEN principal ELSE 0
        /\ w[l] = IF t = l.asset THEN l.principal ELSE 0
    BY <1>1, <1>5, <1>7, WeightType DEF PrincipalIn
  <2>2. total_borrowed[t] = c0 /\ total_borrowed[t] \in Nat
    BY <1>1, OwedType DEF DebtMatches, Owed
  <2> HIDE DEF w
  <2>3. c1 = c0 - out + w[opened]
    BY <1>1, <1>2, <1>4, <1>7, <2>1, SwapTotals
  <2>4. out = w[l]
    BY <1>1, <2>1, ClosedWeight
  <2>5. total_borrowed'[t] = IF t = l.asset THEN total_borrowed[t] + (principal - l.principal)
                             ELSE total_borrowed[t]
    BY <1>1, <1>4, LedgersType
  <2> HIDE DEF out, c0, c1
  <2>6. total_borrowed'[t] = c1
    BY <1>2, <1>3, <2>1, <2>2, <2>3, <2>4, <2>5
  <2>7. QED
    BY <2>6 DEF c1, w
<1>9. QED
  BY <1>8 DEF DebtMatches, Owed, PrincipalIn

LEMMA StepKeepsDebt ==
    ASSUME BookInv, DebtMatches, [Next]_vars, ~RestatesDebt
    PROVE  DebtMatches'
<1>1. PoolTypeOK /\ PoolTypeOK'
  BY NextKeepsType DEF BookInv
<1>2. CASE UNCHANGED <<total_borrowed, loan_by_id>>
  BY <1>2 DEF DebtMatches, Owed, PrincipalIn, Weigh, BookTotal
<1>3. CASE SupplyNext
  <2>1. UNCHANGED <<total_borrowed, loan_by_id>>
    BY <1>3 DEF SupplyNext, Deposit, Withdraw, FlashLoan, WithdrawReserves,
       AllocateReserves, TakeFromReserve, WithdrawPriority, FundRetainedYield, Tick,
       ReplenishBadDebtReserve, loanVars, bookVars
  <2>2. QED
    BY <1>2, <2>1
<1>4. CASE SettingNext
  <2>1. SettingStep
    BY <1>4 DEF SettingNext, AddAssetPool, PauseAssetPool, SetGracePeriod,
         SetLateFeeRate, SetReserveFactor, Pause, Unpause, WhitelistCollateral,
         RemoveCollateral, AddReserve, WhitelistFlashLoanReceiver,
         RemoveFlashLoanReceiver, SetFlashLoanFee, SetRateModel, SetNftToken, Set
  <2>2. QED
    BY <1>2, <2>1 DEF SettingStep, bookVars
<1>5. CASE LoanNext
  <2>1. ASSUME NEW b \in Users, Repay(b) \/ LiquidateBadDebt(b)
        PROVE  DebtMatches'
    BY <1>1, <2>1, CloseMatches DEF Repay, LiquidateBadDebt
  <2>2. QED
    BY <1>5, <2>1, BorrowMatches, RefinanceMatches DEF LoanNext, RestatesDebt
<1>6. CASE AccrualNext
  BY <1>2, <1>6 DEF AccrualNext, AccrueInterestWithReserve, loanVars
<1>7. CASE UNCHANGED vars
  BY <1>2, <1>7 DEF vars, bookVars, loanVars
<1>8. QED
  BY <1>3, <1>4, <1>5, <1>6, <1>7 DEF Next

LEMMA DebtMatchesMeans == PoolTypeOK => (DebtMatches <=> BorrowedMatchesLoans)
BY PrincipalIsTotal DEF DebtMatches, Owed, BorrowedMatchesLoans

(* As long as no loan is liquidated, consolidated or split, a pool counts  *)
(* as borrowed exactly the principal of its open loans: borrow, repay,     *)
(* refinance_loan and liquidate_bad_debt keep the two equal.               *)
THEOREM BorrowedIsOwed ==
    Spec /\ [][~RestatesDebt]_vars => []BorrowedMatchesLoans
<1> DEFINE Inv == BookInv /\ DebtMatches
<1>1. PoolInit => Inv
  <2>1. SUFFICES ASSUME PoolInit PROVE Inv
    OBVIOUS
  <2>2. BookInv
    BY <2>1, InitType DEF PoolInit, BookInv, LoanBookConsistent, OpenIds
  <2>3. ASSUME NEW a \in Assets PROVE total_borrowed[a] = Owed(a)
    <3> DEFINE f == Weigh(PrincipalIn(a), loan_by_id)
    <3>1. \A i \in LoanIds : f[i] = 0
      BY <2>1 DEF PoolInit, Weigh
    <3>2. IsFiniteSet(LoanIds)
      BY FS_Interval, PoolAssumption DEF LoanIds
    <3> HIDE DEF f
    <3>3. BookTotal(PrincipalIn(a), loan_by_id) = 0
      BY <3>1, <3>2, SumOverZero DEF BookTotal, f
    <3>4. total_borrowed[a] = 0
      BY <2>1 DEF PoolInit
    <3>5. QED
      BY <3>3, <3>4 DEF Owed
  <2>4. QED
    BY <2>2, <2>3 DEF DebtMatches
<1>2. Inv /\ [Next]_vars /\ [~RestatesDebt]_vars => Inv'
  <2>1. SUFFICES ASSUME Inv, [Next]_vars, [~RestatesDebt]_vars PROVE Inv'
    OBVIOUS
  <2>2. BookInv'
    BY <2>1, BookStep
  <2>3. CASE ~RestatesDebt
    BY <2>1, <2>2, <2>3, StepKeepsDebt
  <2>4. CASE UNCHANGED vars
    BY <2>1, <2>2, <2>4 DEF DebtMatches, Owed, PrincipalIn, Weigh, BookTotal, vars,
       bookVars, loanVars
  <2>5. QED
    BY <2>1, <2>3, <2>4
<1>3. Inv => BorrowedMatchesLoans
  BY DebtMatchesMeans DEF BookInv
<1>4. QED
  BY <1>1, <1>2, <1>3, PTL DEF Spec

-----------------------------------------------------------------------------
(* Repayment cannot trap on the contract's own books *)

\* Another NFT contract is installed while loans are open: the new one has
\* not minted their ids.
SwapsNft == settings'.nft_token # settings.nft_token /\ OpenIds # {}

NftsMinted ==
    settings.nft_token # NoNft => OpenIds \subseteq nft_minted[settings.nft_token]

LEMMA ReplaceKeepsNfts ==
    ASSUME PoolTypeOK, NftsMinted, NEW b, NEW closed, NEW opened, NEW n, NEW primary,
           ReplaceLoans(b, closed, opened, n, primary),
           ReplaceNfts(closed, FreshIds(n)), UNCHANGED settings
    PROVE  NftsMinted'
<1>1. ASSUME NEW i \in LoanIds, loan_by_id'[i] # NoLoan, i \notin FreshIds(n)
      PROVE  i \in OpenIds /\ i \notin closed
  BY <1>1 DEF ReplaceLoans, OpenIds
<1>2. CASE settings.nft_token = NoNft
  BY <1>2 DEF NftsMinted
<1>3. CASE settings.nft_token # NoNft
  <2> DEFINE nft == settings.nft_token
  <2>1. nft \in NftTokens /\ nft_minted[nft] \subseteq LoanIds
    BY <1>3 DEF PoolTypeOK, Settings
  <2>2. nft_minted'[nft] = (nft_minted[nft] \ closed) \cup FreshIds(n)
    BY <1>3, <2>1 DEF ReplaceNfts, PoolTypeOK
  <2>3. OpenIds' \subseteq (OpenIds \ closed) \cup FreshIds(n)
    BY <1>1 DEF OpenIds
  <2>4. OpenIds \subseteq nft_minted[nft]
    BY <1>3 DEF NftsMinted
  <2>5. QED
    BY <2>2, <2>3, <2>4 DEF NftsMinted
<1>4. QED
  BY <1>2, <1>3

LEMMA LoanKeepsNfts ==
    ASSUME BookInv, NftsMinted, LoanNext
    PROVE  NftsMinted'
<1>1. PoolTypeOK /\ FreshIds(0) = {}
  BY BookFacts DEF BookInv, FreshIds
<1>2. ASSUME NEW b \in Users, NEW a \in Assets, NEW x \in BorrowAmounts,
             NEW t \in CollateralTokens, NEW c \in CollateralAmounts,
             NEW d \in Durations, Borrow(b, a, x, t, c, d)
      PROVE  NftsMinted'
  <2>1. /\ \E opened, primary : ReplaceLoans(b, {}, opened, 1, primary)
        /\ ReplaceNfts({}, FreshIds(1)) /\ UNCHANGED settings
    BY <1>2 DEF Borrow
  <2>2. QED
    BY <1>1, <2>1, ReplaceKeepsNfts
<1>3. ASSUME NEW b \in Users, Repay(b)
      PROVE  NftsMinted'
  <2>1. /\ \E opened, primary : ReplaceLoans(b, {loan[b].loan_id}, opened, 0, primary)
        /\ ReplaceNfts({loan[b].loan_id}, {}) /\ UNCHANGED settings
    BY <1>3 DEF Repay
  <2>2. QED
    BY <1>1, <2>1, ReplaceKeepsNfts
<1>4. ASSUME NEW b \in Users, LiquidateBadDebt(b)
      PROVE  NftsMinted'
  <2>1. /\ ReplaceLoans(b, {loan[b].loan_id}, <<>>, 0, NoLoan)
        /\ UNCHANGED <<settings, nft_minted>>
    BY <1>4 DEF LiquidateBadDebt
  <2>2. OpenIds' \subseteq OpenIds
    BY <1>1, <2>1 DEF ReplaceLoans, OpenIds
  <2>3. QED
    BY <2>1, <2>2 DEF NftsMinted
<1>5. ASSUME NEW b \in Users, NEW d \in RefinanceDurations, RefinanceLoan(b, d)
      PROVE  NftsMinted'
  <2>1. /\ \E opened, primary : ReplaceLoans(b, {loan[b].loan_id}, opened, 1, primary)
        /\ ReplaceNfts({loan[b].loan_id}, FreshIds(1)) /\ UNCHANGED settings
    BY <1>5 DEF RefinanceLoan
  <2>2. QED
    BY <1>1, <2>1, ReplaceKeepsNfts
<1>6. ASSUME NEW b \in Users, NEW n \in 1..MaxConsolidate, NEW d \in ConsolidateDurations,
             NEW ids \in [1..n -> LoanIds], ConsolidateLoans(b, ids, d)
      PROVE  NftsMinted'
  <2>1. /\ \E opened, primary : ReplaceLoans(b, Elements(ids), opened, 1, primary)
        /\ ReplaceNfts(Elements(ids), FreshIds(1)) /\ UNCHANGED settings
    BY <1>6 DEF ConsolidateLoans
  <2>2. QED
    BY <1>1, <2>1, ReplaceKeepsNfts
<1>7. ASSUME NEW b \in Users, NEW n \in 1..MaxSplit, NEW d \in Durations,
             NEW parts \in [1..n -> SplitAmounts], SplitLoan(b, parts, d)
      PROVE  NftsMinted'
  <2>1. /\ \E opened, primary :
              ReplaceLoans(b, {loan[b].loan_id}, opened, Len(parts), primary)
        /\ ReplaceNfts({loan[b].loan_id}, FreshIds(Len(parts))) /\ UNCHANGED settings
    BY <1>7 DEF SplitLoan
  <2>2. QED
    BY <1>1, <2>1, ReplaceKeepsNfts
<1>8. ASSUME NEW b \in Users, NEW x \in LiquidateAmounts, Liquidate(b, x)
      PROVE  NftsMinted'
  BY <1>8 DEF Liquidate, loanVars, NftsMinted, OpenIds
<1>9. QED
  BY <1>2, <1>3, <1>4, <1>5, <1>6, <1>7, <1>8 DEF LoanNext

\* As long as the NFT contract is not swapped under open loans, it has minted
\* the id of every open loan.
LEMMA NftsStayMinted == Spec /\ [][~SwapsNft]_vars => []NftsMinted
<1> DEFINE Inv == BookInv /\ NftsMinted
<1>1. PoolInit => Inv
  BY InitType DEF PoolInit, BookInv, LoanBookConsistent, OpenIds, NftsMinted
<1>2. Inv /\ [Next]_vars /\ [~SwapsNft]_vars => Inv'
  <2>1. SUFFICES ASSUME Inv, [Next]_vars, [~SwapsNft]_vars PROVE NftsMinted'
    BY BookStep
  <2>2. CASE UNCHANGED <<settings, nft_minted, loan_by_id>>
    BY <2>1, <2>2 DEF NftsMinted, OpenIds
  <2>3. CASE SupplyNext
    <3>1. UNCHANGED <<settings, nft_minted, loan_by_id>>
      BY <2>3 DEF SupplyNext, Deposit, Withdraw, FlashLoan, WithdrawReserves,
         AllocateReserves, TakeFromReserve, WithdrawPriority, FundRetainedYield, Tick,
         ReplenishBadDebtReserve, loanVars
    <3>2. QED
      BY <2>2, <3>1
  <2>4. CASE SettingNext
    <3>1. UNCHANGED <<nft_minted, loan_by_id>>
      BY <2>4 DEF SettingNext, AddAssetPool, PauseAssetPool, SetGracePeriod,
         SetLateFeeRate, SetReserveFactor, Pause, Unpause, WhitelistCollateral,
         RemoveCollateral, AddReserve, WhitelistFlashLoanReceiver,
         RemoveFlashLoanReceiver, SetFlashLoanFee, SetRateModel, SetNftToken, Set,
         SettingStep
    <3>2. settings'.nft_token = settings.nft_token \/ OpenIds = {}
      BY <2>1 DEF SwapsNft, vars
    <3>3. QED
      BY <2>1, <3>1, <3>2 DEF NftsMinted, OpenIds
  <2>5. CASE LoanNext
    BY <2>1, <2>5, LoanKeepsNfts
  <2>6. CASE AccrualNext
    BY <2>2, <2>6 DEF AccrualNext, AccrueInterestWithReserve, loanVars
  <2>7. CASE UNCHANGED vars
    BY <2>2, <2>7 DEF vars, loanVars
  <2>8. QED
    BY <2>1, <2>3, <2>4, <2>5, <2>6, <2>7 DEF Next
<1>3. QED
  BY <1>1, <1>2, PTL DEF Spec

LEMMA CanRepay ==
    ASSUME BookInv, BorrowedMatchesLoans, Solvent, LendingWithinDeposits, NftsMinted,
           UtilizationCapBps < BPS
    PROVE  Repayable
<1>1. PoolTypeOK /\ DebtMatches
  BY DebtMatchesMeans DEF BookInv
<1>2. SUFFICES ASSUME NEW u \in Users, loan[u] # NoLoan
               PROVE  /\ loan[u].principal <= total_borrowed[loan[u].asset]
                      /\ loan[u].collateral_amount <= held[loan[u].collateral_token]
                      /\ settings.nft_token # NoNft =>
                            loan[u].loan_id \in nft_minted[settings.nft_token]
  BY DEF Repayable
<1> DEFINE l == loan[u]
           t == l.collateral_token
<1>3. /\ l \in LoanRecord /\ l.loan_id \in LoanIds /\ loan_by_id[l.loan_id] = l
      /\ l.loan_id \in OpenIds
  BY <1>2, BookFacts DEF OpenIds
<1>4. /\ l.asset \in Assets /\ t \in Tokens /\ l.collateral_amount \in Nat
  BY <1>3, LoanFields
<1>5. l.principal <= total_borrowed[l.asset]
  BY <1>1, <1>2, <1>3, <1>4, OwedType DEF DebtMatches
<1>6. l.collateral_amount <= held[t]
  <2> DEFINE w == CollateralIn(t)
             c == BookTotal(w, loan_by_id)
  <2>1. w \in [LoanRecord -> Nat] /\ w[l] = l.collateral_amount
    BY <1>3, WeightType DEF CollateralIn
  <2> HIDE DEF w
  <2>2. w[l] <= c /\ c \in Nat
    BY <1>1, <1>2, <1>3, <2>1, WeighType
  <2>3. Claims(t) = c + Books(t) /\ Books(t) \in Int /\ held[t] \in Int
    BY <1>1, <1>4, ClaimsAreSplit DEF ClaimsSplit, w
  <2>4. Books(t) >= 0
    <3>1. CASE t \in Assets
      <4>1. total_borrowed[t] <= total_deposits[t]
        BY <3>1 DEF LendingWithinDeposits
      <4>2. /\ total_deposits[t] \in Nat /\ total_borrowed[t] \in Nat
            /\ retained_yield[t] \in Nat /\ bad_debt_reserve[t] \in Nat
        BY <1>1, <3>1, PoolAssumption DEF PoolTypeOK
      <4>3. QED
        BY <3>1, <4>1, <4>2 DEF Books
    <3>2. CASE t \notin Assets
      BY <3>2 DEF Books
    <3>3. QED
      BY <3>1, <3>2
  <2>5. held[t] >= Claims(t)
    BY <1>4 DEF Solvent
  <2> HIDE DEF c, l, t
  <2>6. QED
    BY <1>4, <2>1, <2>2, <2>3, <2>4, <2>5
<1>7. settings.nft_token # NoNft => l.loan_id \in nft_minted[settings.nft_token]
  BY <1>3 DEF NftsMinted
<1>8. QED
  BY <1>5, <1>6, <1>7

(* With a utilization cap below 100%, and in a run that stays clear of the *)
(* handlers above, nothing in the contract's own books makes repay trap:   *)
(* not the borrowed total, not the collateral, not the NFT it burns.       *)
THEOREM OpenLoansCanBeRepaid ==
    /\ UtilizationCapBps < BPS
    /\ Spec
    /\ [][~BooksOutrunTokens /\ ~RestatesDebt /\ ~SwapsNft]_vars
    => []Repayable
<1> DEFINE Kept == BookInv /\ BorrowedMatchesLoans /\ Solvent
                      /\ LendingWithinDeposits /\ NftsMinted
<1>1. PoolTypeOK /\ LoanBookConsistent => BookInv
  BY DEF BookInv
<1>2. ASSUME UtilizationCapBps < BPS PROVE Kept => Repayable
  BY <1>2, CanRepay
<1>3. CASE UtilizationCapBps < BPS
  <2>1. Kept => Repayable
    BY <1>2, <1>3
  <2>2. [~BooksOutrunTokens /\ ~RestatesDebt /\ ~SwapsNft]_vars =>
           /\ [~BooksOutrunTokens]_vars
           /\ [~RestatesDebt]_vars
           /\ [~SwapsNft]_vars
    OBVIOUS
  <2>3. QED
    BY <1>1, <2>1, <2>2, TypeCorrect, LoanBookAgrees, BorrowedIsOwed,
       SolventWithoutOutrunning, PoolsLendWithinDeposits, NftsStayMinted, PTL
<1>4. QED
  BY <1>3
=============================================================================
