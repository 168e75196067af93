---------------------------- MODULE LendingPool ----------------------------
(***************************************************************************)
(* Storage of the lending contract (contracts/lending-contract/src/lib.rs) *)
(* and the operations of its supply side: pool creation, deposit and       *)
(* withdrawal of shares, flash loans, the retained-yield and bad-debt      *)
(* buckets, and the admin settings.  LendingLoans adds the loan side.      *)
(*                                                                         *)
(* A Soroban invocation is atomic: a handler that returns an error or      *)
(* traps leaves no trace, and the host refuses re-entry, so every entry    *)
(* point is one action whose guard is the conjunction of its early         *)
(* returns.  Release builds trap on overflow, hence the `\in U64' guards.  *)
(*                                                                         *)
(* `now' stands for both the ledger timestamp and the ledger sequence:     *)
(* both advance exactly when a ledger closes and the contract only         *)
(* compares them with earlier values of themselves.  Wallets of users are  *)
(* environment; `held' is what the token contracts say this contract owns. *)
(***************************************************************************)
EXTENDS LendingMath, FiniteSets

CONSTANTS
    Users,                  \* depositors, borrowers and liquidators
    Tokens,                 \* token contracts
    Assets,                 \* tokens that may get a pool
    PrimaryAsset,           \* the pool `initialize' creates
    NftTokens, NoNft,       \* loan-NFT contracts an admin may install
    NoLoan, NoReserve, NoModel,
    U64_MAX,                \* overflow bound of every stored amount
    MINIMUM_LIQUIDITY,      \* shares locked by the first deposit
    BaseRateBps, MultiplierBps, UtilizationCapBps,
    DEFAULT_GRACE_PERIOD_SECONDS, DEFAULT_LATE_FEE_RATE_BPS,
    DefaultReserveFactorBps, DefaultFlashLoanFeeBps,
    MaxTime,                \* bound: last ledger
    MaxLoanId,              \* bound: loan ids ever issued
    MaxCustody              \* bound: tokens sent in that no book counts

CONSTANTS                   \* inputs of the operations
    DepositAmounts, WithdrawShares, FlashAmounts, FlashTips, BucketAmounts,
    TimeSteps, GracePeriods, LateFeeRates, ReserveFactors, FlashFees, RateModels,
    FlashReceivers, CollateralTokens, ReserveTokens, PoolPauses, ContractPauses

ASSUME PoolAssumption ==
    /\ IsFiniteSet(Users)
    /\ PrimaryAsset \in Assets
    /\ Assets \subseteq Tokens
    /\ NoNft \notin NftTokens
    /\ U64_MAX \in Nat
    /\ MINIMUM_LIQUIDITY \in Nat \ {0}
    /\ {BaseRateBps, MultiplierBps, UtilizationCapBps,
        DEFAULT_GRACE_PERIOD_SECONDS, DEFAULT_LATE_FEE_RATE_BPS,
        DefaultFlashLoanFeeBps} \subseteq Nat
    /\ DefaultReserveFactorBps \in 0..BPS
    /\ MaxTime \in Nat
    /\ MaxLoanId \in Nat
    /\ MaxCustody \in Nat
    /\ FlashReceivers \subseteq Users
    /\ CollateralTokens \cup ReserveTokens \subseteq Tokens
    /\ PoolPauses \cup ContractPauses \subseteq BOOLEAN
    /\ (DepositAmounts \cup WithdrawShares \cup FlashAmounts \cup FlashTips
          \cup BucketAmounts \cup GracePeriods \cup LateFeeRates
          \cup ReserveFactors \cup FlashFees \cup TimeSteps) \subseteq Nat

VARIABLES
    (* books of PoolState, by asset *)
    total_deposits, total_shares, total_borrowed,
    retained_yield, bad_debt_reserve, total_protocol_revenue,
    settings,               \* everything an admin call alone changes
    (* depositors *)
    shares, deposit_ledger,
    (* loans *)
    loan,                   \* DataKey::Loan(borrower): the primary record
    loan_by_id,             \* DataKey::LoanById(id)
    user_loans,             \* DataKey::UserLoans(borrower)
    next_loan_id,           \* DataKey::NextLoanId
    reserves,               \* DataKey::Reserve(token) tallies
    nft_minted,             \* ids the loan-NFT contracts hold metadata for
    (* environment *)
    held, now

bookVars == <<total_deposits, total_shares, total_borrowed, retained_yield,
              bad_debt_reserve, total_protocol_revenue>>
depositorVars == <<shares, deposit_ledger>>
loanVars == <<loan, loan_by_id, user_loans, next_loan_id, reserves, nft_minted>>
vars == <<bookVars, settings, depositorVars, loanVars, held, now>>

U64 == 0..U64_MAX

\* `as u64' drops the high bits of a u128; it never traps.
as_u64(x) == x % (U64_MAX + 1)

LoanIds == 1..MaxLoanId

LoanRecord == [loan_id : LoanIds, borrower : Users, asset : Assets,
               principal : U64, collateral_amount : U64,
               collateral_token : Tokens, borrow_time : Nat, due_date : Nat,
               interest_rate_bps : Nat]

ReserveConfig == [total_borrowed : U64, total_collateral : U64]

RateModel == [base_rate_bps : Nat, optimal_utilization_bps : Nat,
              slope1_bps : Nat, slope2_bps : Nat, reserve_factor_bps : Nat]

\* What set_rate_model lets through.
UsableRateModel == {m \in RateModel : m.optimal_utilization_bps \in 1..(BPS - 1)}

ASSUME RecordAssumption ==
    /\ NoLoan \notin LoanRecord
    /\ NoReserve \notin ReserveConfig
    /\ RateModels \subseteq RateModel
    /\ NoModel \notin RateModel

Settings == [supported : SUBSET Assets,           \* SupportedAssets
             is_paused : [Assets -> BOOLEAN],
             grace_period_seconds : [Assets -> Nat],
             late_fee_rate_bps : [Assets -> Nat],
             reserve_factor_bps : [Assets -> 0..BPS],
             contract_paused : BOOLEAN,
             whitelisted : SUBSET Tokens,         \* WhitelistedCollateral
             flash_receivers : SUBSET Users,      \* WhitelistedFlashReceiver
             flash_loan_fee_bps : Nat,
             rate_model : UsableRateModel \cup {NoModel},
             nft_token : NftTokens \cup {NoNft}]

(* The type of every variable. *)
PoolTypeOK ==
    /\ total_deposits \in [Assets -> U64]
    /\ total_shares \in [Assets -> U64]
    /\ total_borrowed \in [Assets -> U64]
    /\ retained_yield \in [Assets -> U64]
    /\ bad_debt_reserve \in [Assets -> U64]
    /\ total_protocol_revenue \in [Assets -> U64]
    /\ settings \in Settings
    /\ shares \in [Users -> [Assets -> U64]]
    /\ deposit_ledger \in [Users -> [Assets -> Nat]]
    /\ loan \in [Users -> LoanRecord \cup {NoLoan}]
    /\ loan_by_id \in [LoanIds -> LoanRecord \cup {NoLoan}]
    /\ user_loans \in [Users -> SUBSET LoanIds]
    /\ next_loan_id \in Nat \ {0}
    /\ reserves \in [Tokens -> ReserveConfig \cup {NoReserve}]
    /\ nft_minted \in [NftTokens -> SUBSET LoanIds]
    /\ held \in [Tokens -> Nat]
    /\ now \in Nat

-----------------------------------------------------------------------------
(* `initialize' has run: one empty pool, nothing whitelisted. *)
InitialSettings ==
    [supported |-> {PrimaryAsset},
     is_paused |-> [a \in Assets |-> FALSE],
     grace_period_seconds |-> [a \in Assets |-> DEFAULT_GRACE_PERIOD_SECONDS],
     late_fee_rate_bps |-> [a \in Assets |-> DEFAULT_LATE_FEE_RATE_BPS],
     reserve_factor_bps |-> [a \in Assets |-> DefaultReserveFactorBps],
     contract_paused |-> FALSE,
     whitelisted |-> {},
     flash_receivers |-> {},
     flash_loan_fee_bps |-> DefaultFlashLoanFeeBps,
     rate_model |-> NoModel,
     nft_token |-> NoNft]

PoolInit ==
    /\ total_deposits = [a \in Assets |-> 0]
    /\ total_shares = [a \in Assets |-> 0]
    /\ total_borrowed = [a \in Assets |-> 0]
    /\ retained_yield = [a \in Assets |-> 0]
    /\ bad_debt_reserve = [a \in Assets |-> 0]
    /\ total_protocol_revenue = [a \in Assets |-> 0]
    /\ settings = InitialSettings
    /\ shares = [u \in Users |-> [a \in Assets |-> 0]]
    /\ deposit_ledger = [u \in Users |-> [a \in Assets |-> 0]]
    /\ loan = [u \in Users |-> NoLoan]
    /\ loan_by_id = [i \in LoanIds |-> NoLoan]
    /\ user_loans = [u \in Users |-> {}]
    /\ next_loan_id = 1
    /\ reserves = [t \in Tokens |-> NoReserve]
    /\ nft_minted = [n \in NftTokens |-> {}]
    /\ held = [t \in Tokens |-> 0]
    /\ now = 1

-----------------------------------------------------------------------------
(* Helpers *)

\* available_liquidity: the unlent part of the deposits.
Available(a) == saturating_sub(total_deposits[a], total_borrowed[a])

\* Mutated: the cap is compared with the utilization before the loan.
WithinCapBefore(a, new_borrowed) ==
    get_utilization_bps(total_borrowed[a], total_deposits[a]) <= UtilizationCapBps

\* borrow, flash_loan and refinance_loan reject a pool pushed over its cap.
WithinUtilizationCap(a, new_borrowed) ==
    get_utilization_bps(new_borrowed, total_deposits[a]) <= UtilizationCapBps

Bump(f, x, n) == [f EXCEPT ![x] = @ + n]
Drop(f, x, n) == [f EXCEPT ![x] = @ - n]

-----------------------------------------------------------------------------
(* Shares *)

\* Mutated: the first depositor keeps every share.
NoLockedShares(a) == 0

\* The first deposit of a pool locks MINIMUM_LIQUIDITY shares for ever.
LockedShares(a) == IF total_shares[a] = 0 THEN MINIMUM_LIQUIDITY ELSE 0

SharesToDepositor(a, amount) ==
    shares_for_deposit(total_deposits[a], total_shares[a], amount) - LockedShares(a)

Deposit(depositor, a, amount) ==
    LET minted == SharesToDepositor(a, amount) IN
    /\ ~settings.contract_paused
    /\ amount > 0
    /\ a \in settings.supported
    /\ ~settings.is_paused[a]
    /\ minted > 0
    /\ total_deposits[a] + amount \in U64
    /\ total_shares[a] + LockedShares(a) + minted \in U64
    /\ shares[depositor][a] + minted \in U64
    /\ total_deposits' = Bump(total_deposits, a, amount)
    /\ total_shares' = Bump(total_shares, a, LockedShares(a) + minted)
    /\ shares' = [shares EXCEPT ![depositor][a] = @ + minted]
    /\ deposit_ledger' = [deposit_ledger EXCEPT ![depositor][a] = now]
    /\ held' = Bump(held, a, amount)
    /\ UNCHANGED <<total_borrowed, retained_yield, bad_debt_reserve,
                   total_protocol_revenue, settings, loanVars, now>>

\* Mutated: the locked shares are left out of the denominator.
PaidWithoutLocked(a, burned) ==
    assets_for_shares(total_deposits[a], total_shares[a] - MINIMUM_LIQUIDITY, burned)

PaidFor(a, burned) == assets_for_shares(total_deposits[a], total_shares[a], burned)

Withdraw(depositor, a, burned) ==
    LET amount == PaidFor(a, burned) IN
    /\ ~settings.contract_paused
    /\ burned > 0
    /\ now > deposit_ledger[depositor][a]
    /\ burned <= shares[depositor][a]
    /\ a \in settings.supported
    /\ ~settings.is_paused[a]
    /\ amount > 0
    /\ amount <= Available(a)
    /\ burned <= total_shares[a]
    /\ amount <= held[a]
    /\ total_deposits' = Drop(total_deposits, a, amount)
    /\ total_shares' = Drop(total_shares, a, burned)
    /\ shares' = [shares EXCEPT ![depositor][a] = @ - burned]
    /\ held' = Drop(held, a, amount)
    /\ UNCHANGED <<total_borrowed, retained_yield, bad_debt_reserve,
                   total_protocol_revenue, deposit_ledger, settings,
                   loanVars, now>>

\* The receiver's callback cannot re-enter this contract, so the loan out and
\* its return are one step; a receiver that returns too little reverts it.
FlashLoan(receiver, a, amount, tip) ==
    LET fee == (amount * settings.flash_loan_fee_bps) \div BPS IN
    /\ ~settings.contract_paused
    /\ receiver \in settings.flash_receivers
    /\ amount > 0
    /\ a \in settings.supported
    /\ ~settings.is_paused[a]
    /\ amount <= Available(a)
    /\ total_borrowed[a] + amount \in U64
    /\ WithinUtilizationCap(a, total_borrowed[a] + amount)
    /\ amount <= held[a]
    /\ total_deposits[a] + fee \in U64
    /\ held[a] + fee + tip <= MaxCustody
    /\ total_deposits' = Bump(total_deposits, a, fee)
    /\ held' = Bump(held, a, fee + tip)
    /\ UNCHANGED <<total_shares, total_borrowed, retained_yield,
                   bad_debt_reserve, total_protocol_revenue, settings,
                   depositorVars, loanVars, now>>

-----------------------------------------------------------------------------
(* The retained-yield and bad-debt buckets *)

WithdrawPriority(a, amount) ==
    /\ ~settings.contract_paused
    /\ amount > 0
    /\ a \in settings.supported
    /\ amount <= retained_yield[a]
    /\ amount <= held[a]
    /\ retained_yield' = Drop(retained_yield, a, amount)
    /\ held' = Drop(held, a, amount)
    /\ UNCHANGED <<total_deposits, total_shares, total_borrowed,
                   bad_debt_reserve, total_protocol_revenue, settings,
                   depositorVars, loanVars, now>>

FundRetainedYield(a, amount) ==
    /\ ~settings.contract_paused
    /\ amount > 0
    /\ a \in settings.supported
    /\ retained_yield[a] + amount \in U64
    /\ retained_yield' = Bump(retained_yield, a, amount)
    /\ held' = Bump(held, a, amount)
    /\ UNCHANGED <<total_deposits, total_shares, total_borrowed,
                   bad_debt_reserve, total_protocol_revenue, settings,
                   depositorVars, loanVars, now>>

\* withdraw_reserves pays the admin, allocate_reserves an insurance fund that
\* is another address; neither looks at the pause switch.
TakeFromReserve(a, amount) ==
    /\ a \in settings.supported
    /\ amount <= bad_debt_reserve[a]
    /\ amount <= held[a]
    /\ bad_debt_reserve' = Drop(bad_debt_reserve, a, amount)
    /\ held' = Drop(held, a, amount)
    /\ UNCHANGED <<total_deposits, total_shares, total_borrowed,
                   retained_yield, total_protocol_revenue, settings,
                   depositorVars, loanVars, now>>

WithdrawReserves(a, amount) == TakeFromReserve(a, amount)
AllocateReserves(a, amount) == TakeFromReserve(a, amount)

ReplenishBadDebtReserve(a, amount) ==
    /\ ~settings.contract_paused
    /\ amount > 0
    /\ a \in settings.supported
    /\ held[a] + amount <= MaxCustody
    /\ bad_debt_reserve' =
          [bad_debt_reserve EXCEPT ![a] = lesser(@ + amount, U64_MAX)]
    /\ held' = Bump(held, a, amount)
    /\ UNCHANGED <<total_deposits, total_shares, total_borrowed,
                   retained_yield, total_protocol_revenue, settings,
                   depositorVars, loanVars, now>>

-----------------------------------------------------------------------------
(* Admin settings.  None of them moves a token or touches a book. *)

SettingStep == UNCHANGED <<bookVars, depositorVars, loan, loan_by_id,
                           user_loans, next_loan_id, nft_minted, held, now>>

Set(new_settings) ==
    settings' = new_settings /\ UNCHANGED reserves /\ SettingStep

AddAssetPool(a) ==
    /\ a \notin settings.supported
    /\ Set([settings EXCEPT !.supported = @ \cup {a}])

PauseAssetPool(a, b) ==
    /\ a \in settings.supported
    /\ Set([settings EXCEPT !.is_paused[a] = b])

SetGracePeriod(a, g) ==
    /\ a \in settings.supported
    /\ Set([settings EXCEPT !.grace_period_seconds[a] = g])

SetLateFeeRate(a, r) ==
    /\ a \in settings.supported
    /\ Set([settings EXCEPT !.late_fee_rate_bps[a] = r])

SetReserveFactor(a, r) ==
    /\ a \in settings.supported
    /\ r <= BPS
    /\ Set([settings EXCEPT !.reserve_factor_bps[a] = r])

Pause == Set([settings EXCEPT !.contract_paused = TRUE])
Unpause == Set([settings EXCEPT !.contract_paused = FALSE])

WhitelistCollateral(t) == Set([settings EXCEPT !.whitelisted = @ \cup {t}])
RemoveCollateral(t) == Set([settings EXCEPT !.whitelisted = @ \ {t}])

AddReserve(t) ==
    /\ reserves[t] = NoReserve
    /\ reserves' = [reserves EXCEPT
                       ![t] = [total_borrowed |-> 0, total_collateral |-> 0]]
    /\ settings' = [settings EXCEPT !.whitelisted = @ \cup {t}]
    /\ SettingStep

WhitelistFlashLoanReceiver(u) ==
    Set([settings EXCEPT !.flash_receivers = @ \cup {u}])
RemoveFlashLoanReceiver(u) ==
    Set([settings EXCEPT !.flash_receivers = @ \ {u}])
SetFlashLoanFee(f) == Set([settings EXCEPT !.flash_loan_fee_bps = f])

SetRateModel(m) ==
    /\ m.optimal_utilization_bps \in 1..(BPS - 1)
    /\ m.reserve_factor_bps < BPS
    /\ Set([settings EXCEPT !.rate_model = m])

SetNftToken(n) == Set([settings EXCEPT !.nft_token = n])

\* A ledger closes: its timestamp and sequence both advance.
Tick(d) ==
    /\ now + d <= MaxTime
    /\ now' = now + d
    /\ UNCHANGED <<bookVars, settings, depositorVars, loanVars, held>>

-----------------------------------------------------------------------------
SupplyNext ==
    \/ \E u \in Users, a \in Assets :
          \/ \E x \in DepositAmounts : Deposit(u, a, x)
          \/ \E s \in WithdrawShares : Withdraw(u, a, s)
          \/ \E x \in FlashAmounts, tip \in FlashTips : FlashLoan(u, a, x, tip)
    \/ \E a \in Assets, x \in BucketAmounts :
          \/ WithdrawPriority(a, x)
          \/ FundRetainedYield(a, x)
          \/ WithdrawReserves(a, x)
          \/ AllocateReserves(a, x)
          \/ ReplenishBadDebtReserve(a, x)
    \/ \E d \in TimeSteps : Tick(d)

SettingNext ==
    \/ \E a \in Assets :
          \/ AddAssetPool(a)
          \/ \E b \in PoolPauses : PauseAssetPool(a, b)
          \/ \E g \in GracePeriods : SetGracePeriod(a, g)
          \/ \E r \in LateFeeRates : SetLateFeeRate(a, r)
          \/ \E r \in ReserveFactors : SetReserveFactor(a, r)
    \/ \E t \in CollateralTokens : WhitelistCollateral(t) \/ RemoveCollateral(t)
    \/ \E t \in ReserveTokens : AddReserve(t)
    \/ \E u \in FlashReceivers :
          WhitelistFlashLoanReceiver(u) \/ RemoveFlashLoanReceiver(u)
    \/ \E f \in FlashFees : SetFlashLoanFee(f)
    \/ \E m \in RateModels : SetRateModel(m)
    \/ \E n \in NftTokens : SetNftToken(n)
    \/ TRUE \in ContractPauses /\ Pause
    \/ FALSE \in ContractPauses /\ Unpause

=============================================================================
