---------------------------- MODULE LendingLoans ----------------------------
(***************************************************************************)
(* The loan side of the lending contract: borrow and repay, liquidation,   *)
(* refinancing, consolidation and splitting of loans, bad-debt write-off   *)
(* and interest accrual, with the loan-NFT mints and burns they cause.     *)
(*                                                                         *)
(* A loan is stored twice, under its id and, when it is the one repay and  *)
(* liquidate work on, under its borrower; UserLoans lists the ids.         *)
(***************************************************************************)
EXTENDS LendingPool, Sequences, Functions

CONSTANTS
    CollateralRatioBps, LIQUIDATION_THRESHOLD_BPS,
    LIQUIDATION_SEIZE_BPS,      \* collateral seized per unit repaid (15_000)
    REFINANCING_FEE_BPS,
    U32_MAX,                    \* bound of what `as u32' keeps
    BorrowAmounts, CollateralAmounts, Durations, LiquidateAmounts,
    RefinanceDurations, ConsolidateDurations, SplitAmounts,
    MaxConsolidate,             \* bound: ids in one call (the code allows 10)
    MaxSplit,                   \* bound: parts in one call (the code allows 5)
    WriteOffs, Accruals         \* borrowers and ids these two are called with

ASSUME LoanAssumption ==
    /\ {CollateralRatioBps, LIQUIDATION_THRESHOLD_BPS, LIQUIDATION_SEIZE_BPS,
        REFINANCING_FEE_BPS, U32_MAX} \subseteq Nat
    /\ (BorrowAmounts \cup CollateralAmounts \cup LiquidateAmounts
          \cup SplitAmounts) \subseteq U64          \* u64 arguments
    /\ (Durations \cup RefinanceDurations \cup ConsolidateDurations) \subseteq Nat
    /\ MaxConsolidate \in 0..10
    /\ MaxSplit \in 0..5
    /\ WriteOffs \subseteq Users
    /\ Accruals \subseteq LoanIds

-----------------------------------------------------------------------------
(* Views of one loan *)

Interest(l) ==
    as_u64(calculate_interest(l.principal, l.interest_rate_bps,
                              saturating_sub(now, l.borrow_time)))

GraceEnd(l) == l.due_date + settings.grace_period_seconds[l.asset]
InGrace(l) == now <= GraceEnd(l)       \* is_in_grace_period; also before due

LateFee(l) ==
    as_u64(calculate_late_fee(l.principal, settings.late_fee_rate_bps[l.asset],
                              now, GraceEnd(l)))

Outstanding(l) == l.principal + Interest(l)    \* calculate_outstanding_balance
RepaymentAmount(l) == Outstanding(l) + LateFee(l)
RefinancingFee(amount) == (amount * REFINANCING_FEE_BPS) \div BPS

\* `as u32' of a u128.
as_u32(x) == x % (U32_MAX + 1)

health_factor(l) == as_u32((l.collateral_amount * BPS) \div l.principal)

\* The rate a loan opened now gets, for the pool's borrowed total.
CurrentRate(a, borrowed) ==
    LET u == get_utilization_bps(borrowed, total_deposits[a]) IN
    IF settings.rate_model = NoModel
    THEN calculate_dynamic_rate(BaseRateBps, MultiplierBps, u)
    ELSE two_slope_rate(settings.rate_model, u)

NewLoan(id, borrower, a, principal, collateral, token, duration, rate) ==
    [loan_id |-> id, borrower |-> borrower, asset |-> a,
     principal |-> principal, collateral_amount |-> collateral,
     collateral_token |-> token, borrow_time |-> now,
     due_date |-> now + duration, interest_rate_bps |-> rate]

-----------------------------------------------------------------------------
(* Loan records, NFTs and reserve tallies *)

\* Ids a call that opens n loans is given by increment_loan_id.
FreshIds(n) == next_loan_id..(next_loan_id + n - 1)

\* Mutated: UserLoans keeps the ids of closed loans.
ReplaceLoansKeepingIndex(borrower, closed, opened, n, primary) ==
    /\ next_loan_id + n <= MaxLoanId + 1
    /\ loan_by_id' = [i \in LoanIds |->
                        IF i \in FreshIds(n) THEN opened[i]
                        ELSE IF i \in closed THEN NoLoan ELSE loan_by_id[i]]
    /\ user_loans' = [user_loans EXCEPT ![borrower] = @ \cup FreshIds(n)]
    /\ next_loan_id' = next_loan_id + n
    /\ loan' = [loan EXCEPT ![borrower] = primary]

\* Close the records of `closed' and store those of `opened', a function on
\* FreshIds(n); the call leaves `primary' under the borrower's own key.
ReplaceLoans(borrower, closed, opened, n, primary) ==
    /\ next_loan_id + n <= MaxLoanId + 1
    /\ loan_by_id' = [i \in LoanIds |->
                        IF i \in FreshIds(n) THEN opened[i]
                        ELSE IF i \in closed THEN NoLoan ELSE loan_by_id[i]]
    /\ user_loans' = [user_loans EXCEPT ![borrower] = (@ \ closed) \cup FreshIds(n)]
    /\ next_loan_id' = next_loan_id + n
    /\ loan' = [loan EXCEPT ![borrower] = primary]

\* burn panics on an id without a token, mint on one that has one.
ReplaceNfts(closed, minted) ==
    LET nft == settings.nft_token IN
    \/ nft = NoNft /\ UNCHANGED nft_minted
    \/ /\ nft # NoNft
       /\ closed \subseteq nft_minted[nft]
       /\ minted \cap nft_minted[nft] = {}
       /\ nft_minted' = [nft_minted EXCEPT ![nft] = (@ \ closed) \cup minted]

\* add_reserve_collateral with add_reserve_borrowed
AddToReserve(t, collateral, amount) ==
    reserves' = IF reserves[t] = NoReserve THEN reserves ELSE
        [reserves EXCEPT
            ![t].total_collateral = lesser(@ + collateral, U64_MAX),
            ![t].total_borrowed = lesser(@ + amount, U64_MAX)]

\* sub_reserve_collateral with sub_reserve_borrowed
SubFromReserve(t, collateral, amount) ==
    reserves' = IF reserves[t] = NoReserve THEN reserves ELSE
        [reserves EXCEPT
            ![t].total_collateral = saturating_sub(@, collateral),
            ![t].total_borrowed = saturating_sub(@, amount)]

-----------------------------------------------------------------------------
(* Borrow and repay *)

Borrow(b, a, amount, token, collateral, duration) ==
    LET borrowed == total_borrowed[a] + amount
        opened == NewLoan(next_loan_id, b, a, amount, collateral, token,
                          duration, CurrentRate(a, borrowed))
        custody == Bump(held, token, collateral)
    IN
    /\ ~settings.contract_paused
    /\ amount > 0 /\ collateral > 0
    /\ token \in Assets => now > deposit_ledger[b][token]
    /\ a \in settings.supported
    /\ ~settings.is_paused[a]
    /\ token \in settings.whitelisted
    /\ user_loans[b] = {}
    /\ collateral >= as_u64((amount * CollateralRatioBps) \div BPS)
    /\ amount <= Available(a)
    /\ borrowed \in U64
    /\ WithinUtilizationCap(a, borrowed)
    /\ amount <= custody[a]
    /\ held' = Drop(custody, a, amount)
    /\ total_borrowed' = [total_borrowed EXCEPT ![a] = borrowed]
    /\ AddToReserve(token, collateral, amount)
    /\ ReplaceLoans(b, {}, [i \in FreshIds(1) |-> opened], 1, opened)
    /\ ReplaceNfts({}, FreshIds(1))
    /\ UNCHANGED <<total_deposits, total_shares, retained_yield,
                   bad_debt_reserve, total_protocol_revenue, settings,
                   depositorVars, now>>

Repay(b) ==
    LET l == loan[b]
        interest == Interest(l)
        custody == Bump(held, l.asset, RepaymentAmount(l))
    IN
    /\ ~settings.contract_paused
    /\ l # NoLoan
    /\ RepaymentAmount(l) \in U64
    /\ l.collateral_amount <= custody[l.collateral_token]
    /\ l.principal <= total_borrowed[l.asset]
    /\ total_deposits[l.asset] + pool_share(interest) \in U64
    /\ retained_yield[l.asset] + retained_share(interest) + LateFee(l) \in U64
    /\ bad_debt_reserve[l.asset] + reserve_share(interest) \in U64
    /\ held' = Drop(custody, l.collateral_token, l.collateral_amount)
    /\ total_borrowed' = Drop(total_borrowed, l.asset, l.principal)
    /\ total_deposits' = Bump(total_deposits, l.asset, pool_share(interest))
    /\ retained_yield' =
          Bump(retained_yield, l.asset, retained_share(interest) + LateFee(l))
    /\ bad_debt_reserve' = Bump(bad_debt_reserve, l.asset, reserve_share(interest))
    /\ SubFromReserve(l.collateral_token, l.collateral_amount, l.principal)
    /\ ReplaceLoans(b, {l.loan_id}, <<>>, 0, NoLoan)
    /\ ReplaceNfts({l.loan_id}, {})
    /\ UNCHANGED <<total_shares, total_protocol_revenue, settings,
                   depositorVars, now>>

-----------------------------------------------------------------------------
(* Liquidation, write-off and accrual *)

\* A liquidator pays part of the principal for collateral worth 150% of it.
\* The loan record is read and never written back.
Liquidate(b, amount) ==
    LET l == loan[b]
        seized == as_u64((amount * LIQUIDATION_SEIZE_BPS) \div BPS)
        custody == Bump(held, l.asset, amount)
    IN
    /\ l # NoLoan
    /\ amount \in 1..l.principal
    /\ ~InGrace(l)
    /\ health_factor(l) < LIQUIDATION_THRESHOLD_BPS
    /\ seized <= l.collateral_amount
    /\ seized <= custody[l.collateral_token]
    /\ total_deposits[l.asset] + amount \in U64
    /\ held' = Drop(custody, l.collateral_token, seized)
    /\ total_borrowed' = [total_borrowed EXCEPT ![l.asset] = saturating_sub(@, amount)]
    /\ total_deposits' = Bump(total_deposits, l.asset, amount)
    /\ UNCHANGED <<total_shares, retained_yield, bad_debt_reserve,
                   total_protocol_revenue, settings, depositorVars, loanVars,
                   now>>

\* The admin closes an overdue loan; the reserve covers what the collateral
\* does not, and the collateral stays with the contract.
LiquidateBadDebt(b) ==
    LET l == loan[b]
        shortfall == saturating_sub(RepaymentAmount(l), l.collateral_amount)
    IN
    /\ ~settings.contract_paused
    /\ l # NoLoan
    /\ ~InGrace(l)
    /\ RepaymentAmount(l) \in U64
    /\ shortfall <= bad_debt_reserve[l.asset]
    /\ bad_debt_reserve' = Drop(bad_debt_reserve, l.asset, shortfall)
    /\ total_borrowed' =
          [total_borrowed EXCEPT ![l.asset] = saturating_sub(@, l.principal)]
    /\ ReplaceLoans(b, {l.loan_id}, <<>>, 0, NoLoan)
    /\ UNCHANGED <<total_deposits, total_shares, retained_yield,
                   total_protocol_revenue, settings, depositorVars, reserves,
                   nft_minted, held, now>>

\* Credits a loan's interest since borrow_time; nothing records that it did.
AccrueInterestWithReserve(id) ==
    LET l == loan_by_id[id]
        interest == Interest(l)
        protocol == protocol_interest(interest, settings.reserve_factor_bps[l.asset])
        depositors == depositor_interest(interest, settings.reserve_factor_bps[l.asset])
    IN
    /\ l # NoLoan
    /\ retained_yield' =
          [retained_yield EXCEPT ![l.asset] = lesser(@ + depositors, U64_MAX)]
    /\ bad_debt_reserve' =
          [bad_debt_reserve EXCEPT ![l.asset] = lesser(@ + protocol, U64_MAX)]
    /\ total_protocol_revenue' =
          [total_protocol_revenue EXCEPT ![l.asset] = lesser(@ + protocol, U64_MAX)]
    /\ UNCHANGED <<total_deposits, total_shares, total_borrowed, settings,
                   depositorVars, loanVars, held, now>>

-----------------------------------------------------------------------------
(* Refinancing, consolidation and splitting.  None of the three looks at   *)
(* the pause switches.                                                     *)

\* Mutated: only the fee is new debt.
FeeAsNewDebt(l, principal) == RefinancingFee(Outstanding(l))
AdditionalPrincipal(l, principal) == principal - l.principal

RefinanceLoan(b, duration) ==
    LET l == loan[b]
        fee == RefinancingFee(Outstanding(l))
        principal == Outstanding(l) + fee
        borrowed == total_borrowed[l.asset] + AdditionalPrincipal(l, principal)
        opened == NewLoan(next_loan_id, b, l.asset, principal,
                          l.collateral_amount, l.collateral_token, duration,
                          CurrentRate(l.asset, total_borrowed[l.asset]))
    IN
    /\ l # NoLoan
    /\ InGrace(l)
    /\ principal \in U64
    /\ retained_yield[l.asset] + fee \in U64
    /\ borrowed \in U64
    /\ principal > l.principal => WithinUtilizationCap(l.asset, borrowed)
    /\ held' = Bump(held, l.asset, fee)
    /\ retained_yield' = Bump(retained_yield, l.asset, fee)
    /\ total_borrowed' = [total_borrowed EXCEPT ![l.asset] = borrowed]
    /\ ReplaceLoans(b, {l.loan_id}, [i \in FreshIds(1) |-> opened], 1, opened)
    /\ ReplaceNfts({l.loan_id}, FreshIds(1))
    /\ UNCHANGED <<total_deposits, total_shares, bad_debt_reserve,
                   total_protocol_revenue, settings, depositorVars, reserves,
                   now>>

Elements(f) == {f[k] : k \in DOMAIN f}

\* ids is a sequence, and the contract does not look for repeats in it; only
\* an installed NFT contract does, by refusing the second burn.  The borrowed
\* total keeps the old principals.
ConsolidateLoans(b, ids, duration) ==
    LET l == loan_by_id[ids[1]]
        outstanding == SumFunction([k \in DOMAIN ids |-> Outstanding(loan_by_id[ids[k]])])
        collateral == SumFunction([k \in DOMAIN ids |-> loan_by_id[ids[k]].collateral_amount])
        fee == RefinancingFee(outstanding)
        opened == NewLoan(next_loan_id, b, l.asset, outstanding + fee,
                          collateral, l.collateral_token, duration,
                          CurrentRate(l.asset, total_borrowed[l.asset]))
    IN
    /\ \A k \in DOMAIN ids :
          /\ loan_by_id[ids[k]] # NoLoan
          /\ loan_by_id[ids[k]].borrower = b
          /\ InGrace(loan_by_id[ids[k]])
          /\ loan_by_id[ids[k]].collateral_token = l.collateral_token
          /\ loan_by_id[ids[k]].asset = l.asset
    /\ settings.nft_token # NoNft =>
          \A j, k \in DOMAIN ids : ids[j] = ids[k] => j = k
    /\ outstanding \in U64
    /\ outstanding + fee \in U64
    /\ collateral \in U64
    /\ retained_yield[l.asset] + fee \in U64
    /\ held' = Bump(held, l.asset, fee)
    /\ retained_yield' = Bump(retained_yield, l.asset, fee)
    /\ ReplaceLoans(b, Elements(ids), [i \in FreshIds(1) |-> opened], 1, opened)
    /\ ReplaceNfts(Elements(ids), FreshIds(1))
    /\ UNCHANGED <<total_deposits, total_shares, total_borrowed,
                   bad_debt_reserve, total_protocol_revenue, settings,
                   depositorVars, reserves, now>>

\* Mutated: each part's collateral is rounded up.
SplitCollateralUp(l, amount) ==
    IF Outstanding(l) = 0 THEN 0
    ELSE (l.collateral_amount * amount + Outstanding(l) - 1) \div Outstanding(l)
SplitCollateral(l, amount) ==
    mul_div(l.collateral_amount, mul_div(amount, BPS, Outstanding(l)), BPS)

\* Each part gets collateral in proportion, rounded down twice; the last part
\* becomes the primary loan.
SplitLoan(b, parts, duration) ==
    LET l == loan[b]
        n == Len(parts)
        outstanding == Outstanding(l)
        fee == RefinancingFee(outstanding)
        rate == CurrentRate(l.asset, total_borrowed[l.asset])
        opened == [i \in FreshIds(n) |->
                     LET amount == parts[i - next_loan_id + 1] IN
                     NewLoan(i, b, l.asset, amount, SplitCollateral(l, amount),
                             l.collateral_token, duration, rate)]
    IN
    /\ l # NoLoan
    /\ InGrace(l)
    /\ outstanding \in U64
    /\ SumFunction(parts) = outstanding
    /\ \A k \in DOMAIN parts : parts[k] <= outstanding  \* follows from the sum
    /\ retained_yield[l.asset] + fee \in U64
    /\ held' = Bump(held, l.asset, fee)
    /\ retained_yield' = Bump(retained_yield, l.asset, fee)
    /\ ReplaceLoans(b, {l.loan_id}, opened, n, opened[next_loan_id + n - 1])
    /\ ReplaceNfts({l.loan_id}, FreshIds(n))
    /\ UNCHANGED <<total_deposits, total_shares, total_borrowed,
                   bad_debt_reserve, total_protocol_revenue, settings,
                   depositorVars, reserves, now>>

-----------------------------------------------------------------------------
LoanNext ==
    \E b \in Users :
       \/ \E a \in Assets, x \in BorrowAmounts, t \in CollateralTokens,
             c \in CollateralAmounts, d \in Durations : Borrow(b, a, x, t, c, d)
       \/ Repay(b)
       \/ \E x \in LiquidateAmounts : Liquidate(b, x)
       \/ b \in WriteOffs /\ LiquidateBadDebt(b)
       \/ \E d \in RefinanceDurations : RefinanceLoan(b, d)
       \/ \E n \in 1..MaxConsolidate, d \in ConsolidateDurations :
             \E ids \in [1..n -> LoanIds] : ConsolidateLoans(b, ids, d)
       \/ \E n \in 1..MaxSplit, d \in Durations :
             \E parts \in [1..n -> SplitAmounts] : SplitLoan(b, parts, d)

AccrualNext == \E id \in Accruals : AccrueInterestWithReserve(id)

Next == SupplyNext \/ SettingNext \/ LoanNext \/ AccrualNext

Spec == PoolInit /\ [][Next]_vars

=============================================================================
