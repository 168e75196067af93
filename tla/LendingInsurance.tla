-------------------------- MODULE LendingInsurance --------------------------
(***************************************************************************)
(* Loan insurance.  A borrower buys cover for one loan; after the loan's   *)
(* grace period anyone may claim it, which takes the cover out of the      *)
(* fund's books and moves no token; until then the borrower may cancel it  *)
(* for a refund of the unused time.  The premium, the refund and the       *)
(* admin's payments are in the token `initialize' was given.               *)
(***************************************************************************)
EXTENDS Lending

CONSTANTS
    NoPolicy,
    DEFAULT_INSURANCE_PREMIUM_RATE_BPS,
    PremiumRates, FundAmounts       \* inputs

ASSUME InsuranceAssumption ==
    /\ DEFAULT_INSURANCE_PREMIUM_RATE_BPS \in 0..BPS
    /\ PremiumRates \subseteq Nat
    /\ FundAmounts \subseteq U64

VARIABLES
    policy,                         \* DataKey::Insurance(loan_id)
    insurance_fund,                 \* DataKey::InsuranceFund
    premium_rate_bps                \* DataKey::InsurancePremiumRate

insuranceVars == <<policy, insurance_fund, premium_rate_bps>>

LoanInsurance == [borrower : Users, coverage_amount : U64, premium_paid : U64,
                  purchase_time : Nat, expires_at : Nat, claimed : BOOLEAN]
InsuranceFund == [total_claims_paid : U64, available_balance : U64]

ASSUME PolicyMarkAssumption == NoPolicy \notin LoanInsurance

InsuranceInit ==
    /\ policy = [i \in LoanIds |-> NoPolicy]
    /\ insurance_fund = [total_claims_paid |-> 0, available_balance |-> 0]
    /\ premium_rate_bps = DEFAULT_INSURANCE_PREMIUM_RATE_BPS

Premium(amount) == (amount * premium_rate_bps) \div BPS    \* get_insurance_premium

SaturatingAdd(x, y) == lesser(x + y, U64_MAX)

\* Everything but the contract's tokens.
BooksKept == UNCHANGED <<bookVars, settings, depositorVars, loanVars, now>>

-----------------------------------------------------------------------------
SetInsurancePremiumRate(rate) ==
    /\ rate <= BPS
    /\ premium_rate_bps' = rate
    /\ UNCHANGED <<vars, policy, insurance_fund>>

PurchaseLoanInsurance(u, i) ==
    LET l == loan_by_id[i] IN
    /\ l # NoLoan
    /\ l.borrower = u
    /\ policy[i] = NoPolicy
    /\ Premium(l.principal) > 0
    /\ held[PrimaryAsset] + Premium(l.principal) <= MaxCustody
    /\ policy' = [policy EXCEPT ![i] =
          [borrower |-> u, coverage_amount |-> l.principal,
           premium_paid |-> Premium(l.principal), purchase_time |-> now,
           expires_at |-> GraceEnd(l), claimed |-> FALSE]]
    /\ insurance_fund' = [insurance_fund EXCEPT
          !.available_balance = SaturatingAdd(@, Premium(l.principal))]
    /\ held' = Bump(held, PrimaryAsset, Premium(l.principal))
    /\ BooksKept
    /\ UNCHANGED premium_rate_bps

ClaimInsurance(i) ==
    /\ policy[i] # NoPolicy
    /\ ~policy[i].claimed
    /\ loan_by_id[i] # NoLoan
    /\ now > GraceEnd(loan_by_id[i])
    /\ insurance_fund.available_balance >= policy[i].coverage_amount
    /\ policy' = [policy EXCEPT ![i].claimed = TRUE]
    /\ insurance_fund' = [insurance_fund EXCEPT
          !.total_claims_paid = SaturatingAdd(@, policy[i].coverage_amount),
          !.available_balance = @ - policy[i].coverage_amount]
    /\ UNCHANGED <<vars, premium_rate_bps>>

Refund(p) ==
    LET total == saturating_sub(p.expires_at, p.purchase_time)
        remaining == saturating_sub(total, saturating_sub(now, p.purchase_time))
    IN  IF now < p.expires_at /\ total > 0
        THEN (p.premium_paid * remaining) \div total ELSE 0

\* The refund is paid whether or not the fund still has it: an admin may have
\* withdrawn it.
CancelInsurance(u, i) ==
    /\ policy[i] # NoPolicy
    /\ policy[i].borrower = u
    /\ ~policy[i].claimed
    /\ Refund(policy[i]) <= held[PrimaryAsset]
    /\ policy' = [policy EXCEPT ![i] = NoPolicy]
    /\ insurance_fund' = [insurance_fund EXCEPT
          !.available_balance = saturating_sub(@, Refund(policy[i]))]
    /\ held' = Drop(held, PrimaryAsset, Refund(policy[i]))
    /\ BooksKept
    /\ UNCHANGED premium_rate_bps

DepositToInsuranceFund(amount) ==
    /\ amount > 0
    /\ held[PrimaryAsset] + amount <= MaxCustody
    /\ insurance_fund' = [insurance_fund EXCEPT
          !.available_balance = SaturatingAdd(@, amount)]
    /\ held' = Bump(held, PrimaryAsset, amount)
    /\ BooksKept
    /\ UNCHANGED <<policy, premium_rate_bps>>

WithdrawFromInsuranceFund(amount) ==
    /\ amount > 0
    /\ insurance_fund.available_balance >= amount
    /\ amount <= held[PrimaryAsset]
    /\ insurance_fund' = [insurance_fund EXCEPT !.available_balance = @ - amount]
    /\ held' = Drop(held, PrimaryAsset, amount)
    /\ BooksKept
    /\ UNCHANGED <<policy, premium_rate_bps>>

InsuranceNext ==
    \/ \E r \in PremiumRates : SetInsurancePremiumRate(r)
    \/ \E i \in LoanIds :
          \/ ClaimInsurance(i)
          \/ \E u \in Users : PurchaseLoanInsurance(u, i) \/ CancelInsurance(u, i)
    \/ \E x \in FundAmounts : DepositToInsuranceFund(x) \/ WithdrawFromInsuranceFund(x)

-----------------------------------------------------------------------------
\* A loan's cover is paid at most once: the claims the fund has counted, up to
\* the largest amount, are exactly the policies marked claimed, which no
\* cancellation, repayment or new purchase removes.
CoverPaidOnce ==
    insurance_fund.total_claims_paid =
        lesser(SumFunction([i \in LoanIds |-> IF policy[i] # NoPolicy /\ policy[i].claimed
                                              THEN policy[i].coverage_amount ELSE 0]),
               U64_MAX)

=============================================================================
