-------------------------- MODULE LendingServices --------------------------
(***************************************************************************)
(* The lending contract with the three services built on its pools:        *)
(* staking of shares, loan insurance and plan yield.  They share the       *)
(* depositors' shares, the loan book, the retained-yield bucket and the    *)
(* contract's tokens with the pools; none reads another's records.         *)
(***************************************************************************)
EXTENDS LendingYield, LendingStaking, LendingInsurance

ASSUME ServicesAssumption == IsFiniteSet(Tokens)

serviceVars == <<position, stakingVars, insuranceVars>>
allVars == <<vars, serviceVars>>

ServicesTypeOK ==
    /\ PoolTypeOK
    /\ position \in [Plans -> Positions \cup {NoPosition}]
    /\ reward_pool \in [Assets -> RewardPool]
    /\ user_stake \in [Users -> [Assets -> UserStake]]
    /\ policy \in [LoanIds -> LoanInsurance \cup {NoPolicy}]
    /\ insurance_fund \in InsuranceFund
    /\ premium_rate_bps \in 0..BPS

ServicesInit == PoolInit /\ YieldInit /\ StakingInit /\ InsuranceInit

ServicesNext ==
    \/ Next /\ UNCHANGED serviceVars
    \/ YieldNext /\ UNCHANGED <<stakingVars, insuranceVars>>
    \/ StakingNext /\ UNCHANGED <<position, insuranceVars>>
    \/ InsuranceNext /\ UNCHANGED <<position, stakingVars>>

ServicesSpec == ServicesInit /\ [][ServicesNext]_allVars

-----------------------------------------------------------------------------
\* Tokens beyond what any book promises: the pools' claims, the insurance
\* fund, and the yield that plans were credited with and that stays here.
Surplus ==
    SumFunction([t \in Tokens |-> held[t] - Claims(t)])
        - insurance_fund.available_balance
        - SumFunction([p \in Plans |->
                 IF position[p] = NoPosition THEN 0 ELSE position[p].total_harvested])

\* cancel_insurance refunds more than the fund has left.
RefundBeyondFund ==
    \E u \in Users, i \in LoanIds :
        /\ CancelInsurance(u, i)
        /\ Refund(policy[i]) > insurance_fund.available_balance

\* What the services paid out and what they still owe agrees with their records,
\* which stay in their types: no second of yield is paid twice, stakes add up,
\* no cover is paid twice.
ServiceBooks == ServicesTypeOK /\ NoSecondPaidTwice /\ StakesAddUp /\ CoverPaidOnce

\* A harvest can never credit value the pool has not earned, nor a premium
\* or refund touch the pools' money: no operation of pools and services,
\* and no change of settings between them, lowers the surplus, save the
\* handlers of BooksOutrunTokens and a refund the fund no longer covers.
ServicesKeepBacking ==
    [][Surplus' >= Surplus \/ BooksOutrunTokens \/ RefundBeyondFund
      ]_<<held, bookVars, loan_by_id, insurance_fund, position>>

=============================================================================
