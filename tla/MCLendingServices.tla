------------------------- MODULE MCLendingServices -------------------------
(* An instance of the lending contract with its services for TLC. *)
EXTENDS LendingServices, TLC

\* Users are interchangeable: no constant names one of them.
UserSymmetry == Permutations(Users)

CONSTANT MaxServices    \* bound: services in use at once

ServicesInUse ==
    (IF Registered # {} THEN {"yield"} ELSE {}) \cup
    (IF \E a \in Assets : \/ reward_pool[a].last_update_time > 1
                          \/ reward_pool[a].reward_rate # DEFAULT_REWARD_RATE
                          \/ \E u \in Users : user_stake[u][a].amount + user_stake[u][a].rewards > 0
     THEN {"staking"} ELSE {}) \cup
    (IF \/ \E i \in LoanIds : policy[i] # NoPolicy
        \/ insurance_fund.available_balance > 0
        \/ premium_rate_bps # DEFAULT_INSURANCE_PREMIUM_RATE_BPS
     THEN {"insurance"} ELSE {}) \cup
    (IF \E t \in Tokens : reserves[t] # NoReserve THEN {"reserves"} ELSE {})

\* Any of the three services, or a collateral reserve, but only so many of them
\* at a time: they meet in the pools' books alone.
FewServices == Cardinality(ServicesInUse) <= MaxServices

=============================================================================
