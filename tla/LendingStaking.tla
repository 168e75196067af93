--------------------------- MODULE LendingStaking ---------------------------
(***************************************************************************)
(* Staking of pool shares for rewards.  A pool's reward_per_token_stored   *)
(* counts what one staked share has earned since the start; a stake        *)
(* remembers the count up to which it has been credited.  Rewards are      *)
(* numbers in events: no token is ever paid.  Staking looks at the shares  *)
(* a user holds at that moment and locks none of them.                     *)
(*                                                                         *)
(* A stake that was never written reads as the empty one, and a pool that  *)
(* was never written as one without stakes, which earns nothing; neither   *)
(* can be told from a stored one.  stake_time is written and never read.   *)
(***************************************************************************)
EXTENDS Lending

CONSTANTS
    DEFAULT_REWARD_RATE, REWARD_PRECISION,
    MaxStaked,                      \* bound: shares staked in one pool
    StakeAmounts, RewardRates       \* inputs

ASSUME StakingAssumption ==
    /\ REWARD_PRECISION \in Nat \ {0}
    /\ MaxStaked \in U64
    /\ {DEFAULT_REWARD_RATE} \cup StakeAmounts \cup RewardRates \subseteq U64

VARIABLES
    reward_pool,                    \* DataKey::RewardPool(asset)
    user_stake                      \* DataKey::UserStake(user, asset)

stakingVars == <<reward_pool, user_stake>>

RewardPool == [total_staked : U64, reward_rate : U64, last_update_time : Nat,
               reward_per_token_stored : U64, total_rewards_distributed : U64]
UserStake == [amount : U64, reward_per_token_paid : U64, rewards : U64]

StakingInit ==
    /\ reward_pool = [a \in Assets |->
          [total_staked |-> 0, reward_rate |-> DEFAULT_REWARD_RATE,
           last_update_time |-> now, reward_per_token_stored |-> 0,
           total_rewards_distributed |-> 0]]
    /\ user_stake = [u \in Users |-> [a \in Assets |->
          [amount |-> 0, reward_per_token_paid |-> 0, rewards |-> 0]]]

\* checked_add / checked_mul followed by unwrap_or(0)
OrZero(x) == IF x \in U64 THEN x ELSE 0

-----------------------------------------------------------------------------
(* The reward count *)

\* The pool update_reward_pool stores: the count runs while anything is staked.
UpdatedRewardPool(a) ==
    LET r == reward_pool[a]
        elapsed == IF r.total_staked > 0
                   THEN saturating_sub(now, r.last_update_time) ELSE 0
        per_token == OrZero(elapsed * r.reward_rate)
    IN  [r EXCEPT
           !.reward_per_token_stored = OrZero(@ + per_token),
           !.total_rewards_distributed =
              OrZero(@ + OrZero(per_token * r.total_staked) \div REWARD_PRECISION),
           !.last_update_time = now]

\* calculate_pending_rewards, which also stores UpdatedRewardPool(a).
PendingRewards(u, a) ==
    LET s == user_stake[u][a]
        diff == saturating_sub(UpdatedRewardPool(a).reward_per_token_stored,
                               s.reward_per_token_paid)
    IN  IF s.amount = 0 THEN s.rewards
        ELSE OrZero(s.rewards + OrZero(diff * s.amount) \div REWARD_PRECISION)

\* Mutated: the pending rewards are credited and the old mark is kept.
CreditedStakeUnmarked(u, a) == [user_stake[u][a] EXCEPT !.rewards = PendingRewards(u, a)]

\* The stake update_user_reward_debt stores.  The mark is the count as it was
\* stored before this call brought it up to date, while the rewards are
\* computed from the updated count.
CreditedStake(u, a) ==
    [user_stake[u][a] EXCEPT
        !.reward_per_token_paid = reward_pool[a].reward_per_token_stored,
        !.rewards = PendingRewards(u, a)]

-----------------------------------------------------------------------------
(* Operations.  None of them looks at a pause switch or moves a token. *)

StakeLpTokens(u, a, amount) ==
    LET r == UpdatedRewardPool(a) IN
    /\ amount > 0
    /\ shares[u][a] >= amount
    /\ reward_pool[a].total_staked + amount <= MaxStaked
    /\ user_stake' = [user_stake EXCEPT
          ![u][a] = [amount |-> OrZero(@.amount + amount),
                     reward_per_token_paid |-> r.reward_per_token_stored,
                     rewards |-> 0]]
    /\ reward_pool' = [reward_pool EXCEPT
          ![a] = [r EXCEPT !.total_staked = OrZero(@ + amount)]]
    /\ UNCHANGED vars

\* The event says the rewards were claimed; the record keeps them.
UnstakeLpTokens(u, a, amount) ==
    LET s == CreditedStake(u, a) IN
    /\ amount > 0
    /\ user_stake[u][a].amount >= amount
    /\ user_stake' = [user_stake EXCEPT
          ![u][a] = [s EXCEPT
              !.amount = saturating_sub(@, amount),
              !.reward_per_token_paid = IF s.amount = amount THEN 0 ELSE @]]
    /\ reward_pool' = [reward_pool EXCEPT ![a] =
          [UpdatedRewardPool(a) EXCEPT !.total_staked = saturating_sub(@, amount)]]
    /\ UNCHANGED vars

ClaimRewards(u, a) ==
    LET s == CreditedStake(u, a) IN
    /\ s.rewards > 0
    /\ user_stake' = [user_stake EXCEPT ![u][a] = [s EXCEPT !.rewards = 0]]
    /\ reward_pool' = [reward_pool EXCEPT ![a] = UpdatedRewardPool(a)]
    /\ UNCHANGED vars

\* A read that brings the stored count up to date.
GetPendingRewards(a) ==
    /\ reward_pool' = [reward_pool EXCEPT ![a] = UpdatedRewardPool(a)]
    /\ UNCHANGED <<vars, user_stake>>

SetRewardRate(a, rate) ==
    /\ rate > 0
    /\ reward_pool' = [reward_pool EXCEPT
          ![a] = [UpdatedRewardPool(a) EXCEPT !.reward_rate = rate]]
    /\ UNCHANGED <<vars, user_stake>>

StakingNext ==
    \E a \in Assets :
        \/ \E u \in Users :
              \/ \E x \in StakeAmounts : StakeLpTokens(u, a, x) \/ UnstakeLpTokens(u, a, x)
              \/ ClaimRewards(u, a)
        \/ GetPendingRewards(a)
        \/ \E r \in RewardRates : SetRewardRate(a, r)

-----------------------------------------------------------------------------
\* The pool's total_staked, which scales total_rewards_distributed, is the sum
\* of the users' stakes, whatever mixture of partial and full unstaking.
StakesAddUp ==
    \A a \in Assets :
        reward_pool[a].total_staked = SumFunction([u \in Users |-> user_stake[u][a].amount])

\* What u's stake earned since the stored count was last brought up to date.
NotYetCounted(u, a) ==
    LET diff == saturating_sub(UpdatedRewardPool(a).reward_per_token_stored,
                               reward_pool[a].reward_per_token_stored)
    IN  OrZero(diff * user_stake[u][a].amount) \div REWARD_PRECISION

\* claim_rewards marks a stake with a count it then advances, so what was not yet
\* counted is credited by this claim and pending again after it.  Nothing else is,
\* however long ago the last claim was and whatever happened to stake, pool and
\* rate since; and in a ledger in which the count is current, as it is after the
\* get_pending_rewards that test_claim_rewards calls first, that is nothing.
ClaimSettles ==
    [][\A u \in Users, a \in Assets :
          ClaimRewards(u, a) => PendingRewards(u, a)' <= NotYetCounted(u, a)]_stakingVars

=============================================================================
