# XourceX in TLA+

XourceX is a digital-inheritance platform on Stellar. An owner locks funds in a plan and names heirs;
when the owner stops giving signs of life, or on a date, or when guardians or an oracle say so, the plan
is triggered and the heirs claim. Idle funds can be lent. This directory holds TLA+ models of the parts
that keep state, the TLC runs that check them on small instances, and TLAPS proofs that hold for every
instance.

## The system

| Part | State | Operations | What is hard about it |
| --- | --- | --- | --- |
| lending contract (`contracts/lending-contract`) | pools, shares, loans (stored twice, indexed once), collateral tallies, protocol buckets, settings | deposit, withdraw, borrow, repay, liquidate, refinance, consolidate, split, write off, accrue, flash loan; admin settings | rounding over long histories; books kept redundantly; settings that change under running loans |
| — staking, insurance, plan yield | reward pools and stakes, policies and their fund, yield positions | stake, unstake, claim; buy, cancel and claim cover; register, claim and boost | accumulators read before they are brought up to date; refunds and harvests paid from shared tokens |
| inheritance contract (`contracts/inheritance-contract`) | plans, heirs, claim records, triggers, guardians, emergency access, disputes, KYC, roles, pause | well over a hundred entry points of owners, heirs, guardians, oracles, arbitrators, admins | every guard is repeated by hand in every entry point; indexes that move; copies written back |
| — yield | link to a lending contract, relayers, harvest state per plan | register, sync, harvest (single, batch), compound, unregister | books credited without tokens, errors swallowed after the other contract was called |
| — wills, witnesses, messages, notices | document hashes, versions, signatures, sealed messages | link, version, sign, finalise; write, edit, unlock, delete | what is final must stay final through owners and versions |
| plan vault (`contracts/plan-vault`) | a token balance, a controller | initialize, release | must agree with the plan's books |
| access control (`contracts/access-control`) | roles, blacklist, pause, reentrancy flag | library used by both contracts | |
| loan NFT (`contracts/loan-nft`) | owners, approvals, metadata | mint, burn, transfer, approve | a trap in it undoes the loan |
| backend handlers (`backend/src/api.rs`, `loan_lifecycle.rs`) | `plans`, `beneficiaries`, `payouts` tables | create, update, ping, cancel, claim, pay out, settle | read, await, write; concurrent handlers and workers |
| inactivity watchdog (`inactivity_watchdog.rs`) | status and claim time of rows, a sweep in each process | claim a batch, trigger each on-chain, mark, announce | crashes and timeouts between chain and row |
| Soroban submission (`stellar_submit.rs`) | one account's sequence number, transactions in flight | simulate, send, poll | lost answers, late landings |
| webhook dispatcher (`webhooks.rs`) | `webhook_dispatches`, a batch in each process | enqueue, deliver, retry | rows without locks, stale counts written back, requests without timeout |
| plan cache (`cache.rs`) | Redis keys and index sets | fill, index, invalidate | a fill overlapping an invalidation; errors midway; writes that empty nothing |
| KYC webhook, anchor client | none between two calls | upsert; POST | order of arrival; a payout that is rolled back |
| frontend, HTTP plumbing, scripts | none of their own | | |

How they interact. Users call the contracts directly and through the backend. The inheritance contract
calls one vault per plan; the lending contract calls tokens and the NFT contract; both use the
access-control library in-process. The backend mirrors plans in its tables: handlers change rows on
signed requests, the watchdog calls `trigger_inheritance` for rows past their deadline through the
Soroban submission, and results go out as webhooks and cache invalidations. A contract call is atomic;
everything between the backend's statements is not.

What makes each part correct: in the lending contract, that every share, loan and token claim is backed
and no operation moves value between depositors; in the inheritance contract, that vault and books
agree but for yield some lending contract paid, each heir is paid once and only when allowed, freezes,
deactivation and triggers hold against every entry point, a finalised will stands and a sealed message
stays sealed; in the backend, that a row never claims more than the chain or an endpoint has done, that
decisions are not undone by late writes, that every overdue plan and every event is settled in the end,
and that an outdated answer in the cache has a known reason and a limited life.

## The modules

```
LendingMath <- LendingPool <- LendingLoans <- Lending <- MCLending
     |                                          ^------- LendingProofs
     |                                          ^------- LendingYield, LendingStaking, LendingInsurance
     |                                                      ^------- LendingServices <- MCLendingServices
     |                                                                   ^----- LendingServicesProofs
     +- LendingMathCheck <- YieldMathCheck <- MCLendingMath, MathProofs
InheritancePlans <- InheritanceTriggers <- InheritanceClaims <- Inheritance <- MCInheritance
                                                                    ^------- InheritanceYield, InheritanceWills,
                                                                             InheritanceMessages
                                                                                ^---- InheritanceEstate <- MCInheritanceEstate
                                                                                          ^---- InheritanceProofs
PlanFate (as Life in Inheritance, as Contract in PlanService)
PlanService <- Watchdog <- MCWatchdog
                   ^------ WatchdogProofs
Webhooks <- MCWebhooks, WebhookProofs        PlanCache <- MCPlanCache, PlanCacheProofs
ArithmeticProofs <- LendingProofs <- LendingServicesProofs
ArithmeticProofs <- InheritanceProofs, MathProofs
```

An arrow is EXTENDS. `YieldPositions`, the record both contracts keep books about, is an INSTANCE in
`LendingYield` (which owns it), `InheritanceYield` (which calls it) and `YieldMathCheck`; `YieldMath` is an
INSTANCE in `YieldMathCheck`; `WebhookDelivery` is the abstract specification `Webhooks` instantiates. `PlanFate` is what the
inheritance contract promises of a plan to whoever triggers plans: `Inheritance` instantiates it to show that the contract keeps the
promise, `PlanService` to take no more than it from the contract, so the two halves of the system meet there. Operators
keep the names of the functions they model; an operator whose name is not a function's is a helper. Operators placed directly before a definition, of the same parameters and
used nowhere, are wrong variants of it: a property is only worth its run if some such slip breaks it.

### The lending contract

`contracts/lending-contract/src/lib.rs` keeps one `PoolState` per asset, depositors' shares, loans and
a few admin settings, and holds the tokens of all of them in one balance per token contract.

| Module | What it models |
| --- | --- |
| `LendingMath` | the pure arithmetic: share minting and burning, simple interest, utilization, the two rate curves, late fees, the interest splits |
| `LendingPool` | the contract's storage, `initialize`, deposit and withdrawal of shares, flash loans, the retained-yield and bad-debt buckets, the admin settings, ledger close |
| `LendingLoans` | borrow, repay, liquidate, liquidate_bad_debt, accrue_interest_with_reserve, refinance_loan, consolidate_loans, split_loan; the loan-NFT mints and burns they make |
| `Lending` | the properties |
| `YieldPositions` | what a yield position is and how it accrues, as operators on its record |
| `LendingYield` | register_plan_yield, claim_plan_yield, unregister_plan_yield, set_plan_yield_boost |
| `LendingStaking` | stake_lp_tokens, unstake_lp_tokens, claim_rewards, get_pending_rewards, set_reward_rate |
| `LendingInsurance` | purchase, claim and cancellation of loan cover, the premium rate, the fund's payments |
| `LendingServices` | pools, loans and the three services together; their properties |
| `LendingMathCheck` | the arithmetic against reference definitions |
| `YieldMath`, `YieldMathCheck` | the projections of the inheritance contract's `yield_math.rs`, against exact arithmetic and against what the lending contract pays |
| `MCLending`, `MCLendingServices`, `MCLendingMath` | instances for TLC |

State. `total_deposits`, `total_shares`, `total_borrowed`, `retained_yield`, `bad_debt_reserve` and
`total_protocol_revenue` are the fields of `PoolState`, each a function on assets. `settings` is one
record with everything only an admin call changes (supported assets, pool and contract pauses, grace
period, late-fee rate, reserve factor, whitelists, flash fee, rate model, NFT contract). `loan`,
`loan_by_id`, `user_loans` and `next_loan_id` are the storage keys `Loan(borrower)`, `LoanById(id)`,
`UserLoans(borrower)` and `NextLoanId`: a loan is stored twice and indexed once, and nothing in the
code ties the three together except the handlers. `reserves` are the per-token tallies, `nft_minted`
the ids for which the NFT contract has metadata, `held` the contract's balance in each token, and
`now` the ledger.

Actions. Every entry point that changes state is one action: a Soroban invocation is atomic, an
`Err` or a trap undoes it, and the host refuses re-entry into a contract that is on the call stack, so
a flash loan with its callback is one step too. Early returns are guards; `\in U64` guards stand for
the overflow trap of a release build. Authorisation is not modelled where it does not select a case:
an admin call is possible at any time, a borrower's call for every borrower. Users' wallets are
environment (a transfer in can always be afforded; one that cannot reverts the call).

`now` is both timestamp and sequence number: both advance when a ledger closes, and each is only
compared with earlier values of itself.

Casts keep their width: `as_u64` wraps at `U64_MAX` where the code casts a u128 with `as u64`, `as_u32` at `U32_MAX`
in `health_factor` (`lib.rs:2819`), so the health factor of a loan with very much collateral can come out low.

Abstractions. The literals 10_000, 31_536_000 and 86_400 are parameters, so that TLC can use small
ones; the theorems hold for all. NFT metadata (uri, LTV) is dropped, its id kept.

The services. `position` is `PlanYield(plan_id)`, `reward_pool` and `user_stake` are the staking records,
`policy`, `insurance_fund` and `premium_rate_bps` the insurance ones. Each handler is one action and keeps the
code's order of reads: `CreditedStake` sets a stake's marker from the count read before
`calculate_pending_rewards` advances it; a harvest pays what the retained-yield bucket has and moves the
watermark regardless; a refund leaves the contract whether or not the fund still has it. Products that
overflow u64 give 0 as `unwrap_or(0)` does. Totals that only views read are not kept.

#### What is checked

| Run | Question |
| --- | --- |
| `lending_ledger` | When two users deposit, withdraw, borrow, refinance and repay in two pools, one asset being collateral too, while flash loans run and an admin changes settings between borrow and repay: do shares stay accounted for and backed, is `total_borrowed` exact, each loan repayable, and does one token balance cover everything? |
| `lending_defaults` | Do refinancing, consolidation, splitting, late fees, liquidation, write-off and accrual in any order keep the loan book consistent, lending within deposits, and depositors unharmed, in the price of a share (every rounding of a deposit and a withdrawal included) as in the tokens behind it? |
| `lending_services` | Are yield and covers paid once and rewards settled by a claim but for what was not yet counted, is time that a position was settled for never priced again, and does no operation of pools and services lower the tokens beyond what the books promise (`Surplus`)? |
| `lending_math` | Does the arithmetic of both contracts compute what it should on every point of a grid: interest to the nearest unit, a rate curve that meets itself, the same yield from the projection as from the pool, and no projection above exact compounding? |

Disagreements with what the code says of itself that the model reproduces, each named where a property
excludes it:

- `total_borrowed` is documented as the principal on loan (`lib.rs:43`), but `consolidate_loans` (3192) and `split_loan` put
  accrued interest and fees into new principals and leave it alone. `BorrowedMatchesLoans` is checked where those
  two and `liquidate` have no inputs (`lending_ledger`); TLC finds it violated where they have.
- `liquidate` (2855) reduces `total_borrowed` and pays out collateral but never writes the loan back, so `repay` of
  that loan (documented at 1713 to restore what is outstanding) traps, or with other loans in the pool subtracts
  principal that was already subtracted. `Repayable` is checked where liquidation has no inputs; TLC finds it violated where it has.
- A stake's marker lags one update behind (1221), so time that passed since the last update of the reward pool is
  credited with a claim and pending again after it, which `test_claim_rewards` ("rewards are reset after claiming") does
  not see because it brings the count up to date first. `ClaimSettles` says exactly how far this goes: a claim, at
  any moment, leaves pending at most what was not yet counted, which after an update is nothing.
- `cancel_insurance` (4140) refunds what the fund no longer has. It is the one exception (`RefundBeyondFund`) that
  `ServicesKeepBacking` makes beside those of the pools.
- A reserve registered while loans are open starts from zero (2154) and misses their collateral.

`ElapsedTimeIsSettled` is the other half of `ServiceBooks` for a yield position: that no second is paid twice bounds what a
position gets, and this says that whatever is done to it (a claim the bucket cannot pay in full, a registration
after a deactivation, a move to another pool) settles the time before. A boost is the exception, and the code means
it: it applies to all the time since the last harvest.

`BackingNeverEroded` is the form of solvency that holds of the whole contract: it names the three
handlers (plus a consolidation that repeats an id) whose books run ahead of the tokens, and shows that
no other step, at any point after one of them, makes the gap larger. Where those handlers get no inputs
(`lending_ledger`) the plain invariant `Solvent` holds.

Bounds. Two users with two pools, or one user with one pool and a collateral token; ledgers 1 to 3 (enter,
wait, leave); up to three loan ids, so that a loan can be refinanced, split and merged; amounts below
`U64_MAX` = 8 to 14, and BPS = 10, YEAR = 1 so that one tick of interest is a visible amount and every
rounding case occurs. `U64_MAX` is small enough for the overflow guards to bite, so the states in which
an operation traps are reached. `lending_ledger` explores states with at most `MaxChangedSettings` = 2 settings
off their initial values besides the supported assets and the whitelist, so any two meet, and tunes them while
one asset has a pool (`FewChangedSettings`). `lending_services` has one loan, two plans of which one may hold a
position at a time, and one service, or a collateral reserve, in use at a time (`FewServices`): the services
meet in the pools' books alone, none reads another's records. `lending_math` has every combination of six
fields up to 6 (amounts) and 4 (rates, times), with u64 and u128 small enough for both overflows to occur.
Users are symmetric in `lending_ledger` and `lending_services`. Deadlock is not checked: time and loan ids run out. Each
bound is a named constant, and the theorems below do not depend on any.

#### What is proved

| Theorem | Statement |
| --- | --- |
| `LendingProofs!TypeCorrect` | `Spec => []PoolTypeOK` |
| `LendingProofs!ShareLedgerBalances` | total shares = depositors' shares + the locked minimum |
| `LendingProofs!SharesAreBacked` | a pool has shares iff it has deposits |
| `LendingProofs!SharePriceIsMonotone` | no step lowers total_deposits / total_shares |
| `LendingProofs!LoanBookAgrees` | LoanById, UserLoans and the primary record agree |
| `LendingProofs!LoanIdsAreFresh` | ids are given out once and records never edited |
| `LendingProofs!PoolsLendWithinDeposits` | with a cap below 100%, borrowed <= deposited |
| `LendingProofs!BackingIsNeverEroded` | no step but the handlers of `BooksOutrunTokens` leaves the contract less able to pay what its books promise |
| `LendingProofs!SolventWithoutOutrunning` | hence `Solvent`, in a run without those handlers |
| `LendingProofs!BorrowedIsOwed` | `total_borrowed` is the open loans' principal, in a run without liquidation, consolidation and split |
| `LendingProofs!OpenLoansCanBeRepaid` | `Repayable`, with a cap below 100% and none of those handlers nor a change of NFT contract |
| `LendingServicesProofs!ServicesKeepBooks` | types of every service's records, no second of yield paid twice, stakes add up, covers paid once |
| `LendingServicesProofs!ClaimedRewardsAreSettled` | a claim leaves pending at most what was not yet counted |
| `LendingServicesProofs!ElapsedTimeStaysSettled` | whatever changes a position but its boost leaves it nothing for the time before |
| `LendingServicesProofs!ServicesNeverDrainPools` | no step of pools and services lowers `Surplus`, but for the handlers of `BooksOutrunTokens` and a refund beyond the fund |
| `MathProofs!RatesAreFaithful` | interest, utilization and the rate curve are what their definitions say, for all inputs and scales |
| `MathProofs!ProjectionsAreFaithful` | no projection of `yield_math.rs` promises more than exact arithmetic, loses principal or falls with time |
| `LendingProofs!DepositRoundTripIsNoGain`, `InterestSplitIsExact`, `UtilizationUnderCap` | facts about the arithmetic the others rest on |

The share theorems come from one inductive invariant, `ShareInv`: types, `ShareLedger`, `SharesBacked`
and `LoansHaveShares` (a pool without shares has lent nothing). None is inductive alone. `SharesBacked`
needs the ledger, since a withdrawal can only empty `total_deposits` if it can burn all shares, and the
locked minimum, which belongs to no depositor, is what prevents that; `LoansHaveShares` excludes a
repayment or liquidation that credits deposits to an empty pool. `ShareLedger` is stated with the
cardinality of a disjoint union so that one deposit or withdrawal adds or removes an interval, which
the finite-set theorems can follow. The monotone price is then an
inequality between two floors, proved from `DepositRoundTripIsNoGain`'s lemmas.

The loan-book theorem is inductive with the type invariant; ids are fresh because every open id is
below `next_loan_id`. `PoolsLendWithinDeposits` needs `UtilizationUnderCap` for borrow and refinance and
the liquidity guard for withdraw.

The solvency theorems are about sums over all loans. `SumFunction` is a recursive function on the subsets
of its domain, and the induction over finite sets that a sum needs is made without the library's induction
rules: `ArithmeticProofs!SmallestSet` finds a smallest set on which a claim fails, and the lemmas after it
(`SumOverUpdate`, `SumOverReplace`, `SumOverUnion`, `SumOverRename`, ...) follow one entry through a step. With
them the debt of a pool (`Owed`) and the collateral locked in a token change by exactly the loan that is
opened, closed or replaced. `CoverKept` is the per-step statement: for each handler, tokens minus claims does
not fall. For `repay` this needs that interest is split without loss (`InterestSplitIsExact`), for `split_loan`
that two rounded parts of the collateral do not exceed the whole, for `consolidate_loans` that the collateral
of distinct loans is the sum it moves. `Repayable` then follows from four facts: principal is among what the
pool counts as borrowed, collateral is covered by `Solvent` and `LendingWithinDeposits`, and NFTs of open loans
stay minted.

The hypotheses of `SolventWithoutOutrunning`, `BorrowedIsOwed` and `OpenLoansCanBeRepaid` exclude named
handlers because the code really breaks the property
there: `liquidate` pays out collateral and keeps the record, `liquidate_bad_debt` counts the loan as returned,
`accrue_interest_with_reserve` credits interest nobody paid, `consolidate_loans` counts an id listed twice
twice, and restructurings write new principals without adjusting `total_borrowed`. The runs use the same cut.

The proofs assume only the named ASSUMEs of the modules: positive scales, finite `Users`, natural
bounds, u64 arguments, and that the "absent" markers are not records. Every run evaluates them.

The services are proved over the pools. `ServiceInv` joins the loan book's invariant with the types of the
three services, `StakesAddUp`, `CoverPaidOnce` and two conjuncts the runs do not list. `RateModelIsInput` says
that the rate model in force is one an admin set, so `RateCeiling` bounds the supply rate (`SupplyRateBound`: a
rate curve never exceeds the sum of its slopes, and depositors get a part of it). `HarvestsEarned` is
`NoSecondPaidTwice` with time counted to `last_harvest_at` in place of now: the property alone is not
inductive, because it does not say which seconds a harvest has already used up, and only the watermark does.
A claim then adds at most `Steepest` for each second from the old watermark to the new one, rounding and the
cap of the bucket included; registering again, stopping and a new boost leave what was earned. `Surplus` is
split into spare tokens, the fund's balance and the plans' credit. Pool steps do not lower it by `CoverKept`,
summed over the tokens; a claim takes from `retained_yield` what it credits; insurance moves tokens and the fund
together (`FundMoves`), a saturated balance or a refund larger than the fund aside. `total_claims_paid` saturates
at `U64_MAX` (`saturating_add`), so `CoverPaidOnce` states the sum of covers up to that.

The arithmetic is proved for every point, not only those of the grid: `Spec` lets each of the six fields grow
without end, so a theorem about it is one about all amounts, rates, times and periods, with any scales and
integer widths. `RatesFaithful` takes the rounded quotients one by one. `ProjectionsFaithful` is about
`pow_factor`, a loop that rounds after every product and gives up on overflow, and is modelled as a function of
the turns made: `pow_loop[k]` is the loop's state after k of them. Three facts carry over from turn to turn.
`Promise`: what is in `result`, times what is in `factor` to the power of what is left of `n`, is no more than
the exact power, so the end result is not either (`GrowthIsNotOverpaid`). `Spoilt`: an overflow is never lost on
the way (`LoopIsSound`). `Behind`: the loops for n - 1 and for n, run side by side, keep the first no larger than
the second, though at each turn they may take different branches; hence a longer time never pays less
(`GrowthRises`). Where a product overflows the projection is
an error and nothing is claimed of it.

Induction over the naturals is made without the library's rules, which take an operator: `ArithmeticProofs`
finds the least number that is a counterexample (`InductionOver`, with the set of good numbers in place of a
predicate) and shows that a function defined by recursion exists by gluing its finite beginnings
(`IterationExists`). That is enough for `powers`, the reference for exact compounding, whose laws of sums,
products and order are the lemmas `PowersOf...`.

### The inheritance contract

| Module | What it models |
| --- | --- |
| `InheritancePlans` | storage, accounts (KYC, roles, blacklist, pause), the owner's operations, the vault |
| `InheritanceTriggers` | trigger conditions, oracles, guardians, emergency access, disputes, freezes |
| `InheritanceClaims` | single and batch claims |
| `Inheritance` | the properties of plans, triggers and claims |
| `PlanFate` | the abstract life of a plan: absent, open, barred for a while, closed or triggered for good |
| `InheritanceYield` | linking a lending contract, relayers, registering, harvesting, compounding, unregistering |
| `InheritanceWills` | will hashes, versions, signatures, witnesses, finalization |
| `InheritanceMessages` | legacy messages and their keys, notices and acknowledgments |
| `InheritanceEstate` | plans, claims and these three together |
| `MCInheritance`, `MCInheritanceEstate` | instances for TLC |

State. Each variable is a storage key, named at its declaration (`P`, `Up`, `C`, `Ca`, `It`, `Fz`, ...).
`vault` is the balance of the plan's vault contract, which only the controller can move.

Actions. One per entry point that changes state, atomic like every Soroban call. A batch call is as many
consecutive steps as it has entries, because the checks it makes once are not changed by its own
entries; `batch_claim` has one action for an accepted entry and one for an entry that is refused after
the attempt was counted. `claim_inheritance_plan` keeps the code's order: read the plan, let
`auto_trigger_check` write it, write the copy. Reading emergency access expires it, so the getter is an
action as well.

Abstractions. Claim codes are hashed with a salt stored under the heir's index; the model keeps the index
at which an heir was created (`salt_index`), and the code works exactly when that is the index the heir
has now. A guardian list is its members, its length and its threshold, which is all the checks read. The
creation fee is 0 when its product overflows, as in the code. Names, texts, the grace period, and keys
nothing writes (`Lh`, `Fb`, `Ves`) are left out. `total_loaned` is 0 in every reachable state, so
`recall_loan` and `liquidation_fallback` always refuse and are left out. Wallets are environment.

Yield. `pool_position` holds the positions of every lending contract that can be linked: `set_lending_contract`
changes which of them is called and leaves the others' positions behind. `Payable` and `PoolPays`
are `claim_plan_yield` of the lending contract as this one sees it: any part, as the bucket may not suffice, of what the position
accrued at any rate of `SupplyRates` (`LendingYield` has the pools that fix rate and bucket). That contract's admin may call the
same entry points without this contract: claim, register a position with another principal, drop it or boost it
(`LenderClaims`, `LenderRegisters`, `LenderDrops`, `LenderBoosts`). A refused call undoes the operation,
except in `harvest_yield_batch`, which goes on after an entry whose claim went through and whose credit did not
fit. A harvest raises `total_amount` (or `pending_credit`) and moves no token, so where yield is on, the
statement about the vault is `CreditsAreBacked`, not `VaultMatchesBooks`.

Wills and messages. Documents, contents and signatures are their hashes and bytes. `versions` is `Wv` with the
`Wf` marks, `active_version` is `Awv`, `vault_will` is `Vw`, `vault_messages` is the list a trigger unlocks. A
message's key reference is the rotation in force when it was written.

| Run | Question |
| --- | --- |
| `inheritance_roster` | Do edits of the heirs around claims keep totals, flags, single payment and waterfall? |
| `inheritance_triggers` | Does every early claim have a trigger, and is fresh emergency access limited in what it lets out? |
| `inheritance_disputes` | Does a freeze stop funds, claims and transfers, are deactivation and trigger final and does every plan live as `PlanFate` has it, is every claimant vetted at the time of the claim, and does the vault always hold at least what the books promise, batch claims included? |
| `inheritance_estate` | Do the books exceed the vault only by yield a lending contract paid for that plan, does every payment reach the plan, does the vault's will follow the active version and stand once finalised, and do messages stay sealed and listed? |
| `inheritance_batch_pays_nobody` (violation) | Does the vault still match the books after a batch claim? |

One run ends in a violation: in `inheritance_batch_pays_nobody` a batch claim lowers the books and leaves
the tokens in the vault. Without batch claims vault and books are equal, which is a theorem
(`VaultMatchesWithoutBatches`); with them the vault still covers the books (`inheritance_disputes`). `WaterfallRespected` holds in
`inheritance_roster`, which has no batch claims; `batch_claim` does not consult the waterfall either.

The model reproduces five more departures from what comments and docs say, without runs of their own:
`remove_beneficiary` moves the last heir and leaves its claim salt behind, so its code no longer works
(`lib.rs:2189`); a claim that triggers the plan stores the copy it read before, `is_lendable` included
(`lib.rs:3019`, against 4280); each share is taken of what earlier heirs left, so two heirs at 50% do not
empty a plan (`lib.rs:2803`, against `docs/faq.md:22`); `transfer_plan_ownership` accepts an inactive plan
(`lib.rs:7504`, against the error listed at 7503); and `require_acknowledgment`, after which heirs "must acknowledge
before they can claim" (`lib.rs:7423`), is stored and read by no claim. Two losses of yield are named by
`PaymentLost` and excluded from `NoYieldGoesMissing`: a batch entry whose credit overflows, which
`harvest_yield_batch` steps over although the pool has paid (`lib.rs:7289`), and a claim the lending contract's admin makes alone.

Bounds. Two or three users, two heirs (a third slot for additions), one plan or two, at most two
disputes, three ticks of time, BPS = 4 so that shares, fees and limits round. Each run gives inputs to the
operations its question is about and leaves the input sets of the others empty; a model of all inputs at
once is out of TLC's reach. Times are small but on both sides of each period: cool-down 1, expiry 1 (an
access opened at 1 is limited at 1, open at 2 and gone at 3),
attempt window 2. `inheritance_disputes` has two plans and two disputes, and `OneBusiness` keeps the
administration of accounts (pause, sanctions, roles, KYC rejection, a second plan) to the first day, with one
dispute and no arbitrator, apart from the life of a plan through transfers, triggers and verdicts.
`inheritance_estate` has one plan, two interchangeable lending contracts, two will versions, two documents, two
signatures, two messages and `U64_MAX` = 5 so that a credit overflows; one desk (yield, documents, wills,
messages, notices) is in use at a time, since the desks meet in the plan alone. Of three things at most one happens to
a plan: positions in both lending contracts, claims of its heirs beside a position, a lending admin who
registers (`LenderPrincipals` = {3}) or boosts (by 1) its position; and such a plan keeps its owner and funds (`FewDesks`). Deadlock is not checked, because plans, disputes and time run out.

#### What is proved

| Theorem | Statement |
| --- | --- |
| `InheritanceProofs!InheritanceIsTyped` | `Spec => []InheritanceTypeOK` |
| `InheritanceProofs!PlanBooksAgree` | owner lists, heirs' totals, claim flags and claim records agree |
| `InheritanceProofs!VaultAlwaysCoversBooks` | a vault holds at least what its plan's books promise |
| `InheritanceProofs!VaultMatchesWithoutBatches` | and exactly that, in a run without `batch_claim` |
| `InheritanceProofs!EarlyClaimsAreTriggered` | no claim before the distribution date without a trigger |
| `InheritanceProofs!FateStaysSealed` | `Spec` implements `PlanFate`; deactivated plans pay nobody, triggered ones keep trigger and owner |
| `InheritanceProofs!FreezeHolds` | no funds, claim or hand-over while a plan is frozen |
| `InheritanceProofs!EmergencyLimitHolds` | fresh emergency access lets out no more than its limit per call |
| `InheritanceProofs!HeirsClaimOnce` | claim records stay; a payment is one heir's share, and that heir had none |
| `InheritanceProofs!SeniorsClaimFirst` | the waterfall is kept, in a run without `batch_claim` |
| `InheritanceProofs!ClaimersAreVetted` | whoever claims is approved and not blacklisted at that moment |
| `InheritanceProofs!EstateIsTyped`, `EstateKeepsPlanBooks` | types and plan books with yield, wills, messages and notices beside the plans |
| `InheritanceProofs!EstateClaimsAreTriggered`, `EstateKeepsFate`, `EstateLimitsEmergencies`, `EstatePaysOnce`, `EstateSeniorsFirst`, `EstateVetsClaimers` | what is shown above of claims, fate and emergencies, with those beside the plans |
| `InheritanceProofs!HarvestsAreBacked` | books exceed a vault by no more than lending contracts paid for that plan |
| `InheritanceProofs!YieldArrives` | a payment is credited in the same step to the unit, with the two exceptions named above |
| `InheritanceProofs!VaultWillIsInForce`, `FinalizedWillIsSettled` | the vault's will is the only active version; a finalised one stands |
| `InheritanceProofs!MessagesStayKept` | a message opens at its date or by its plan's trigger, and stays listed once |

The inductive invariant is `Inv`: types, the plan books, the registry of claims, and two conjuncts that say
what did not happen. `NoTraces`: an id without a plan has no claims, funds, trigger, freeze or emergency access,
so `create_inheritance_plan` cannot inherit any. `DisputesHavePlans`: a verdict never freezes an id that is given
out later. `ClaimRegistry` ties a claim flag to the heir's record through the swap that `remove_beneficiary`
makes. The properties of steps do not follow from the invariant alone, so every entry point is classified
once: `NextStep` shows that each step leaves a plan untouched, creates it, keeps it while its records change,
hands it over, funds it, withdraws from it or claims from it (`StepOn`), each with the guard that allows it, and
the theorems on steps are read off these seven cases.

The refinement maps a plan to its trigger info, `is_active`, freeze mark and the pause switch (`FateOf`), the four things
`trigger_inheritance` looks at. `PlanFate` changes one plan at a time but for a pause or its end, so the proof first shows that every
entry point writes plan, trigger and freeze of one id only, or marks alone (`NextIsOnOne`), and then that the step it
makes there is a step of the abstract life (`FateTurns`, from `StepOn`; `MarksTurnFates`). A harvest that compounds leaves
every fate alone (`RaisesKeepFates`), so the composed contract implements `PlanFate` as well (`EstateKeepsFate`).
A barred plan can still be triggered: `auto_trigger_check` asks neither for the freeze nor for the pause (`lib.rs:4229`).

`VaultCoversBooks` is proved of the contract without harvests; compounding credits books without
tokens, and what is true then is `CreditsAreBacked`. The three theorems with the hypothesis that no step is a
`batch_claim` have it because the code breaks them there: the run that ends in a violation is one instance.
Several arbitrators are a set, as the admin may appoint any number.

`EstateInv` adds the types and records of yield, will versions, messages and notices to `Inv`. `Settles` is the
step statement for money: credit rises by exactly what lending contracts paid, or the payment is one
`PaymentLost` names, or a batch claim ran; a full u64 tally (`PoolTallyFull`, `FeeTallyFull`) excuses a plan
from then on, because the code saturates there. `CreditsAreBacked` follows by induction from it. For wills the
extra conjunct is that a plan without versions has none in force; for messages, that ids not yet given out
are empty.

The assumptions are the named ASSUMEs: finite sets of plans and accounts, natural amounts and times, positive
scales, markers that are not records. Every step of `EstateNext` is one of `Next`, leaves the plans alone, or
raises one plan's books by a credit of yield (`EstateMoves`, `Raises`), so the theorems on steps carry over.
Freezing is the exception and is stated for `Spec` only: a harvest that compounds raises a frozen plan's
`total_amount`, in the code as in the model.

### The backend: plan handlers and watchdog

| Module | What it models |
| --- | --- |
| `PlanService` | the `plans` row (status, active, overdue, stale), payout batches, the HTTP handlers, the chain's view of a plan |
| `Watchdog` | sweeps of any number of processes, the Soroban submission, crashes, the network; the properties |
| `MCWatchdog` | instances for TLC |
| `WatchdogProofs` | theorems |

Interleaving. A handler that reads a row, awaits something and writes later is two actions (`ping_plan`,
`cancel_plan`, `claim_plan`, `liquidate_and_settle`, each with its `_write`), and `abandon` is any failure
in between. `trigger_payout` locks the row and `update_plan` writes nothing that depends on its read: one
action each. A worker's sweep is one action per await: `claim_expired_plans` (one transaction under the
advisory lock), `next_plan`, `simulate`, `send_transaction`, `await_transaction`, `mark_triggered` or
`mark_trigger_failed`, `announce`. `LocalStep` are the steps that wait for the database at most, `RequestStep` the
three that wait for an answer of Horizon or the Soroban RPC. `crash` is a process that dies or is shut down, and also a database
error, on which `run_once` returns and forgets the rest of its batch.

Time. `overdue` is `inactivity_deadline_at <= NOW()` and `stale` is the age of `trigger_started_at`
reaching `stale_after`. Both become true at any moment, so every ratio between interval, poll timeout,
backoff and `stale_after` is included.

Network. `pending` are the transactions that can still land. All come from one account, and those built
since its last transaction carry the same sequence number, so when one lands (one of the watchdog's, or one
of the loan handlers': `OtherTransactionLands`) the others are dead and a worker between simulation and sending is
outdated. A lost answer, a failed poll and a timeout leave a transaction behind that nobody waits for.
`chain` is the fate of each plan on-chain in the terms of `PlanFate`, which the contract's model above is proved to
implement: it decides what `trigger_inheritance` answers, and `ChainMoves`, any step of `PlanFate`, is what others may
do to plans there.

| Run | Question |
| --- | --- |
| `watchdog` | With two workers of which one may crash, retries, timeouts, late landings and two handlers in flight: can a row say more than the chain, is a payout undone or repeated by anybody but who had the plan in hand, does a decision stay decided, is everything in flight recorded, and is every plan that stays overdue decided while one worker gets its requests back? |

Without runs of their own, the model reproduces five disagreements with what the code says: a late landing
makes the retry fail, and the row says TRIGGER_FAILED of a triggered plan
(`inactivity_watchdog.rs:340`, against 25); `cancel_plan` writes DEACTIVATED over a PAID_OUT written since its check
(`api.rs:3329`, against 3270); a poll that is never answered is never given up, because `poll_timeout` is compared after an
answer has come (`stellar_submit.rs:693`, against 73); a slow worker's plans are taken over by a second worker while the first still has
them in hand (`inactivity_watchdog.rs:277`, against 236); a ping between claim and landing is accepted and has no
effect (`api.rs:1514`). None of them contradicts the properties of `watchdog`, which are about what a row or an event
promises and about who may overwrite a payout: `PaidOutStands` says that a cancellation or a claim past its check and a
worker that had claimed the plan are the only ones, and that nobody pays a plan again once none of them has it in hand.

Fairness (`FairSpec`): weak fairness of each worker's `LocalStep`, since tokio polls every task, the interval fires
again and database statements return or are cancelled (`statement_timeout`, `db.rs:34`), and of `ClaimGoesStale`,
since time passes. There is none for `RequestStep`: the HTTP client is a `Client::new()` (`stellar_submit.rs:133`),
which waits for an answer as long as the server lets it, and the sweep waits with it. So `ExpiredPlansAreDecided` has a premise: one
worker, whichever, is again and again not waiting for an answer. That is what a second process is for; with a single
process an endpoint that accepts a request and never answers leaves the plan TRIGGERING for ever. The premise does not ask for
good answers: lost ones, refusals and timeouts are all allowed, and nothing is assumed of owners, heirs or the chain.
`ExpiredPlansAreDecided` is about plans that stay due; a plan whose owner keeps moving the deadline need never be decided.

Bounds. One plan, two workers with a batch of one, two handlers, two attempts, one crash, at most two payout
batches: enough for a stale reclaim to meet a live worker, for a retry after a late landing, and for each pair
of handlers to cross. A signer is configured; the proofs cover the fallback, any number of plans and any batch.
Without bounds on crashes and
payouts the model would count for ever; nothing reads the counters.

#### What is proved

| Theorem of `WatchdogProofs` | Statement |
| --- | --- |
| `WatchdogTypeCorrect` | `Spec => []WatchdogTypeOK`, the bound on attempts included |
| `DecidedPlansStayDecided` | `Spec => DecidedStaysDecided` |
| `PayoutsStand` | `Spec => PaidOutStands` |
| `InFlightRecorded` | `Spec => []InFlightIsRecorded` |
| `BackendLeavesFate` | `Spec => Contract!FateSpec`: the backend does to plans on-chain what `PlanFate` allows, and no more |
| `TriggeredOnChain`, `AnnouncedOnChain`, `PayoutsTriggered` | rows, events and payouts follow the chain |

Types need `HandsFull`: a worker past `next_plan` has a plan in hand. `DecidedPlansStayDecided` rests on
`StatusSteps`, which lists what any step can do to a status. `PayoutsStand` needs that a paid out plan is closed (`PaidOutIsClosed`), so that neither `trigger_payout` nor a
sweep nor a new claim takes it up. `InFlightRecorded` strengthens the claim from
transactions to everything a worker has queued or in hand (`RecordInv`), since that is where transactions
come from. The chain theorems rest on `Inv`: a transaction is awaited by the worker it names, which is
polling for that plan (`AwaitInv`), so a success is about the right plan; a worker that saw success, a
row, an event, a payout of an active plan and a claim that was checked but not yet written all imply that
the plan is triggered (`VerdictInv`, `EventInv`, `RowInv`), and being triggered is never undone
(`OnChainStays`). The constants are arbitrary within the named ASSUMEs. The liveness properties are
model-checked only.

### The backend: webhooks

| Module | What it models |
| --- | --- |
| `WebhookDelivery` | the abstract promise: taken up while pending, verdicts with grounds, verdicts only from who took the row up |
| `Webhooks` | `enqueue_event` and `run_once` statement by statement, in any number of processes |
| `MCWebhooks` | an instance for TLC |
| `WebhookProofs` | theorems |

`enqueue_event` reads the active endpoints and inserts one row per endpoint, each its own statement, and may
fail between two. A dispatcher's `run_once` is a SELECT of due rows, a POST for each, and the write of its
verdict. `FOR UPDATE SKIP LOCKED` runs outside a transaction and locks nothing once the statement is over, so
two dispatchers hold the same row; `read` keeps the attempts the SELECT saw, because `handle_failure` counts
from them. A POST may be answered, refused, answered with the answer lost, or never answered (no timeout is
set): `answered` is the endpoint's step, not the dispatcher's. `abort` is a crash or a database error, after
which the rest of the batch is forgotten. `accepted` and `refusals` are history: what endpoints said.

The refinement maps a row's status to `state` and the batches in hand to `open`. It says what at-least-once
means here: a dispatch may be delivered twice, "success" may be overwritten by "failed" of a slower
dispatcher and the other way round, but only by one that had taken the row up while it was pending, and every
verdict has its grounds.

Run `webhooks`: two dispatchers, two endpoints, one event, batches of two, two attempts, one fault.
`VerdictsAreHonest`, the refinement `ImplementsDelivery`, and `EveryDispatchSettles`. Fairness
(`FairWebhookSpec`): weak fairness of each dispatcher's own step (its task and timer keep running) and of the
end of a backoff (time passes); none of endpoints. That a dispatcher gets its requests back is the
premise of the liveness property, asked of one dispatcher only: an endpoint that never answers stops the
dispatcher that called it for good (`webhooks.rs:79`), and with a single process all delivery.

| Theorem of `WebhookProofs` | Statement |
| --- | --- |
| `WebhookTypes` | types, for any number of events, endpoints, dispatchers and faults |
| `VerdictsAlwaysHonest` | `WebhookSpec => []VerdictsAreHonest` |
| `DeliveryIsImplemented` | `WebhookSpec => Delivery!DeliverySpec` |

The invariant behind them is `WebhookInv`: the types, `TodoIsUnwritten` (a row still to be written does not exist),
`MemoryIsTrue` (the rows of a batch exist, its current row is one of them, the attempts it read never exceed the
refusals, and an answer in hand is reflected in `accepted` or `refusals`) and `VerdictsAreHonest`. It is needed because a
dispatcher writes from what it read rounds ago: only `MemoryIsTrue` bounds the count it writes back by the POSTs
made. Each action of `WebhookNext` then maps to one of `WebhookDelivery` or leaves its variables alone.

### The backend: plan cache

| Module | What it models |
| --- | --- |
| `PlanCache` | `cache.rs` on Redis, with `get_plans`, `get_plan_statistics`, the handlers that invalidate and those that do not |
| `MCPlanCache` | an instance for TLC |
| `PlanCacheProofs` | the inductive invariant and the theorems below |

Each Redis command and each database statement is a step: a fill reads the tables, SETEXs its answer and
SADDs its key to the index sets; an invalidation commits, SMEMBERS each index set of its plan, and DELs keys and
sets in any order. Entries and sets expire; an error or crash ends either side midway and is only logged.
Keys carry filters trimmed and in lower case, while the query compares them as written, so two spellings
share a key. `asked` fixes what clients ask in a behaviour; `enabled` is whether `main` found Redis. `excused` is
history: the keys whose entry may be old because its fill overlapped a write, an error cut something short,
or `update_plan`, the watchdog's claim and its failure mark wrote the tables without emptying anything.

Run `plan_cache`: one plan, two requests in flight, two spellings of a beneficiary or the statistics, two writes, one fault.
`OutdatedIsExplained` says that beyond those reasons a fill and an invalidation never miss each other; `OutdatedGoesAway` that
every outdated answer leaves in the end, under weak fairness of `Expire` alone (`FairCacheSpec`: Redis drops
expired keys); the second is model-checked only.

| Theorem of `PlanCacheProofs` | Statement |
| --- | --- |
| `CacheInvariant` | `CacheSpec => []CacheInv`, for any owners, queries, requests, writes and faults |
| `OutdatedExplained` | `CacheSpec => []OutdatedIsExplained` |

`OutdatedIsExplained` is not inductive: it says nothing of entries that are still right and will not be after the next
commit. `CacheInv` adds, besides the types: an answer in hand that nothing overlapped is the present one and nobody is
invalidating (`UnracedIsFresh`); a disabled cache is empty; and every entry that nothing excuses is `Sound`: the set of
all queries lists it and outlives it, or an invalidation is about to delete it, or nobody is invalidating and its
fill still has the SADD to do; and every invalidation in progress has found it, or has that set yet to read.
The step that needs all of it is the SMEMBERS of the last index set, after which the writer can only delete
what it has found. `CacheAssumption` says what filters, heirs and owners are, nothing more.

Disagreements the model reproduces: `update_plan` (`api.rs:979`) commits without invalidating; plan statistics are
never invalidated and live for their 60 seconds; answers to differently spelt filters are exchanged; and without Redis
the cache is disabled, where `docs/api.md:97` promises an in-process fallback.

## Limits of the proofs

Only liveness under fairness (`ExpiredPlansAreDecided`, `EveryDispatchSettles`, `OutdatedGoesAway`) stays with
TLC: it needs ENABLED, which the prover does not reason about. Every invariant and every property of steps
that a passing run checks is stated by a theorem. The hypotheses that exclude named handlers are those of the lending
contract's `SolventWithoutOutrunning`, `BorrowedIsOwed` and `OpenLoansCanBeRepaid` and the three of the
inheritance contract about `batch_claim`, and the code breaks each property where the hypothesis fails.

## Not modelled

- The KYC webhook: one unconditional upsert per event and no sequence number in the payload, so the last
  arrival wins whatever it says (`kyc_webhook.rs:190`). The contracts' models take KYC verdicts in any order.
- The anchor client: no state of its own. `trigger_payout` calls it inside a transaction that may still be rolled
  back and drops its answer (`api.rs:1775`), so an error after the call and a retry pay an heir again; nothing in
  the code records what the anchor did. `PlanService` has that transaction as one step.
- The NFT contract's ownership and approvals, which no other part reads; the plan vault's initialisation, which
  happens in the call that deploys it.
- Upgrades, storage lifetimes, links to a governance contract and the lists of wrapped tokens: no modelled
  operation reads them.
- Authentication, rate limiting, PDF, metrics, WebSocket output, XDR decoding, the yield calculator's
  floating-point figures, the frontend and the scripts: I/O, formatting and arithmetic without state.
- `gas_optimization.rs`, `safe_math.rs` and `yield_math_mock.rs` are reached by no `mod` declaration, and the
  lending contract's `reentrancy.rs` is not used.

## Plan

Done, in this order: lending core with its proofs; inheritance plans, triggers and claims; watchdog and plan
handlers with their proofs; yield, staking and insurance around the pools; yield, wills and messages around the
plans; webhooks with their abstract specification and its proof; the plan cache with its proofs.

The inheritance contract with and without its other desks, solvency and the services of the lending contract,
and the arithmetic of both contracts have their proofs as well.

The abstract plan life cycle (`PlanFate`) that the inheritance contract implements and the watchdog relies on has its
proofs on both sides.

Worth doing next: both contracts in one model, where `LendingYield`'s pools fix the rates and payments that
`InheritanceYield` takes from `SupplyRates` and `Payable`.
