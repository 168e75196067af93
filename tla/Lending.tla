------------------------------ MODULE Lending ------------------------------
(***************************************************************************)
(* What the lending contract is meant to keep true, over the state and     *)
(* the actions of LendingPool and LendingLoans.                            *)
(***************************************************************************)
EXTENDS LendingLoans

-----------------------------------------------------------------------------
(* Shares *)

\* One element for every share a depositor holds: their number is the sum of
\* the depositors' balances.
ShareUnits(a) == UNION {{u} \X (1..shares[u][a]) : u \in Users}

\* deposit and withdraw keep the pool's total_shares equal to the depositors'
\* shares plus the MINIMUM_LIQUIDITY that the first deposit locked, so that
\* the last depositor to leave can never burn the locked ones.
ShareLedger ==
    \A a \in Assets :
        Cardinality(ShareUnits(a)) =
            IF total_shares[a] = 0 THEN 0 ELSE total_shares[a] - MINIMUM_LIQUIDITY

\* No pool holds deposits that no share stands for, nor shares of nothing:
\* shares_for_deposit would price the next deposit 1:1 and give the old value
\* away, or divide by zero.
SharesBacked ==
    \A a \in Assets : total_shares[a] = 0 <=> total_deposits[a] = 0

\* No operation lowers what a share is worth, total_deposits / total_shares:
\* minting and burning round in the pool's favour, and interest, fees,
\* liquidations and write-offs never take from total_deposits.
SharePriceNeverFalls ==
    [][\A a \in Assets :
          total_deposits'[a] * total_shares[a] >= total_deposits[a] * total_shares'[a]]_vars

-----------------------------------------------------------------------------
(* The loan book *)

OpenIds == {i \in LoanIds : loan_by_id[i] # NoLoan}

\* The three places a loan is stored under agree: LoanById holds it under its
\* own id, UserLoans lists exactly the borrower's open ids, and the primary
\* record is a copy of one of them.
LoanBookConsistent ==
    /\ \A i \in OpenIds : loan_by_id[i].loan_id = i /\ i < next_loan_id
    /\ \A u \in Users :
          /\ user_loans[u] = {i \in OpenIds : loan_by_id[i].borrower = u}
          /\ loan[u] # NoLoan =>
                /\ loan[u].loan_id \in user_loans[u]
                /\ loan_by_id[loan[u].loan_id] = loan[u]

\* A loan id is never given to a second loan: once a record leaves LoanById,
\* by repayment, write-off or restructuring, its id stays unused, and while
\* it is there no operation edits it.
LoanIdsNeverReused ==
    [][\A i \in LoanIds :
          \/ loan_by_id'[i] = loan_by_id[i]
          \/ loan_by_id[i] # NoLoan /\ loan_by_id'[i] = NoLoan
          \/ loan_by_id[i] = NoLoan /\ i >= next_loan_id /\ i < next_loan_id']_vars

\* With a utilization cap below 100% a pool never lends more than it has:
\* borrow, refinance_loan and withdraw each check a different inequality.
LendingWithinDeposits ==
    UtilizationCapBps < BPS =>
        \A a \in Assets : total_borrowed[a] <= total_deposits[a]

\* Principal of the open loans of an asset, and their collateral in a token.
PrincipalOnLoan(a) ==
    SumFunction([i \in LoanIds |->
           IF i \in OpenIds /\ loan_by_id[i].asset = a
           THEN loan_by_id[i].principal ELSE 0])

CollateralLocked(t) ==
    SumFunction([i \in LoanIds |->
           IF i \in OpenIds /\ loan_by_id[i].collateral_token = t
           THEN loan_by_id[i].collateral_amount ELSE 0])

\* PoolState.total_borrowed is the principal of the pool's open loans.
BorrowedMatchesLoans ==
    \A a \in Assets : total_borrowed[a] = PrincipalOnLoan(a)

\* Nothing in the contract's own books can make repay trap: the pool counts
\* the loan's principal as borrowed, the contract still has the collateral,
\* and the NFT that repay burns exists.
Repayable ==
    \A u \in Users : loan[u] # NoLoan =>
        LET l == loan[u] IN
        /\ l.principal <= total_borrowed[l.asset]
        /\ l.collateral_amount <= held[l.collateral_token]
        /\ settings.nft_token # NoNft => l.loan_id \in nft_minted[settings.nft_token]

-----------------------------------------------------------------------------
(* Solvency *)

\* What the books say the contract must have of a token: the collateral of
\* open loans and, for a pool's asset, unlent deposits and both buckets.
Claims(t) ==
    CollateralLocked(t) +
        IF t \in Assets
        THEN total_deposits[t] - total_borrowed[t] + retained_yield[t] + bad_debt_reserve[t]
        ELSE 0

\* The contract holds every token its books promise.
Solvent == \A t \in Tokens : held[t] >= Claims(t)

\* The handlers whose bookkeeping is not matched by tokens: liquidate pays
\* out collateral and keeps the record, liquidate_bad_debt counts the loan as
\* returned, accrue_interest_with_reserve credits interest nobody has paid.
BooksOutrunTokens ==
    \/ \E u \in Users : LiquidateBadDebt(u) \/ \E x \in LiquidateAmounts : Liquidate(u, x)
    \/ AccrualNext
    \/ \E u \in Users, n \in 1..MaxConsolidate, d \in ConsolidateDurations :
          \E ids \in [1..n -> LoanIds] :
             /\ \E j, k \in 1..n : j # k /\ ids[j] = ids[k]
             /\ ConsolidateLoans(u, ids, d)

\* Every other operation leaves the contract at least as well covered in
\* every token as it found it: deposits, withdrawals, loans, repayments with
\* interest and late fees, refinancing, splitting, flash loans and bucket
\* payments move tokens and books together.
BackingNeverEroded ==
    [][BooksOutrunTokens \/
       \A t \in Tokens : (held[t] - Claims(t))' >= held[t] - Claims(t)]_vars

=============================================================================
