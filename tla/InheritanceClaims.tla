------------------------- MODULE InheritanceClaims -------------------------
(***************************************************************************)
(* Payouts of the inheritance contract: claim_inheritance_plan and         *)
(* batch_claim (contracts/inheritance-contract/src/lib.rs), and the whole  *)
(* contract's next-state relation.                                         *)
(***************************************************************************)
EXTENDS InheritanceTriggers, FiniteSetsExt

CONSTANTS Claimers, ClaimEmails, ClaimCodes, BatchClaimers

ASSUME ClaimAssumption ==
    /\ Claimers \cup BatchClaimers \subseteq Users
    /\ ClaimEmails \subseteq Emails
    /\ ClaimCodes \subseteq Codes

\* check_and_record_claim_attempt: the window as it is now, and after one more
\* attempt.  A first attempt opens a window at now, as an elapsed one does.
Window(p, u) ==
    LET w == attempts[p][u] IN
    IF w.count = 0 \/ now - w.start >= CLAIM_ATTEMPT_WINDOW_SECONDS
    THEN [start |-> now, count |-> 0] ELSE w

MayAttempt(p, u) == Window(p, u).count < CLAIM_MAX_ATTEMPTS_PER_WINDOW

RecordAttempt(p, u) ==
    attempts' = [attempts EXCEPT ![p][u] =
                    [start |-> Window(p, u).start, count |-> Window(p, u).count + 1]]

\* auto_trigger_check inside a claim, on a plan known to be active.
AutoTriggers(p) == ConditionsMet(p) /\ p \notin triggered
AfterAutoTrigger(p) == IF AutoTriggers(p) THEN triggered \cup {p} ELSE triggered

\* Mutant: one tick early.
ClaimTimeEarly(p) == p \in AfterAutoTrigger(p) \/ now - plan[p].created_at + 1 >= plan[p].wait

\* is_claim_time_valid, bypassed once triggered.
ClaimTime(p) == p \in AfterAutoTrigger(p) \/ now - plan[p].created_at >= plan[p].wait

\* Heirs whose email and salted code match.
Matching(p, email, code) ==
    {i \in DOMAIN plan[p].beneficiaries :
        LET b == plan[p].beneficiaries[i] IN
        b.email = email /\ b.code = code /\ b.salt_index = i}

\* Mutant: seniority is the order in the list.
MyTurnByIndex(p, i) ==
    plan[p].waterfall_enabled => \A j \in 1..(i - 1) : plan[p].beneficiaries[j].is_claimed

\* Waterfall: every heir with a smaller non-zero priority has claimed.
MyTurn(p, i) ==
    plan[p].waterfall_enabled =>
        \A j \in DOMAIN plan[p].beneficiaries :
            LET b == plan[p].beneficiaries[j] IN
            b.priority = 0 \/ b.priority >= plan[p].beneficiaries[i].priority \/ b.is_claimed

\* Mutant: shares are rounded up.
PayoutRoundedUp(p, i) ==
    Min({Share(plan[p].total_amount * plan[p].beneficiaries[i].allocation_bp + BPS - 1, 1),
         plan[p].total_amount})

\* calculate_waterfall_payout: a share of what is left.
Payout(p, i) ==
    Min({Share(plan[p].total_amount, plan[p].beneficiaries[i].allocation_bp),
         plan[p].total_amount})

add_plan_to_claimed(p) ==
    /\ user_claimed' = [user_claimed EXCEPT ![plan[p].owner] = @ \cup {p}]
    /\ all_claimed' = all_claimed \cup {p}

RecordClaim(p, email) ==
    /\ claimed' = [claimed EXCEPT ![p] = @ \cup {email}]
    /\ add_plan_to_claimed(p)

\* Mutant: the plan's amount is not reduced by what is paid.
PaidOffTheBooks(p, i, payout) ==
    /\ plan' = [plan EXCEPT ![p].beneficiaries[i].is_claimed = TRUE]
    /\ vault' = [vault EXCEPT ![p] = @ - payout]

\* release_from_plan_vault, and the plan read at the start of the claim stored
\* again: an is_lendable cleared by the claim's own trigger is set again.
Settle(p, i, payout) ==
    /\ plan' = [plan EXCEPT ![p].beneficiaries[i].is_claimed = TRUE,
                            ![p].total_amount = @ - payout]
    /\ vault' = [vault EXCEPT ![p] = @ - payout]

ClaimStep == UNCHANGED <<next_plan_id, user_plans, deactivated, accountVars, config,
                         guardians, approvals, contacts, disputeVars, now>>

\* A refused claim is reverted, its attempt included.
claim_inheritance_plan(u, p, email, code) ==
    /\ u \notin blacklisted /\ ~paused /\ "approved" \in kyc[u]
    /\ Exists(p) /\ plan[p].is_active /\ p \notin frozen
    /\ MayAttempt(p, u)
    /\ ClaimTime(p)
    /\ email \notin claimed[p]
    /\ Matching(p, email, code) # {}
    /\ LET i == Min(Matching(p, email, code))
           payout == Payout(p, i)
       IN  /\ MyTurn(p, i)
           /\ WithinEmergencyLimit(p, payout)
           /\ payout > 0 /\ payout <= vault[p]
           /\ Settle(p, i, payout)
    /\ RecordClaim(p, email)
    /\ RecordAttempt(p, u)
    /\ triggered' = AfterAutoTrigger(p)
    /\ access' = AfterExpiry(p)
    /\ ClaimStep

\* Mutant: the freeze is not asked for.
BatchOpenFrozen(p) == ~paused /\ Exists(p) /\ plan[p].is_active /\ ClaimTime(p)

\* What batch_claim checks once, before its entries.
BatchOpen(p) ==
    ~paused /\ Exists(p) /\ plan[p].is_active /\ p \notin frozen /\ ClaimTime(p)

\* The plan after batch_claim's auto_trigger_check; it is read again per entry.
Freshly(p) ==
    IF AutoTriggers(p) THEN [plan[p] EXCEPT !.is_lendable = FALSE] ELSE plan[p]

\* Mutant: KYC is not asked for.
BatchMatchAnyone(u, p, email, code) ==
    email \notin claimed[p] /\ Matching(p, email, code) # {}

\* An entry that identifies an heir who has not claimed.
BatchMatch(u, p, email, code) ==
    "approved" \in kyc[u] /\ email \notin claimed[p] /\ Matching(p, email, code) # {}

\* An accepted entry: the claim is recorded and the books reduced.  The vault
\* is not touched, the heir not marked and the waterfall not consulted.
batch_claim(u, p, email, code) ==
    /\ BatchOpen(p)
    /\ u \notin blacklisted /\ MayAttempt(p, u)
    /\ BatchMatch(u, p, email, code)
    /\ LET i == Min(Matching(p, email, code))
           base_payout == Share(plan[p].total_amount, plan[p].beneficiaries[i].allocation_bp)
       IN  /\ WithinEmergencyLimit(p, base_payout)
           /\ plan' = [plan EXCEPT ![p] =
                 [Freshly(p) EXCEPT !.total_amount = plan[p].total_amount - base_payout]]
    /\ RecordClaim(p, email)
    /\ RecordAttempt(p, u)
    /\ triggered' = AfterAutoTrigger(p)
    /\ access' = AfterExpiry(p)
    /\ UNCHANGED vault
    /\ ClaimStep

\* An entry refused after its attempt was counted: the call goes on, so the
\* count and the trigger stay.  A refusal by the limit finds no expired access.
batch_claim_refused(u, p, email, code) ==
    LET heirs == Matching(p, email, code)
        overLimit == ~WithinEmergencyLimit(p,
                         Share(plan[p].total_amount,
                               plan[p].beneficiaries[Min(heirs)].allocation_bp))
    IN  /\ BatchOpen(p)
        /\ u \notin blacklisted /\ MayAttempt(p, u)
        /\ BatchMatch(u, p, email, code) => overLimit
        /\ plan' = [plan EXCEPT ![p] = Freshly(p)]
        /\ RecordAttempt(p, u)
        /\ triggered' = AfterAutoTrigger(p)
        /\ UNCHANGED <<access, vault, claimed, user_claimed, all_claimed>>
        /\ ClaimStep

ClaimNext ==
    \E p \in Plans, e \in ClaimEmails, c \in ClaimCodes :
       \/ \E u \in Claimers : claim_inheritance_plan(u, p, e, c)
       \/ \E u \in BatchClaimers : batch_claim(u, p, e, c) \/ batch_claim_refused(u, p, e, c)

Next == PlanNext \/ AccountNext \/ TriggerNext \/ EmergencyNext \/ DisputeNext
           \/ ClaimNext \/ Tick

Spec == Init /\ [][Next]_vars

=============================================================================
