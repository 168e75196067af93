------------------------------ MODULE Watchdog ------------------------------
(***************************************************************************)
(* The inactivity watchdog (backend/src/inactivity_watchdog.rs) and the    *)
(* Soroban submission it runs on (backend/src/stellar_submit.rs), beside   *)
(* the handlers of PlanService.                                            *)
(*                                                                         *)
(* Each backend process is a worker.  A sweep claims a batch of expired    *)
(* rows in one transaction under an advisory lock, then takes the plans    *)
(* one by one outside it: simulate, send, poll, write the verdict to the   *)
(* row, announce it.  Every await is a place where other workers, the      *)
(* handlers, the chain or a crash can come in between.                     *)
(*                                                                         *)
(* All submissions come from one Stellar account.  Transactions built      *)
(* since its sequence number last moved all carry the next number, so one  *)
(* of them lands and the rest can never; pending holds the ones that still *)
(* can.                                                                    *)
(***************************************************************************)
EXTENDS PlanService

CONSTANTS
  Workers,      \* backend processes
  NoWorker,     \* stands for "nobody polls for this transaction any more"
  NoPlan,
  Soroban,      \* whether the deployment has a Soroban signer
  BatchSize,    \* INACTIVITY_WATCHDOG_BATCH_SIZE
  MaxAttempts,  \* INACTIVITY_WATCHDOG_ONCHAIN_MAX_ATTEMPTS
  MaxCrashes    \* bound on the crashes of a behaviour

ASSUME WatchdogAssumption ==
  /\ Soroban \in BOOLEAN
  /\ BatchSize \in Nat \ {0}
  /\ MaxAttempts \in Nat \ {0}
  /\ MaxCrashes \in Nat
  /\ NoWorker \notin Workers
  /\ NoPlan \notin Plans

VARIABLES
  worker,       \* where each worker is in its sweep
  pending,      \* sent transactions that may still land
  events,       \* webhook events enqueued
  crashes

watchdogVars == <<worker, pending, events, crashes>>
vars == <<row, payouts, request, chain, worker, pending, events, crashes>>

\* queue: the plans of the batch not looked at yet; outcome: at "send", whether
\* the sequence number read is still the next; at "poll", what the ledger says;
\* from "mark" on, the verdict.
Worker == [pc : {"idle", "next", "build", "send", "poll", "mark", "announce"},
           queue : SUBSET Plans,
           plan : Plans \cup {NoPlan},
           attempt : 0 .. MaxAttempts,
           outcome : {"none", "fresh", "outdated", "waiting", "success", "failed",
                      "triggered"}]

Transaction == [plan : Plans, by : Workers \cup {NoWorker}]

Event == {"plan.triggered", "plan.trigger_failed"} \X Plans

Idle == [pc |-> "idle", queue |-> {}, plan |-> NoPlan, attempt |-> 0, outcome |-> "none"]

WatchdogInit ==
  /\ worker = [w \in Workers |-> Idle]
  /\ pending = {}
  /\ events = {}
  /\ crashes = 0

At(w, pc) == worker[w].pc = pc

Goto(w, pc, outcome) == [worker EXCEPT ![w].pc = pc, ![w].outcome = outcome]

\* Nobody waits for w's transactions any more; they can land all the same.
Orphaned(w) == {IF t.by = w THEN [t EXCEPT !.by = NoWorker] ELSE t : t \in pending}

\* The loop of trigger_on_chain after a retryable error.
Retried(w) ==
  IF worker[w].attempt < MaxAttempts
  THEN [Goto(w, "build", "none") EXCEPT ![w].attempt = @ + 1]
  ELSE Goto(w, "mark", "failed")

-----------------------------------------------------------------------------
(* A sweep.                                                                *)

ReclaimableNever(p) == FALSE

ReclaimableFailed(p) ==
  Soroban /\ row[p].status \in {"TRIGGERING", "TRIGGER_FAILED"} /\ row[p].stale

Reclaimable(p) == Soroban /\ row[p].status = "TRIGGERING" /\ row[p].stale

Expired == {p \in Plans : /\ row[p].active
                          /\ row[p].overdue
                          /\ row[p].status = "ACTIVE" \/ Reclaimable(p)}

ClaimedUnmarked(p) == [row[p] EXCEPT !.stale = FALSE]

Claimed(p) == [row[p] EXCEPT !.status = IF Soroban THEN "TRIGGERING" ELSE "TRIGGERED",
                             !.stale = FALSE]

\* The batch is the BatchSize oldest of the expired plans that no transaction has
\* locked, which are any of them here.  A worker that does not get the advisory
\* lock goes back to sleep.
claim_expired_plans(w) ==
  /\ At(w, "idle")
  /\ \E batch \in (SUBSET Expired) \ {{}} :
       /\ Cardinality(batch) <= BatchSize
       /\ row' = [p \in Plans |-> IF p \in batch THEN Claimed(p) ELSE row[p]]
       /\ worker' = [worker EXCEPT ![w] = [Idle EXCEPT !.pc = "next", !.queue = batch]]
  /\ UNCHANGED <<payouts, request, chain, pending, events, crashes>>

\* Without a signer the claim has already written TRIGGERED; without an
\* on-chain id the plan fails at once.
next_plan(w) ==
  /\ At(w, "next")
  /\ \E p \in worker[w].queue :
       worker' = [worker EXCEPT ![w] =
                   [queue |-> @.queue \ {p}, plan |-> p, attempt |-> 1,
                    pc |-> IF ~Soroban THEN "announce"
                           ELSE IF p \notin OnChainIds THEN "mark" ELSE "build",
                    outcome |-> IF ~Soroban THEN "triggered"
                                ELSE IF p \notin OnChainIds THEN "failed" ELSE "none"]]
  /\ UNCHANGED <<serviceVars, pending, events, crashes>>

\* next_sequence and simulateTransaction.  The simulation runs the contract, so
\* it answers with the contract's error when the plan cannot be triggered.
simulate(w) ==
  /\ At(w, "build")
  /\ \/ worker' = Retried(w)
     \/ /\ chain[worker[w].plan] = "open"
        /\ worker' = Goto(w, "send", "fresh")
     \/ /\ chain[worker[w].plan] # "open"
        /\ worker' = Goto(w, "mark", "failed")
  /\ UNCHANGED <<serviceVars, pending, events, crashes>>

\* sendTransaction: refused when the sequence number is used up, accepted, lost
\* on the way there (or TRY_AGAIN_LATER), or lost on the way back.
send_transaction(w) ==
  /\ At(w, "send")
  /\ \/ /\ worker[w].outcome = "outdated"
        /\ worker' = Goto(w, "mark", "failed")
        /\ UNCHANGED pending
     \/ /\ worker[w].outcome = "fresh"
        /\ worker' = Goto(w, "poll", "waiting")
        /\ pending' = pending \cup {[plan |-> worker[w].plan, by |-> w]}
     \/ /\ worker' = Retried(w)
        /\ UNCHANGED pending
     \/ /\ worker[w].outcome = "fresh"
        /\ worker' = Retried(w)
        /\ pending' = pending \cup {[plan |-> worker[w].plan, by |-> NoWorker]}
  /\ UNCHANGED <<serviceVars, events, crashes>>

AnyResultTriggers(w) ==
  /\ At(w, "poll")
  /\ \/ /\ worker[w].outcome \in {"success", "failed"}
        /\ worker' = Goto(w, "mark", "triggered")
        /\ UNCHANGED pending
     \/ /\ worker' = Retried(w)
        /\ pending' = Orphaned(w)
  /\ UNCHANGED <<serviceVars, events, crashes>>

\* A landed transaction whose event can be read is verified; one that landed
\* without readable meta is not.  A poll that fails, or runs into poll_timeout,
\* is retried with a new transaction.
await_transaction(w) ==
  /\ At(w, "poll")
  /\ \/ /\ worker[w].outcome = "success"
        /\ \E verdict \in {"triggered", "failed"} : worker' = Goto(w, "mark", verdict)
        /\ UNCHANGED pending
     \/ /\ worker[w].outcome = "failed"
        /\ worker' = Goto(w, "mark", "failed")
        /\ UNCHANGED pending
     \/ /\ worker' = Retried(w)
        /\ pending' = Orphaned(w)
  /\ UNCHANGED <<serviceVars, events, crashes>>

\* The status is written whatever it is by now.
mark_triggered(w) ==
  /\ At(w, "mark")
  /\ worker[w].outcome = "triggered"
  /\ row' = [row EXCEPT ![worker[w].plan].status = "TRIGGERED"]
  /\ worker' = Goto(w, "announce", "triggered")
  /\ UNCHANGED <<payouts, request, chain, pending, events, crashes>>

mark_trigger_failed(w) ==
  /\ At(w, "mark")
  /\ worker[w].outcome = "failed"
  /\ row' = [row EXCEPT ![worker[w].plan].status = "TRIGGER_FAILED"]
  /\ worker' = Goto(w, "announce", "failed")
  /\ UNCHANGED <<payouts, request, chain, pending, events, crashes>>

Announcement(w) ==
  <<IF worker[w].outcome = "triggered" THEN "plan.triggered" ELSE "plan.trigger_failed",
    worker[w].plan>>

\* Enqueueing the webhook may fail, which is only logged.
announce(w) ==
  /\ At(w, "announce")
  /\ events' \in {events, events \cup {Announcement(w)}}
  /\ worker' = [worker EXCEPT ![w] =
                  IF @.queue = {} THEN Idle
                  ELSE [Idle EXCEPT !.pc = "next", !.queue = worker[w].queue]]
  /\ UNCHANGED <<serviceVars, pending, crashes>>

\* The process dies or is shut down, or a database error makes the sweep return:
\* the rest of the batch is forgotten.
crash(w) ==
  /\ ~At(w, "idle")
  /\ crashes < MaxCrashes
  /\ crashes' = crashes + 1
  /\ worker' = [worker EXCEPT ![w] = Idle]
  /\ pending' = Orphaned(w)
  /\ UNCHANGED <<serviceVars, events>>

\* Steps of the process and its database.
LocalStep(w) ==
  \/ claim_expired_plans(w)
  \/ next_plan(w)
  \/ mark_triggered(w)
  \/ mark_trigger_failed(w)
  \/ announce(w)

\* The answers of Horizon and the Soroban RPC.  The HTTP client has no timeout and
\* poll_timeout is compared between two answers only, so a request whose answer
\* never comes holds its worker for ever.
RequestStep(w) == simulate(w) \/ send_transaction(w) \/ await_transaction(w)

Waiting(w) == worker[w].pc \in {"build", "send", "poll"}

WorkerStep(w) == LocalStep(w) \/ RequestStep(w)

-----------------------------------------------------------------------------
(* The network.                                                            *)

\* The account's sequence number moves: what was built before is outdated.
Outdated(w) == IF At(w, "send") THEN [worker[w] EXCEPT !.outcome = "outdated"] ELSE worker[w]

\* A transaction is included in a ledger and the contract accepts or refuses it.
Land(t) ==
  /\ chain' = [chain EXCEPT ![t.plan] = IF @ = "open" THEN "triggered" ELSE @]
  /\ worker' = [w \in Workers |->
                 IF w = t.by
                 THEN [worker[w] EXCEPT !.outcome =
                         IF chain[t.plan] = "open" THEN "success" ELSE "failed"]
                 ELSE Outdated(w)]
  /\ pending' = {}
  /\ UNCHANGED <<row, payouts, request, events, crashes>>

\* The loan-lifecycle handlers submit from the same account.
OtherTransactionLands ==
  /\ worker' = [w \in Workers |-> Outdated(w)]
  /\ pending' = {}
  /\ UNCHANGED <<serviceVars, events, crashes>>

\* A transaction is lost by the network or passes its valid_until.
Expire(t) ==
  /\ pending' = pending \ {t}
  /\ UNCHANGED <<serviceVars, worker, events, crashes>>

Next ==
  \/ ServiceNext /\ UNCHANGED watchdogVars
  \/ \E w \in Workers : WorkerStep(w) \/ crash(w)
  \/ \E t \in pending : Land(t) \/ Expire(t)
  \/ OtherTransactionLands

Init == ServiceInit /\ WatchdogInit

Spec == Init /\ [][Next]_vars

\* Every process keeps polling its tasks and its interval timer, database
\* statements return, and time passes.  Nothing is assumed of owners, heirs, the
\* chain, or the servers a RequestStep waits for.
FairSpec ==
  /\ Spec
  /\ \A w \in Workers : WF_vars(LocalStep(w))
  /\ \A p \in Plans : WF_vars(ClaimGoesStale(p) /\ UNCHANGED watchdogVars)

-----------------------------------------------------------------------------
(* Properties.                                                             *)

WatchdogTypeOK ==
  /\ row \in [Plans -> PlanRow]
  /\ payouts \in [Plans -> 0 .. MaxPayouts]
  /\ request \in [Requests -> Request]
  /\ chain \in [Plans -> Contract!Fate]
  /\ worker \in [Workers -> Worker]
  /\ pending \subseteq Transaction
  /\ events \subseteq Event
  /\ crashes \in 0 .. MaxCrashes

\* With a signer configured, a row says TRIGGERED or CLAIMABLE only if the plan
\* is triggered on-chain: mark_triggered follows a landed transaction, and a
\* claim or a settlement follows a TRIGGERED row, however late it writes.
TriggeredMeansOnChain ==
  Soroban => \A p \in Plans :
    row[p].status \in {"TRIGGERED", "CLAIMABLE"} => chain[p] = "triggered"

\* Payout records of a plan that is still active exist only when heirs can be
\* paid on-chain: claim_plan, unlike trigger_payout, leaves the plan active.
PayoutsNeedTrigger ==
  Soroban => \A p \in Plans :
    payouts[p] > 0 /\ row[p].active => chain[p] = "triggered"

\* plan.triggered is announced only of plans that are triggered on-chain.
AnnouncedMeansOnChain ==
  Soroban => \A p \in Plans : <<"plan.triggered", p>> \in events => chain[p] = "triggered"

\* A transaction that may still land belongs to a plan whose row has left
\* ACTIVE, so that a crash leaves a trace of it for claim_expired_plans.
InFlightIsRecorded == \A t \in pending : row[t.plan].status # "ACTIVE"

Decided == {"TRIGGERED", "TRIGGER_FAILED", "CLAIMABLE", "PAID_OUT", "DEACTIVATED"}

\* No interleaving of sweeps and handlers makes a plan whose fate was recorded
\* available to a sweep again.
DecidedStaysDecided ==
  [][\A p \in Plans : row[p].status \in Decided => row'[p].status \in Decided]_vars

\* A handler that is past its check of p, or a worker that claimed p.
InHand(p) ==
  \/ \E r \in Requests : request[r].op \in {"cancel", "claim"} /\ request[r].plan = p
  \/ \E w \in Workers : p \in worker[w].queue \cup {worker[w].plan}

\* cancel_plan, claim_plan and the watchdog's marks write without looking at the
\* status again, so each may overwrite a payout that was made while it waited.
\* Nobody else can: once none of them has the plan in hand, a plan that is paid out
\* stays paid out and is never paid again.
PaidOutStands ==
  [][\A p \in Plans : row[p].status = "PAID_OUT" /\ ~InHand(p)
       => row'[p].status = "PAID_OUT" /\ payouts'[p] = payouts[p]]_vars

Due(p) == row[p].active /\ row[p].overdue

\* As long as one worker keeps getting its requests back, a plan that stays active
\* and past its deadline is decided: not left in ACTIVE, and not stranded in
\* TRIGGERING by a worker that crashed or whose request is never answered.
ExpiredPlansAreDecided ==
  (\E w \in Workers : []<>~Waiting(w)) =>
    \A p \in Plans : <>[]Due(p) => <>(row[p].status \in Decided)

=============================================================================
