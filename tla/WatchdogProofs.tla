--------------------------- MODULE WatchdogProofs ---------------------------
(***************************************************************************)
(* Theorems about the watchdog and the plan handlers, for any number of    *)
(* plans, workers, requests, attempts and crashes.                         *)
(***************************************************************************)
EXTENDS Watchdog, TLAPS

Outcome == {"none", "fresh", "outdated", "waiting", "success", "failed", "triggered"}
PC == {"idle", "next", "build", "send", "poll", "mark", "announce"}

(***************************************************************************)
(* Types.                                                                  *)
(***************************************************************************)

\* Goto moves one worker and keeps everything else of every worker.
LEMMA GotoFacts ==
  ASSUME worker \in [Workers -> Worker], NEW w \in Workers,
         NEW pc \in PC, NEW o \in Outcome
  PROVE  /\ Goto(w, pc, o) \in [Workers -> Worker]
         /\ \A v \in Workers : v # w => Goto(w, pc, o)[v] = worker[v]
         /\ Goto(w, pc, o)[w].pc = pc
         /\ Goto(w, pc, o)[w].outcome = o
         /\ Goto(w, pc, o)[w].plan = worker[w].plan
         /\ Goto(w, pc, o)[w].queue = worker[w].queue
         /\ Goto(w, pc, o)[w].attempt = worker[w].attempt
  BY DEF Goto, Worker, PC, Outcome

\* Retried is Goto to build with one more attempt, or to a failed mark.
LEMMA RetriedFacts ==
  ASSUME worker \in [Workers -> Worker], NEW w \in Workers
  PROVE  /\ Retried(w) \in [Workers -> Worker]
         /\ \A v \in Workers : v # w => Retried(w)[v] = worker[v]
         /\ \/ Retried(w)[w].pc = "build" /\ Retried(w)[w].outcome = "none"
            \/ Retried(w)[w].pc = "mark" /\ Retried(w)[w].outcome = "failed"
         /\ Retried(w)[w].plan = worker[w].plan
         /\ Retried(w)[w].queue = worker[w].queue
  <1>1. CASE worker[w].attempt < MaxAttempts
    <2> DEFINE G == Goto(w, "build", "none")
    <2>1. /\ G \in [Workers -> Worker]
          /\ \A v \in Workers : v # w => G[v] = worker[v]
          /\ G[w].pc = "build" /\ G[w].outcome = "none"
          /\ G[w].plan = worker[w].plan /\ G[w].queue = worker[w].queue
          /\ G[w].attempt = worker[w].attempt
      BY GotoFacts DEF PC, Outcome
    <2>2. worker[w].attempt + 1 \in 0 .. MaxAttempts
      BY <1>1, WatchdogAssumption DEF Worker
    <2>3. Retried(w) = [G EXCEPT ![w].attempt = @ + 1]
      BY <1>1 DEF Retried
    <2> HIDE DEF G
    <2> QED
      BY <2>1, <2>2, <2>3 DEF Worker
  <1>2. CASE ~(worker[w].attempt < MaxAttempts)
    <2>1. Retried(w) = Goto(w, "mark", "failed")
      BY <1>2 DEF Retried
    <2> QED
      BY <2>1, GotoFacts DEF PC, Outcome
  <1> QED
    BY <1>1, <1>2

\* Orphaned keeps plans and forgets w.
LEMMA OrphanedFacts ==
  ASSUME pending \subseteq Transaction, NEW w \in Workers
  PROVE  /\ Orphaned(w) \subseteq Transaction
         /\ \A t \in Orphaned(w) :
              /\ t.by # w
              /\ \E u \in pending : u.plan = t.plan
              /\ t.by # NoWorker => t \in pending
  BY WatchdogAssumption DEF Orphaned, Transaction

LEMMA IdleType == Idle \in Worker
  BY WatchdogAssumption DEF Idle, Worker

\* The part of the type invariant that only PlanService writes.
ServiceTypeOK ==
  /\ row \in [Plans -> PlanRow]
  /\ payouts \in [Plans -> 0 .. MaxPayouts]
  /\ request \in [Requests -> Request]
  /\ chain \in [Plans -> Contract!Fate]

\* Whatever others do to a plan on-chain, it has a fate, and a trigger is for
\* good.
LEMMA ContractMoves ==
  ASSUME chain \in [Plans -> Contract!Fate], Contract!FateNext
  PROVE  /\ chain' \in [Plans -> Contract!Fate]
         /\ \A p \in Plans : chain[p] = "triggered" => chain'[p] = "triggered"
  <1>1. PICK ps \in SUBSET Plans, to \in Contract!Fate :
          Contract!Becomes(ps, to) /\ \A p \in ps : chain[p] # "triggered"
    BY DEF Contract!FateNext, Contract!Create, Contract!Close, Contract!Trigger, Contract!Bar,
       Contract!Admit, Contract!All, Contract!Fate
  <1>2. chain' = [p \in Plans |-> IF p \in ps THEN to ELSE chain[p]]
    BY <1>1 DEF Contract!Becomes
  <1> QED
    BY <1>1, <1>2

\* The handlers keep the types of the tables.
LEMMA ServiceKeepsType == ServiceTypeOK /\ ServiceNext => ServiceTypeOK'
  <1> SUFFICES ASSUME ServiceTypeOK, ServiceNext PROVE ServiceTypeOK'
    OBVIOUS
  <1> USE ServiceAssumption DEF ServiceTypeOK, PlanRow, Status
  <1>1. ASSUME NEW p \in Plans, NEW is_active \in BOOLEAN, create_plan(p, is_active)
        PROVE  ServiceTypeOK'
    BY <1>1 DEF create_plan
  <1>2. ASSUME NEW p \in Plans, update_plan(p) PROVE ServiceTypeOK'
    BY <1>2 DEF update_plan
  <1>3. ASSUME NEW p \in Plans, trigger_payout(p) PROVE ServiceTypeOK'
    BY <1>3 DEF trigger_payout
  <1>4. ASSUME NEW p \in Plans, DeadlinePasses(p) PROVE ServiceTypeOK'
    BY <1>4 DEF DeadlinePasses
  <1>13. ASSUME NEW p \in Plans, ClaimGoesStale(p) PROVE ServiceTypeOK'
    BY <1>13 DEF ClaimGoesStale
  <1>5. ASSUME ChainMoves PROVE ServiceTypeOK'
    BY <1>5, ContractMoves DEF ChainMoves
  <1>6. ASSUME NEW r \in Requests, NEW p \in Plans,
               NEW op \in {"ping", "cancel", "claim", "settle"}, Begin(r, op, p)
        PROVE  ServiceTypeOK'
    <2>1. [op |-> op, plan |-> p] \in Request
      BY DEF Request
    <2> QED
      BY <1>6, <2>1 DEF Begin
  <1>7. ASSUME NEW r \in Requests, NEW op \in {"ping", "cancel", "claim", "settle"},
               Finish(r, op)
        PROVE  /\ request[r].plan \in Plans
               /\ request' \in [Requests -> Request]
               /\ chain' = chain
    BY <1>7 DEF Finish, Request, NoRequest
  <1>8. ASSUME NEW r \in Requests, ping_plan_write(r) PROVE ServiceTypeOK'
    BY <1>7, <1>8 DEF ping_plan_write
  <1>9. ASSUME NEW r \in Requests, cancel_plan_write(r) PROVE ServiceTypeOK'
    <2>1. /\ row' = [row EXCEPT ![request[r].plan].active = FALSE,
                                ![request[r].plan].status = "DEACTIVATED",
                                ![request[r].plan].overdue = FALSE]
          /\ payouts' = payouts
          /\ Finish(r, "cancel")
      BY <1>9 DEF cancel_plan_write
    <2>2. PICK p \in Plans : p = request[r].plan
      BY <1>7, <2>1
    <2> DEFINE n == [row[p] EXCEPT !.active = FALSE, !.status = "DEACTIVATED",
                                   !.overdue = FALSE]
    <2>4. n \in PlanRow
      <3>1. row[p] \in PlanRow
        OBVIOUS
      <3>2. \A a \in PlanRow : [a EXCEPT !.active = FALSE] \in PlanRow
        OBVIOUS
      <3>3. \A a \in PlanRow : [a EXCEPT !.status = "DEACTIVATED"] \in PlanRow
        OBVIOUS
      <3>4. \A a \in PlanRow : [a EXCEPT !.overdue = FALSE] \in PlanRow
        OBVIOUS
      <3>5. n = [[[row[p] EXCEPT !.active = FALSE] EXCEPT !.status = "DEACTIVATED"]
                  EXCEPT !.overdue = FALSE]
        BY Zenon
      <3> HIDE DEF PlanRow, n
      <3> QED
        BY <3>1, <3>2, <3>3, <3>4, <3>5
    <2>5. row' = [row EXCEPT ![p] = n]
      BY <2>1, <2>2
    <2> HIDE DEF n
    <2>3. row' \in [Plans -> PlanRow]
      BY <2>4, <2>5
    <2> QED
      BY <1>7, <2>1, <2>3
  <1>10. ASSUME NEW r \in Requests, claim_plan_write(r) PROVE ServiceTypeOK'
    BY <1>7, <1>10 DEF claim_plan_write
  <1>11. ASSUME NEW r \in Requests, liquidate_and_settle_write(r) PROVE ServiceTypeOK'
    BY <1>7, <1>11 DEF liquidate_and_settle_write
  <1>12. ASSUME NEW r \in Requests, abandon(r) PROVE ServiceTypeOK'
    BY <1>12 DEF abandon, Request, NoRequest
  <1> QED
    BY <1>1, <1>2, <1>3, <1>4, <1>5, <1>6, <1>8, <1>9, <1>10, <1>11, <1>12, <1>13
       DEF ServiceNext, ping_plan, cancel_plan, claim_plan, liquidate_and_settle

\* A worker past next_plan has a plan in hand.
HandsFull ==
  \A w \in Workers : worker[w].pc \notin {"idle", "next"} => worker[w].plan \in Plans

TypeInv == WatchdogTypeOK /\ HandsFull

LEMMA TypeInvInit == Init => TypeInv
  <1> USE ServiceAssumption, WatchdogAssumption
  <1> SUFFICES ASSUME Init PROVE TypeInv
    OBVIOUS
  <1>1. Absent \in PlanRow /\ NoRequest \in Request /\ "absent" \in Contract!Fate
    BY DEF Absent, PlanRow, Status, NoRequest, Request, Contract!Fate
  <1>2. row \in [Plans -> PlanRow] /\ request \in [Requests -> Request]
    BY <1>1 DEF Init, ServiceInit
  <1>3. payouts \in [Plans -> 0 .. MaxPayouts] /\ chain \in [Plans -> Contract!Fate]
    BY <1>1 DEF Init, ServiceInit, Contract!FateInit
  <1>4. /\ worker \in [Workers -> Worker] /\ HandsFull
        /\ pending \subseteq Transaction /\ events \subseteq Event
        /\ crashes \in 0 .. MaxCrashes
    BY IdleType DEF Init, WatchdogInit, HandsFull, Idle
  <1> QED
    BY <1>2, <1>3, <1>4 DEF TypeInv, WatchdogTypeOK

\* The watchdog's steps, the network's and a stuttering step keep TypeInv too.
LEMMA TypeInvStep == TypeInv /\ [Next]_vars => TypeInv'
  <1> SUFFICES ASSUME TypeInv, [Next]_vars PROVE TypeInv'
    OBVIOUS
  <1> USE WatchdogAssumption
  <1>t. /\ ServiceTypeOK
        /\ row \in [Plans -> PlanRow]
        /\ worker \in [Workers -> Worker]
        /\ pending \subseteq Transaction
        /\ events \subseteq Event
        /\ crashes \in 0 .. MaxCrashes
        /\ HandsFull
    BY DEF TypeInv, WatchdogTypeOK, ServiceTypeOK
  <1>q. ASSUME ServiceTypeOK', worker' \in [Workers -> Worker], HandsFull',
               pending' \subseteq Transaction, events' \subseteq Event,
               crashes' \in 0 .. MaxCrashes
        PROVE  TypeInv'
    BY <1>q DEF TypeInv, WatchdogTypeOK, ServiceTypeOK
  <1>s. serviceVars' = serviceVars => ServiceTypeOK'
    BY <1>t DEF serviceVars, ServiceTypeOK
  <1>h. ASSUME NEW w \in Workers, worker' \in [Workers -> Worker],
               \A v \in Workers : v # w => worker'[v] = worker[v],
               worker'[w].pc \notin {"idle", "next"} => worker'[w].plan \in Plans
        PROVE  HandsFull'
    BY <1>h, <1>t DEF HandsFull
  <1>1. ASSUME NEW w \in Workers, claim_expired_plans(w) PROVE TypeInv'
    <2>1. PICK batch \in SUBSET Expired :
            /\ row' = [p \in Plans |-> IF p \in batch THEN Claimed(p) ELSE row[p]]
            /\ worker' = [worker EXCEPT ![w] = [Idle EXCEPT !.pc = "next", !.queue = batch]]
      BY <1>1 DEF claim_expired_plans
    <2>2. ASSUME NEW p \in Plans PROVE Claimed(p) \in PlanRow
      <3>1. row[p] \in PlanRow
        BY <1>t
      <3> DEFINE s == IF Soroban THEN "TRIGGERING" ELSE "TRIGGERED"
      <3>2. s \in Status
        BY DEF Status
      <3>3. Claimed(p) = [row[p] EXCEPT !.status = s, !.stale = FALSE]
        BY DEF Claimed
      <3> HIDE DEF s
      <3> QED
        BY <3>1, <3>2, <3>3 DEF PlanRow
    <2>3. [Idle EXCEPT !.pc = "next", !.queue = batch] \in Worker
      <3>1. batch \in SUBSET Plans
        BY <2>1 DEF Expired
      <3> QED
        BY <3>1, IdleType DEF Worker
    <2>4. worker' \in [Workers -> Worker] /\ worker'[w].pc = "next"
      BY <1>t, <2>1, <2>3 DEF Idle
    <2>5. ServiceTypeOK'
      BY <1>1, <1>t, <2>1, <2>2 DEF claim_expired_plans, ServiceTypeOK
    <2>6. HandsFull'
      BY <1>h, <1>t, <2>1, <2>4
    <2> QED
      BY <1>1, <1>t, <1>q, <2>4, <2>5, <2>6 DEF claim_expired_plans
  <1>2. ASSUME NEW w \in Workers, next_plan(w) PROVE TypeInv'
    <2>1. worker' \in [Workers -> Worker] /\ worker'[w].plan \in Plans
      BY <1>2, <1>t DEF next_plan, Worker
    <2>2. HandsFull'
      BY <1>2, <1>t, <1>h, <2>1 DEF next_plan
    <2> QED
      BY <1>2, <1>t, <1>s, <1>q, <2>1, <2>2 DEF next_plan
  <1>3. ASSUME NEW w \in Workers, simulate(w) PROVE TypeInv'
    <2>1. /\ worker' \in [Workers -> Worker]
          /\ \A v \in Workers : v # w => worker'[v] = worker[v]
          /\ worker'[w].plan = worker[w].plan
      <3>1. \/ \E pc \in PC, o \in Outcome : worker' = Goto(w, pc, o)
            \/ worker' = Retried(w)
        BY <1>3 DEF simulate, PC, Outcome
      <3> QED
        BY <1>t, <3>1, GotoFacts, RetriedFacts
    <2>2. HandsFull'
      BY <1>3, <1>t, <1>h, <2>1 DEF simulate, At, HandsFull
    <2> QED
      BY <1>3, <1>t, <1>s, <1>q, <2>1, <2>2 DEF simulate
  <1>4. ASSUME NEW w \in Workers, send_transaction(w) PROVE TypeInv'
    <2>1. /\ worker' \in [Workers -> Worker]
          /\ \A v \in Workers : v # w => worker'[v] = worker[v]
          /\ worker'[w].plan = worker[w].plan
      <3>1. \/ \E pc \in PC, o \in Outcome : worker' = Goto(w, pc, o)
            \/ worker' = Retried(w)
        BY <1>4 DEF send_transaction, PC, Outcome
      <3> QED
        BY <1>t, <3>1, GotoFacts, RetriedFacts
    <2>2. worker[w].plan \in Plans
      BY <1>4, <1>t DEF send_transaction, At, HandsFull
    <2>3. /\ [plan |-> worker[w].plan, by |-> w] \in Transaction
          /\ [plan |-> worker[w].plan, by |-> NoWorker] \in Transaction
      BY <2>2 DEF Transaction
    <2>4. pending' \subseteq Transaction
      BY <1>4, <1>t, <2>3 DEF send_transaction
    <2>5. HandsFull'
      BY <1>h, <2>1, <2>2
    <2> QED
      BY <1>4, <1>t, <1>s, <1>q, <2>1, <2>4, <2>5 DEF send_transaction
  <1>5. ASSUME NEW w \in Workers, await_transaction(w) PROVE TypeInv'
    <2>1. /\ worker' \in [Workers -> Worker]
          /\ \A v \in Workers : v # w => worker'[v] = worker[v]
          /\ worker'[w].plan = worker[w].plan
      <3>1. \/ \E pc \in PC, o \in Outcome : worker' = Goto(w, pc, o)
            \/ worker' = Retried(w)
        BY <1>5 DEF await_transaction, PC, Outcome
      <3> QED
        BY <1>t, <3>1, GotoFacts, RetriedFacts
    <2>2. pending' \subseteq Transaction
      BY <1>5, <1>t, OrphanedFacts DEF await_transaction
    <2>3. HandsFull'
      BY <1>5, <1>t, <1>h, <2>1 DEF await_transaction, At, HandsFull
    <2> QED
      BY <1>5, <1>t, <1>s, <1>q, <2>1, <2>2, <2>3 DEF await_transaction
  <1>6. ASSUME NEW w \in Workers, mark_triggered(w) \/ mark_trigger_failed(w)
        PROVE  TypeInv'
    <2>1. /\ worker' \in [Workers -> Worker]
          /\ \A v \in Workers : v # w => worker'[v] = worker[v]
          /\ worker'[w].plan = worker[w].plan
      <3>1. \E pc \in PC, o \in Outcome : worker' = Goto(w, pc, o)
        BY <1>6 DEF mark_triggered, mark_trigger_failed, PC, Outcome
      <3> QED
        BY <1>t, <3>1, GotoFacts
    <2>2. ServiceTypeOK'
      BY <1>6, <1>t DEF mark_triggered, mark_trigger_failed, ServiceTypeOK, PlanRow, Status
    <2>3. HandsFull'
      BY <1>6, <1>t, <1>h, <2>1 DEF mark_triggered, mark_trigger_failed, At, HandsFull
    <2> QED
      BY <1>6, <1>t, <1>q, <2>1, <2>2, <2>3 DEF mark_triggered, mark_trigger_failed
  <1>7. ASSUME NEW w \in Workers, announce(w) PROVE TypeInv'
    <2>1. worker[w].plan \in Plans
      BY <1>7, <1>t DEF announce, At, HandsFull
    <2>2. Announcement(w) \in Event
      BY <2>1 DEF Announcement, Event
    <2>3. worker[w] \in Worker
      BY <1>t
    <2>4. [Idle EXCEPT !.pc = "next", !.queue = worker[w].queue] \in Worker
      BY <2>3, IdleType DEF Worker
    <2>5. worker' \in [Workers -> Worker] /\ worker'[w].pc \in {"idle", "next"}
      BY <1>7, <1>t, <2>4, IdleType DEF announce, Idle
    <2>6. HandsFull'
      BY <1>7, <1>t, <1>h, <2>5 DEF announce
    <2> QED
      BY <1>7, <1>t, <1>s, <1>q, <2>2, <2>5, <2>6 DEF announce
  <1>8. ASSUME NEW w \in Workers, crash(w) PROVE TypeInv'
    <2>1. worker' \in [Workers -> Worker] /\ worker'[w].pc = "idle"
      BY <1>8, <1>t, IdleType DEF crash, Idle
    <2>2. HandsFull'
      BY <1>8, <1>t, <1>h, <2>1 DEF crash
    <2>3. pending' \subseteq Transaction
      BY <1>8, <1>t, OrphanedFacts DEF crash
    <2> QED
      BY <1>8, <1>t, <1>s, <1>q, <2>1, <2>2, <2>3 DEF crash
  <1>9. ASSUME NEW w \in Workers PROVE /\ Outdated(w) \in Worker
                                       /\ Outdated(w).pc = worker[w].pc
                                       /\ Outdated(w).plan = worker[w].plan
    BY <1>t DEF Outdated, Worker
  <1>10. ASSUME NEW t \in pending, Land(t) PROVE TypeInv'
    <2>1. ServiceTypeOK'
      BY <1>10, <1>t DEF Land, ServiceTypeOK, Contract!Fate
    <2>2. \A w \in Workers : /\ worker'[w] \in Worker
                             /\ worker'[w].pc = worker[w].pc
                             /\ worker'[w].plan = worker[w].plan
      <3> SUFFICES ASSUME NEW w \in Workers
                   PROVE /\ worker'[w] \in Worker
                         /\ worker'[w].pc = worker[w].pc
                         /\ worker'[w].plan = worker[w].plan
        OBVIOUS
      <3>1. CASE w = t.by
        BY <3>1, <1>10, <1>t DEF Land, Worker
      <3>2. CASE w # t.by
        BY <3>2, <1>10, <1>9 DEF Land
      <3> QED
        BY <3>1, <3>2
    <2>3. worker' \in [Workers -> Worker] /\ HandsFull'
      BY <1>10, <1>t, <2>2 DEF Land, HandsFull
    <2> QED
      BY <1>10, <1>t, <1>q, <2>1, <2>3 DEF Land
  <1>11. ASSUME NEW t \in pending, Expire(t) PROVE TypeInv'
    BY <1>11, <1>t, <1>s, <1>q DEF Expire, HandsFull
  <1>12. ASSUME OtherTransactionLands PROVE TypeInv'
    <2>1. worker' \in [Workers -> Worker] /\ HandsFull'
      BY <1>12, <1>t, <1>9 DEF OtherTransactionLands, HandsFull
    <2> QED
      BY <1>12, <1>t, <1>s, <1>q, <2>1 DEF OtherTransactionLands
  <1>13. ASSUME ServiceNext, UNCHANGED watchdogVars PROVE TypeInv'
    BY <1>13, <1>t, <1>q, ServiceKeepsType DEF watchdogVars, HandsFull
  <1>14. ASSUME UNCHANGED vars PROVE TypeInv'
    BY <1>14, <1>t, <1>q DEF vars, ServiceTypeOK, HandsFull
  <1> QED
    BY <1>1, <1>2, <1>3, <1>4, <1>5, <1>6, <1>7, <1>8, <1>10, <1>11, <1>12, <1>13, <1>14
       DEF Next, WorkerStep, LocalStep, RequestStep

\* Every variable keeps its type through every interleaving of sweeps, handlers,
\* crashes and the network; in particular trigger_on_chain stops at MaxAttempts.
THEOREM WatchdogTypeCorrect == Spec => []WatchdogTypeOK
  <1>1. TypeInv => WatchdogTypeOK
    BY DEF TypeInv
  <1> QED
    BY <1>1, TypeInvInit, TypeInvStep, PTL DEF Spec

-----------------------------------------------------------------------------
(***************************************************************************)
(* What a step may do to the status of a row.                              *)
(***************************************************************************)

\* The handler that finishes has a plan.
LEMMA FinishFacts ==
  ASSUME TypeInv, NEW r \in Requests, NEW op \in {"ping", "cancel", "claim", "settle"},
         Finish(r, op)
  PROVE  request[r].plan \in Plans
  BY DEF TypeInv, WatchdogTypeOK, Finish, Request

\* A status changes by creating the row, by a claim of an expired plan, or to a
\* decided one.
LEMMA StatusSteps ==
  ASSUME TypeInv, Next, NEW p \in Plans
  PROVE  \/ row'[p].status = row[p].status
         \/ row[p].status = "ABSENT" /\ row'[p].status = "ACTIVE"
         \/ row[p].status \in {"ACTIVE", "TRIGGERING"} /\ row'[p].status = "TRIGGERING"
         \/ row'[p].status \in Decided
  <1> DEFINE Goal == \/ row'[p].status = row[p].status
                     \/ row[p].status = "ABSENT" /\ row'[p].status = "ACTIVE"
                     \/ /\ row[p].status \in {"ACTIVE", "TRIGGERING"}
                        /\ row'[p].status = "TRIGGERING"
                     \/ row'[p].status \in Decided
  <1>t. row \in [Plans -> PlanRow]
    BY DEF TypeInv, WatchdogTypeOK
  <1> USE DEF PlanRow, Decided
  <1>1. ASSUME NEW q \in Plans, NEW is_active \in BOOLEAN, create_plan(q, is_active) PROVE Goal
    BY <1>1, <1>t DEF create_plan, Exists
  <1>2. ASSUME NEW q \in Plans, update_plan(q) PROVE Goal
    BY <1>2, <1>t DEF update_plan
  <1>3. ASSUME NEW q \in Plans, trigger_payout(q) PROVE Goal
    BY <1>3, <1>t DEF trigger_payout
  <1>4. ASSUME NEW q \in Plans, DeadlinePasses(q) PROVE Goal
    BY <1>4, <1>t DEF DeadlinePasses
  <1>5. ASSUME NEW q \in Plans, ClaimGoesStale(q) PROVE Goal
    BY <1>5, <1>t DEF ClaimGoesStale
  <1>6. ASSUME NEW r \in Requests, ping_plan_write(r) PROVE Goal
    BY <1>6, <1>t, FinishFacts DEF ping_plan_write
  <1>7. ASSUME NEW r \in Requests, cancel_plan_write(r) PROVE Goal
    BY <1>7, <1>t, FinishFacts DEF cancel_plan_write
  <1>8. ASSUME NEW r \in Requests, claim_plan_write(r) PROVE Goal
    BY <1>8, <1>t, FinishFacts DEF claim_plan_write
  <1>9. ASSUME NEW r \in Requests, liquidate_and_settle_write(r) PROVE Goal
    BY <1>9, <1>t, FinishFacts DEF liquidate_and_settle_write
  <1>10. ASSUME row' = row PROVE Goal
    BY <1>10
  <1>11. ASSUME NEW w \in Workers, claim_expired_plans(w) PROVE Goal
    <2>1. PICK batch \in SUBSET Expired :
            row' = [q \in Plans |-> IF q \in batch THEN Claimed(q) ELSE row[q]]
      BY <1>11 DEF claim_expired_plans
    <2>2. CASE p \in batch
      <3>1. row[p].status \in {"ACTIVE", "TRIGGERING"}
        BY <2>1, <2>2 DEF Expired, Reclaimable
      <3>2. Claimed(p).status = IF Soroban THEN "TRIGGERING" ELSE "TRIGGERED"
        BY <1>t DEF Claimed
      <3> QED
        BY <2>1, <2>2, <3>1, <3>2
    <2>3. CASE p \notin batch
      BY <2>1, <2>3
    <2> QED
      BY <2>2, <2>3
  <1>12. ASSUME NEW w \in Workers, mark_triggered(w) PROVE Goal
    BY <1>12, <1>t DEF mark_triggered
  <1>13. ASSUME NEW w \in Workers, mark_trigger_failed(w) PROVE Goal
    BY <1>13, <1>t DEF mark_trigger_failed
  <1>14. ASSUME ServiceNext PROVE Goal
    <2> HIDE DEF Goal
    <2> QED
      BY <1>14, <1>1, <1>2, <1>3, <1>4, <1>5, <1>6, <1>7, <1>8, <1>9, <1>10
         DEF ServiceNext, ping_plan, cancel_plan, claim_plan, liquidate_and_settle,
             Begin, abandon, ChainMoves
  <1>15. ASSUME NEW w \in Workers, WorkerStep(w) \/ crash(w) PROVE Goal
    <2> HIDE DEF Goal
    <2> QED
      BY <1>15, <1>10, <1>11, <1>12, <1>13
         DEF WorkerStep, LocalStep, RequestStep,
             next_plan, simulate, send_transaction, await_transaction,
             announce, crash, serviceVars
  <1>16. ASSUME NEW t \in pending, Land(t) \/ Expire(t) PROVE Goal
    BY <1>16, <1>10 DEF Land, Expire, serviceVars
  <1>17. ASSUME OtherTransactionLands PROVE Goal
    BY <1>17, <1>10 DEF OtherTransactionLands, serviceVars
  <1> HIDE DEF Goal
  <1>18. Goal
    BY <1>14, <1>15, <1>16, <1>17 DEF Next
  <1> QED
    BY <1>18 DEF Goal

\* No sweep, handler, retry or crash, in any order, makes a plan whose fate was
\* recorded available to claim_expired_plans again.
THEOREM DecidedPlansStayDecided == Spec => DecidedStaysDecided
  <1>1. TypeInv /\ [Next]_vars
          => [\A p \in Plans : row[p].status \in Decided => row'[p].status \in Decided]_vars
    <2> SUFFICES ASSUME TypeInv, Next, NEW p \in Plans, row[p].status \in Decided
                 PROVE  row'[p].status \in Decided
      OBVIOUS
    <2> QED
      BY StatusSteps DEF Decided
  <1> QED
    BY <1>1, TypeInvInit, TypeInvStep, PTL DEF Spec, DecidedStaysDecided

\* A plan that is paid out is closed.
PaidOutIsClosed == \A p \in Plans : row[p].status = "PAID_OUT" => ~row[p].active

\* What a step may do to a plan that is, or becomes, paid out.
LEMMA PaidOutSteps ==
  ASSUME TypeInv, PaidOutIsClosed, Next, NEW p \in Plans
  PROVE  /\ row'[p].status = "PAID_OUT" => ~row'[p].active
         /\ row[p].status = "PAID_OUT" /\ ~InHand(p)
              => row'[p].status = "PAID_OUT" /\ payouts'[p] = payouts[p]
  <1> DEFINE Goal == /\ row'[p].status = "PAID_OUT" => ~row'[p].active
                     /\ row[p].status = "PAID_OUT" /\ ~InHand(p)
                          => row'[p].status = "PAID_OUT" /\ payouts'[p] = payouts[p]
  <1>t. /\ row \in [Plans -> PlanRow]
        /\ payouts \in [Plans -> 0 .. MaxPayouts]
        /\ worker \in [Workers -> Worker]
        /\ HandsFull
    BY DEF TypeInv, WatchdogTypeOK
  <1>c. row[p].status = "PAID_OUT" => ~row[p].active
    BY DEF PaidOutIsClosed
  <1>h. ASSUME NEW r \in Requests, NEW op \in {"cancel", "claim"}, Finish(r, op),
               request[r].plan = p
        PROVE  InHand(p)
    BY <1>h DEF Finish, InHand
  <1>m. ASSUME NEW w \in Workers, worker[w].plan = p PROVE InHand(p)
    BY <1>m DEF InHand
  \* A step that leaves the status and the payouts, and opens no plan.
  <1>s. ASSUME row'[p].status = row[p].status, row'[p].active = row[p].active,
               payouts'[p] = payouts[p]
        PROVE  Goal
    BY <1>s, <1>c
  <1> USE DEF PlanRow
  <1>1. ASSUME NEW q \in Plans, NEW is_active \in BOOLEAN, create_plan(q, is_active) PROVE Goal
    BY <1>1, <1>t, <1>c DEF create_plan, Exists
  <1>2. ASSUME NEW q \in Plans, update_plan(q) PROVE Goal
    BY <1>2, <1>t, <1>s DEF update_plan
  <1>3. ASSUME NEW q \in Plans, trigger_payout(q) PROVE Goal
    BY <1>3, <1>t, <1>c DEF trigger_payout
  <1>4. ASSUME NEW q \in Plans, DeadlinePasses(q) PROVE Goal
    BY <1>4, <1>t, <1>s DEF DeadlinePasses
  <1>5. ASSUME NEW q \in Plans, ClaimGoesStale(q) PROVE Goal
    BY <1>5, <1>t, <1>s DEF ClaimGoesStale
  <1>6. ASSUME NEW r \in Requests, ping_plan_write(r) PROVE Goal
    BY <1>6, <1>t, <1>s, FinishFacts DEF ping_plan_write
  <1>7. ASSUME NEW r \in Requests, cancel_plan_write(r) PROVE Goal
    <2>1. request[r].plan = p => InHand(p) /\ row'[p].status = "DEACTIVATED"
      BY <1>7, <1>t, <1>h DEF cancel_plan_write
    <2>2. request[r].plan # p => row'[p] = row[p]
      BY <1>7, <1>t, FinishFacts DEF cancel_plan_write
    <2>3. payouts' = payouts
      BY <1>7 DEF cancel_plan_write
    <2> QED
      BY <2>1, <2>2, <2>3, <1>c
  <1>8. ASSUME NEW r \in Requests, claim_plan_write(r) PROVE Goal
    <2>1. request[r].plan = p => InHand(p) /\ row'[p].status = "CLAIMABLE"
      BY <1>8, <1>t, <1>h DEF claim_plan_write
    <2>2. request[r].plan # p => row'[p] = row[p] /\ payouts'[p] = payouts[p]
      BY <1>8, <1>t, FinishFacts DEF claim_plan_write
    <2> QED
      BY <2>1, <2>2, <1>c
  <1>9. ASSUME NEW r \in Requests, liquidate_and_settle_write(r) PROVE Goal
    BY <1>9, <1>t, <1>c, FinishFacts DEF liquidate_and_settle_write
  <1>10. ASSUME row' = row, payouts' = payouts PROVE Goal
    BY <1>10, <1>s
  <1>11. ASSUME NEW w \in Workers, claim_expired_plans(w) PROVE Goal
    <2>1. PICK batch \in SUBSET Expired :
            row' = [q \in Plans |-> IF q \in batch THEN Claimed(q) ELSE row[q]]
      BY <1>11 DEF claim_expired_plans
    <2>2. payouts' = payouts
      BY <1>11 DEF claim_expired_plans
    <2>3. CASE p \in batch
      <3>1. row[p].status # "PAID_OUT"
        BY <2>1, <2>3 DEF Expired, Reclaimable
      <3>2. Claimed(p).status # "PAID_OUT"
        BY <1>t DEF Claimed
      <3> QED
        BY <2>1, <2>3, <3>1, <3>2
    <2>4. CASE p \notin batch
      BY <2>1, <2>2, <2>4, <1>c
    <2> QED
      BY <2>3, <2>4
  <1>12. ASSUME NEW w \in Workers, mark_triggered(w) PROVE Goal
    BY <1>12, <1>t, <1>c, <1>m DEF mark_triggered
  <1>13. ASSUME NEW w \in Workers, mark_trigger_failed(w) PROVE Goal
    BY <1>13, <1>t, <1>c, <1>m DEF mark_trigger_failed
  <1>14. ASSUME ServiceNext PROVE Goal
    <2> HIDE DEF Goal
    <2> QED
      BY <1>14, <1>1, <1>2, <1>3, <1>4, <1>5, <1>6, <1>7, <1>8, <1>9, <1>10
         DEF ServiceNext, ping_plan, cancel_plan, claim_plan, liquidate_and_settle,
             Begin, abandon, ChainMoves
  <1>15. ASSUME NEW w \in Workers, WorkerStep(w) \/ crash(w) PROVE Goal
    <2> HIDE DEF Goal
    <2> QED
      BY <1>15, <1>10, <1>11, <1>12, <1>13
         DEF WorkerStep, LocalStep, RequestStep,
             next_plan, simulate, send_transaction, await_transaction,
             announce, crash, serviceVars
  <1>16. ASSUME NEW t \in pending, Land(t) \/ Expire(t) PROVE Goal
    BY <1>16, <1>10 DEF Land, Expire, serviceVars
  <1>17. ASSUME OtherTransactionLands PROVE Goal
    BY <1>17, <1>10 DEF OtherTransactionLands, serviceVars
  <1> HIDE DEF Goal
  <1>18. Goal
    BY <1>14, <1>15, <1>16, <1>17 DEF Next
  <1> QED
    BY <1>18 DEF Goal

\* A payout is undone, or made a second time, only by a cancellation or a claim
\* past its check, or by a worker that had claimed the plan before.
THEOREM PayoutsStand == Spec => PaidOutStands
  <1>1. Init => TypeInv /\ PaidOutIsClosed
    BY TypeInvInit DEF Init, ServiceInit, Absent, PaidOutIsClosed
  <1>2. TypeInv /\ PaidOutIsClosed /\ [Next]_vars => (TypeInv /\ PaidOutIsClosed)'
    <2> SUFFICES ASSUME TypeInv, PaidOutIsClosed, [Next]_vars
                 PROVE  TypeInv' /\ PaidOutIsClosed'
      OBVIOUS
    <2>1. CASE Next
      BY <2>1, TypeInvStep, PaidOutSteps DEF PaidOutIsClosed
    <2>2. CASE UNCHANGED vars
      BY <2>2, TypeInvStep DEF PaidOutIsClosed, vars
    <2> QED
      BY <2>1, <2>2
  <1>3. TypeInv /\ PaidOutIsClosed /\ [Next]_vars
          => [\A p \in Plans : row[p].status = "PAID_OUT" /\ ~InHand(p)
                => row'[p].status = "PAID_OUT" /\ payouts'[p] = payouts[p]]_vars
    BY PaidOutSteps
  <1> QED
    BY <1>1, <1>2, <1>3, PTL DEF Spec, PaidOutStands

-----------------------------------------------------------------------------
(***************************************************************************)
(* What a worker has in hand, or has sent, has left ACTIVE for good.       *)
(***************************************************************************)

OffActive(p) == row[p].status \notin {"ABSENT", "ACTIVE"}

Busy(w) == worker[w].pc \notin {"idle", "next"}

RecordInv ==
  /\ \A w \in Workers : \A p \in worker[w].queue : OffActive(p)
  /\ \A w \in Workers : Busy(w) => OffActive(worker[w].plan)
  /\ \A t \in pending : OffActive(t.plan)

LEMMA OffActiveStays ==
  ASSUME TypeInv, Next, NEW p \in Plans, OffActive(p)
  PROVE  OffActive(p)'
  BY StatusSteps DEF OffActive, Decided

LEMMA RecordInvStep == TypeInv /\ RecordInv /\ [Next]_vars => RecordInv'
  <1> SUFFICES ASSUME TypeInv, RecordInv, [Next]_vars PROVE RecordInv'
    OBVIOUS
  <1>t. /\ worker \in [Workers -> Worker]
        /\ pending \subseteq Transaction
        /\ HandsFull
    BY DEF TypeInv, WatchdogTypeOK
  <1>g. ASSUME Next,
               \A v \in Workers : worker'[v].queue \subseteq worker[v].queue,
               \A v \in Workers : Busy(v)' =>
                 \/ worker'[v].plan \in worker[v].queue
                 \/ Busy(v) /\ worker'[v].plan = worker[v].plan,
               \A t \in pending' :
                 \/ \E u \in pending : u.plan = t.plan
                 \/ \E v \in Workers : Busy(v) /\ worker[v].plan = t.plan
        PROVE  RecordInv'
    <2>1. \A v \in Workers : \A p \in worker[v].queue : p \in Plans
      BY <1>t DEF Worker
    <2>2. \A v \in Workers : Busy(v) => worker[v].plan \in Plans
      BY <1>t DEF HandsFull, Busy
    <2>3. \A t \in pending : t.plan \in Plans
      BY <1>t DEF Transaction
    <2>4. \A p \in Plans : OffActive(p) => OffActive(p)'
      BY <1>g, OffActiveStays
    <2>5. \A w \in Workers : \A p \in worker'[w].queue : OffActive(p)'
      BY <1>g, <2>1, <2>4 DEF RecordInv
    <2>6. \A w \in Workers : Busy(w)' => OffActive(worker[w].plan)'
      <3> SUFFICES ASSUME NEW w \in Workers, Busy(w)' PROVE OffActive(worker[w].plan)'
        OBVIOUS
      <3>1. worker'[w].plan \in Plans /\ OffActive(worker'[w].plan)
        BY <1>g, <2>1, <2>2 DEF RecordInv
      <3> QED
        BY <3>1, <2>4 DEF OffActive
    <2>7. \A t \in pending' : OffActive(t.plan)'
      <3> SUFFICES ASSUME NEW t \in pending' PROVE OffActive(t.plan)'
        OBVIOUS
      <3>1. t.plan \in Plans /\ OffActive(t.plan)
        BY <1>g, <2>2, <2>3 DEF RecordInv
      <3> QED
        BY <3>1, <2>4 DEF OffActive
    <2> QED
      BY <2>5, <2>6, <2>7 DEF RecordInv, OffActive
  <1>m. ASSUME NEW w \in Workers, Busy(w),
               \/ \E pc \in PC, o \in Outcome : worker' = Goto(w, pc, o)
               \/ worker' = Retried(w)
        PROVE  /\ \A v \in Workers : worker'[v].queue \subseteq worker[v].queue
               /\ \A v \in Workers : Busy(v)' => Busy(v) /\ worker'[v].plan = worker[v].plan
    BY <1>m, <1>t, GotoFacts, RetriedFacts DEF Busy
  <1>1. ASSUME NEW w \in Workers, claim_expired_plans(w), Next PROVE RecordInv'
    <2>1. PICK batch \in SUBSET Expired :
            /\ row' = [p \in Plans |-> IF p \in batch THEN Claimed(p) ELSE row[p]]
            /\ worker' = [worker EXCEPT ![w] = [Idle EXCEPT !.pc = "next", !.queue = batch]]
      BY <1>1 DEF claim_expired_plans
    <2>2. /\ worker'[w].queue = batch /\ ~Busy(w)'
          /\ \A v \in Workers : v # w => worker'[v] = worker[v]
      BY <1>t, <2>1 DEF Idle, Busy
    <2>3. \A p \in Plans : OffActive(p) => OffActive(p)'
      BY <1>1, OffActiveStays
    <2>4. \A p \in batch : OffActive(p)'
      <3>1. row \in [Plans -> PlanRow]
        BY DEF TypeInv, WatchdogTypeOK
      <3>2. \A p \in Plans : Claimed(p).status = IF Soroban THEN "TRIGGERING" ELSE "TRIGGERED"
        BY <3>1 DEF Claimed, PlanRow
      <3>3. \A p \in batch : p \in Plans
        BY <2>1 DEF Expired
      <3> QED
        BY <2>1, <3>2, <3>3 DEF OffActive
    <2>5. \A v \in Workers : \A p \in worker'[v].queue : OffActive(p)'
      BY <1>t, <2>2, <2>3, <2>4 DEF RecordInv, Worker
    <2>6. \A v \in Workers : Busy(v)' => OffActive(worker[v].plan)'
      <3> SUFFICES ASSUME NEW v \in Workers, Busy(v)' PROVE OffActive(worker[v].plan)'
        OBVIOUS
      <3>1. worker'[v] = worker[v] /\ Busy(v) /\ worker[v].plan \in Plans
        BY <1>t, <2>2 DEF Busy, HandsFull
      <3> QED
        BY <3>1, <2>3 DEF RecordInv, OffActive
    <2>7. \A t \in pending' : OffActive(t.plan)'
      BY <1>1, <1>t, <2>3 DEF claim_expired_plans, RecordInv, Transaction
    <2> QED
      BY <2>5, <2>6, <2>7 DEF RecordInv, OffActive
  <1>2. ASSUME NEW w \in Workers, next_plan(w), Next PROVE RecordInv'
    <2>1. PICK p \in worker[w].queue :
            /\ worker'[w].queue = worker[w].queue \ {p}
            /\ worker'[w].plan = p
      BY <1>2, <1>t DEF next_plan
    <2>2. \A v \in Workers : v # w => worker'[v] = worker[v]
      BY <1>2, <1>t DEF next_plan
    <2> QED
      BY <1>2, <1>g, <2>1, <2>2 DEF next_plan, Busy
  <1>3. ASSUME NEW w \in Workers, simulate(w), Next PROVE RecordInv'
    <2>1. \/ \E pc \in PC, o \in Outcome : worker' = Goto(w, pc, o)
          \/ worker' = Retried(w)
      BY <1>3 DEF simulate, PC, Outcome
    <2>2. Busy(w) /\ pending' = pending
      BY <1>3 DEF simulate, At, Busy
    <2> QED
      BY <1>3, <1>g, <1>m, <2>1, <2>2
  <1>4. ASSUME NEW w \in Workers, send_transaction(w), Next PROVE RecordInv'
    <2>1. \/ \E pc \in PC, o \in Outcome : worker' = Goto(w, pc, o)
          \/ worker' = Retried(w)
      BY <1>4 DEF send_transaction, PC, Outcome
    <2>2. Busy(w)
      BY <1>4 DEF send_transaction, At, Busy
    <2>3. \A t \in pending' : t \in pending \/ t.plan = worker[w].plan
      BY <1>4 DEF send_transaction
    <2> QED
      BY <1>4, <1>g, <1>m, <2>1, <2>2, <2>3
  <1>5. ASSUME NEW w \in Workers, await_transaction(w), Next PROVE RecordInv'
    <2>1. \/ \E pc \in PC, o \in Outcome : worker' = Goto(w, pc, o)
          \/ worker' = Retried(w)
      BY <1>5 DEF await_transaction, PC, Outcome
    <2>2. Busy(w)
      BY <1>5 DEF await_transaction, At, Busy
    <2>3. pending' = pending \/ pending' = Orphaned(w)
      BY <1>5 DEF await_transaction
    <2>4. \A t \in pending' : \E u \in pending : u.plan = t.plan
      BY <1>t, <2>3, OrphanedFacts
    <2> QED
      BY <1>5, <1>g, <1>m, <2>1, <2>2, <2>4
  <1>6. ASSUME NEW w \in Workers, mark_triggered(w) \/ mark_trigger_failed(w), Next
        PROVE  RecordInv'
    <2>1. \E pc \in PC, o \in Outcome : worker' = Goto(w, pc, o)
      BY <1>6 DEF mark_triggered, mark_trigger_failed, PC, Outcome
    <2>2. Busy(w) /\ pending' = pending
      BY <1>6 DEF mark_triggered, mark_trigger_failed, At, Busy
    <2> QED
      BY <1>6, <1>g, <1>m, <2>1, <2>2
  <1>7. ASSUME NEW w \in Workers, announce(w), Next PROVE RecordInv'
    <2>1. /\ worker'[w].queue \subseteq worker[w].queue
          /\ ~Busy(w)'
          /\ \A v \in Workers : v # w => worker'[v] = worker[v]
      BY <1>7, <1>t DEF announce, Idle, Busy
    <2> QED
      BY <1>7, <1>g, <2>1 DEF announce, Busy
  <1>8. ASSUME NEW w \in Workers, crash(w), Next PROVE RecordInv'
    <2>1. /\ worker'[w].queue \subseteq worker[w].queue
          /\ ~Busy(w)'
          /\ \A v \in Workers : v # w => worker'[v] = worker[v]
      BY <1>8, <1>t DEF crash, Idle, Busy
    <2>2. \A t \in pending' : \E u \in pending : u.plan = t.plan
      BY <1>8, <1>t, OrphanedFacts DEF crash
    <2> QED
      BY <1>8, <1>g, <2>1, <2>2 DEF Busy
  <1>9. ASSUME Next, pending' \subseteq pending,
               \A v \in Workers : /\ worker'[v].pc = worker[v].pc
                                  /\ worker'[v].plan = worker[v].plan
                                  /\ worker'[v].queue = worker[v].queue
        PROVE  RecordInv'
    BY <1>9, <1>g DEF Busy
  <1>10. \A v \in Workers : /\ Outdated(v).pc = worker[v].pc
                            /\ Outdated(v).plan = worker[v].plan
                            /\ Outdated(v).queue = worker[v].queue
    BY <1>t DEF Outdated, Worker
  <1>11. ASSUME NEW t \in pending, Land(t), Next PROVE RecordInv'
    <2>1. \A v \in Workers : /\ worker'[v].pc = worker[v].pc
                             /\ worker'[v].plan = worker[v].plan
                             /\ worker'[v].queue = worker[v].queue
      <3> SUFFICES ASSUME NEW v \in Workers
                   PROVE  /\ worker'[v].pc = worker[v].pc
                          /\ worker'[v].plan = worker[v].plan
                          /\ worker'[v].queue = worker[v].queue
        OBVIOUS
      <3>1. CASE v = t.by
        BY <3>1, <1>11, <1>t DEF Land, Worker
      <3>2. CASE v # t.by
        BY <3>2, <1>10, <1>11 DEF Land
      <3> QED
        BY <3>1, <3>2
    <2> QED
      BY <1>9, <1>11, <2>1 DEF Land
  <1>12. ASSUME NEW t \in pending, Expire(t), Next PROVE RecordInv'
    BY <1>9, <1>12 DEF Expire
  <1>13. ASSUME OtherTransactionLands, Next PROVE RecordInv'
    BY <1>9, <1>10, <1>13 DEF OtherTransactionLands
  <1>14. ASSUME ServiceNext, UNCHANGED watchdogVars, Next PROVE RecordInv'
    BY <1>9, <1>14 DEF watchdogVars
  <1>15. ASSUME UNCHANGED vars PROVE RecordInv'
    BY <1>15 DEF vars, RecordInv, OffActive, Busy
  <1> QED
    BY <1>1, <1>2, <1>3, <1>4, <1>5, <1>6, <1>7, <1>8, <1>11, <1>12, <1>13, <1>14, <1>15
       DEF Next, WorkerStep, LocalStep, RequestStep

\* A transaction that may still land is one of a plan whose row has left ACTIVE,
\* whatever workers crash, time out or sweep again.
THEOREM InFlightRecorded == Spec => []InFlightIsRecorded
  <1>1. Init => RecordInv
    BY DEF Init, WatchdogInit, RecordInv, Idle, Busy
  <1>2. RecordInv => InFlightIsRecorded
    BY DEF RecordInv, InFlightIsRecorded, OffActive
  <1> QED
    BY <1>1, <1>2, TypeInvInit, TypeInvStep, RecordInvStep, PTL DEF Spec

-----------------------------------------------------------------------------
(***************************************************************************)
(* What the rows, the records and the events say is true on-chain.         *)
(***************************************************************************)

\* The worker named by a transaction is the one that waits for it.
AwaitInv ==
  \A t \in pending : \A w \in Workers : t.by = w =>
    /\ worker[w].pc = "poll"
    /\ worker[w].outcome = "waiting"
    /\ worker[w].plan = t.plan

\* w has seen its transaction land with success, and goes by it.
Verdict(w) ==
  \/ worker[w].pc = "poll" /\ worker[w].outcome = "success"
  \/ worker[w].pc \in {"mark", "announce"} /\ worker[w].outcome = "triggered"

OnChain(p) == chain[p] = "triggered"

VerdictInv == \A w \in Workers : Verdict(w) => OnChain(worker[w].plan)

EventInv == \A p \in Plans : <<"plan.triggered", p>> \in events => OnChain(p)

\* The second conjunct is what keeps a created plan free of earlier payouts; the
\* third is what a claim that was checked and not yet written remembers.
RowInv ==
  /\ \A p \in Plans : row[p].status \in {"TRIGGERED", "CLAIMABLE"} => OnChain(p)
  /\ \A p \in Plans : payouts[p] > 0 => Exists(p) /\ (row[p].active => OnChain(p))
  /\ \A r \in Requests : request[r].op = "claim" => OnChain(request[r].plan)

ChainInv == Soroban => VerdictInv /\ EventInv /\ RowInv

LEMMA OnChainStays ==
  ASSUME TypeInv, Next, NEW p \in Plans, OnChain(p)
  PROVE  OnChain(p)'
  <1>t. chain \in [Plans -> Contract!Fate]
    BY DEF TypeInv, WatchdogTypeOK
  <1>1. ASSUME ChainMoves PROVE OnChain(p)'
    BY <1>1, <1>t, ContractMoves DEF ChainMoves, OnChain
  <1>2. ASSUME chain' = chain PROVE OnChain(p)'
    BY <1>2 DEF OnChain
  <1>3. ASSUME NEW t \in pending, Land(t) PROVE OnChain(p)'
    BY <1>3, <1>t DEF Land, OnChain
  <1>4. ASSUME ServiceNext PROVE OnChain(p)'
    <2> HIDE DEF OnChain
    <2> QED
      BY <1>4, <1>1, <1>2
         DEF ServiceNext, create_plan, update_plan, trigger_payout, DeadlinePasses,
             ClaimGoesStale, ping_plan, cancel_plan, claim_plan, liquidate_and_settle,
             Begin, Finish, ping_plan_write, cancel_plan_write, claim_plan_write,
             liquidate_and_settle_write, abandon
  <1>5. ASSUME NEW w \in Workers, WorkerStep(w) \/ crash(w) PROVE OnChain(p)'
    BY <1>5, <1>2
       DEF WorkerStep, LocalStep, RequestStep,
           claim_expired_plans, next_plan, simulate, send_transaction,
           await_transaction, mark_triggered, mark_trigger_failed, announce, crash, serviceVars
  <1>6. ASSUME NEW t \in pending, Expire(t) PROVE OnChain(p)'
    BY <1>6, <1>2 DEF Expire, serviceVars
  <1>7. ASSUME OtherTransactionLands PROVE OnChain(p)'
    BY <1>7, <1>2 DEF OtherTransactionLands, serviceVars
  <1> QED
    BY <1>3, <1>4, <1>5, <1>6, <1>7 DEF Next

LEMMA AwaitInvStep == TypeInv /\ AwaitInv /\ [Next]_vars => AwaitInv'
  <1> SUFFICES ASSUME TypeInv, AwaitInv, [Next]_vars PROVE AwaitInv'
    OBVIOUS
  <1>t. /\ worker \in [Workers -> Worker]
        /\ pending \subseteq Transaction
    BY DEF TypeInv, WatchdogTypeOK
  <1>o. ASSUME NEW w \in Workers, pending' = Orphaned(w),
               \A v \in Workers : v # w => worker'[v] = worker[v]
        PROVE  AwaitInv'
    <2> SUFFICES ASSUME NEW t \in pending', NEW v \in Workers, t.by = v
                 PROVE  /\ worker'[v].pc = "poll"
                        /\ worker'[v].outcome = "waiting"
                        /\ worker'[v].plan = t.plan
      BY DEF AwaitInv
    <2>1. v # w /\ t \in pending
      BY <1>o, <1>t, OrphanedFacts, WatchdogAssumption
    <2> QED
      BY <1>o, <2>1 DEF AwaitInv
  \* A worker that sends, or was not waiting, takes nobody's transaction along.
  <1>u. ASSUME NEW w \in Workers, pending' = pending,
               worker[w].pc # "poll" \/ worker[w].outcome # "waiting",
               \A v \in Workers : v # w => worker'[v] = worker[v]
        PROVE  AwaitInv'
    <2> SUFFICES ASSUME NEW t \in pending', NEW v \in Workers, t.by = v
                 PROVE  /\ worker'[v].pc = "poll"
                        /\ worker'[v].outcome = "waiting"
                        /\ worker'[v].plan = t.plan
      BY DEF AwaitInv
    <2>1. v # w
      BY <1>u DEF AwaitInv
    <2> QED
      BY <1>u, <2>1 DEF AwaitInv
  <1>1. ASSUME NEW w \in Workers, claim_expired_plans(w) PROVE AwaitInv'
    BY <1>1, <1>t, <1>u DEF claim_expired_plans, At
  <1>2. ASSUME NEW w \in Workers, next_plan(w) PROVE AwaitInv'
    BY <1>2, <1>t, <1>u DEF next_plan, At
  <1>m. ASSUME NEW w \in Workers,
               \/ \E pc \in PC, o \in Outcome : worker' = Goto(w, pc, o)
               \/ worker' = Retried(w)
        PROVE  \A v \in Workers : v # w => worker'[v] = worker[v]
    BY <1>m, <1>t, GotoFacts, RetriedFacts
  <1>3. ASSUME NEW w \in Workers, simulate(w) PROVE AwaitInv'
    <2>1. \/ \E pc \in PC, o \in Outcome : worker' = Goto(w, pc, o)
          \/ worker' = Retried(w)
      BY <1>3 DEF simulate, PC, Outcome
    <2> QED
      BY <1>3, <1>m, <1>u, <2>1 DEF simulate, At
  <1>4. ASSUME NEW w \in Workers, send_transaction(w) PROVE AwaitInv'
    <2>1. \/ \E pc \in PC, o \in Outcome : worker' = Goto(w, pc, o)
          \/ worker' = Retried(w)
      BY <1>4 DEF send_transaction, PC, Outcome
    <2>2. worker[w].pc = "send"
      BY <1>4 DEF send_transaction, At
    <2>3. CASE pending' = pending
      BY <1>m, <1>u, <2>1, <2>2, <2>3
    <2>4. CASE /\ worker' = Goto(w, "poll", "waiting")
               /\ pending' = pending \cup {[plan |-> worker[w].plan, by |-> w]}
      <3>1. /\ worker'[w].pc = "poll" /\ worker'[w].outcome = "waiting"
            /\ worker'[w].plan = worker[w].plan
        BY <1>t, <2>4, GotoFacts DEF PC, Outcome
      <3> SUFFICES ASSUME NEW t \in pending', NEW v \in Workers, t.by = v
                   PROVE  /\ worker'[v].pc = "poll"
                          /\ worker'[v].outcome = "waiting"
                          /\ worker'[v].plan = t.plan
        BY DEF AwaitInv
      <3>2. CASE t \in pending
        <4>1. v # w
          BY <2>2, <3>2 DEF AwaitInv
        <4> QED
          BY <1>m, <2>1, <3>2, <4>1 DEF AwaitInv
      <3>3. CASE t = [plan |-> worker[w].plan, by |-> w]
        BY <3>1, <3>3
      <3> QED
        BY <2>4, <3>2, <3>3
    <2>5. CASE pending' = pending \cup {[plan |-> worker[w].plan, by |-> NoWorker]}
      <3> SUFFICES ASSUME NEW t \in pending', NEW v \in Workers, t.by = v
                   PROVE  /\ worker'[v].pc = "poll"
                          /\ worker'[v].outcome = "waiting"
                          /\ worker'[v].plan = t.plan
        BY DEF AwaitInv
      <3>1. t \in pending
        BY <2>5, WatchdogAssumption
      <3>2. v # w
        BY <2>2, <3>1 DEF AwaitInv
      <3> QED
        BY <1>m, <2>1, <3>1, <3>2 DEF AwaitInv
    <2> QED
      BY <1>4, <2>3, <2>4, <2>5 DEF send_transaction
  <1>5. ASSUME NEW w \in Workers, await_transaction(w) PROVE AwaitInv'
    <2>1. \/ \E pc \in PC, o \in Outcome : worker' = Goto(w, pc, o)
          \/ worker' = Retried(w)
      BY <1>5 DEF await_transaction, PC, Outcome
    <2>2. \/ pending' = Orphaned(w)
          \/ pending' = pending /\ worker[w].outcome # "waiting"
      BY <1>5 DEF await_transaction
    <2> QED
      BY <1>m, <1>o, <1>u, <2>1, <2>2
  <1>6. ASSUME NEW w \in Workers, mark_triggered(w) \/ mark_trigger_failed(w) PROVE AwaitInv'
    <2>1. \E pc \in PC, o \in Outcome : worker' = Goto(w, pc, o)
      BY <1>6 DEF mark_triggered, mark_trigger_failed, PC, Outcome
    <2> QED
      BY <1>6, <1>m, <1>u, <2>1 DEF mark_triggered, mark_trigger_failed, At
  <1>7. ASSUME NEW w \in Workers, announce(w) PROVE AwaitInv'
    BY <1>7, <1>t, <1>u DEF announce, At
  <1>8. ASSUME NEW w \in Workers, crash(w) PROVE AwaitInv'
    BY <1>8, <1>t, <1>o DEF crash
  <1>9. ASSUME pending' = {} PROVE AwaitInv'
    BY <1>9 DEF AwaitInv
  <1>10. ASSUME pending' \subseteq pending, worker' = worker PROVE AwaitInv'
    BY <1>10 DEF AwaitInv
  <1> QED
    BY <1>1, <1>2, <1>3, <1>4, <1>5, <1>6, <1>7, <1>8, <1>9, <1>10
       DEF Next, WorkerStep, LocalStep, RequestStep,
           Land, OtherTransactionLands, Expire, watchdogVars, vars

LEMMA VerdictInvStep ==
  ASSUME TypeInv, AwaitInv, Soroban, VerdictInv, Next PROVE VerdictInv'
  <1>t. /\ worker \in [Workers -> Worker]
        /\ chain \in [Plans -> Contract!Fate]
        /\ pending \subseteq Transaction
        /\ HandsFull
    BY DEF TypeInv, WatchdogTypeOK
  <1>k. \A p \in Plans : OnChain(p) => OnChain(p)'
    BY OnChainStays
  <1>p. \A v \in Workers : Verdict(v) => worker[v].plan \in Plans
    BY <1>t DEF HandsFull, Verdict
  \* A worker may reach a verdict only from one it has.
  <1>g. ASSUME NEW w \in Workers,
               \A v \in Workers : v # w => worker'[v] = worker[v],
               Verdict(w)' => Verdict(w) /\ worker'[w].plan = worker[w].plan
        PROVE  VerdictInv'
    <2> SUFFICES ASSUME NEW v \in Workers, Verdict(v)' PROVE OnChain(worker[v].plan)'
      BY DEF VerdictInv
    <2>1. Verdict(v) /\ worker'[v].plan = worker[v].plan
      BY <1>g DEF Verdict
    <2> QED
      BY <1>k, <1>p, <2>1 DEF VerdictInv, OnChain
  <1>1. ASSUME NEW w \in Workers, claim_expired_plans(w) PROVE VerdictInv'
    BY <1>1, <1>t, <1>g DEF claim_expired_plans, Idle, Verdict
  <1>2. ASSUME NEW w \in Workers, next_plan(w) PROVE VerdictInv'
    <2>1. worker'[w].outcome \in {"none", "failed"}
      BY <1>2, <1>t DEF next_plan
    <2>2. ~Verdict(w)'
      BY <2>1 DEF Verdict
    <2> QED
      BY <1>2, <1>t, <1>g, <2>2 DEF next_plan
  <1>r. ASSUME NEW w \in Workers, worker' = Retried(w) PROVE VerdictInv'
    <2>1. ~Verdict(w)'
      BY <1>r, <1>t, RetriedFacts DEF Verdict
    <2> QED
      BY <1>r, <1>t, <1>g, <2>1, RetriedFacts
  <1>m. ASSUME NEW w \in Workers, NEW pc \in PC, NEW o \in Outcome, worker' = Goto(w, pc, o),
               o \notin {"success", "triggered"} \/ Verdict(w)
        PROVE  VerdictInv'
    <2>1. Verdict(w)' => Verdict(w)
      BY <1>m, <1>t, GotoFacts DEF Verdict
    <2> QED
      BY <1>m, <1>t, <1>g, <2>1, GotoFacts
  <1>3. ASSUME NEW w \in Workers, simulate(w) PROVE VerdictInv'
    <2>1. \/ worker' = Retried(w)
          \/ worker' = Goto(w, "send", "fresh")
          \/ worker' = Goto(w, "mark", "failed")
      BY <1>3 DEF simulate
    <2> QED
      BY <1>r, <1>m, <2>1 DEF PC, Outcome
  <1>4. ASSUME NEW w \in Workers, send_transaction(w) PROVE VerdictInv'
    <2>1. \/ worker' = Retried(w)
          \/ worker' = Goto(w, "poll", "waiting")
          \/ worker' = Goto(w, "mark", "failed")
      BY <1>4 DEF send_transaction
    <2> QED
      BY <1>r, <1>m, <2>1 DEF PC, Outcome
  <1>5. ASSUME NEW w \in Workers, await_transaction(w) PROVE VerdictInv'
    <2>1. \/ worker' = Retried(w)
          \/ worker' = Goto(w, "mark", "failed")
          \/ worker' = Goto(w, "mark", "triggered") /\ Verdict(w)
      BY <1>5 DEF await_transaction, At, Verdict
    <2> QED
      BY <1>r, <1>m, <2>1 DEF PC, Outcome
  <1>6. ASSUME NEW w \in Workers, mark_triggered(w) PROVE VerdictInv'
    <2>1. worker' = Goto(w, "announce", "triggered") /\ Verdict(w)
      BY <1>6 DEF mark_triggered, At, Verdict
    <2> QED
      BY <1>m, <2>1 DEF PC, Outcome
  <1>7. ASSUME NEW w \in Workers, mark_trigger_failed(w) PROVE VerdictInv'
    <2>1. worker' = Goto(w, "announce", "failed")
      BY <1>7 DEF mark_trigger_failed
    <2> QED
      BY <1>m, <2>1 DEF PC, Outcome
  <1>8. ASSUME NEW w \in Workers, announce(w) \/ crash(w) PROVE VerdictInv'
    <2>1. /\ worker'[w].pc \in {"idle", "next"}
          /\ \A v \in Workers : v # w => worker'[v] = worker[v]
      <3>1. CASE announce(w)
        BY <3>1, <1>t DEF announce, Idle
      <3>2. CASE crash(w)
        BY <3>2, <1>t DEF crash, Idle
      <3> QED
        BY <1>8, <3>1, <3>2
    <2>2. ~Verdict(w)'
      BY <2>1 DEF Verdict
    <2> QED
      BY <1>g, <2>1, <2>2
  <1>9. \A v \in Workers : /\ Outdated(v).plan = worker[v].plan
                           /\ Outdated(v).pc = worker[v].pc
                           /\ Outdated(v).pc # "send" => Outdated(v) = worker[v]
    BY <1>t DEF Outdated, At, Worker
  <1>10. ASSUME NEW t \in pending, Land(t) PROVE VerdictInv'
    <2> SUFFICES ASSUME NEW v \in Workers, Verdict(v)' PROVE OnChain(worker[v].plan)'
      BY DEF VerdictInv
    <2>1. CASE v = t.by
      <3>1. worker[v].pc = "poll" /\ worker[v].plan = t.plan
        BY <2>1 DEF AwaitInv
      <3>2. /\ worker'[v].pc = "poll"
            /\ worker'[v].plan = t.plan
            /\ worker'[v].outcome = IF chain[t.plan] = "open" THEN "success" ELSE "failed"
        BY <1>10, <1>t, <2>1, <3>1 DEF Land, Worker
      <3>3. chain[t.plan] = "open"
        BY <3>2 DEF Verdict
      <3>4. chain'[t.plan] = "triggered"
        BY <1>10, <1>t, <3>3 DEF Land, Transaction
      <3> QED
        BY <3>2, <3>4 DEF OnChain
    <2>2. CASE v # t.by
      <3>1. worker'[v] = Outdated(v)
        BY <1>10, <2>2 DEF Land
      <3>2. Verdict(v) /\ worker'[v].plan = worker[v].plan
        BY <1>9, <3>1 DEF Verdict
      <3> QED
        BY <1>k, <1>p, <3>2 DEF VerdictInv, OnChain
    <2> QED
      BY <2>1, <2>2
  <1>11. ASSUME OtherTransactionLands PROVE VerdictInv'
    <2> SUFFICES ASSUME NEW v \in Workers, Verdict(v)' PROVE OnChain(worker[v].plan)'
      BY DEF VerdictInv
    <2>1. worker'[v] = Outdated(v)
      BY <1>11 DEF OtherTransactionLands
    <2>2. Verdict(v) /\ worker'[v].plan = worker[v].plan
      BY <1>9, <2>1 DEF Verdict
    <2> QED
      BY <1>k, <1>p, <2>2 DEF VerdictInv, OnChain
  <1>12. ASSUME worker' = worker PROVE VerdictInv'
    <2> SUFFICES ASSUME NEW v \in Workers, Verdict(v)' PROVE OnChain(worker[v].plan)'
      BY DEF VerdictInv
    <2>1. Verdict(v) /\ worker'[v].plan = worker[v].plan
      BY <1>12 DEF Verdict
    <2> QED
      BY <1>k, <1>p, <2>1 DEF VerdictInv, OnChain
  <1> QED
    BY <1>1, <1>2, <1>3, <1>4, <1>5, <1>6, <1>7, <1>8, <1>10, <1>11, <1>12
       DEF Next, WorkerStep, LocalStep, RequestStep, Expire, watchdogVars

LEMMA EventInvStep ==
  ASSUME TypeInv, Soroban, VerdictInv, EventInv, Next PROVE EventInv'
  <1>k. \A p \in Plans : OnChain(p) => OnChain(p)'
    BY OnChainStays
  <1>1. ASSUME NEW w \in Workers, announce(w) PROVE EventInv'
    <2> SUFFICES ASSUME NEW p \in Plans, <<"plan.triggered", p>> \in events' PROVE OnChain(p)
      BY <1>k DEF EventInv
    <2>1. CASE <<"plan.triggered", p>> \in events
      BY <2>1 DEF EventInv
    <2>2. CASE <<"plan.triggered", p>> = Announcement(w)
      <3>1. worker[w].outcome = "triggered" /\ worker[w].plan = p
        BY <2>2 DEF Announcement
      <3>2. Verdict(w)
        BY <1>1, <3>1 DEF announce, At, Verdict
      <3> QED
        BY <3>1, <3>2 DEF VerdictInv
    <2> QED
      BY <1>1, <2>1, <2>2 DEF announce
  <1>2. ASSUME events' = events PROVE EventInv'
    BY <1>2, <1>k DEF EventInv
  <1> QED
    BY <1>1, <1>2
       DEF Next, WorkerStep, LocalStep, RequestStep,
           claim_expired_plans, next_plan, simulate, send_transaction,
           await_transaction, mark_triggered, mark_trigger_failed, crash, Land, Expire,
           OtherTransactionLands, watchdogVars

LEMMA RowInvStep ==
  ASSUME TypeInv, Soroban, VerdictInv, RowInv, Next PROVE RowInv'
  <1>t. /\ row \in [Plans -> PlanRow]
        /\ payouts \in [Plans -> 0 .. MaxPayouts]
        /\ request \in [Requests -> Request]
        /\ worker \in [Workers -> Worker]
        /\ HandsFull
    BY DEF TypeInv, WatchdogTypeOK
  <1>k. \A p \in Plans : OnChain(p) => OnChain(p)'
    BY OnChainStays
  <1>v. \A r \in Requests : request[r].op = "claim" => request[r].plan \in Plans
    BY <1>t DEF Request
  \* A step that moves no row towards TRIGGERED, no payouts and no claim.
  <1>g. ASSUME \A p \in Plans :
                 /\ row'[p].status \in {"TRIGGERED", "CLAIMABLE"}
                      => row[p].status \in {"TRIGGERED", "CLAIMABLE"}
                 /\ row[p].status # "ABSENT"
                      => row'[p].status # "ABSENT" /\ (row'[p].active => row[p].active)
                 /\ payouts'[p] = payouts[p],
               \A r \in Requests : request'[r].op = "claim" => request'[r] = request[r]
        PROVE  RowInv'
    BY <1>g, <1>k, <1>v DEF RowInv, Exists, OnChain
  <1> USE DEF PlanRow
  <1>1. ASSUME NEW q \in Plans, NEW is_active \in BOOLEAN, create_plan(q, is_active)
        PROVE  RowInv'
    BY <1>1, <1>t, <1>g DEF create_plan, Exists
  <1>2. ASSUME NEW q \in Plans, update_plan(q) PROVE RowInv'
    BY <1>2, <1>t, <1>g DEF update_plan
  <1>3. ASSUME NEW q \in Plans, trigger_payout(q) PROVE RowInv'
    <2>1. \A p \in Plans : p # q => row'[p] = row[p] /\ payouts'[p] = payouts[p]
      BY <1>3, <1>t DEF trigger_payout
    <2>2. ~row'[q].active /\ row'[q].status = "PAID_OUT" /\ request' = request
      BY <1>3, <1>t DEF trigger_payout
    <2> QED
      BY <1>k, <1>v, <2>1, <2>2 DEF RowInv, Exists, OnChain
  <1>4. ASSUME NEW q \in Plans, DeadlinePasses(q) PROVE RowInv'
    BY <1>4, <1>t, <1>g DEF DeadlinePasses
  <1>5. ASSUME NEW q \in Plans, ClaimGoesStale(q) PROVE RowInv'
    BY <1>5, <1>t, <1>g DEF ClaimGoesStale
  <1>6. ASSUME row' = row, payouts' = payouts,
               \A r \in Requests : request'[r].op = "claim" => request'[r] = request[r]
        PROVE  RowInv'
    BY <1>6, <1>g
  <1>7. ASSUME NEW r \in Requests, NEW p \in Plans, NEW op \in {"ping", "cancel", "settle"},
               Begin(r, op, p)
        PROVE  RowInv'
    BY <1>7, <1>t, <1>6 DEF Begin
  <1>8. ASSUME NEW r \in Requests, NEW p \in Plans, claim_plan(r, p) PROVE RowInv'
    <2>1. OnChain(p)
      BY <1>8 DEF claim_plan, Claimable, RowInv
    <2>2. /\ request'[r] = [op |-> "claim", plan |-> p]
          /\ \A s \in Requests : s # r => request'[s] = request[s]
          /\ row' = row /\ payouts' = payouts
      BY <1>8, <1>t DEF claim_plan, Begin
    <2>3. \A s \in Requests : request'[s].op = "claim"
            => request'[s].plan \in Plans /\ OnChain(request'[s].plan)
      BY <1>v, <2>1, <2>2 DEF RowInv
    <2> QED
      BY <1>k, <2>2, <2>3 DEF RowInv, Exists, OnChain
  <1>f. ASSUME NEW r \in Requests, NEW op \in {"ping", "cancel", "claim", "settle"},
               Finish(r, op)
        PROVE  /\ request[r].plan \in Plans
               /\ \A s \in Requests : request'[s].op = "claim" => request'[s] = request[s]
    <2>1. /\ request'[r] = NoRequest
          /\ \A s \in Requests : s # r => request'[s] = request[s]
      BY <1>f, <1>t DEF Finish
    <2> QED
      BY <1>f, <2>1, FinishFacts DEF NoRequest
  <1>9. ASSUME NEW r \in Requests, ping_plan_write(r) PROVE RowInv'
    BY <1>9, <1>t, <1>f, <1>g DEF ping_plan_write
  <1>10. ASSUME NEW r \in Requests, cancel_plan_write(r) PROVE RowInv'
    <2>1. PICK q \in Plans : q = request[r].plan
      BY <1>10, <1>f DEF cancel_plan_write
    <2>2. /\ \A p \in Plans : p # q => row'[p] = row[p]
          /\ row'[q].status = "DEACTIVATED" /\ ~row'[q].active
      BY <1>10, <1>t, <2>1 DEF cancel_plan_write
    <2>3. payouts' = payouts
      BY <1>10 DEF cancel_plan_write
    <2>4. \A s \in Requests : request'[s].op = "claim" => request'[s] = request[s]
      BY <1>10, <1>f DEF cancel_plan_write
    <2> QED
      BY <1>g, <2>2, <2>3, <2>4
  <1>11. ASSUME NEW r \in Requests, claim_plan_write(r) PROVE RowInv'
    <2>1. PICK q \in Plans : q = request[r].plan
      BY <1>11, <1>f DEF claim_plan_write
    <2>2. OnChain(q)
      BY <1>11, <2>1 DEF claim_plan_write, Finish, RowInv
    <2>3. /\ \A p \in Plans : p # q => row'[p] = row[p] /\ payouts'[p] = payouts[p]
          /\ row'[q].status = "CLAIMABLE"
      BY <1>11, <1>t, <2>1 DEF claim_plan_write
    <2>4. \A s \in Requests : request'[s].op = "claim" => request'[s] = request[s]
      BY <1>11, <1>f DEF claim_plan_write
    <2> QED
      BY <1>k, <1>v, <2>2, <2>3, <2>4 DEF RowInv, Exists, OnChain
  <1>12. ASSUME NEW r \in Requests, liquidate_and_settle_write(r) PROVE RowInv'
    <2>1. PICK q \in Plans : q = request[r].plan
      BY <1>12, <1>f DEF liquidate_and_settle_write
    <2>2. /\ \A p \in Plans : p # q => row'[p] = row[p]
          /\ row'[q].status = IF row[q].status = "TRIGGERED" THEN "CLAIMABLE" ELSE row[q].status
          /\ row'[q].active = row[q].active
      BY <1>12, <1>t, <2>1 DEF liquidate_and_settle_write
    <2>3. payouts' = payouts
      BY <1>12 DEF liquidate_and_settle_write
    <2>4. \A s \in Requests : request'[s].op = "claim" => request'[s] = request[s]
      BY <1>12, <1>f DEF liquidate_and_settle_write
    <2> QED
      BY <1>g, <2>2, <2>3, <2>4
  <1>13. ASSUME NEW r \in Requests, abandon(r) PROVE RowInv'
    BY <1>13, <1>t, <1>6 DEF abandon, NoRequest
  <1>14. ASSUME ServiceNext PROVE RowInv'
    BY <1>14, <1>1, <1>2, <1>3, <1>4, <1>5, <1>6, <1>7, <1>8, <1>9, <1>10, <1>11, <1>12, <1>13
       DEF ServiceNext, ping_plan, cancel_plan, liquidate_and_settle, ChainMoves
  <1>15. ASSUME NEW w \in Workers, claim_expired_plans(w) PROVE RowInv'
    <2>1. PICK batch \in SUBSET Expired :
            row' = [p \in Plans |-> IF p \in batch THEN Claimed(p) ELSE row[p]]
      BY <1>15 DEF claim_expired_plans
    <2>2. \A p \in Plans : /\ Claimed(p).status = "TRIGGERING"
                           /\ Claimed(p).active = row[p].active
      BY <1>t DEF Claimed
    <2> QED
      BY <1>15, <1>g, <2>1, <2>2 DEF claim_expired_plans
  <1>16. ASSUME NEW w \in Workers, mark_triggered(w) PROVE RowInv'
    <2>1. PICK q \in Plans : q = worker[w].plan
      BY <1>16, <1>t DEF mark_triggered, At, HandsFull
    <2>2. OnChain(q)
      BY <1>16, <2>1 DEF mark_triggered, At, Verdict, VerdictInv
    <2>3. /\ \A p \in Plans : p # q => row'[p] = row[p]
          /\ row'[q].status = "TRIGGERED" /\ row'[q].active = row[q].active
          /\ payouts' = payouts /\ request' = request
      BY <1>16, <1>t, <2>1 DEF mark_triggered
    <2> QED
      BY <1>k, <1>v, <2>2, <2>3 DEF RowInv, Exists, OnChain
  <1>17. ASSUME NEW w \in Workers, mark_trigger_failed(w) PROVE RowInv'
    BY <1>17, <1>t, <1>g DEF mark_trigger_failed
  <1>18. ASSUME NEW w \in Workers, WorkerStep(w) \/ crash(w) PROVE RowInv'
    BY <1>18, <1>6, <1>15, <1>16, <1>17
       DEF WorkerStep, LocalStep, RequestStep,
           next_plan, simulate, send_transaction, await_transaction,
           announce, crash, serviceVars
  <1>19. ASSUME NEW t \in pending, Land(t) \/ Expire(t) PROVE RowInv'
    BY <1>19, <1>6 DEF Land, Expire, serviceVars
  <1>20. ASSUME OtherTransactionLands PROVE RowInv'
    BY <1>20, <1>6 DEF OtherTransactionLands, serviceVars
  <1> QED
    BY <1>14, <1>18, <1>19, <1>20 DEF Next

Inv == TypeInv /\ AwaitInv /\ ChainInv

LEMMA InvHolds == Spec => []Inv
  <1>1. Init => Inv
    <2> SUFFICES ASSUME Init PROVE Inv
      OBVIOUS
    <2>1. TypeInv
      BY TypeInvInit
    <2>2. AwaitInv /\ VerdictInv /\ EventInv
      BY DEF Init, WatchdogInit, AwaitInv, VerdictInv, EventInv, Verdict, Idle
    <2>3. RowInv
      BY DEF Init, ServiceInit, RowInv, Absent, NoRequest
    <2> QED
      BY <2>1, <2>2, <2>3 DEF Inv, ChainInv
  <1>2. Inv /\ [Next]_vars => Inv'
    <2> SUFFICES ASSUME Inv, [Next]_vars PROVE Inv'
      OBVIOUS
    <2>1. TypeInv' /\ AwaitInv'
      BY TypeInvStep, AwaitInvStep DEF Inv
    <2>2. CASE Next
      BY <2>1, <2>2, VerdictInvStep, EventInvStep, RowInvStep DEF Inv, ChainInv
    <2>3. CASE UNCHANGED vars
      <3>1. ChainInv'
        BY <2>3 DEF vars, Inv, ChainInv, VerdictInv, EventInv, RowInv, Verdict, OnChain, Exists
      <3> QED
        BY <2>1, <3>1 DEF Inv
    <2> QED
      BY <2>2, <2>3
  <1> QED
    BY <1>1, <1>2, PTL DEF Spec

\* With a signer configured, a row reaches TRIGGERED or CLAIMABLE only once the
\* plan is triggered on-chain, whatever retries, crashes and late writes happen.
THEOREM TriggeredOnChain == Spec => []TriggeredMeansOnChain
  <1>1. Inv => TriggeredMeansOnChain
    BY DEF Inv, ChainInv, RowInv, OnChain, TriggeredMeansOnChain
  <1> QED
    BY <1>1, InvHolds, PTL

\* plan.triggered is enqueued only for plans that are triggered on-chain.
THEOREM AnnouncedOnChain == Spec => []AnnouncedMeansOnChain
  <1>1. Inv => AnnouncedMeansOnChain
    BY DEF Inv, ChainInv, EventInv, OnChain, AnnouncedMeansOnChain
  <1> QED
    BY <1>1, InvHolds, PTL

\* A plan that is still active has payout records only if it is triggered
\* on-chain, however late claim_plan writes what it checked.
THEOREM PayoutsTriggered == Spec => []PayoutsNeedTrigger
  <1>1. Inv => PayoutsNeedTrigger
    BY DEF Inv, ChainInv, RowInv, OnChain, PayoutsNeedTrigger
  <1> QED
    BY <1>1, InvHolds, PTL
(***************************************************************************)
(* The rows, the workers and the network leave plans the life PlanFate     *)
(* gives them.                                                             *)
(***************************************************************************)

\* A transaction that lands triggers an open plan and no other.
LEMMA LandingTriggers ==
  ASSUME TypeInv, NEW t \in pending, Land(t)
  PROVE  Contract!FateNext \/ chain' = chain
  <1>1. /\ t.plan \in Plans
        /\ chain \in [Plans -> Contract!Fate]
        /\ chain' = [chain EXCEPT ![t.plan] =
                       IF chain[t.plan] = "open" THEN "triggered" ELSE chain[t.plan]]
    BY DEF TypeInv, WatchdogTypeOK, Transaction, Land
  <1>2. CASE chain[t.plan] # "open"
    BY <1>1, <1>2
  <1>3. CASE chain[t.plan] = "open"
    <2>1. chain' = [p \in Plans |-> IF p \in {t.plan} THEN "triggered" ELSE chain[p]]
      BY <1>1, <1>3
    <2>2. Contract!Trigger(t.plan)
      BY <1>3, <2>1 DEF Contract!Trigger, Contract!All, Contract!Becomes
    <2> QED
      BY <1>1, <2>2 DEF Contract!FateNext
  <1> QED
    BY <1>2, <1>3

\* With sweeps, retries, crashes and late landings the plans on-chain still
\* live as PlanFate says, from which Inheritance shows the contract never
\* departs: the backend neither needs more of the contract nor does more to it.
THEOREM BackendLeavesFate == Spec => Contract!FateSpec
  <1>1. Init => Contract!FateInit
    BY DEF Init, ServiceInit
  <1>2. TypeInv /\ [Next]_vars => [Contract!FateNext]_chain
    <2> SUFFICES ASSUME TypeInv, [Next]_vars PROVE Contract!FateNext \/ chain' = chain
      OBVIOUS
    <2>1. CASE ServiceNext
      BY <2>1
         DEF ServiceNext, ChainMoves, create_plan, update_plan, trigger_payout, DeadlinePasses,
             ClaimGoesStale, ping_plan, cancel_plan, claim_plan, liquidate_and_settle,
             Begin, Finish, ping_plan_write, cancel_plan_write, claim_plan_write,
             liquidate_and_settle_write, abandon
    <2>2. ASSUME NEW w \in Workers, WorkerStep(w) \/ crash(w) PROVE chain' = chain
      BY <2>2
         DEF WorkerStep, LocalStep, RequestStep,
             claim_expired_plans, next_plan, simulate, send_transaction,
             await_transaction, mark_triggered, mark_trigger_failed, announce, crash, serviceVars
    <2>3. ASSUME NEW t \in pending, Expire(t) PROVE chain' = chain
      BY <2>3 DEF Expire, serviceVars
    <2>4. ASSUME OtherTransactionLands PROVE chain' = chain
      BY <2>4 DEF OtherTransactionLands, serviceVars
    <2>5. CASE UNCHANGED vars
      BY <2>5 DEF vars
    <2> QED
      BY <2>1, <2>2, <2>3, <2>4, <2>5, LandingTriggers DEF Next
  <1>3. Spec => []TypeInv
    BY TypeInvInit, TypeInvStep, PTL DEF Spec
  <1> QED
    BY <1>1, <1>2, <1>3, PTL DEF Spec, Contract!FateSpec

=============================================================================
