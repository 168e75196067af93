---------------------------- MODULE PlanService ----------------------------
(***************************************************************************)
(* The backend's plans table and the HTTP handlers that write it:          *)
(* backend/src/api.rs and loan_lifecycle.rs.                               *)
(*                                                                         *)
(* Most handlers read the row, decide, and write it in a later statement   *)
(* without a lock, so each is a pair of actions: the first reads the row   *)
(* and takes the early returns, the second writes.  Anything may happen in *)
(* between, to the same row too.  trigger_payout locks the row it reads,   *)
(* and update_plan writes nothing that depends on what it read, so each of *)
(* the two is one action.                                                  *)
(*                                                                         *)
(* Clock values are abstracted to what is decided from them: overdue is    *)
(* "inactivity_deadline_at <= NOW()", stale is "trigger_started_at is at   *)
(* least stale_after ago".  Time makes either true at any moment, so every *)
(* relation between the configured durations is covered.                   *)
(***************************************************************************)
EXTENDS Naturals, FiniteSets

CONSTANTS
  Plans,        \* ids of rows that may be created
  Owners,       \* wallet addresses that own plans
  OwnerOf,      \* the owner_address each plan is created with
  OnChainIds,   \* the plans created with an onchain_plan_id
  Requests,     \* handler tasks that can be in progress at once
  MaxPayouts    \* bound on the payout batches recorded for a plan

ASSUME ServiceAssumption ==
  /\ OwnerOf \in [Plans -> Owners]
  /\ OnChainIds \subseteq Plans
  /\ MaxPayouts \in Nat

VARIABLES
  row,          \* the plans table
  payouts,      \* how many batches of payout records a plan has
  request,      \* the handler each task is running, between its two halves
  chain         \* the plan's fate on-chain, which trigger_inheritance answers by

serviceVars == <<row, payouts, request, chain>>

Status == {"ABSENT", "ACTIVE", "TRIGGERING", "TRIGGERED", "TRIGGER_FAILED",
           "CLAIMABLE", "PAID_OUT", "DEACTIVATED"}

PlanRow == [status : Status, active : BOOLEAN, overdue : BOOLEAN, stale : BOOLEAN]

Absent == [status |-> "ABSENT", active |-> FALSE, overdue |-> FALSE, stale |-> FALSE]

\* A request in progress, or the record of a task that has none.
Request == [op : {"none"}] \cup [op : {"ping", "cancel", "claim", "settle"}, plan : Plans]

NoRequest == [op |-> "none"]

\* Of the contract the backend counts on no more than PlanFate promises.
Contract == INSTANCE PlanFate WITH fate <- chain

ServiceInit ==
  /\ row = [p \in Plans |-> Absent]
  /\ payouts = [p \in Plans |-> 0]
  /\ request = [r \in Requests |-> NoRequest]
  /\ Contract!FateInit

Exists(p) == row[p].status # "ABSENT"

Claimable(p) == row[p].active /\ row[p].status \in {"TRIGGERED", "CLAIMABLE"}

Begin(r, op, p) ==
  /\ request[r] = NoRequest
  /\ request' = [request EXCEPT ![r] = [op |-> op, plan |-> p]]
  /\ UNCHANGED <<row, payouts, chain>>

Finish(r, op) ==
  /\ request[r].op = op
  /\ request' = [request EXCEPT ![r] = NoRequest]
  /\ UNCHANGED chain

-----------------------------------------------------------------------------
(* Handlers of one transaction.                                            *)

\* is_active is taken from the request, the status is always ACTIVE, and
\* last_ping comes from the request too, so a plan can be overdue at birth.
create_plan(p, is_active) ==
  /\ ~Exists(p)
  /\ \E overdue \in BOOLEAN :
       row' = [row EXCEPT ![p] = [status |-> "ACTIVE", active |-> is_active,
                                  overdue |-> overdue, stale |-> FALSE]]
  /\ UNCHANGED <<payouts, request, chain>>

\* A new grace period moves the deadline in either direction, whatever the
\* status of the plan.
update_plan(p) ==
  /\ Exists(p)
  /\ row' = [row EXCEPT ![p].overdue = ~@]
  /\ UNCHANGED <<payouts, request, chain>>

PayoutLeavesActive(p) ==
  /\ Exists(p)
  /\ row[p].active
  /\ row[p].overdue
  /\ payouts[p] < MaxPayouts
  /\ payouts' = [payouts EXCEPT ![p] = @ + 1]
  /\ row' = [row EXCEPT ![p].status = "PAID_OUT", ![p].overdue = FALSE]
  /\ UNCHANGED <<request, chain>>

\* The owner's active plan is locked, paid out and closed.  Its status is not
\* looked at.
trigger_payout(p) ==
  /\ Exists(p)
  /\ row[p].active
  /\ row[p].overdue
  /\ payouts[p] < MaxPayouts
  /\ payouts' = [payouts EXCEPT ![p] = @ + 1]
  /\ row' = [row EXCEPT ![p].active = FALSE, ![p].status = "PAID_OUT",
                        ![p].overdue = FALSE]
  /\ UNCHANGED <<request, chain>>

-----------------------------------------------------------------------------
(* Handlers that read first and write later.                               *)

\* ping_plan picks an active plan of the owner.
ping_plan(r, o) ==
  \E p \in Plans :
    /\ OwnerOf[p] = o
    /\ row[p].active
    /\ Begin(r, "ping", p)

\* last_ping becomes the time of the ping, whatever has become of the plan.
ping_plan_write(r) ==
  /\ Finish(r, "ping")
  /\ row' = [row EXCEPT ![request[r].plan].overdue = FALSE]
  /\ UNCHANGED payouts

cancel_plan(r, p) ==
  /\ row[p].active
  /\ row[p].status \notin {"PAID_OUT", "DEACTIVATED"}
  /\ Begin(r, "cancel", p)

cancel_plan_write(r) ==
  /\ Finish(r, "cancel")
  /\ row' = [row EXCEPT ![request[r].plan].active = FALSE,
                        ![request[r].plan].status = "DEACTIVATED",
                        ![request[r].plan].overdue = FALSE]
  /\ UNCHANGED payouts

claim_plan(r, p) ==
  /\ Claimable(p)
  /\ Begin(r, "claim", p)

claim_plan_write(r) ==
  /\ Finish(r, "claim")
  /\ payouts[request[r].plan] < MaxPayouts
  /\ payouts' = [payouts EXCEPT ![request[r].plan] = @ + 1]
  /\ row' = [row EXCEPT ![request[r].plan].status = "CLAIMABLE"]

liquidate_and_settle(r, p) ==
  /\ Claimable(p)
  /\ Begin(r, "settle", p)

\* The one write that checks the status again.
liquidate_and_settle_write(r) ==
  /\ Finish(r, "settle")
  /\ row' = [row EXCEPT ![request[r].plan].status =
                          IF @ = "TRIGGERED" THEN "CLAIMABLE" ELSE @]
  /\ UNCHANGED payouts

\* A handler that fails half way (a database, KYC or Stellar error, a client
\* that goes away, a crash) has written nothing.
abandon(r) ==
  /\ request[r] # NoRequest
  /\ request' = [request EXCEPT ![r] = NoRequest]
  /\ UNCHANGED <<row, payouts, chain>>

-----------------------------------------------------------------------------
(* Time and the chain.                                                     *)

DeadlinePasses(p) ==
  /\ Exists(p)
  /\ ~row[p].overdue
  /\ row' = [row EXCEPT ![p].overdue = TRUE]
  /\ UNCHANGED <<payouts, request, chain>>

ClaimGoesStale(p) ==
  /\ row[p].status = "TRIGGERING"
  /\ ~row[p].stale
  /\ row' = [row EXCEPT ![p].stale = TRUE]
  /\ UNCHANGED <<payouts, request, chain>>

\* Others act on the contract: owners create and deactivate plans, disputes and
\* pauses come and go, and an heir, a guardian, the owner or a condition the
\* owner set triggers a plan.
ChainMoves ==
  /\ Contract!FateNext
  /\ UNCHANGED <<row, payouts, request>>

ServiceNext ==
  \/ ChainMoves
  \/ \E p \in Plans :
       \/ \E is_active \in BOOLEAN : create_plan(p, is_active)
       \/ update_plan(p)
       \/ trigger_payout(p)
       \/ DeadlinePasses(p)
       \/ ClaimGoesStale(p)
  \/ \E r \in Requests :
       \/ \E o \in Owners : ping_plan(r, o)
       \/ \E p \in Plans :
            \/ cancel_plan(r, p)
            \/ claim_plan(r, p)
            \/ liquidate_and_settle(r, p)
       \/ ping_plan_write(r)
       \/ cancel_plan_write(r)
       \/ claim_plan_write(r)
       \/ liquidate_and_settle_write(r)
       \/ abandon(r)

=============================================================================
