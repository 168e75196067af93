--------------------------- MODULE WebhookDelivery ---------------------------
(***************************************************************************)
(* What the webhook dispatcher promises of a dispatch, the delivery of one *)
(* event to one endpoint, whatever the number of dispatchers:              *)
(*                                                                         *)
(*   - it is taken up only while it is pending;                            *)
(*   - "success" is written only of a dispatch the endpoint accepted, and  *)
(*     "failed" only after MaxAttempts tries that ended without a yes;     *)
(*   - a verdict comes only from a dispatcher that took the dispatch up,   *)
(*     so once those in progress are over the verdict stands for good.     *)
(*                                                                         *)
(* Delivery is at least once: a dispatch may be tried by several           *)
(* dispatchers, and the last verdict is the one that stays.                *)
(***************************************************************************)
EXTENDS Naturals

CONSTANTS Dispatches, Dispatchers, MaxAttempts

VARIABLES
  state,      \* what the table says of each dispatch
  accepted,   \* whether the endpoint ever said yes to it
  refusals,   \* tries that ended without a yes
  open        \* the dispatchers that have it in hand

deliveryVars == <<state, accepted, refusals, open>>

Verdict == {"success", "failed"}

DeliveryInit ==
  /\ state = [d \in Dispatches |-> "none"]
  /\ accepted = [d \in Dispatches |-> FALSE]
  /\ refusals = [d \in Dispatches |-> 0]
  /\ open = [d \in Dispatches |-> {}]

Publish(d) ==
  /\ state[d] = "none"
  /\ state' = [state EXCEPT ![d] = "pending"]
  /\ UNCHANGED <<accepted, refusals, open>>

TakeUp(w, batch) ==
  /\ \A d \in batch : state[d] = "pending"
  /\ open' = [d \in Dispatches |-> IF d \in batch THEN open[d] \cup {w} ELSE open[d]]
  /\ UNCHANGED <<state, accepted, refusals>>

\* An answer that got lost leaves the endpoint satisfied and the dispatcher not.
Try(w, d) ==
  /\ w \in open[d]
  /\ \/ /\ accepted' = [accepted EXCEPT ![d] = TRUE]
        /\ UNCHANGED refusals
     \/ /\ refusals' = [refusals EXCEPT ![d] = @ + 1]
        /\ accepted' \in {accepted, [accepted EXCEPT ![d] = TRUE]}
  /\ UNCHANGED <<state, open>>

Conclude(w, d, verdict) ==
  /\ w \in open[d]
  /\ verdict = "success" => accepted[d]
  /\ verdict = "failed" => refusals[d] >= MaxAttempts
  /\ state' = [state EXCEPT ![d] = verdict]
  /\ open' = [open EXCEPT ![d] = @ \ {w}]
  /\ UNCHANGED <<accepted, refusals>>

\* A try that failed and is to be repeated, or a dispatcher that died.
PutBack(w, batch) ==
  /\ open' = [d \in Dispatches |-> IF d \in batch THEN open[d] \ {w} ELSE open[d]]
  /\ UNCHANGED <<state, accepted, refusals>>

DeliveryNext ==
  \/ \E d \in Dispatches : Publish(d)
  \/ \E w \in Dispatchers :
       \/ \E batch \in SUBSET Dispatches : TakeUp(w, batch) \/ PutBack(w, batch)
       \/ \E d \in Dispatches : \/ Try(w, d)
                                \/ \E verdict \in Verdict : Conclude(w, d, verdict)

DeliverySpec == DeliveryInit /\ [][DeliveryNext]_deliveryVars

=============================================================================
