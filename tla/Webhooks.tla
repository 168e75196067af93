------------------------------ MODULE Webhooks ------------------------------
(***************************************************************************)
(* The outgoing webhooks (backend/src/webhooks.rs): enqueue_event writes a *)
(* row per active endpoint, and a dispatcher per backend process reads a   *)
(* batch of due rows, posts them one after the other and writes what       *)
(* became of each.                                                         *)
(*                                                                         *)
(* FOR UPDATE SKIP LOCKED runs outside a transaction, so its locks are     *)
(* gone when the statement ends: two dispatchers may hold the same row,    *)
(* and each writes its verdict from the attempts it read with the batch.   *)
(* Every statement and every POST is a step of its own.                    *)
(***************************************************************************)
EXTENDS Naturals, FiniteSets

CONSTANTS
  Events,        \* published events, one call of enqueue_event each
  Endpoints,     \* rows of webhook_endpoints
  Dispatchers,   \* one per backend process
  NoDispatch,    \* stands for "no row taken up"
  BatchSize,     \* LIMIT 25
  MaxAttempts,   \* webhook_dispatches.max_attempts, 5 unless the row says otherwise
  MaxFaults      \* bound on crashes and database errors of a behaviour

ASSUME WebhookAssumption ==
  /\ IsFiniteSet(Events)
  /\ IsFiniteSet(Endpoints)
  /\ BatchSize \in Nat \ {0}
  /\ MaxAttempts \in Nat \ {0}
  /\ MaxFaults \in Nat
  /\ NoDispatch \notin Events \X Endpoints

VARIABLES
  dispatch,      \* the table webhook_dispatches
  publisher,     \* the endpoints each enqueue_event has still to write a row for
  dispatcher,    \* where each dispatcher is in its run
  accepted,      \* the dispatches their endpoint answered with 2xx
  refusals,      \* POSTs of each dispatch that brought no 2xx back
  faults

webhookVars == <<dispatch, publisher, dispatcher, accepted, refusals, faults>>

Dispatches == Events \X Endpoints

\* created: the order of created_at; resting: next_attempt_at is yet to come.
Row == [status : {"none", "pending", "success", "failed"},
        attempts : Nat,
        created : Nat,
        resting : BOOLEAN]

NoRow == [status |-> "none", attempts |-> 0, created |-> 0, resting |-> FALSE]

\* batch: the rows in hand; read: the attempts the SELECT saw of them.
Dispatcher == [pc : {"idle", "next", "post", "accepted", "refused"},
               batch : SUBSET Dispatches,
               read : [Dispatches -> Nat],
               current : Dispatches \cup {NoDispatch}]

Idle == [pc |-> "idle", batch |-> {}, read |-> [d \in Dispatches |-> 0],
         current |-> NoDispatch]

WebhookInit ==
  /\ dispatch = [d \in Dispatches |-> NoRow]
  /\ publisher = [e \in Events |-> [called |-> FALSE, todo |-> {}]]
  /\ dispatcher = [w \in Dispatchers |-> Idle]
  /\ accepted = [d \in Dispatches |-> FALSE]
  /\ refusals = [d \in Dispatches |-> 0]
  /\ faults = 0

At(w, pc) == dispatcher[w].pc = pc

-----------------------------------------------------------------------------
(* enqueue_event.                                                          *)

\* The SELECT of the active endpoints.  Nothing in the repository switches an
\* endpoint on or off, so any of them may be active.
enqueue_event(e) ==
  /\ ~publisher[e].called
  /\ \E active \in SUBSET Endpoints :
       publisher' = [publisher EXCEPT ![e] = [called |-> TRUE, todo |-> active]]
  /\ UNCHANGED <<dispatch, dispatcher, accepted, refusals, faults>>

Inserted == Cardinality({d \in Dispatches : dispatch[d].status # "none"})

\* One INSERT of its loop; the defaults are those of the table.
InsertDispatch(e) ==
  /\ \E ep \in publisher[e].todo :
       /\ publisher' = [publisher EXCEPT ![e].todo = @ \ {ep}]
       /\ dispatch' = [dispatch EXCEPT ![<<e, ep>>] =
                         [NoRow EXCEPT !.status = "pending", !.created = Inserted + 1]]
  /\ UNCHANGED <<dispatcher, accepted, refusals, faults>>

\* The process dies, or an INSERT fails and the rest is never written.
PublisherFails(e) ==
  /\ publisher[e].todo # {}
  /\ faults < MaxFaults
  /\ faults' = faults + 1
  /\ publisher' = [publisher EXCEPT ![e].todo = {}]
  /\ UNCHANGED <<dispatch, dispatcher, accepted, refusals>>

-----------------------------------------------------------------------------
(* A run of a dispatcher.                                                  *)

IsDueUnsettled(d) == dispatch[d].status \in {"pending", "failed"} /\ ~dispatch[d].resting

IsDueOnlyOnce(d) == dispatch[d].status = "pending" /\ dispatch[d].attempts = 0

IsDue(d) == dispatch[d].status = "pending" /\ ~dispatch[d].resting

Older(d, e) == dispatch[d].created <= dispatch[e].created

\* The BatchSize oldest of the due rows.  With none the dispatcher sleeps on.
Batch(batch) ==
  LET due == {d \in Dispatches : IsDue(d)}
  IN  /\ batch \subseteq due
      /\ batch # {}
      /\ Cardinality(batch) <= BatchSize
      /\ Cardinality(batch) < BatchSize => batch = due
      /\ \A d \in batch, e \in due \ batch : Older(d, e)

\* The SELECT of run_once.
run_once(w) ==
  /\ At(w, "idle")
  /\ \E batch \in SUBSET Dispatches :
       /\ Batch(batch)
       /\ dispatcher' = [dispatcher EXCEPT ![w] =
            [Idle EXCEPT !.pc = "next", !.batch = batch,
                         !.read = [d \in Dispatches |->
                                     IF d \in batch THEN dispatch[d].attempts ELSE 0]]]
  /\ UNCHANGED <<dispatch, publisher, accepted, refusals, faults>>

\* The loop takes up its next row and sends the request.
post(w) ==
  /\ At(w, "next")
  /\ \E d \in dispatcher[w].batch :
       /\ \A e \in dispatcher[w].batch : Older(d, e)
       /\ dispatcher' = [dispatcher EXCEPT ![w].pc = "post", ![w].current = d]
  /\ UNCHANGED <<dispatch, publisher, accepted, refusals, faults>>

AnyAnswerWillDo(w) ==
  /\ At(w, "post")
  /\ LET d == dispatcher[w].current
     IN  /\ accepted' \in {accepted, [accepted EXCEPT ![d] = TRUE]}
         /\ dispatcher' = [dispatcher EXCEPT ![w].pc = "accepted"]
         /\ refusals' = [refusals EXCEPT ![d] = IF accepted'[d] THEN @ ELSE @ + 1]
  /\ UNCHANGED <<dispatch, publisher, faults>>

\* The request comes back: with a 2xx, with another status, or as an error that
\* says nothing of whether the endpoint got it.  The client sets no timeout, so
\* an endpoint that keeps the connection open keeps the dispatcher here.
answered(w) ==
  /\ At(w, "post")
  /\ LET d == dispatcher[w].current
     IN  \/ /\ accepted' = [accepted EXCEPT ![d] = TRUE]
            /\ dispatcher' = [dispatcher EXCEPT ![w].pc = "accepted"]
            /\ UNCHANGED refusals
         \/ /\ accepted' \in {accepted, [accepted EXCEPT ![d] = TRUE]}
            /\ dispatcher' = [dispatcher EXCEPT ![w].pc = "refused"]
            /\ refusals' = [refusals EXCEPT ![d] = @ + 1]
  /\ UNCHANGED <<dispatch, publisher, faults>>

\* The end of the loop's body: the row is out of hand.
DoneWith(w) ==
  LET rest == dispatcher[w].batch \ {dispatcher[w].current}
  IN  IF rest = {} THEN Idle
      ELSE [dispatcher[w] EXCEPT !.pc = "next", !.batch = rest,
                                 !.read[dispatcher[w].current] = 0,
                                 !.current = NoDispatch]

\* The UPDATE after a 2xx, whatever the row says by now.
mark_success(w) ==
  /\ At(w, "accepted")
  /\ dispatch' = [dispatch EXCEPT ![dispatcher[w].current].status = "success"]
  /\ dispatcher' = [dispatcher EXCEPT ![w] = DoneWith(w)]
  /\ UNCHANGED <<publisher, accepted, refusals, faults>>

\* The row after a failed attempt; the attempts are those read with the batch.
AfterFailure(row, attempts) ==
  IF attempts + 1 >= MaxAttempts
  THEN [row EXCEPT !.attempts = attempts + 1, !.status = "failed"]
  ELSE [row EXCEPT !.attempts = attempts + 1, !.resting = TRUE]

handle_failure(w) ==
  /\ At(w, "refused")
  /\ LET d == dispatcher[w].current
     IN  dispatch' = [dispatch EXCEPT ![d] = AfterFailure(@, dispatcher[w].read[d])]
  /\ dispatcher' = [dispatcher EXCEPT ![w] = DoneWith(w)]
  /\ UNCHANGED <<publisher, accepted, refusals, faults>>

\* The process dies and is restarted, or a statement fails and run_once returns:
\* the rest of the batch, and the answer just received, are forgotten.
abort(w) ==
  /\ ~At(w, "idle")
  /\ faults < MaxFaults
  /\ faults' = faults + 1
  /\ dispatcher' = [dispatcher EXCEPT ![w] = Idle]
  /\ UNCHANGED <<dispatch, publisher, accepted, refusals>>

\* The backoff of a row is over.
BackoffOver(d) ==
  /\ dispatch[d].resting
  /\ dispatch' = [dispatch EXCEPT ![d].resting = FALSE]
  /\ UNCHANGED <<publisher, dispatcher, accepted, refusals, faults>>

DispatcherStep(w) == run_once(w) \/ post(w) \/ mark_success(w) \/ handle_failure(w)

WebhookNext ==
  \/ \E e \in Events : enqueue_event(e) \/ InsertDispatch(e) \/ PublisherFails(e)
  \/ \E w \in Dispatchers : DispatcherStep(w) \/ answered(w) \/ abort(w)
  \/ \E d \in Dispatches : BackoffOver(d)

WebhookSpec == WebhookInit /\ [][WebhookNext]_webhookVars

\* Processes keep running their tasks and timers, and backoffs end.  Nothing is
\* assumed of the endpoints: whether they answer is theirs to decide.
FairWebhookSpec ==
  /\ WebhookSpec
  /\ \A w \in Dispatchers : WF_webhookVars(DispatcherStep(w))
  /\ \A d \in Dispatches : WF_webhookVars(BackoffOver(d))

-----------------------------------------------------------------------------
(* Properties.                                                             *)

WebhookTypeOK ==
  /\ dispatch \in [Dispatches -> Row]
  /\ publisher \in [Events -> [called : BOOLEAN, todo : SUBSET Endpoints]]
  /\ dispatcher \in [Dispatchers -> Dispatcher]
  /\ accepted \in [Dispatches -> BOOLEAN]
  /\ refusals \in [Dispatches -> Nat]
  /\ faults \in 0 .. MaxFaults

\* What a row says is true, however stale the attempts a dispatcher writes back:
\* "success" of a dispatch its endpoint accepted, "failed" of one that was posted
\* and not confirmed MaxAttempts times at least, and no count exceeds the POSTs.
VerdictsAreHonest ==
  \A d \in Dispatches :
    /\ dispatch[d].status = "success" => accepted[d]
    /\ dispatch[d].status = "failed" => refusals[d] >= MaxAttempts
    /\ dispatch[d].attempts <= refusals[d]

\* The rows each dispatcher has in hand.
InHand == [d \in Dispatches |-> {w \in Dispatchers : d \in dispatcher[w].batch}]

Delivery == INSTANCE WebhookDelivery WITH
  state <- [d \in Dispatches |-> dispatch[d].status],
  open <- InHand

\* The dispatchers implement WebhookDelivery: rows are taken up while pending,
\* verdicts have their grounds, and a verdict that nobody has in hand stands.
ImplementsDelivery == Delivery!DeliverySpec

\* As long as one dispatcher keeps getting its requests back, every dispatch is
\* settled: no crash, race for a row, or endpoint that never answers another
\* dispatcher leaves it pending for ever.
EveryDispatchSettles ==
  (\E w \in Dispatchers : []<>~At(w, "post")) =>
    \A d \in Dispatches :
      dispatch[d].status = "pending" ~> dispatch[d].status \in {"success", "failed"}

=============================================================================
