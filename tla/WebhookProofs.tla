---------------------------- MODULE WebhookProofs ----------------------------
(***************************************************************************)
(* Theorems about the webhook dispatchers, for any number of events,       *)
(* endpoints, dispatchers, attempts, faults and any batch size.            *)
(***************************************************************************)
EXTENDS Webhooks, FiniteSetTheorems, TLAPS

(***************************************************************************)
(* The inductive invariant.                                                *)
(***************************************************************************)

\* A row still to be written does not exist yet, and neither does any row of an
\* event nobody has published.
TodoIsUnwritten ==
  \A e \in Events, ep \in Endpoints :
    /\ ep \in publisher[e].todo => publisher[e].called
    /\ ~publisher[e].called \/ ep \in publisher[e].todo =>
         dispatch[<<e, ep>>].status = "none"

\* What dispatcher w remembers of its batch: the attempts it read were made,
\* and what it is about to record has happened.
MemoryOf(w) ==
  /\ dispatcher[w].pc = "idle" => dispatcher[w].batch = {}
  /\ \A d \in dispatcher[w].batch :
       /\ dispatch[d].status # "none"
       /\ dispatcher[w].read[d] <= refusals[d]
  /\ dispatcher[w].pc \in {"post", "accepted", "refused"} =>
       dispatcher[w].current \in dispatcher[w].batch
  /\ dispatcher[w].pc = "accepted" => accepted[dispatcher[w].current]
  /\ dispatcher[w].pc = "refused" =>
       dispatcher[w].read[dispatcher[w].current] + 1 <= refusals[dispatcher[w].current]

MemoryIsTrue == \A w \in Dispatchers : MemoryOf(w)

WebhookInv == WebhookTypeOK /\ TodoIsUnwritten /\ MemoryIsTrue /\ VerdictsAreHonest

LEMMA IdleType == Idle \in Dispatcher
  BY DEF Idle, Dispatcher

\* The order of insertion is a number.
LEMMA InsertedType == Inserted \in Nat
  <1>1. IsFiniteSet(Dispatches)
    BY WebhookAssumption, FS_Product DEF Dispatches
  <1>2. IsFiniteSet({d \in Dispatches : dispatch[d].status # "none"})
    BY <1>1, FS_Subset
  <1> QED
    BY <1>2, FS_CardinalityType DEF Inserted

\* A row is inserted pending and untried.
LEMMA NewRowFacts ==
  ASSUME NEW i \in Nat
  PROVE  LET new == [NoRow EXCEPT !.status = "pending", !.created = i + 1]
         IN  /\ new \in Row
             /\ new.status = "pending"
             /\ new.attempts = 0
  <1>1. NoRow \in Row /\ NoRow.attempts = 0
    BY DEF NoRow, Row
  <1>2. \A r \in Row, j \in Nat :
          LET new == [r EXCEPT !.status = "pending", !.created = j]
          IN  /\ new \in Row
              /\ new.status = "pending"
              /\ new.attempts = r.attempts
    BY DEF Row
  <1>3. i + 1 \in Nat
    OBVIOUS
  <1>4. LET new == [NoRow EXCEPT !.status = "pending", !.created = i + 1]
        IN  /\ new \in Row
            /\ new.status = "pending"
            /\ new.attempts = NoRow.attempts
    BY <1>1, <1>2, <1>3, Zenon
  <1> QED
    BY <1>1, <1>4, Zenon

\* Leaving the loop's body keeps a subset of the batch and what was read of it.
LEMMA DoneWithFacts ==
  ASSUME WebhookTypeOK, NEW w \in Dispatchers, dispatcher[w].current \in dispatcher[w].batch
  PROVE  /\ DoneWith(w) \in Dispatcher
         /\ DoneWith(w).pc \in {"idle", "next"}
         /\ DoneWith(w).pc = "idle" => DoneWith(w).batch = {}
         /\ DoneWith(w).batch = dispatcher[w].batch \ {dispatcher[w].current}
         /\ \A d \in DoneWith(w).batch : DoneWith(w).read[d] = dispatcher[w].read[d]
  <1> DEFINE D == dispatcher[w]
             c == dispatcher[w].current
             rest == dispatcher[w].batch \ {c}
  <1>1. D \in Dispatcher /\ c \in Dispatches
    BY DEF WebhookTypeOK, Dispatcher
  <1>2. CASE rest = {}
    <2>1. DoneWith(w) = Idle
      BY <1>2 DEF DoneWith
    <2> QED
      BY <1>2, <2>1, IdleType DEF Idle
  <1>3. CASE rest # {}
    <2> DEFINE E == [pc |-> "next", batch |-> rest, read |-> [D.read EXCEPT ![c] = 0],
                     current |-> NoDispatch]
    <2>1. DoneWith(w) = E
      BY <1>1, <1>3 DEF DoneWith, Dispatcher
    <2>2. E \in Dispatcher
      BY <1>1 DEF Dispatcher
    <2>3. \A d \in rest : E.read[d] = D.read[d]
      BY <1>1 DEF Dispatcher
    <2> QED
      BY <2>1, <2>2, <2>3
  <1> QED
    BY <1>2, <1>3

LEMMA InitInv == WebhookInit => WebhookInv
  <1> SUFFICES ASSUME WebhookInit PROVE WebhookInv
    OBVIOUS
  <1>1. NoRow \in Row
    BY DEF NoRow, Row
  <1>2. WebhookTypeOK
    BY <1>1, IdleType, WebhookAssumption DEF WebhookInit, WebhookTypeOK
  <1>3. TodoIsUnwritten
    BY DEF WebhookInit, TodoIsUnwritten, Dispatches, NoRow
  <1>4. MemoryIsTrue
    BY DEF WebhookInit, MemoryIsTrue, MemoryOf, Idle
  <1>5. VerdictsAreHonest
    BY DEF WebhookInit, VerdictsAreHonest, NoRow
  <1> QED
    BY <1>2, <1>3, <1>4, <1>5 DEF WebhookInv

(***************************************************************************)
(* One lemma per actor: its steps keep the invariant.                      *)
(***************************************************************************)

LEMMA PublisherKeepsInv ==
  ASSUME WebhookInv, NEW e \in Events,
         enqueue_event(e) \/ InsertDispatch(e) \/ PublisherFails(e)
  PROVE  WebhookInv'
  <1> USE DEF WebhookInv
  <1>1. CASE enqueue_event(e)
    <2>1. WebhookTypeOK'
      BY <1>1 DEF enqueue_event, WebhookTypeOK
    <2>2. /\ ~publisher[e].called
          /\ publisher'[e].called
          /\ \A f \in Events : f # e => publisher'[f] = publisher[f]
          /\ dispatch' = dispatch
      BY <1>1 DEF enqueue_event, WebhookTypeOK
    <2>3. TodoIsUnwritten'
      BY <2>2 DEF TodoIsUnwritten
    <2> QED
      BY <1>1, <2>1, <2>3 DEF enqueue_event, MemoryIsTrue, MemoryOf, VerdictsAreHonest
  <1>2. CASE PublisherFails(e)
    <2>1. WebhookTypeOK'
      BY <1>2, WebhookAssumption DEF PublisherFails, WebhookTypeOK
    <2>2. TodoIsUnwritten'
      BY <1>2 DEF PublisherFails, WebhookTypeOK, TodoIsUnwritten
    <2> QED
      BY <1>2, <2>1, <2>2 DEF PublisherFails, MemoryIsTrue, MemoryOf, VerdictsAreHonest
  <1>3. CASE InsertDispatch(e)
    <2>1. PICK ep \in publisher[e].todo :
            /\ publisher' = [publisher EXCEPT ![e].todo = @ \ {ep}]
            /\ dispatch' = [dispatch EXCEPT ![<<e, ep>>] =
                              [NoRow EXCEPT !.status = "pending", !.created = Inserted + 1]]
      BY <1>3 DEF InsertDispatch
    <2>2. ep \in Endpoints /\ publisher[e].called \in BOOLEAN
      BY DEF WebhookTypeOK
    <2> DEFINE new == [NoRow EXCEPT !.status = "pending", !.created = Inserted + 1]
    <2>3. /\ new \in Row
          /\ new.status = "pending"
          /\ new.attempts = 0
      BY InsertedType, NewRowFacts
    <2>4. UNCHANGED <<dispatcher, accepted, refusals, faults>>
      BY <1>3 DEF InsertDispatch
    <2>5. /\ <<e, ep>> \in Dispatches
          /\ dispatch' = [dispatch EXCEPT ![<<e, ep>>] = new]
      BY <2>1, <2>2 DEF Dispatches
    <2> HIDE DEF new
    <2>6. WebhookTypeOK'
      <3>1. dispatch' \in [Dispatches -> Row]
        BY <2>3, <2>5 DEF WebhookTypeOK
      <3>2. publisher' \in [Events -> [called : BOOLEAN, todo : SUBSET Endpoints]]
        BY <2>1 DEF WebhookTypeOK
      <3> QED
        BY <2>4, <3>1, <3>2 DEF WebhookTypeOK
    <2>7. TodoIsUnwritten'
      <3> SUFFICES ASSUME NEW f \in Events, NEW fp \in Endpoints,
                          ~publisher'[f].called \/ fp \in publisher'[f].todo
                   PROVE  /\ dispatch'[<<f, fp>>].status = "none"
                          /\ fp \in publisher'[f].todo => publisher'[f].called
        BY DEF TodoIsUnwritten
      <3>1. ~publisher[f].called \/ fp \in publisher[f].todo
        BY <2>1 DEF WebhookTypeOK
      <3>2. dispatch[<<f, fp>>].status = "none"
        BY <3>1 DEF TodoIsUnwritten
      <3>3. publisher[e].called
        BY <2>2 DEF TodoIsUnwritten
      <3>4. <<f, fp>> # <<e, ep>>
        BY <2>1, <3>3 DEF WebhookTypeOK
      <3>5. fp \in publisher'[f].todo => publisher'[f].called
        BY <2>1 DEF WebhookTypeOK, TodoIsUnwritten
      <3> QED
        BY <2>5, <3>2, <3>4, <3>5 DEF WebhookTypeOK, Dispatches
    <2>9. MemoryIsTrue' /\ VerdictsAreHonest'
      <3>1. \A d \in Dispatches :
              \/ dispatch'[d] = dispatch[d]
              \/ dispatch'[d].status = "pending" /\ dispatch'[d].attempts = 0
        BY <2>3, <2>5 DEF WebhookTypeOK
      <3>2. \A w \in Dispatchers : dispatcher[w].batch \subseteq Dispatches
        BY DEF WebhookTypeOK, Dispatcher
      <3>3. \A d \in Dispatches : refusals[d] >= 0
        BY DEF WebhookTypeOK
      <3> QED
        BY <2>4, <3>1, <3>2, <3>3 DEF MemoryIsTrue, MemoryOf, VerdictsAreHonest
    <2> QED
      BY <2>6, <2>7, <2>9
  <1> QED
    BY <1>1, <1>2, <1>3

\* A step of dispatcher w that leaves the table alone and keeps w's memory true.
LEMMA DispatcherFrame ==
  ASSUME WebhookInv, NEW w \in Dispatchers, NEW D \in Dispatcher,
         dispatcher' = [dispatcher EXCEPT ![w] = D],
         UNCHANGED <<dispatch, publisher>>,
         accepted' \in [Dispatches -> BOOLEAN],
         refusals' \in [Dispatches -> Nat],
         faults' \in 0 .. MaxFaults,
         \A d \in Dispatches : /\ refusals'[d] >= refusals[d]
                               /\ accepted[d] => accepted'[d],
         MemoryOf(w)'
  PROVE  WebhookInv'
  <1> USE DEF WebhookInv
  <1>1. WebhookTypeOK'
    BY DEF WebhookTypeOK
  <1>2. TodoIsUnwritten'
    BY DEF TodoIsUnwritten
  <1>3. ASSUME NEW v \in Dispatchers, v # w PROVE MemoryOf(v)'
    <2>1. dispatcher'[v] = dispatcher[v] /\ dispatcher[v] \in Dispatcher
      BY <1>3 DEF WebhookTypeOK
    <2>2. MemoryOf(v)
      BY DEF MemoryIsTrue
    <2>3. \A d \in dispatcher[v].batch :
            /\ d \in Dispatches
            /\ refusals[d] \in Nat /\ refusals'[d] \in Nat
            /\ dispatcher[v].read[d] \in Nat
      BY <2>1 DEF Dispatcher, WebhookTypeOK
    <2> QED
      BY <2>1, <2>2, <2>3 DEF MemoryOf
  <1>4. MemoryIsTrue'
    BY <1>3 DEF MemoryIsTrue
  <1>5. VerdictsAreHonest'
    <2>1. \A d \in Dispatches : /\ refusals[d] \in Nat /\ refusals'[d] \in Nat
                                /\ dispatch[d].attempts \in Nat
      BY DEF WebhookTypeOK, Row
    <2> QED
      BY <2>1, WebhookAssumption DEF VerdictsAreHonest
  <1> QED
    BY <1>1, <1>2, <1>4, <1>5

\* Reading a batch, posting, and the answer keep the invariant.
LEMMA ReadingKeepsInv ==
  ASSUME WebhookInv, NEW w \in Dispatchers,
         run_once(w) \/ post(w) \/ answered(w) \/ abort(w)
  PROVE  WebhookInv'
  <1> USE DEF WebhookInv
  <1>t. /\ dispatcher \in [Dispatchers -> Dispatcher]
        /\ dispatcher[w] \in Dispatcher
        /\ accepted \in [Dispatches -> BOOLEAN]
        /\ refusals \in [Dispatches -> Nat]
        /\ faults \in 0 .. MaxFaults
        /\ dispatch \in [Dispatches -> Row]
    BY DEF WebhookTypeOK
  <1>m. MemoryOf(w)
    BY DEF MemoryIsTrue
  <1>1. CASE run_once(w)
    <2>1. PICK batch \in SUBSET Dispatches :
            /\ Batch(batch)
            /\ dispatcher' = [dispatcher EXCEPT ![w] =
                 [Idle EXCEPT !.pc = "next", !.batch = batch,
                              !.read = [d \in Dispatches |->
                                          IF d \in batch THEN dispatch[d].attempts ELSE 0]]]
      BY <1>1 DEF run_once
    <2> DEFINE D == [Idle EXCEPT !.pc = "next", !.batch = batch,
                                 !.read = [d \in Dispatches |->
                                             IF d \in batch THEN dispatch[d].attempts ELSE 0]]
    <2>2. /\ D \in Dispatcher
          /\ D.pc = "next"
          /\ D.batch = batch
          /\ \A d \in batch : D.read[d] = dispatch[d].attempts
      BY <1>t DEF Idle, Dispatcher, Row
    <2>3. \A d \in batch : dispatch[d].status = "pending"
      BY <2>1 DEF Batch, IsDue
    <2>4. UNCHANGED <<dispatch, publisher, accepted, refusals, faults>>
      BY <1>1 DEF run_once
    <2>5. dispatcher' = [dispatcher EXCEPT ![w] = D] /\ dispatcher'[w] = D
      BY <1>t, <2>1
    <2> HIDE DEF D
    <2>6. MemoryOf(w)'
      BY <2>2, <2>3, <2>4, <2>5 DEF MemoryOf, VerdictsAreHonest
    <2>7. \A d \in Dispatches : refusals'[d] >= refusals[d] /\ (accepted[d] => accepted'[d])
      BY <1>t, <2>4
    <2> QED
      BY <1>t, <2>2, <2>4, <2>5, <2>6, <2>7, DispatcherFrame
  <1>2. CASE post(w)
    <2>1. PICK d \in dispatcher[w].batch :
            dispatcher' = [dispatcher EXCEPT ![w].pc = "post", ![w].current = d]
      BY <1>2 DEF post
    <2> DEFINE D == [dispatcher[w] EXCEPT !.pc = "post", !.current = d]
    <2>2. /\ D \in Dispatcher
          /\ D.pc = "post" /\ D.current = d
          /\ D.batch = dispatcher[w].batch
          /\ D.read = dispatcher[w].read
      BY <1>t DEF Dispatcher
    <2>3. UNCHANGED <<dispatch, publisher, accepted, refusals, faults>>
      BY <1>2 DEF post
    <2>4. dispatcher' = [dispatcher EXCEPT ![w] = D] /\ dispatcher'[w] = D
      BY <1>t, <2>1
    <2> HIDE DEF D
    <2>5. MemoryOf(w)'
      BY <1>m, <2>2, <2>3, <2>4 DEF MemoryOf
    <2>6. \A x \in Dispatches : refusals'[x] >= refusals[x] /\ (accepted[x] => accepted'[x])
      BY <1>t, <2>3
    <2> QED
      BY <1>t, <2>2, <2>3, <2>4, <2>5, <2>6, DispatcherFrame
  <1>3. CASE answered(w)
    <2> DEFINE d == dispatcher[w].current
    <2>1. d \in dispatcher[w].batch /\ d \in Dispatches
      BY <1>3, <1>t, <1>m DEF answered, At, MemoryOf, Dispatcher
    <2>2. PICK pc \in {"accepted", "refused"} :
            /\ dispatcher' = [dispatcher EXCEPT ![w].pc = pc]
            /\ accepted' \in {accepted, [accepted EXCEPT ![d] = TRUE]}
            /\ refusals' = [refusals EXCEPT ![d] = IF pc = "refused" THEN @ + 1 ELSE @]
            /\ pc = "accepted" => accepted'[d]
      <3>1. [refusals EXCEPT ![d] = refusals[d]] = refusals
        BY <1>t
      <3>2. [accepted EXCEPT ![d] = TRUE][d] = TRUE
        BY <1>t, <2>1
      <3> QED
        BY <1>3, <3>1, <3>2 DEF answered
    <2> DEFINE D == [dispatcher[w] EXCEPT !.pc = pc]
    <2>3. /\ D \in Dispatcher
          /\ D.pc = pc /\ D.current = d
          /\ D.batch = dispatcher[w].batch
          /\ D.read = dispatcher[w].read
      BY <1>t DEF Dispatcher
    <2>4. dispatcher' = [dispatcher EXCEPT ![w] = D] /\ dispatcher'[w] = D
      BY <1>t, <2>2
    <2>5. UNCHANGED <<dispatch, publisher, faults>>
      BY <1>3 DEF answered
    <2>6. /\ refusals' \in [Dispatches -> Nat]
          /\ \A x \in Dispatches : refusals'[x] >= refusals[x]
          /\ pc = "refused" => refusals'[d] = refusals[d] + 1
      BY <1>t, <2>1, <2>2
    <2>7. /\ accepted' \in [Dispatches -> BOOLEAN]
          /\ \A x \in Dispatches : accepted[x] => accepted'[x]
      BY <1>t, <2>1, <2>2
    <2>8. \A x \in dispatcher[w].batch : /\ x \in Dispatches
                                        /\ dispatcher[w].read[x] \in Nat
                                        /\ refusals[x] \in Nat /\ refusals'[x] \in Nat
      BY <1>t, <2>6 DEF Dispatcher
    <2> HIDE DEF D
    <2>9. MemoryOf(w)'
      <3>1. \A x \in dispatcher[w].batch : /\ dispatch[x].status # "none"
                                          /\ dispatcher[w].read[x] <= refusals[x]
        BY <1>m DEF MemoryOf
      <3>2. \A x \in dispatcher[w].batch : dispatcher[w].read[x] <= refusals'[x]
        BY <2>6, <2>8, <3>1
      <3>3. pc = "refused" => dispatcher[w].read[d] + 1 <= refusals'[d]
        BY <2>1, <2>6, <2>8, <3>1
      <3> QED
        BY <2>1, <2>2, <2>3, <2>4, <2>5, <3>1, <3>2, <3>3 DEF MemoryOf
    <2> QED
      BY <1>t, <2>3, <2>4, <2>5, <2>6, <2>7, <2>9, DispatcherFrame
  <1>4. CASE abort(w)
    <2>1. /\ dispatcher' = [dispatcher EXCEPT ![w] = Idle]
          /\ dispatcher'[w] = Idle
          /\ UNCHANGED <<dispatch, publisher, accepted, refusals>>
          /\ faults' \in 0 .. MaxFaults
      BY <1>4, <1>t, WebhookAssumption DEF abort
    <2>2. MemoryOf(w)'
      BY <2>1 DEF MemoryOf, Idle
    <2>3. \A x \in Dispatches : refusals'[x] >= refusals[x] /\ (accepted[x] => accepted'[x])
      BY <1>t, <2>1
    <2> QED
      BY <1>t, <2>1, <2>2, <2>3, IdleType, DispatcherFrame
  <1> QED
    BY <1>1, <1>2, <1>3, <1>4

\* Writing a verdict keeps the invariant: the row it is written to exists, and
\* the ground for it is in the dispatcher's memory.
LEMMA WritingKeepsInv ==
  ASSUME WebhookInv, NEW w \in Dispatchers, mark_success(w) \/ handle_failure(w)
  PROVE  WebhookInv'
  <1> USE DEF WebhookInv
  <1> DEFINE c == dispatcher[w].current
             a == dispatcher[w].read[c]
             n == a + 1
  <1>t. /\ dispatcher \in [Dispatchers -> Dispatcher]
        /\ refusals \in [Dispatches -> Nat]
        /\ dispatch \in [Dispatches -> Row]
    BY DEF WebhookTypeOK
  <1>m. MemoryOf(w)
    BY DEF MemoryIsTrue
  <1>1. /\ c \in dispatcher[w].batch /\ c \in Dispatches
        /\ dispatch[c].status # "none"
        /\ n \in Nat
    BY <1>t, <1>m DEF mark_success, handle_failure, At, MemoryOf, Dispatcher
  <1>2. UNCHANGED <<publisher, accepted, refusals, faults>>
    BY DEF mark_success, handle_failure
  <1>3. PICK r \in Row :
          /\ dispatch' = [dispatch EXCEPT ![c] = r]
          /\ r.status # "none"
          /\ r.status = "success" => accepted[c]
          /\ r.status = "failed" => refusals[c] >= MaxAttempts
          /\ r.attempts <= refusals[c]
    <2>h. /\ dispatch[c].status = "success" => accepted[c]
          /\ dispatch[c].status = "failed" => refusals[c] >= MaxAttempts
          /\ dispatch[c].attempts <= refusals[c]
      BY <1>1 DEF VerdictsAreHonest
    <2>1. CASE mark_success(w)
      <3>1. dispatch' = [dispatch EXCEPT ![c] = [dispatch[c] EXCEPT !.status = "success"]]
        BY <2>1 DEF mark_success
      <3>2. accepted[c]
        BY <2>1, <1>m DEF mark_success, At, MemoryOf
      <3>3. [dispatch[c] EXCEPT !.status = "success"] \in Row
        BY <1>1, <1>t DEF Row
      <3> QED
        BY <1>t, <1>1, <2>h, <3>1, <3>2, <3>3 DEF Row
    <2>2. CASE handle_failure(w)
      <3>1. dispatch' = [dispatch EXCEPT ![c] = AfterFailure(dispatch[c], a)]
        BY <2>2 DEF handle_failure
      <3>2. n <= refusals[c]
        BY <2>2, <1>m DEF handle_failure, At, MemoryOf
      <3>3. CASE n >= MaxAttempts
        <4> DEFINE r == [dispatch[c] EXCEPT !.attempts = n, !.status = "failed"]
        <4>1. AfterFailure(dispatch[c], a) = r
          BY <1>1, <3>3 DEF AfterFailure
        <4>2. r \in Row /\ r.status = "failed" /\ r.attempts = n
          BY <1>1, <1>t DEF Row
        <4>3. refusals[c] >= MaxAttempts
          BY <1>t, <1>1, <3>2, <3>3, WebhookAssumption
        <4> HIDE DEF r
        <4> QED
          BY <3>1, <3>2, <4>1, <4>2, <4>3
      <3>4. CASE ~(n >= MaxAttempts)
        <4> DEFINE r == [dispatch[c] EXCEPT !.attempts = n, !.resting = TRUE]
        <4>1. AfterFailure(dispatch[c], a) = r
          BY <1>1, <3>4 DEF AfterFailure
        <4>2. r \in Row /\ r.status = dispatch[c].status /\ r.attempts = n
          BY <1>1, <1>t DEF Row
        <4> HIDE DEF r
        <4> QED
          BY <1>1, <2>h, <3>1, <3>2, <4>1, <4>2
      <3> QED
        BY <3>3, <3>4
    <2> QED
      BY <2>1, <2>2
  <1>4. dispatcher' = [dispatcher EXCEPT ![w] = DoneWith(w)] /\ DoneWith(w) \in Dispatcher
    BY <1>1, DoneWithFacts DEF mark_success, handle_failure
  <1>5. WebhookTypeOK'
    BY <1>1, <1>2, <1>3, <1>4 DEF WebhookTypeOK
  <1>6. \A d \in Dispatches : d # c => dispatch'[d] = dispatch[d]
    BY <1>3, <1>t
  <1>7. dispatch'[c] = r
    BY <1>1, <1>3, <1>t
  <1>8. TodoIsUnwritten'
    <2>1. \A d \in Dispatches : dispatch[d].status = "none" => dispatch'[d] = dispatch[d]
      BY <1>1, <1>6
    <2> QED
      BY <1>2, <2>1 DEF TodoIsUnwritten, Dispatches
  <1>9. VerdictsAreHonest'
    BY <1>2, <1>3, <1>6, <1>7 DEF VerdictsAreHonest
  <1>10. \A d \in Dispatches : dispatch[d].status # "none" => dispatch'[d].status # "none"
    BY <1>3, <1>6, <1>7
  <1>11. ASSUME NEW v \in Dispatchers PROVE MemoryOf(v)'
    <2>1. CASE v # w
      <3>1. dispatcher'[v] = dispatcher[v] /\ MemoryOf(v)
        BY <1>4, <1>t, <2>1 DEF MemoryIsTrue
      <3>2. \A d \in dispatcher[v].batch : d \in Dispatches
        BY <1>t DEF Dispatcher
      <3> QED
        BY <1>2, <1>10, <3>1, <3>2 DEF MemoryOf
    <2>2. CASE v = w
      <3>1. dispatcher'[w] = DoneWith(w)
        BY <1>4, <1>t
      <3>2. \A d \in dispatcher[w].batch : d \in Dispatches
        BY <1>t DEF Dispatcher
      <3>3. /\ DoneWith(w).pc \in {"idle", "next"}
            /\ DoneWith(w).pc = "idle" => DoneWith(w).batch = {}
            /\ DoneWith(w).batch \subseteq dispatcher[w].batch
            /\ \A d \in DoneWith(w).batch : DoneWith(w).read[d] = dispatcher[w].read[d]
        BY <1>1, DoneWithFacts
      <3> QED
        BY <1>m, <1>2, <1>10, <2>2, <3>1, <3>2, <3>3 DEF MemoryOf
    <2> QED
      BY <2>1, <2>2
  <1>12. MemoryIsTrue'
    BY <1>11 DEF MemoryIsTrue
  <1> QED
    BY <1>5, <1>8, <1>9, <1>12

LEMMA BackoffKeepsInv ==
  ASSUME WebhookInv, NEW d \in Dispatches, BackoffOver(d)
  PROVE  WebhookInv'
  <1> USE DEF WebhookInv
  <1>1. /\ UNCHANGED <<publisher, dispatcher, accepted, refusals, faults>>
        /\ dispatch' = [dispatch EXCEPT ![d].resting = FALSE]
    BY DEF BackoffOver
  <1>2. /\ dispatch' \in [Dispatches -> Row]
        /\ \A x \in Dispatches : /\ dispatch'[x].status = dispatch[x].status
                                 /\ dispatch'[x].attempts = dispatch[x].attempts
    BY <1>1 DEF WebhookTypeOK, Row
  <1>3. WebhookTypeOK'
    BY <1>1, <1>2 DEF WebhookTypeOK
  <1>4. TodoIsUnwritten'
    BY <1>1, <1>2 DEF TodoIsUnwritten, Dispatches
  <1>5. MemoryIsTrue'
    <2>1. \A w \in Dispatchers : dispatcher[w].batch \subseteq Dispatches
      BY DEF WebhookTypeOK, Dispatcher
    <2> QED
      BY <1>1, <1>2, <2>1 DEF MemoryIsTrue, MemoryOf
  <1>6. VerdictsAreHonest'
    BY <1>1, <1>2 DEF VerdictsAreHonest
  <1> QED
    BY <1>3, <1>4, <1>5, <1>6

LEMMA NextKeepsInv == WebhookInv /\ [WebhookNext]_webhookVars => WebhookInv'
  <1> SUFFICES ASSUME WebhookInv, [WebhookNext]_webhookVars PROVE WebhookInv'
    OBVIOUS
  <1>1. CASE UNCHANGED webhookVars
    BY <1>1 DEF webhookVars, WebhookInv, WebhookTypeOK, TodoIsUnwritten, MemoryIsTrue,
                MemoryOf, VerdictsAreHonest, Dispatches
  <1>2. CASE WebhookNext
    BY <1>2, PublisherKeepsInv, ReadingKeepsInv, WritingKeepsInv, BackoffKeepsInv
       DEF WebhookNext, DispatcherStep
  <1> QED
    BY <1>1, <1>2

\* The tables and the dispatchers keep their types.
THEOREM WebhookTypes == WebhookSpec => []WebhookTypeOK
  <1>1. WebhookInv => WebhookTypeOK
    BY DEF WebhookInv
  <1> QED
    BY <1>1, InitInv, NextKeepsInv, PTL DEF WebhookSpec

\* However many dispatchers race for a row and however stale the attempts they
\* write back, "success" was accepted and "failed" was tried MaxAttempts times.
THEOREM VerdictsAlwaysHonest == WebhookSpec => []VerdictsAreHonest
  <1>1. WebhookInv => VerdictsAreHonest
    BY DEF WebhookInv
  <1> QED
    BY <1>1, InitInv, NextKeepsInv, PTL DEF WebhookSpec

(***************************************************************************)
(* The dispatchers implement WebhookDelivery.                              *)
(***************************************************************************)

StateMap == [d \in Dispatches |-> dispatch[d].status]

LEMMA InitImplements == WebhookInit => Delivery!DeliveryInit
  BY DEF WebhookInit, Delivery!DeliveryInit, InHand, Idle, NoRow

\* A step that leaves the statuses, the batches and the endpoints alone.
LEMMA Stutters ==
  ASSUME StateMap' = StateMap, InHand' = InHand, UNCHANGED <<accepted, refusals>>
  PROVE  UNCHANGED Delivery!deliveryVars
  BY DEF StateMap, Delivery!deliveryVars

\* What w has in hand changes to batch, the hands of the others do not.
LEMMA HandsOf ==
  ASSUME WebhookTypeOK, NEW w \in Dispatchers, NEW D \in Dispatcher,
         dispatcher' = [dispatcher EXCEPT ![w] = D]
  PROVE  InHand' = [d \in Dispatches |-> IF d \in D.batch THEN InHand[d] \cup {w}
                                         ELSE InHand[d] \ {w}]
  <1>1. /\ dispatcher'[w] = D
        /\ \A v \in Dispatchers : v # w => dispatcher'[v] = dispatcher[v]
    BY DEF WebhookTypeOK
  <1>2. ASSUME NEW d \in Dispatches
        PROVE  {v \in Dispatchers : d \in dispatcher'[v].batch} =
                 IF d \in D.batch THEN InHand[d] \cup {w} ELSE InHand[d] \ {w}
    BY <1>1, <1>2 DEF InHand
  <1> QED
    BY <1>2 DEF InHand

LEMMA PublisherImplements ==
  ASSUME WebhookInv, NEW e \in Events,
         enqueue_event(e) \/ InsertDispatch(e) \/ PublisherFails(e)
  PROVE  [Delivery!DeliveryNext]_(Delivery!deliveryVars)
  <1>1. CASE enqueue_event(e) \/ PublisherFails(e)
    BY <1>1, Stutters DEF enqueue_event, PublisherFails, StateMap, InHand
  <1>2. CASE InsertDispatch(e)
    <2>1. PICK ep \in publisher[e].todo :
            dispatch' = [dispatch EXCEPT ![<<e, ep>>] =
                           [NoRow EXCEPT !.status = "pending", !.created = Inserted + 1]]
      BY <1>2 DEF InsertDispatch
    <2> DEFINE d == <<e, ep>>
    <2>2. d \in Dispatches /\ dispatch[d].status = "none"
      BY DEF WebhookInv, WebhookTypeOK, TodoIsUnwritten, Dispatches
    <2>3. [NoRow EXCEPT !.status = "pending", !.created = Inserted + 1].status = "pending"
      BY InsertedType, NewRowFacts
    <2>4. StateMap' = [StateMap EXCEPT ![d] = "pending"]
      BY <2>1, <2>2, <2>3 DEF StateMap, WebhookInv, WebhookTypeOK
    <2>5. UNCHANGED <<accepted, refusals, InHand>>
      BY <1>2 DEF InsertDispatch, InHand
    <2>6. Delivery!Publish(d)
      BY <2>2, <2>4, <2>5 DEF Delivery!Publish, StateMap
    <2> QED
      BY <2>2, <2>6 DEF Delivery!DeliveryNext
  <1> QED
    BY <1>1, <1>2

\* Letting go of the current row.
LEMMA LetsGo ==
  ASSUME WebhookInv, NEW w \in Dispatchers, mark_success(w) \/ handle_failure(w)
  PROVE  LET c == dispatcher[w].current
         IN  /\ c \in Dispatches
             /\ w \in InHand[c]
             /\ InHand' = [InHand EXCEPT ![c] = @ \ {w}]
  <1> DEFINE c == dispatcher[w].current
  <1> USE DEF WebhookInv
  <1>1. MemoryOf(w) /\ dispatcher[w] \in Dispatcher
    BY DEF MemoryIsTrue, WebhookTypeOK
  <1>2. c \in dispatcher[w].batch /\ c \in Dispatches
    BY <1>1 DEF mark_success, handle_failure, At, MemoryOf, Dispatcher
  <1>3. dispatcher' = [dispatcher EXCEPT ![w] = DoneWith(w)]
    BY DEF mark_success, handle_failure
  <1>4. DoneWith(w) \in Dispatcher /\ DoneWith(w).batch = dispatcher[w].batch \ {c}
    BY <1>2, DoneWithFacts
  <1>5. InHand' = [d \in Dispatches |-> IF d \in DoneWith(w).batch THEN InHand[d] \cup {w}
                                        ELSE InHand[d] \ {w}]
    BY <1>3, <1>4, HandsOf
  <1>6. \A d \in Dispatches : w \in InHand[d] <=> d \in dispatcher[w].batch
    BY DEF InHand
  <1>7. \A d \in Dispatches : d # c =>
          (IF d \in DoneWith(w).batch THEN InHand[d] \cup {w} ELSE InHand[d] \ {w}) = InHand[d]
    BY <1>4, <1>6
  <1>8. InHand = [d \in Dispatches |-> InHand[d]]
    BY DEF InHand
  <1>9. InHand' = [InHand EXCEPT ![c] = @ \ {w}]
    <2> DEFINE H == InHand
    <2>1. c \notin DoneWith(w).batch
      BY <1>4
    <2>2. H = [d \in Dispatches |-> H[d]]
      BY <1>8
    <2> HIDE DEF H
    <2>3. [d \in Dispatches |-> IF d \in DoneWith(w).batch THEN H[d] \cup {w} ELSE H[d] \ {w}]
            = [H EXCEPT ![c] = @ \ {w}]
      BY <1>7, <2>1, <2>2 DEF H
    <2> QED
      BY <1>5, <2>3 DEF H
  <1> QED
    BY <1>2, <1>6, <1>9

LEMMA DispatcherImplements ==
  ASSUME WebhookInv, NEW w \in Dispatchers,
         DispatcherStep(w) \/ answered(w) \/ abort(w)
  PROVE  [Delivery!DeliveryNext]_(Delivery!deliveryVars)
  <1> USE DEF WebhookInv
  <1> DEFINE c == dispatcher[w].current
  <1>t. WebhookTypeOK /\ dispatcher[w] \in Dispatcher /\ MemoryOf(w)
    BY DEF WebhookTypeOK, MemoryIsTrue
  <1>h. \A d \in Dispatches : w \in InHand[d] <=> d \in dispatcher[w].batch
    BY DEF InHand
  <1>1. CASE run_once(w)
    <2>1. PICK batch \in SUBSET Dispatches :
            /\ Batch(batch)
            /\ dispatcher' = [dispatcher EXCEPT ![w] =
                 [Idle EXCEPT !.pc = "next", !.batch = batch,
                              !.read = [d \in Dispatches |->
                                          IF d \in batch THEN dispatch[d].attempts ELSE 0]]]
      BY <1>1 DEF run_once
    <2> DEFINE D == [Idle EXCEPT !.pc = "next", !.batch = batch,
                                 !.read = [d \in Dispatches |->
                                             IF d \in batch THEN dispatch[d].attempts ELSE 0]]
    <2>2. D \in Dispatcher /\ D.batch = batch
      BY <1>t DEF Idle, Dispatcher, Row, WebhookTypeOK
    <2>3. dispatcher' = [dispatcher EXCEPT ![w] = D]
      BY <2>1
    <2> HIDE DEF D
    <2>4. InHand' = [d \in Dispatches |-> IF d \in batch THEN InHand[d] \cup {w}
                                          ELSE InHand[d] \ {w}]
      <3>1. InHand' = [d \in Dispatches |-> IF d \in D.batch THEN InHand[d] \cup {w}
                                            ELSE InHand[d] \ {w}]
        BY <1>t, <2>2, <2>3, HandsOf
      <3> QED
        BY <2>2, <3>1
    <2>5. \A d \in Dispatches : InHand[d] \ {w} = InHand[d]
      BY <1>1, <1>t, <1>h DEF run_once, At, MemoryOf
    <2>6. InHand' = [d \in Dispatches |-> IF d \in batch THEN InHand[d] \cup {w}
                                          ELSE InHand[d]]
      BY <2>4, <2>5
    <2>7. \A d \in batch : StateMap[d] = "pending"
      BY <2>1 DEF Batch, IsDue, StateMap
    <2>8. UNCHANGED <<StateMap, accepted, refusals>>
      BY <1>1 DEF run_once, StateMap
    <2>9. Delivery!TakeUp(w, batch)
      BY <2>6, <2>7, <2>8 DEF Delivery!TakeUp, StateMap
    <2> QED
      BY <2>9 DEF Delivery!DeliveryNext
  <1>2. CASE post(w)
    <2>1. PICK d \in dispatcher[w].batch :
            dispatcher' = [dispatcher EXCEPT ![w].pc = "post", ![w].current = d]
      BY <1>2 DEF post
    <2>2. \A v \in Dispatchers : dispatcher'[v].batch = dispatcher[v].batch
      BY <1>t, <2>1 DEF WebhookTypeOK, Dispatcher
    <2> QED
      BY <1>2, <2>2, Stutters DEF post, StateMap, InHand
  <1>3. CASE answered(w)
    <2>1. c \in dispatcher[w].batch /\ c \in Dispatches
      BY <1>3, <1>t DEF answered, At, MemoryOf, Dispatcher
    <2>2. \A v \in Dispatchers : dispatcher'[v].batch = dispatcher[v].batch
      <3>1. PICK pc \in {"accepted", "refused"} :
              dispatcher' = [dispatcher EXCEPT ![w].pc = pc]
        BY <1>3 DEF answered
      <3> QED
        BY <1>t, <3>1 DEF WebhookTypeOK, Dispatcher
    <2>3. UNCHANGED <<StateMap, InHand>>
      BY <1>3, <2>2 DEF answered, StateMap, InHand
    <2>4. \/ /\ accepted' = [accepted EXCEPT ![c] = TRUE]
             /\ UNCHANGED refusals
          \/ /\ refusals' = [refusals EXCEPT ![c] = @ + 1]
             /\ accepted' \in {accepted, [accepted EXCEPT ![c] = TRUE]}
      BY <1>3 DEF answered
    <2>5. Delivery!Try(w, c)
      BY <1>h, <2>1, <2>3, <2>4 DEF Delivery!Try, StateMap
    <2> QED
      BY <2>1, <2>5 DEF Delivery!DeliveryNext
  <1>4. CASE mark_success(w)
    <2>1. /\ c \in Dispatches
          /\ w \in InHand[c]
          /\ InHand' = [InHand EXCEPT ![c] = @ \ {w}]
      BY <1>4, LetsGo
    <2>2. /\ accepted[c]
          /\ UNCHANGED <<accepted, refusals>>
      BY <1>4, <1>t DEF mark_success, At, MemoryOf
    <2>3. StateMap' = [StateMap EXCEPT ![c] = "success"]
      BY <1>4, <2>1 DEF mark_success, StateMap, WebhookTypeOK, Row
    <2>4. Delivery!Conclude(w, c, "success")
      BY <2>1, <2>2, <2>3 DEF Delivery!Conclude, StateMap
    <2> QED
      BY <2>1, <2>4 DEF Delivery!DeliveryNext, Delivery!Verdict
  <1>5. CASE handle_failure(w)
    <2> DEFINE a == dispatcher[w].read[c]
    <2>1. /\ c \in Dispatches
          /\ w \in InHand[c]
          /\ InHand' = [InHand EXCEPT ![c] = @ \ {w}]
      BY <1>5, LetsGo
    <2>2. /\ a + 1 <= refusals[c]
          /\ UNCHANGED <<accepted, refusals>>
          /\ dispatch' = [dispatch EXCEPT ![c] = AfterFailure(dispatch[c], a)]
      BY <1>5, <1>t DEF handle_failure, At, MemoryOf
    <2>3. /\ a \in Nat /\ refusals[c] \in Nat
          /\ dispatch \in [Dispatches -> Row]
          /\ dispatch[c] \in Row
      BY <1>t, <2>1 DEF WebhookTypeOK, Dispatcher
    <2>4. CASE a + 1 >= MaxAttempts
      <3>1. AfterFailure(dispatch[c], a).status = "failed"
        BY <2>3, <2>4 DEF AfterFailure, Row
      <3>2. StateMap' = [StateMap EXCEPT ![c] = "failed"]
        BY <2>1, <2>2, <2>3, <3>1 DEF StateMap
      <3>3. refusals[c] >= MaxAttempts
        BY <2>2, <2>3, <2>4, WebhookAssumption
      <3>4. Delivery!Conclude(w, c, "failed")
        BY <2>1, <2>2, <3>2, <3>3 DEF Delivery!Conclude, StateMap
      <3> QED
        BY <2>1, <3>4 DEF Delivery!DeliveryNext, Delivery!Verdict
    <2>5. CASE ~(a + 1 >= MaxAttempts)
      <3>1. AfterFailure(dispatch[c], a).status = dispatch[c].status
        BY <2>3, <2>5 DEF AfterFailure, Row
      <3>2. StateMap' = StateMap
        BY <2>1, <2>2, <2>3, <3>1 DEF StateMap
      <3>3. InHand' = [d \in Dispatches |-> IF d \in {c} THEN InHand[d] \ {w} ELSE InHand[d]]
        BY <2>1 DEF InHand
      <3>4. Delivery!PutBack(w, {c})
        BY <2>2, <3>2, <3>3 DEF Delivery!PutBack, StateMap
      <3> QED
        BY <2>1, <3>4 DEF Delivery!DeliveryNext
    <2> QED
      BY <2>4, <2>5
  <1>6. CASE abort(w)
    <2>1. /\ dispatcher' = [dispatcher EXCEPT ![w] = Idle]
          /\ UNCHANGED <<StateMap, accepted, refusals>>
      BY <1>6 DEF abort, StateMap
    <2>2. InHand' = [d \in Dispatches |-> IF d \in Idle.batch THEN InHand[d] \cup {w}
                                          ELSE InHand[d] \ {w}]
      BY <1>t, <2>1, IdleType, HandsOf
    <2>3. InHand' = [d \in Dispatches |-> IF d \in Dispatches THEN InHand[d] \ {w}
                                          ELSE InHand[d]]
      BY <2>2 DEF Idle
    <2>4. Delivery!PutBack(w, Dispatches)
      BY <2>1, <2>3 DEF Delivery!PutBack, StateMap
    <2> QED
      BY <2>4 DEF Delivery!DeliveryNext
  <1> QED
    BY <1>1, <1>2, <1>3, <1>4, <1>5, <1>6 DEF DispatcherStep

LEMMA BackoffImplements ==
  ASSUME WebhookInv, NEW d \in Dispatches, BackoffOver(d)
  PROVE  [Delivery!DeliveryNext]_(Delivery!deliveryVars)
  <1>1. \A x \in Dispatches : dispatch'[x].status = dispatch[x].status
    BY DEF BackoffOver, WebhookInv, WebhookTypeOK, Row
  <1> QED
    BY <1>1, Stutters DEF BackoffOver, StateMap, InHand

\* The dispatchers with their stale batches, crashes and races implement the
\* abstract delivery: taken up while pending, verdicts with their grounds, and a
\* verdict nobody has in hand stands for good.
THEOREM DeliveryIsImplemented == WebhookSpec => ImplementsDelivery
  <1>1. WebhookInv /\ [WebhookNext]_webhookVars =>
          [Delivery!DeliveryNext]_(Delivery!deliveryVars)
    <2> SUFFICES ASSUME WebhookInv, [WebhookNext]_webhookVars
                 PROVE  [Delivery!DeliveryNext]_(Delivery!deliveryVars)
      OBVIOUS
    <2>1. CASE UNCHANGED webhookVars
      BY <2>1, Stutters DEF webhookVars, StateMap, InHand
    <2>2. CASE WebhookNext
      BY <2>2, PublisherImplements, DispatcherImplements, BackoffImplements DEF WebhookNext
    <2> QED
      BY <2>1, <2>2
  <1> QED
    BY <1>1, InitInv, NextKeepsInv, InitImplements, PTL
       DEF WebhookSpec, ImplementsDelivery, Delivery!DeliverySpec

=============================================================================
