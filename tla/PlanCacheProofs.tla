-------------------------- MODULE PlanCacheProofs --------------------------
(***************************************************************************)
(* Theorems about the plan cache, for any owners, heirs, queries, requests *)
(* in flight, writes and faults.                                           *)
(***************************************************************************)
EXTENDS PlanCache, TLAPS

(***************************************************************************)
(* The inductive invariant.                                                *)
(***************************************************************************)

Queries == UNION QueryMixes

PlanRow == [version : Nat, active : BOOLEAN, heirs : SUBSET Filters]

Answers == UNION {[owners -> PlanRow] : owners \in SUBSET Owners}

CacheEntry == [query : Queries \cup {Statistics}, answer : Answers,
               volatile : BOOLEAN, covered : SUBSET Indices]

Storing == [at : {"store"}, query : Queries, answer : Answers, raced : BOOLEAN]

Indexing == [at : {"index"}, query : Queries, todo : SUBSET Indices]

\* What a writer may empty: the sets of its plan, with or without its heirs.
PlanIndices == UNION {plan_index_keys(o, h) : o \in Owners, h \in HeirLists \cup {{}}}

Collecting == [at : {"collect"}, indices : SUBSET PlanIndices,
               todo : SUBSET PlanIndices, found : SUBSET Keys]

Deleting == [at : {"delete"}, todo : SUBSET (Keys \cup PlanIndices)]

Progress == {Idle} \cup Storing \cup Indexing \cup Collecting \cup Deleting

CacheTypeOK ==
  /\ asked \in QueryMixes
  /\ enabled \in BOOLEAN
  /\ plan \in [Owners -> PlanRow]
  /\ cache \in [Keys -> CacheEntry]
  /\ index \in [Indices -> SUBSET Keys]
  /\ request \in [Requests -> Progress]

All == all_queries_index_key

Quiet == \A w \in Requests : ~Invalidates(w)

\* An answer in hand that nothing has overlapped is the present one, and no
\* invalidation is in progress.
UnracedIsFresh ==
  \A r \in Requests : request[r].at = "store" /\ ~request[r].raced =>
    Quiet /\ request[r].answer = Answer(request[r].query)

\* A disabled cache stays empty.
DisabledIsEmpty ==
  ~enabled => /\ \A k \in Keys : ~Cached(k)
              /\ \A r \in Requests : request[r] = Idle

\* Some invalidation has found key k and is about to delete it.
Condemned(k) == \E w \in Requests : request[w].at = "delete" /\ k \in request[w].todo

\* A fill of key k has yet to add it to the set of all queries.
Unlisted(k) == \E r \in Requests : /\ request[r].at = "index"
                                   /\ KeyOf(request[r].query) = k
                                   /\ All \in request[r].todo

\* The set of all queries has key k, and does not expire before it.
Listed(k) == All \in cache[k].covered /\ k \in index[All]

\* Every invalidation in progress has found key k, or will.
Reached(k) ==
  \A w \in Requests :
    /\ request[w].at = "collect" =>
         All \in request[w].todo \/ k \in request[w].found \/ Condemned(k)
    /\ request[w].at = "delete" => Condemned(k)

\* What holds of an entry that nothing excuses.
Sound(k) ==
  /\ Quiet => cache[k].answer = Answer(cache[k].query)
  /\ Listed(k) \/ Condemned(k) \/ (Quiet /\ Unlisted(k))
  /\ Reached(k)

Trusted(k) == Cached(k) /\ k \notin excused

PlanKeys == {cache_key(q) : q \in PlanQueries}

TrustedIsSound == \A k \in PlanKeys : Trusted(k) => Sound(k)

CacheInv == CacheTypeOK /\ UnracedIsFresh /\ DisabledIsEmpty /\ TrustedIsSound

(***************************************************************************)
(* Keys, answers and the shapes of a request.                              *)
(***************************************************************************)

\* The keys of queries and of index sets do not clash.
LEMMA PlanKeyFacts ==
  ASSUME NEW k \in PlanKeys
  PROVE  k \in Keys /\ All \in Indices /\ k # All /\ k # plan_statistics_cache_key
<1>1. PICK q \in PlanQueries : k = cache_key(q)
  BY DEF PlanKeys
<1>2. q \in UNION QueryMixes /\ q # Statistics
  BY DEF PlanQueries
<1>3. k \in Keys
  BY <1>1, <1>2 DEF Keys, KeyOf
<1>4. All \in Indices
  BY DEF All, Indices, query_index_keys
<1>5. k # All /\ k # plan_statistics_cache_key
  BY <1>1 DEF cache_key, All, all_queries_index_key, plan_statistics_cache_key
<1> QED BY <1>3, <1>4, <1>5

\* Every query has a key, and every index set it belongs to is one of Indices.
LEMMA QueryFacts ==
  ASSUME NEW q \in Queries
  PROVE  /\ KeyOf(q) \in Keys
         /\ IndicesOf(q) \subseteq Indices
         /\ KeyOf(q) # plan_statistics_cache_key => All \in IndicesOf(q)
<1>1. KeyOf(q) \in Keys
  BY DEF Keys, Queries
<1>2. CASE q = Statistics
  BY <1>1, <1>2 DEF KeyOf, IndicesOf
<1>3. CASE q # Statistics
  <2>1. q \in PlanQueries
    BY <1>3 DEF PlanQueries, Queries
  <2>2. IndicesOf(q) = query_index_keys(q)
    BY <1>3 DEF IndicesOf
  <2>3. query_index_keys(q) \subseteq Indices
    BY <2>1 DEF Indices
  <2>4. All \in query_index_keys(q)
    BY DEF All, query_index_keys
  <2> QED BY <1>1, <2>2, <2>3, <2>4
<1> QED BY <1>2, <1>3

\* What the tables answer is an answer.
LEMMA AnswerType ==
  ASSUME plan \in [Owners -> PlanRow], NEW q
  PROVE  Answer(q) \in Answers
<1>1. Selected(q) \subseteq Owners
  BY DEF Selected
<1>2. Answer(q) \in [Selected(q) -> PlanRow]
  BY <1>1 DEF Answer
<1> QED BY <1>1, <1>2 DEF Answers

\* An empty place of the cache is an entry too.
LEMMA NoEntryType == NoEntry \in CacheEntry
<1>1. [o \in {} |-> NoPlan] \in [{} -> PlanRow]
  OBVIOUS
<1>2. [o \in {} |-> NoPlan] \in Answers
  BY <1>1 DEF Answers
<1> QED BY <1>2 DEF NoEntry, CacheEntry

\* The place a request is at determines its fields.
LEMMA ProgressShapes ==
  ASSUME NEW p \in Progress
  PROVE  /\ p.at \in {"idle", "store", "index", "collect", "delete"}
         /\ p.at = "idle" <=> p = Idle
         /\ p.at = "store" <=> p \in Storing
         /\ p.at = "index" <=> p \in Indexing
         /\ p.at = "collect" <=> p \in Collecting
         /\ p.at = "delete" <=> p \in Deleting
  BY DEF Progress, Idle, Storing, Indexing, Collecting, Deleting

\* Marking the answers in hand leaves everything else where it was.
LEMMA DisturbedFacts ==
  ASSUME request \in [Requests -> Progress]
  PROVE  /\ Disturbed \in [Requests -> Progress]
         /\ \A r \in Requests :
              /\ request[r].at = "store" => Disturbed[r].at = "store" /\ Disturbed[r].raced
              /\ request[r].at # "store" => Disturbed[r] = request[r]
<1>1. ASSUME NEW r \in Requests
      PROVE  /\ Disturbed[r] \in Progress
             /\ request[r].at = "store" => Disturbed[r].at = "store" /\ Disturbed[r].raced
             /\ request[r].at # "store" => Disturbed[r] = request[r]
  <2>1. request[r] \in Progress
    OBVIOUS
  <2>2. CASE request[r].at = "store"
    <3>1. request[r] \in Storing
      BY <2>1, <2>2, ProgressShapes
    <3>2. Disturbed[r] = [request[r] EXCEPT !.raced = TRUE]
      BY <2>2 DEF Disturbed
    <3>3. Disturbed[r] \in Storing /\ Disturbed[r].raced = TRUE
      BY <3>1, <3>2 DEF Storing
    <3> QED BY <2>2, <3>3 DEF Storing, Progress
  <2>3. CASE request[r].at # "store"
    BY <2>1, <2>3 DEF Disturbed
  <2> QED BY <2>2, <2>3
<1>2. Disturbed = [r \in Requests |-> Disturbed[r]]
  BY DEF Disturbed
<1> QED BY <1>1, <1>2

(***************************************************************************)
(* The invariant holds at the start and under every action.                *)
(***************************************************************************)

\* An empty cache with nobody at work satisfies the invariant.
LEMMA InitInv == CacheInit => CacheInv
<1> SUFFICES ASSUME CacheInit PROVE CacheInv
  OBVIOUS
<1>1. NoPlan \in PlanRow
  BY DEF NoPlan, PlanRow
<1>2. CacheTypeOK
  BY <1>1, NoEntryType DEF CacheInit, CacheTypeOK, Progress
<1>3. \A k \in Keys : ~Cached(k)
  BY DEF CacheInit, Cached
<1>4. \A r \in Requests : request[r] = Idle /\ request[r].at = "idle"
  BY DEF CacheInit, Idle
<1>5. UnracedIsFresh /\ DisabledIsEmpty
  BY <1>3, <1>4 DEF UnracedIsFresh, DisabledIsEmpty
<1>6. TrustedIsSound
  BY <1>3, PlanKeyFacts DEF TrustedIsSound, Trusted
<1> QED BY <1>2, <1>5, <1>6 DEF CacheInv

\* Nothing of the invariant speaks of the count of faults.
LEMMA StutterInv == CacheInv /\ UNCHANGED cacheVars => CacheInv'
  BY DEF CacheInv, cacheVars, CacheTypeOK, UnracedIsFresh, DisabledIsEmpty, TrustedIsSound,
         Trusted, Sound, Reached, Listed, Unlisted, Condemned, Quiet, Invalidates, Cached,
         Answer, Selected

\* A reader that finds the place empty takes an answer in hand: fresh, or
\* marked as overlapped by the invalidation in progress.
LEMMA ReadTablesInv ==
  ASSUME CacheInv, NEW r \in Requests, NEW q \in asked, ReadTables(r, q)
  PROVE  CacheInv'
<1> USE DEF CacheInv
<1> DEFINE p == [at |-> "store", query |-> q, answer |-> Answer(q),
                 raced |-> \E w \in Requests : Invalidates(w)]
<1>1. /\ request[r] = Idle /\ enabled /\ request' = [request EXCEPT ![r] = p]
      /\ UNCHANGED <<asked, enabled, plan, cache, index, excused, faults>>
  BY DEF ReadTables
<1>2. p \in Storing
  BY AnswerType DEF CacheTypeOK, Storing, Queries
<1>3. CacheTypeOK'
  BY <1>1, <1>2 DEF CacheTypeOK, Progress
<1> HIDE DEF p
<1>4. /\ request' \in [Requests -> Progress]
      /\ request'[r] = p
      /\ \A w \in Requests \ {r} : request'[w] = request[w]
      /\ request[r].at = "idle"
  BY <1>1, <1>3 DEF CacheTypeOK, Idle
<1>5. /\ p.at = "store" /\ p.query = q /\ p.answer = Answer(q)
      /\ p.raced <=> ~Quiet
  BY DEF p, Quiet
<1>6. Quiet' = Quiet
  BY <1>4, <1>5 DEF Quiet, Invalidates
<1>7. \A any : Answer(any)' = Answer(any)
  BY <1>1 DEF Answer, Selected
<1>8. UnracedIsFresh'
  BY <1>4, <1>5, <1>6, <1>7 DEF UnracedIsFresh
<1>9. DisabledIsEmpty'
  BY <1>1 DEF DisabledIsEmpty
<1>10. ASSUME NEW k \in PlanKeys, Trusted(k)' PROVE Sound(k)'
  <2>1. Sound(k)
    BY <1>1, <1>10 DEF Trusted, Cached, TrustedIsSound
  <2>2. Condemned(k)' = Condemned(k) /\ Unlisted(k)' = Unlisted(k) /\ Listed(k)' = Listed(k)
    BY <1>1, <1>4, <1>5 DEF Condemned, Unlisted, Listed
  <2>3. Reached(k)'
    BY <1>4, <1>5, <2>1, <2>2 DEF Sound, Reached
  <2>4. cache' = cache
    BY <1>1
  <2> QED BY <1>6, <1>7, <2>1, <2>2, <2>3, <2>4 DEF Sound
<1> QED BY <1>3, <1>8, <1>9, <1>10 DEF TrustedIsSound

\* An answer that nothing overlapped is the present one, and its fill has the
\* set of all queries to do; an overlapped one is excused.
LEMMA set_plansInv ==
  ASSUME CacheInv, NEW r \in Requests, set_plans(r)
  PROVE  CacheInv'
<1> USE DEF CacheInv
<1> DEFINE q == request[r].query
           e == Entry(q, request[r].answer)
           p == IF IndicesOf(q) = {} THEN Idle
                ELSE [at |-> "index", query |-> q, todo |-> IndicesOf(q)]
<1>1. /\ request[r].at = "store"
      /\ cache' = [cache EXCEPT ![KeyOf(q)] = e]
      /\ request' = [request EXCEPT ![r] = p]
      /\ excused' = IF request[r].raced THEN excused \cup {KeyOf(q)} ELSE excused \ {KeyOf(q)}
      /\ UNCHANGED <<asked, enabled, plan, index, faults>>
  BY DEF set_plans
<1>2. request[r] \in Storing
  BY <1>1, ProgressShapes DEF CacheTypeOK
<1>3. q \in Queries
  BY <1>2 DEF Storing
<1>4. e \in CacheEntry
  BY <1>2, <1>3 DEF Entry, CacheEntry, Storing
<1>5. p \in Progress
  BY <1>3, QueryFacts DEF Progress, Indexing
<1>6. /\ p.at \in {"idle", "index"}
      /\ IndicesOf(q) # {} => p.at = "index" /\ p.query = q /\ p.todo = IndicesOf(q)
  BY DEF Idle
<1>7. e.query = q /\ e.answer = request[r].answer
  BY DEF Entry
<1> HIDE DEF e, p
<1>8. KeyOf(q) \in Keys
  BY <1>3, QueryFacts
<1> HIDE DEF q
<1>9. CacheTypeOK'
  BY <1>1, <1>4, <1>5, <1>8 DEF CacheTypeOK
<1>10. /\ request'[r] = p
       /\ \A w \in Requests \ {r} : request'[w] = request[w]
       /\ cache'[KeyOf(q)] = e
       /\ \A k \in Keys \ {KeyOf(q)} : cache'[k] = cache[k]
  BY <1>1, <1>8 DEF CacheTypeOK
<1>11. Quiet' = Quiet
  BY <1>1, <1>6, <1>10 DEF Quiet, Invalidates
<1>12. \A any : Answer(any)' = Answer(any)
  BY <1>1 DEF Answer, Selected
<1>13. UnracedIsFresh'
  BY <1>6, <1>10, <1>11, <1>12 DEF UnracedIsFresh
<1>14. DisabledIsEmpty'
  BY <1>1 DEF DisabledIsEmpty, Idle
<1>15. ASSUME NEW k \in PlanKeys, Trusted(k)' PROVE Sound(k)'
  <2>1. k \in Keys /\ All \in Indices /\ k # plan_statistics_cache_key
    BY PlanKeyFacts
  <2>2. CASE k = KeyOf(q)
    <3>1. ~request[r].raced
      BY <1>1, <1>15, <2>2 DEF Trusted
    <3>2. Quiet /\ request[r].answer = Answer(q)
      BY <1>1, <3>1 DEF UnracedIsFresh, q
    <3>3. All \in IndicesOf(q)
      BY <1>3, <2>1, <2>2, QueryFacts
    <3>4. Unlisted(k)'
      BY <1>6, <1>10, <2>2, <3>3 DEF Unlisted
    <3>5. Reached(k)'
      BY <1>11, <3>2 DEF Reached, Quiet, Invalidates
    <3> QED BY <1>7, <1>10, <1>11, <1>12, <2>2, <3>2, <3>4, <3>5 DEF Sound
  <2>3. CASE k # KeyOf(q)
    <3>1. cache'[k] = cache[k]
      BY <1>10, <2>1, <2>3
    <3>2. Sound(k)
      BY <1>1, <1>15, <2>3, <3>1 DEF Trusted, Cached, TrustedIsSound
    <3>3. Condemned(k)' = Condemned(k) /\ Listed(k)' = Listed(k)
      BY <1>1, <1>6, <1>10, <3>1 DEF Condemned, Listed
    <3>4. Unlisted(k) => Unlisted(k)'
      BY <1>1, <1>6, <1>10 DEF Unlisted
    <3>5. Reached(k)'
      BY <1>6, <1>10, <3>2, <3>3 DEF Sound, Reached
    <3> QED BY <1>11, <1>12, <3>1, <3>2, <3>3, <3>4, <3>5 DEF Sound
  <2> QED BY <2>2, <2>3
<1> QED BY <1>9, <1>13, <1>14, <1>15 DEF TrustedIsSound

\* A fill that lists its key in the set of all queries makes it Listed.
LEMMA IndexEntryInv ==
  ASSUME CacheInv, NEW r \in Requests, NEW i \in Indices, IndexEntry(r, i)
  PROVE  CacheInv'
<1> USE DEF CacheInv
<1> DEFINE q == request[r].query
           c == KeyOf(q)
           e == IF Cached(c) THEN [cache[c] EXCEPT !.covered = cache[c].covered \cup {i}]
                ELSE cache[c]
           p == IF request[r].todo = {i} THEN Idle
                ELSE [request[r] EXCEPT !.todo = request[r].todo \ {i}]
<1>1. /\ request[r].at = "index" /\ i \in request[r].todo
      /\ index' = [index EXCEPT ![i] = index[i] \cup {c}]
      /\ cache' = [cache EXCEPT ![c] = e]
      /\ request' = [request EXCEPT ![r] = p]
      /\ UNCHANGED <<asked, enabled, plan, excused, faults>>
  BY DEF IndexEntry
<1>2. request[r] \in Indexing
  BY <1>1, ProgressShapes DEF CacheTypeOK
<1>3. q \in Queries
  BY <1>2 DEF Indexing
<1>4. c \in Keys
  BY <1>3, QueryFacts
<1>5. cache[c] \in CacheEntry
  BY <1>4 DEF CacheTypeOK
<1>6. /\ e \in CacheEntry
      /\ e.query = cache[c].query /\ e.answer = cache[c].answer
      /\ cache[c].covered \subseteq e.covered
      /\ e # NoEntry => cache[c] # NoEntry /\ i \in e.covered
  <2>1. CASE cache[c] = NoEntry
    BY <1>5, <2>1 DEF Cached
  <2>2. CASE cache[c] # NoEntry
    <3> DEFINE old == cache[c]
    <3>1. e = [old EXCEPT !.covered = old.covered \cup {i}] /\ old \in CacheEntry
      BY <1>5, <2>2 DEF Cached
    <3> HIDE DEF old, e
    <3>2. /\ e \in CacheEntry /\ e.query = old.query /\ e.answer = old.answer
          /\ e.covered = old.covered \cup {i}
      BY <3>1 DEF CacheEntry
    <3> QED BY <2>2, <3>2 DEF old
  <2> QED BY <2>1, <2>2
<1>7. /\ p \in Progress
      /\ p.at \in {"idle", "index"}
      /\ All # i /\ All \in request[r].todo =>
           p.at = "index" /\ p.query = q /\ All \in p.todo
  BY <1>2 DEF Progress, Indexing, Idle
<1> HIDE DEF e, p, c, q
<1>8. CacheTypeOK'
  BY <1>1, <1>4, <1>6, <1>7 DEF CacheTypeOK
<1>9. /\ request'[r] = p
      /\ \A w \in Requests \ {r} : request'[w] = request[w]
      /\ cache'[c] = e
      /\ \A k \in Keys \ {c} : cache'[k] = cache[k]
      /\ c \in index'[i]
      /\ \A j \in Indices : index[j] \subseteq index'[j]
  BY <1>1, <1>4 DEF CacheTypeOK
<1>10. Quiet' = Quiet
  BY <1>1, <1>7, <1>9 DEF Quiet, Invalidates
<1>11. \A any : Answer(any)' = Answer(any)
  BY <1>1 DEF Answer, Selected
<1>12. UnracedIsFresh'
  BY <1>7, <1>9, <1>10, <1>11 DEF UnracedIsFresh
<1>13. DisabledIsEmpty'
  BY <1>1 DEF DisabledIsEmpty, Idle
<1>14. ASSUME NEW k \in PlanKeys, Trusted(k)' PROVE Sound(k)'
  <2>1. k \in Keys /\ All \in Indices
    BY PlanKeyFacts
  <2>2. /\ Trusted(k)
        /\ cache'[k].query = cache[k].query /\ cache'[k].answer = cache[k].answer
        /\ cache[k].covered \subseteq cache'[k].covered
    BY <1>1, <1>6, <1>9, <1>14, <2>1 DEF Trusted, Cached
  <2>3. Sound(k)
    BY <2>2 DEF TrustedIsSound
  <2>4. Listed(k) => Listed(k)'
    BY <1>9, <2>1, <2>2 DEF Listed
  <2>5. Condemned(k)' = Condemned(k)
    BY <1>1, <1>7, <1>9 DEF Condemned
  <2>6. Unlisted(k) => Unlisted(k)' \/ Listed(k)'
    <3>1. CASE k = c /\ i = All
      BY <1>6, <1>9, <1>14, <3>1 DEF Listed, Trusted, Cached
    <3>2. CASE ~(k = c /\ i = All)
      <4>1. SUFFICES ASSUME NEW x \in Requests, request[x].at = "index",
                            KeyOf(request[x].query) = k, All \in request[x].todo
                     PROVE  Unlisted(k)'
        BY DEF Unlisted
      <4>2. CASE x = r
        BY <1>7, <1>9, <3>2, <4>1, <4>2 DEF Unlisted, c, q
      <4>3. CASE x # r
        BY <1>9, <4>1, <4>3 DEF Unlisted
      <4> QED BY <4>2, <4>3
    <3> QED BY <3>1, <3>2
  <2>7. Reached(k)'
    BY <1>7, <1>9, <2>3, <2>5 DEF Sound, Reached
  <2> QED BY <1>10, <1>11, <2>2, <2>3, <2>4, <2>5, <2>6, <2>7 DEF Sound
<1> QED BY <1>8, <1>12, <1>13, <1>14 DEF TrustedIsSound

\* A fill cut short before it listed its key leaves it excused.
LEMMA AbandonFillInv ==
  ASSUME CacheInv, NEW r \in Requests, AbandonFill(r)
  PROVE  CacheInv'
<1> USE DEF CacheInv
<1> DEFINE c == KeyOf(request[r].query)
<1>1. /\ request[r].at \in {"store", "index"}
      /\ request' = [request EXCEPT ![r] = Idle]
      /\ UNCHANGED <<asked, enabled, plan, cache>>
      /\ excused' = IF request[r].at = "index" THEN excused \cup ({c} \cap HalfIndexed)
                                               ELSE excused
  BY DEF AbandonFill, Fills
<1>2. request[r].at = "index" => request[r] \in Indexing
  BY ProgressShapes DEF CacheTypeOK
<1>3. /\ index' \in [Indices -> SUBSET Keys]
      /\ \A j \in Indices : index[j] \subseteq index'[j]
  <2>1. CASE UNCHANGED index
    BY <2>1 DEF CacheTypeOK
  <2>2. CASE /\ request[r].at = "index"
             /\ \E i \in request[r].todo : index' = [index EXCEPT ![i] = @ \cup {c}]
    <3>1. c \in Keys
      BY <1>2, <2>2, QueryFacts DEF Indexing
    <3> HIDE DEF c
    <3> QED BY <2>2, <3>1 DEF CacheTypeOK
  <2> QED BY <2>1, <2>2 DEF AbandonFill
<1>4. CacheTypeOK'
  BY <1>1, <1>3 DEF CacheTypeOK, Progress
<1>5. /\ request'[r].at = "idle"
      /\ \A w \in Requests \ {r} : request'[w] = request[w]
  BY <1>1 DEF CacheTypeOK, Idle
<1>6. Quiet' = Quiet
  BY <1>1, <1>5 DEF Quiet, Invalidates
<1>7. \A any : Answer(any)' = Answer(any)
  BY <1>1 DEF Answer, Selected
<1>8. UnracedIsFresh'
  BY <1>5, <1>6, <1>7 DEF UnracedIsFresh
<1>9. DisabledIsEmpty'
  BY <1>1 DEF DisabledIsEmpty, Idle
<1>10. ASSUME NEW k \in PlanKeys, Trusted(k)' PROVE Sound(k)'
  <2>1. k \in Keys /\ All \in Indices
    BY PlanKeyFacts
  <2>2. Trusted(k) /\ (request[r].at = "index" => k # c)
    BY <1>1, <1>10, <2>1 DEF Trusted, Cached, HalfIndexed
  <2>3. Sound(k)
    BY <2>2 DEF TrustedIsSound
  <2>4. Listed(k) => Listed(k)'
    BY <1>1, <1>3, <2>1 DEF Listed
  <2>5. Condemned(k)' = Condemned(k)
    BY <1>1, <1>5 DEF Condemned
  <2>6. Unlisted(k) => Unlisted(k)'
    BY <1>5, <2>2 DEF Unlisted
  <2>7. Reached(k)'
    BY <1>5, <2>3, <2>5 DEF Sound, Reached
  <2> QED BY <1>1, <1>6, <1>7, <2>3, <2>4, <2>5, <2>6, <2>7 DEF Sound
<1> QED BY <1>4, <1>8, <1>9, <1>10 DEF TrustedIsSound

\* A writer that commits has the set of all queries to collect, so it will find
\* every listed key; the keys still being listed are excused.
LEMMA CommitAndInvalidateInv ==
  ASSUME CacheInv, NEW r \in Requests, NEW o \in Owners, CommitAndInvalidate(r, o)
  PROVE  CacheInv'
<1> USE DEF CacheInv
<1>0. PICK active \in BOOLEAN, heirs \in HeirLists :
        /\ Rewritten(o, active, heirs)
        /\ \E named \in {heirs, {}} :
             request' = [Disturbed EXCEPT ![r] =
               IF enabled
               THEN [at |-> "collect", indices |-> plan_index_keys(o, named),
                     todo |-> plan_index_keys(o, named), found |-> {}]
               ELSE Idle]
  BY DEF CommitAndInvalidate
<1>1. PICK named \in {heirs, {}} :
        request' = [Disturbed EXCEPT ![r] =
          IF enabled
          THEN [at |-> "collect", indices |-> plan_index_keys(o, named),
                todo |-> plan_index_keys(o, named), found |-> {}]
          ELSE Idle]
  BY <1>0
<1> DEFINE p == IF enabled
                THEN [at |-> "collect", indices |-> plan_index_keys(o, named),
                      todo |-> plan_index_keys(o, named), found |-> {}]
                ELSE Idle
<1>2. /\ request[r] = Idle /\ excused' = excused \cup HalfIndexed
      /\ UNCHANGED <<asked, enabled, cache, index, faults>>
  BY DEF CommitAndInvalidate
<1>3. plan_index_keys(o, named) \subseteq PlanIndices /\ All \in plan_index_keys(o, named)
  <2>1. named \in HeirLists \cup {{}}
    OBVIOUS
  <2>2. plan_index_keys(o, named) \subseteq PlanIndices
    BY <2>1 DEF PlanIndices
  <2> QED BY <2>2 DEF plan_index_keys, All
<1>4. /\ p \in Progress
      /\ enabled => p.at = "collect" /\ All \in p.todo
      /\ ~enabled => p = Idle
  BY <1>3 DEF Progress, Collecting
<1>5. p.at # "store"
  BY <1>4 DEF Idle
<1> HIDE DEF p
<1>6. request[r].at = "idle"
  BY <1>2 DEF Idle
<1>7. /\ request' \in [Requests -> Progress]
      /\ request'[r] = p
      /\ \A w \in Requests \ {r} : request'[w] = Disturbed[w]
  BY <1>1, <1>4, DisturbedFacts DEF CacheTypeOK, p
<1>8. \A w \in Requests \ {r} :
        /\ request[w].at = "store" => request'[w].at = "store" /\ request'[w].raced
        /\ request[w].at # "store" => request'[w] = request[w]
  BY <1>7, DisturbedFacts DEF CacheTypeOK
<1>9. CacheTypeOK'
  <2>1. heirs \subseteq Filters
    BY CacheAssumption
  <2>2. plan[o] \in PlanRow
    BY DEF CacheTypeOK
  <2>3. [version |-> plan[o].version + 1, active |-> active, heirs |-> heirs] \in PlanRow
    BY <2>1, <2>2 DEF PlanRow
  <2>4. plan' \in [Owners -> PlanRow]
    BY <1>0, <2>3 DEF Rewritten, CacheTypeOK
  <2> QED BY <1>2, <1>7, <2>4 DEF CacheTypeOK
<1>10. UnracedIsFresh'
  BY <1>5, <1>7, <1>8 DEF UnracedIsFresh
<1>11. DisabledIsEmpty'
  <2>1. SUFFICES ASSUME ~enabled
                 PROVE  /\ \A k \in Keys : ~Cached(k)'
                        /\ \A w \in Requests : request'[w] = Idle
    BY <1>2 DEF DisabledIsEmpty
  <2>2. \A k \in Keys : ~Cached(k)'
    BY <1>2, <2>1 DEF DisabledIsEmpty, Cached
  <2>3. \A w \in Requests : request'[w] = Idle
    BY <1>4, <1>7, <1>8, <2>1 DEF DisabledIsEmpty, Idle
  <2> QED BY <2>2, <2>3
<1>12. ASSUME NEW k \in PlanKeys, Trusted(k)' PROVE Sound(k)'
  <2>1. k \in Keys
    BY PlanKeyFacts
  <2>2. Trusted(k) /\ k \notin HalfIndexed
    BY <1>2, <1>12 DEF Trusted, Cached
  <2>3. Sound(k) /\ enabled
    BY <2>1, <2>2 DEF TrustedIsSound, Trusted, DisabledIsEmpty
  <2>4. ~Unlisted(k)
    BY <2>1, <2>2 DEF Unlisted, HalfIndexed, Trusted
  <2>5. Listed(k)' = Listed(k)
    BY <1>2 DEF Listed
  <2>6. Condemned(k) => Condemned(k)'
    BY <1>6, <1>8 DEF Condemned
  <2>7. ~Quiet'
    BY <1>4, <1>7, <2>3 DEF Quiet, Invalidates
  <2>8. Reached(k)'
    BY <1>4, <1>7, <1>8, <2>3, <2>6 DEF Sound, Reached
  <2> QED BY <2>3, <2>4, <2>5, <2>6, <2>7, <2>8 DEF Sound
<1> QED BY <1>9, <1>10, <1>11, <1>12 DEF TrustedIsSound

\* A step that marks every answer in hand and excuses every entry keeps the
\* invariant: update_plan and an invalidation cut short.
LEMMA ExcusedInv ==
  ASSUME CacheInv,
         plan' \in [Owners -> PlanRow],
         UNCHANGED <<asked, enabled, cache, index>>,
         excused' = excused \cup {k \in Keys : Cached(k)},
         \/ request' = Disturbed
         \/ \E r \in Requests : request' = [Disturbed EXCEPT ![r] = Idle]
  PROVE  CacheInv'
<1> USE DEF CacheInv
<1>1. request' \in [Requests -> Progress]
  BY DisturbedFacts DEF CacheTypeOK, Progress
<1>2. \A w \in Requests :
        /\ request'[w].at = "store" => request'[w].raced
        /\ request[w] = Idle => request'[w] = Idle
  <2>1. Idle.at = "idle"
    BY DEF Idle
  <2>2. \A w \in Requests : request'[w] = Idle \/ request'[w] = Disturbed[w]
    BY DisturbedFacts DEF CacheTypeOK
  <2>3. \A w \in Requests : /\ Disturbed[w].at = "store" => Disturbed[w].raced
                            /\ request[w] = Idle => Disturbed[w] = Idle
    BY <2>1, DisturbedFacts DEF CacheTypeOK
  <2> QED BY <2>1, <2>2, <2>3
<1>3. CacheTypeOK'
  BY <1>1 DEF CacheTypeOK
<1>4. UnracedIsFresh'
  BY <1>2 DEF UnracedIsFresh
<1>5. DisabledIsEmpty'
  BY <1>2 DEF DisabledIsEmpty, Cached
<1>6. TrustedIsSound'
  BY PlanKeyFacts DEF TrustedIsSound, Trusted, Cached
<1> QED BY <1>3, <1>4, <1>5, <1>6

\* The two steps of ExcusedInv.
LEMMA update_planInv ==
  ASSUME CacheInv, NEW o \in Owners, update_plan(o)
  PROVE  CacheInv'
<1>1. PICK heirs \in HeirLists : Rewritten(o, plan[o].active, heirs)
  BY DEF update_plan
<1>2. heirs \subseteq Filters /\ plan[o] \in PlanRow /\ plan \in [Owners -> PlanRow]
  BY CacheAssumption DEF CacheInv, CacheTypeOK
<1>3. [version |-> plan[o].version + 1, active |-> plan[o].active, heirs |-> heirs] \in PlanRow
  BY <1>2 DEF PlanRow
<1>4. plan' \in [Owners -> PlanRow]
  BY <1>1, <1>2, <1>3 DEF Rewritten
<1> QED BY <1>4, ExcusedInv DEF update_plan

LEMMA AbandonInvalidationInv ==
  ASSUME CacheInv, NEW r \in Requests, AbandonInvalidation(r)
  PROVE  CacheInv'
  BY ExcusedInv DEF AbandonInvalidation, CacheInv, CacheTypeOK

\* An invalidation that has read the set of all queries has found every listed
\* key, or another one is about to delete it.
LEMMA CollectMembersInv ==
  ASSUME CacheInv, NEW r \in Requests, NEW i \in Indices, CollectMembers(r, i)
  PROVE  CacheInv'
<1> USE DEF CacheInv
<1> DEFINE found == request[r].found \cup index[i]
           rest  == request[r].todo \ {i}
           p == IF rest = {} THEN [at |-> "delete", todo |-> found \cup request[r].indices]
                ELSE [request[r] EXCEPT !.todo = rest, !.found = found]
<1>1. /\ request[r].at = "collect" /\ i \in request[r].todo
      /\ request' = [request EXCEPT ![r] = p]
      /\ UNCHANGED <<asked, enabled, plan, cache, index, excused, faults>>
  BY DEF CollectMembers
<1>2. request[r] \in Collecting /\ index[i] \in SUBSET Keys
  BY <1>1, ProgressShapes DEF CacheTypeOK
<1>3. found \in SUBSET Keys /\ rest \in SUBSET PlanIndices
  BY <1>2 DEF Collecting
<1>4. /\ p \in Progress
      /\ rest = {} => p.at = "delete" /\ found \subseteq p.todo
      /\ rest # {} => p.at = "collect" /\ p.todo = rest /\ p.found = found
  <2> HIDE DEF found, rest
  <2> QED BY <1>2, <1>3 DEF Progress, Collecting, Deleting
<1> HIDE DEF p
<1>5. /\ request'[r] = p
      /\ \A w \in Requests \ {r} : request'[w] = request[w]
  BY <1>1 DEF CacheTypeOK
<1>6. CacheTypeOK'
  BY <1>1, <1>4 DEF CacheTypeOK
<1>7. ~Quiet /\ ~Quiet'
  BY <1>1, <1>4, <1>5 DEF Quiet, Invalidates
<1>8. UnracedIsFresh'
  BY <1>4, <1>5, <1>7 DEF UnracedIsFresh
<1>9. DisabledIsEmpty'
  BY <1>1 DEF DisabledIsEmpty, Idle
<1>10. ASSUME NEW k \in PlanKeys, Trusted(k)' PROVE Sound(k)'
  <2>1. Sound(k)
    BY <1>1, <1>10 DEF Trusted, Cached, TrustedIsSound
  <2>2. Listed(k)' = Listed(k)
    BY <1>1 DEF Listed
  <2>3. Condemned(k) => Condemned(k)'
    BY <1>1, <1>5 DEF Condemned
  <2>4. Listed(k) \/ Condemned(k)
    BY <1>7, <2>1 DEF Sound
  <2>5. Condemned(k) \/ k \in found \/ All \in rest
    BY <1>1, <2>1, <2>4 DEF Sound, Reached, Listed
  <2> HIDE DEF found, rest
  <2>6. rest = {} => Condemned(k)'
    BY <1>4, <1>5, <2>3, <2>5 DEF Condemned
  <2>7. Reached(k)'
    <3>1. SUFFICES ASSUME NEW w \in Requests
                   PROVE  /\ request'[w].at = "collect" =>
                               All \in request'[w].todo \/ k \in request'[w].found \/ Condemned(k)'
                          /\ request'[w].at = "delete" => Condemned(k)'
      BY DEF Reached
    <3>2. CASE w = r
      BY <1>4, <1>5, <2>3, <2>5, <2>6, <3>2
    <3>3. CASE w # r
      BY <1>5, <2>1, <2>3, <3>3 DEF Sound, Reached
    <3> QED BY <3>2, <3>3
  <2> QED BY <1>7, <2>2, <2>3, <2>4, <2>7 DEF Sound
<1> QED BY <1>6, <1>8, <1>9, <1>10 DEF TrustedIsSound

\* A key that stays after a DEL was to be deleted by the same invalidation, which
\* then goes on, or by another one.
LEMMA DeleteKeyInv ==
  ASSUME CacheInv, NEW r \in Requests, NEW d \in Keys \cup Indices, DeleteKey(r, d)
  PROVE  CacheInv'
<1> USE DEF CacheInv
<1> DEFINE p == IF request[r].todo = {d} THEN Idle
                ELSE [request[r] EXCEPT !.todo = request[r].todo \ {d}]
<1>1. /\ request[r].at = "delete" /\ d \in request[r].todo
      /\ cache' = [c \in Keys |-> IF c = d THEN NoEntry ELSE cache[c]]
      /\ index' = [i \in Indices |-> IF i = d THEN {} ELSE index[i]]
      /\ request' = [request EXCEPT ![r] = p]
      /\ excused' = excused \ {d}
      /\ UNCHANGED <<asked, enabled, plan, faults>>
  BY DEF DeleteKey
<1>2. request[r] \in Deleting
  BY <1>1, ProgressShapes DEF CacheTypeOK
<1>3. /\ p \in Progress
      /\ p.at \in {"idle", "delete"}
      /\ request[r].todo # {d} => p.at = "delete" /\ p.todo = request[r].todo \ {d}
  BY <1>2 DEF Progress, Deleting, Idle
<1> HIDE DEF p
<1>4. /\ request'[r] = p
      /\ \A w \in Requests \ {r} : request'[w] = request[w]
  BY <1>1 DEF CacheTypeOK
<1>5. CacheTypeOK'
  <2>1. cache' \in [Keys -> CacheEntry]
    BY <1>1, NoEntryType DEF CacheTypeOK
  <2>2. index' \in [Indices -> SUBSET Keys]
    BY <1>1 DEF CacheTypeOK
  <2> QED BY <1>1, <1>3, <2>1, <2>2 DEF CacheTypeOK
<1>6. ~Quiet
  BY <1>1 DEF Quiet, Invalidates
<1>7. UnracedIsFresh'
  BY <1>3, <1>4, <1>6 DEF UnracedIsFresh
<1>8. DisabledIsEmpty'
  BY <1>1 DEF DisabledIsEmpty, Idle
<1>9. ASSUME NEW k \in PlanKeys, Trusted(k)' PROVE Sound(k)'
  <2>1. k \in Keys
    BY PlanKeyFacts
  <2>2. k # d /\ Trusted(k)
    BY <1>1, <1>9, <2>1 DEF Trusted, Cached
  <2>3. Condemned(k)
    BY <1>1, <2>2 DEF TrustedIsSound, Sound, Reached
  <2>4. PICK w \in Requests : request[w].at = "delete" /\ k \in request[w].todo
    BY <2>3 DEF Condemned
  <2>5. request'[w].at = "delete" /\ k \in request'[w].todo
    <3>1. CASE w = r
      BY <1>3, <1>4, <2>2, <2>4, <3>1
    <3>2. CASE w # r
      BY <1>4, <2>4, <3>2
    <3> QED BY <3>1, <3>2
  <2>6. Condemned(k)' /\ ~Quiet'
    BY <2>5 DEF Condemned, Quiet, Invalidates
  <2> QED BY <2>6 DEF Sound, Reached
<1> QED BY <1>5, <1>7, <1>8, <1>9 DEF TrustedIsSound

\* An entry that expired is no longer trusted; the others are as they were.
LEMMA ExpireInv ==
  ASSUME CacheInv, NEW c \in Keys, Expire(c)
  PROVE  CacheInv'
<1> USE DEF CacheInv
<1>1. /\ cache' = [cache EXCEPT ![c] = NoEntry] /\ excused' = excused \ {c}
      /\ UNCHANGED <<asked, enabled, plan, index, request, faults>>
  BY DEF Expire
<1>2. /\ cache'[c] = NoEntry
      /\ \A k \in Keys \ {c} : cache'[k] = cache[k]
  BY <1>1 DEF CacheTypeOK
<1>3. CacheTypeOK'
  BY <1>1, NoEntryType DEF CacheTypeOK
<1>4. Quiet' = Quiet /\ \A any : Answer(any)' = Answer(any)
  BY <1>1 DEF Quiet, Invalidates, Answer, Selected
<1>5. UnracedIsFresh' /\ DisabledIsEmpty'
  BY <1>1, <1>2, <1>4 DEF UnracedIsFresh, DisabledIsEmpty, Cached
<1>6. ASSUME NEW k \in PlanKeys, Trusted(k)' PROVE Sound(k)'
  <2>1. k \in Keys
    BY PlanKeyFacts
  <2>2. k # c /\ cache'[k] = cache[k] /\ Trusted(k)
    BY <1>1, <1>2, <1>6, <2>1 DEF Trusted, Cached
  <2>3. Sound(k)
    BY <2>2 DEF TrustedIsSound
  <2>4. Condemned(k)' = Condemned(k) /\ Unlisted(k)' = Unlisted(k)
    BY <1>1 DEF Condemned, Unlisted
  <2>5. Listed(k)' = Listed(k) /\ Reached(k)' = Reached(k)
    BY <1>1, <2>2, <2>4 DEF Listed, Reached
  <2> QED BY <1>4, <2>2, <2>3, <2>4, <2>5 DEF Sound
<1> QED BY <1>3, <1>5, <1>6 DEF TrustedIsSound

\* The set of all queries outlives the entries it covers.
LEMMA ExpireIndexInv ==
  ASSUME CacheInv, NEW i \in Indices, ExpireIndex(i)
  PROVE  CacheInv'
<1> USE DEF CacheInv
<1>1. /\ index' = [index EXCEPT ![i] = {}]
      /\ \A k \in Keys : i \notin cache[k].covered
      /\ UNCHANGED <<asked, enabled, plan, cache, request, excused, faults>>
  BY DEF ExpireIndex
<1>2. CacheTypeOK'
  BY <1>1 DEF CacheTypeOK
<1>3. Quiet' = Quiet /\ \A any : Answer(any)' = Answer(any)
  BY <1>1 DEF Quiet, Invalidates, Answer, Selected
<1>4. UnracedIsFresh' /\ DisabledIsEmpty'
  BY <1>1, <1>3 DEF UnracedIsFresh, DisabledIsEmpty, Cached
<1>5. ASSUME NEW k \in PlanKeys, Trusted(k)' PROVE Sound(k)'
  <2>1. k \in Keys /\ All \in Indices
    BY PlanKeyFacts
  <2>2. Sound(k)
    BY <1>1, <1>5 DEF TrustedIsSound, Trusted, Cached
  <2>3. Condemned(k)' = Condemned(k) /\ Unlisted(k)' = Unlisted(k)
    BY <1>1 DEF Condemned, Unlisted
  <2>4. Listed(k) => Listed(k)'
    BY <1>1, <2>1 DEF Listed, CacheTypeOK
  <2>5. Reached(k)' = Reached(k)
    BY <1>1, <2>3 DEF Reached
  <2> QED BY <1>1, <1>3, <2>2, <2>3, <2>4, <2>5 DEF Sound
<1> QED BY <1>2, <1>4, <1>5 DEF TrustedIsSound

(***************************************************************************)
(* The theorems.                                                           *)
(***************************************************************************)

\* Every step keeps the invariant.
LEMMA NextInv == CacheInv /\ [CacheNext]_cacheVars => CacheInv'
<1> SUFFICES ASSUME CacheInv, [CacheNext]_cacheVars PROVE CacheInv'
  OBVIOUS
<1>1. ASSUME NEW r \in Requests, NEW q \in asked, get_plans(r, q) \/ get_plan_statistics(r, q)
      PROVE  CacheInv'
  BY <1>1, ReadTablesInv DEF get_plans, get_plan_statistics
<1>2. ASSUME NEW r \in Requests, NEW o \in Owners, CommitAndInvalidate(r, o)
      PROVE  CacheInv'
  BY <1>2, CommitAndInvalidateInv
<1>3. ASSUME NEW r \in Requests, ServeStep(r)
      PROVE  CacheInv'
  BY <1>3, set_plansInv, IndexEntryInv, CollectMembersInv, DeleteKeyInv DEF ServeStep
<1>4. ASSUME NEW r \in Requests, AbandonFill(r) \/ AbandonInvalidation(r)
      PROVE  CacheInv'
  BY <1>4, AbandonFillInv, AbandonInvalidationInv
<1>5. ASSUME NEW o \in Owners, update_plan(o)
      PROVE  CacheInv'
  BY <1>5, update_planInv
<1>6. ASSUME NEW k \in Keys, Expire(k)
      PROVE  CacheInv'
  BY <1>6, ExpireInv
<1>7. ASSUME NEW i \in Indices, ExpireIndex(i)
      PROVE  CacheInv'
  BY <1>7, ExpireIndexInv
<1>8. CASE UNCHANGED cacheVars
  BY <1>8, StutterInv
<1> QED BY <1>1, <1>2, <1>3, <1>4, <1>5, <1>6, <1>7, <1>8 DEF CacheNext

\* The invariant holds throughout.
THEOREM CacheInvariant == CacheSpec => []CacheInv
<1>1. CacheInit => CacheInv
  BY InitInv
<1>2. CacheInv /\ [CacheNext]_cacheVars => CacheInv'
  BY NextInv
<1> QED BY <1>1, <1>2, PTL DEF CacheSpec

\* However many requests fill and invalidate at once, an outdated plan list is
\* being deleted, unless its fill overlapped a write, an error cut a fill or an
\* invalidation short, or update_plan made it so (set_plans and
\* invalidate_queries of cache.rs).
THEOREM OutdatedExplained == CacheSpec => []OutdatedIsExplained
<1>1. CacheInv => OutdatedIsExplained
  <2>1. SUFFICES ASSUME CacheInv, NEW k \in PlanKeys, Outdated(k), k \notin excused
                 PROVE  Doomed(k)
    BY DEF OutdatedIsExplained, PlanKeys
  <2>2. Sound(k)
    BY <2>1 DEF CacheInv, TrustedIsSound, Trusted, Outdated
  <2>3. PICK w \in Requests : Invalidates(w)
    BY <2>1, <2>2 DEF Outdated, Sound, Quiet
  <2>4. \/ Condemned(k)
        \/ request[w].at = "collect" /\ (All \in request[w].todo \/ k \in request[w].found)
    BY <2>2, <2>3 DEF Sound, Reached, Invalidates
  <2> QED BY <2>4 DEF Condemned, Doomed, All
<1> QED BY <1>1, CacheInvariant, PTL
=============================================================================
