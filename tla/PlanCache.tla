----------------------------- MODULE PlanCache -----------------------------
(***************************************************************************)
(* The cache of plan lists and plan statistics in Redis                    *)
(* (backend/src/cache.rs), between the handlers that read it (get_plans    *)
(* and get_plan_statistics) and those that empty it after they wrote the   *)
(* plans table.  Every Redis command and every database statement is a     *)
(* step of its own, and requests of any number of backend processes        *)
(* interleave between them.                                                *)
(*                                                                         *)
(* A reader that missed reads the table, stores the answer (SETEX), and    *)
(* then adds its key to the index sets of its filters, the set of all      *)
(* queries included.  A writer commits, collects the members of the index  *)
(* sets its plan concerns, and then deletes those keys and the sets, in    *)
(* whatever order a HashSet yields them.  Nothing locks a key, so a fill   *)
(* that overlaps an invalidation may leave an old answer behind, or a      *)
(* fresh one that no index set knows of.  The history variable excused     *)
(* holds the keys whose entry may be old for such a reason.                *)
(***************************************************************************)
EXTENDS Naturals, FiniteSets

CONSTANTS
  Owners,         \* wallet addresses that own a plan
  HeirLists,      \* the sets of beneficiaries a plan may name
  Filters,        \* texts a query may carry as its owner or its beneficiary
  NormalForm,     \* a filter's text, trimmed and in lower case
  Statistics,     \* stands for a query of the plan statistics
  QueryMixes,     \* the sets of queries that the clients of a behaviour may make
  Requests,       \* handlers that can be in progress at once
  MaxWrites,      \* bound on the writes of one plan
  MaxFaults       \* bound on crashes, Redis errors and failed lookups

\* Each filter of a plan query is a text or "absent".
PlanQueries == (UNION QueryMixes) \ {Statistics}

ASSUME CacheAssumption ==
  /\ PlanQueries \subseteq [owner : Filters \cup {"absent"},
                            beneficiary : Filters \cup {"absent"}]
  /\ NormalForm \in [Filters -> Filters]
  /\ "absent" \notin Filters
  /\ Owners \subseteq Filters
  /\ \A heirs \in HeirLists : heirs \subseteq Filters
  /\ MaxWrites \in Nat
  /\ MaxFaults \in Nat

VARIABLES
  asked,          \* the queries clients make in this behaviour
  enabled,        \* whether main built a Redis cache or a disabled one
  plan,           \* the plans table: the plan of each owner
  cache,          \* the string keys of Redis and what they hold
  index,          \* the set keys of Redis and their members
  request,        \* where each handler is
  excused,        \* history: keys whose entry may be out of date
  faults

cacheVars == <<asked, enabled, plan, cache, index, request, excused, faults>>

-----------------------------------------------------------------------------
(* Keys and answers.                                                       *)

normalize_filter_value(text) == NormalForm[text]

normalize_optional_filter(filter) ==
  IF filter = "absent" THEN "all" ELSE normalize_filter_value(filter)

cache_key(q) ==
  <<"query", normalize_optional_filter(q.owner), normalize_optional_filter(q.beneficiary)>>

all_queries_index_key == <<"all">>

owner_index_key(owner) == <<"owner", normalize_filter_value(owner)>>

beneficiary_index_key(beneficiary) == <<"beneficiary", normalize_filter_value(beneficiary)>>

owner_beneficiary_index_key(owner, beneficiary) ==
  <<"pair", normalize_filter_value(owner), normalize_filter_value(beneficiary)>>

FilterIndices(q) ==
  {owner_index_key(o) : o \in {q.owner} \ {"absent"}}
    \cup {beneficiary_index_key(b) : b \in {q.beneficiary} \ {"absent"}}
    \cup {owner_beneficiary_index_key(o, b) :
            o \in {q.owner} \ {"absent"}, b \in {q.beneficiary} \ {"absent"}}

\* The slip of leaving out the set of all queries.
filter_index_keys_only(q) == FilterIndices(q)

query_index_keys(q) == {all_queries_index_key} \cup FilterIndices(q)

\* The sets that invalidate_queries empties for a plan.
plan_index_keys(owner, beneficiaries) ==
  {all_queries_index_key, owner_index_key(owner)}
    \cup {beneficiary_index_key(b) : b \in beneficiaries}
    \cup {owner_beneficiary_index_key(owner, b) : b \in beneficiaries}

\* The key of the statistics is in no index set.
plan_statistics_cache_key == <<"statistics">>

KeyOf(q) == IF q = Statistics THEN plan_statistics_cache_key ELSE cache_key(q)

IndicesOf(q) == IF q = Statistics THEN {} ELSE query_index_keys(q)

Keys == {KeyOf(q) : q \in UNION QueryMixes}

Indices == (UNION {query_index_keys(q) : q \in PlanQueries})
             \cup (UNION {plan_index_keys(o, h) : o \in Owners, h \in HeirLists})

NoPlan == [version |-> 0, active |-> FALSE, heirs |-> {}]

\* The SQL compares the filters as they are written; a plan that meets either
\* of two filters is selected.
Selected(q) ==
  {o \in Owners :
     /\ plan[o] # NoPlan
     /\ \/ q = Statistics
        \/ q.owner = "absent" /\ q.beneficiary = "absent"
        \/ q.owner = o
        \/ q.beneficiary \in plan[o].heirs}

Answer(q) == [o \in Selected(q) |-> plan[o]]

-----------------------------------------------------------------------------
(* The handlers' progress.                                                 *)

Idle == [at |-> "idle"]

Fills(r) == request[r].at \in {"store", "index"}

Invalidates(r) == request[r].at \in {"collect", "delete"}

NoEntry == [query |-> Statistics, answer |-> [o \in {} |-> NoPlan],
            volatile |-> FALSE, covered |-> {}]

Cached(k) == cache[k] # NoEntry

CacheInit ==
  /\ asked \in QueryMixes
  /\ enabled \in BOOLEAN
  /\ plan = [o \in Owners |-> NoPlan]
  /\ cache = [k \in Keys |-> NoEntry]
  /\ index = [i \in Indices |-> {}]
  /\ request = [r \in Requests |-> Idle]
  /\ excused = {}
  /\ faults = 0

Fault == faults < MaxFaults /\ faults' = faults + 1

\* The entries whose fill has not finished indexing them.
HalfIndexed == {k \in Keys : Cached(k) /\ \E r \in Requests :
                  request[r].at = "index" /\ KeyOf(request[r].query) = k}

\* The answers in hand, marked as overlapped by a write or an invalidation.
Disturbed == [r \in Requests |->
                IF request[r].at = "store" THEN [request[r] EXCEPT !.raced = TRUE]
                                           ELSE request[r]]

-----------------------------------------------------------------------------
(* get_plans and get_plan_statistics.                                      *)

\* The lookup changes nothing, so the step is the reading of the tables that
\* follows it: the key was not there when it was looked up (it may be by now),
\* or Redis failed.  A hit ends the request without a step, and so does
\* everything with the cache disabled.  The plans and their beneficiaries are
\* read by several SELECTs; a write between two of them makes the answer no
\* newer than one just after this step does.
ReadTables(r, q) ==
  /\ request[r] = Idle
  /\ enabled
  /\ request' = [request EXCEPT ![r] =
                   [at |-> "store", query |-> q, answer |-> Answer(q),
                    raced |-> \E w \in Requests : Invalidates(w)]]
  /\ UNCHANGED <<asked, enabled, plan, cache, index, excused, faults>>

\* Only a list with an active plan in it is stored.
get_plans(r, q) ==
  /\ q # Statistics
  /\ \E o \in Selected(q) : plan[o].active
  /\ ReadTables(r, q)

get_plan_statistics(r, q) == q = Statistics /\ ReadTables(r, q)

\* The slip of SET for SETEX.
EntryForGood(q, answer) ==
  [query |-> q, answer |-> answer, volatile |-> FALSE, covered |-> {}]

\* SETEX: the entry has a time to live, and no index set covers it yet.
Entry(q, answer) == [query |-> q, answer |-> answer, volatile |-> TRUE, covered |-> {}]

set_plans(r) ==
  /\ request[r].at = "store"
  /\ LET q == request[r].query IN
       /\ cache' = [cache EXCEPT ![KeyOf(q)] = Entry(q, request[r].answer)]
       /\ request' = [request EXCEPT ![r] =
                        IF IndicesOf(q) = {} THEN Idle
                        ELSE [at |-> "index", query |-> q, todo |-> IndicesOf(q)]]
       /\ excused' = IF request[r].raced THEN excused \cup {KeyOf(q)}
                                         ELSE excused \ {KeyOf(q)}
  /\ UNCHANGED <<asked, enabled, plan, index, faults>>

\* SADD, and EXPIRE with the entry's own time to live.
IndexEntry(r, i) ==
  /\ request[r].at = "index"
  /\ i \in request[r].todo
  /\ LET k == KeyOf(request[r].query) IN
       /\ index' = [index EXCEPT ![i] = @ \cup {k}]
       /\ cache' = [cache EXCEPT ![k] =
                      IF Cached(k) THEN [@ EXCEPT !.covered = cache[k].covered \cup {i}] ELSE @]
       /\ request' = [request EXCEPT ![r] =
                        IF @.todo = {i} THEN Idle
                        ELSE [@ EXCEPT !.todo = request[r].todo \ {i}]]
  /\ UNCHANGED <<asked, enabled, plan, excused, faults>>

\* An error or a crash ends a fill; EXPIRE may fail after its SADD.
AbandonFill(r) ==
  /\ Fills(r)
  /\ Fault
  /\ request' = [request EXCEPT ![r] = Idle]
  /\ excused' = IF request[r].at = "index"
                THEN excused \cup ({KeyOf(request[r].query)} \cap HalfIndexed) ELSE excused
  /\ \/ UNCHANGED index
     \/ /\ request[r].at = "index"
        /\ \E i \in request[r].todo :
             index' = [index EXCEPT ![i] = @ \cup {KeyOf(request[r].query)}]
  /\ UNCHANGED <<asked, enabled, plan, cache>>

-----------------------------------------------------------------------------
(* The writers.                                                            *)

\* What a write may make of a plan: create_plan, then pings, triggers and
\* claims, and at last a payout or a cancellation.
Rewritten(o, active, heirs) ==
  /\ plan[o].version < MaxWrites
  /\ active => (plan[o].active \/ plan[o] = NoPlan)
  /\ plan' = [plan EXCEPT ![o] =
                [version |-> @.version + 1, active |-> active, heirs |-> heirs]]

\* A write that empties the cache once it is committed, with the
\* beneficiaries it could load (none when that SELECT failed).
CommitAndInvalidate(r, o) ==
  /\ request[r] = Idle
  /\ \E active \in BOOLEAN, heirs \in HeirLists :
       /\ plan[o] = NoPlan \/ heirs = plan[o].heirs
       /\ plan[o] = NoPlan => active
       /\ Rewritten(o, active, heirs)
       /\ \E named \in {heirs, {}} :
            request' = [Disturbed EXCEPT ![r] =
              IF enabled
              THEN [at |-> "collect", indices |-> plan_index_keys(o, named),
                    todo |-> plan_index_keys(o, named), found |-> {}]
              ELSE Idle]
  /\ excused' = excused \cup HalfIndexed
  /\ UNCHANGED <<asked, enabled, cache, index, faults>>

\* update_plan, and the watchdog's claim and failure marks, write the plan
\* and leave the cache alone.
update_plan(o) ==
  /\ plan[o] # NoPlan
  /\ \E heirs \in HeirLists : Rewritten(o, plan[o].active, heirs)
  /\ request' = Disturbed
  /\ excused' = excused \cup {k \in Keys : Cached(k)}
  /\ UNCHANGED <<asked, enabled, cache, index, faults>>

\* SMEMBERS of one index set.
CollectMembers(r, i) ==
  /\ request[r].at = "collect"
  /\ i \in request[r].todo
  /\ LET found == request[r].found \cup index[i]
         rest  == request[r].todo \ {i} IN
       request' = [request EXCEPT ![r] =
         IF rest = {} THEN [at |-> "delete", todo |-> found \cup @.indices]
                      ELSE [@ EXCEPT !.todo = rest, !.found = found]]
  /\ UNCHANGED <<asked, enabled, plan, cache, index, excused, faults>>

\* DEL of a cached answer or of an index set.
DeleteKey(r, k) ==
  /\ request[r].at = "delete"
  /\ k \in request[r].todo
  /\ cache' = [c \in Keys |-> IF c = k THEN NoEntry ELSE cache[c]]
  /\ index' = [i \in Indices |-> IF i = k THEN {} ELSE index[i]]
  /\ request' = [request EXCEPT ![r] =
                   IF @.todo = {k} THEN Idle
                   ELSE [@ EXCEPT !.todo = request[r].todo \ {k}]]
  /\ excused' = excused \ {k}
  /\ UNCHANGED <<asked, enabled, plan, faults>>

\* An error of Redis ends the invalidation (it is logged), and so does a crash.
AbandonInvalidation(r) ==
  /\ Invalidates(r)
  /\ Fault
  /\ request' = [Disturbed EXCEPT ![r] = Idle]
  /\ excused' = excused \cup {k \in Keys : Cached(k)}
  /\ UNCHANGED <<asked, enabled, plan, cache, index>>

-----------------------------------------------------------------------------
(* Redis drops what has lived its time.                                    *)

Expire(k) ==
  /\ Cached(k)
  /\ cache[k].volatile
  /\ cache' = [cache EXCEPT ![k] = NoEntry]
  /\ excused' = excused \ {k}
  /\ UNCHANGED <<asked, enabled, plan, index, request, faults>>

\* Each SADD gives the set the full time again, so it outlives every entry
\* it has covered.
ExpireIndex(i) ==
  /\ index[i] # {}
  /\ \A k \in Keys : i \notin cache[k].covered
  /\ index' = [index EXCEPT ![i] = {}]
  /\ UNCHANGED <<asked, enabled, plan, cache, request, excused, faults>>

-----------------------------------------------------------------------------
ServeStep(r) ==
  \/ set_plans(r)
  \/ \E i \in Indices : IndexEntry(r, i) \/ CollectMembers(r, i)
  \/ \E k \in Keys \cup Indices : DeleteKey(r, k)

CacheNext ==
  \/ \E r \in Requests :
       \/ \E q \in asked : get_plans(r, q) \/ get_plan_statistics(r, q)
       \/ \E o \in Owners : CommitAndInvalidate(r, o)
       \/ ServeStep(r)
       \/ AbandonFill(r)
       \/ AbandonInvalidation(r)
  \/ \E o \in Owners : update_plan(o)
  \/ \E k \in Keys : Expire(k)
  \/ \E i \in Indices : ExpireIndex(i)

CacheSpec == CacheInit /\ [][CacheNext]_cacheVars

\* Redis drops an expired key, whatever the requests do.
FairCacheSpec == CacheSpec /\ \A k \in Keys : WF_cacheVars(Expire(k))

-----------------------------------------------------------------------------
(* Properties.                                                             *)

Outdated(k) == Cached(k) /\ cache[k].answer # Answer(cache[k].query)

\* Some invalidation in progress will delete the key.
Doomed(k) ==
  \E w \in Requests :
    \/ /\ request[w].at = "collect"
       /\ all_queries_index_key \in request[w].todo \/ k \in request[w].found
    \/ /\ request[w].at = "delete"
       /\ k \in request[w].todo

\* An outdated plan list is about to be deleted by a writer that is still
\* invalidating, unless its fill overlapped a write, an error cut short a fill
\* or an invalidation, or update_plan, which empties nothing, made it so:
\* a fill and an invalidation that did not meet never miss each other, however
\* the SETEX, SADD, SMEMBERS, DEL and expiries of others interleave
\* (set_plans and invalidate_queries of cache.rs).
OutdatedIsExplained ==
  \A k \in {cache_key(q) : q \in PlanQueries} :
    Outdated(k) => k \in excused \/ Doomed(k)

\* Whatever left it there, and for the statistics no write deletes, an
\* outdated answer goes away: its entry expires (SETEX in set_plans and
\* set_raw), and a request that read the tables before the write stores its
\* old answer at most once more.
OutdatedGoesAway == \A k \in Keys : Outdated(k) ~> ~ Outdated(k)
=============================================================================
