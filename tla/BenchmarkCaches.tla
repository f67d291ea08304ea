---------------------------- MODULE BenchmarkCaches ----------------------------
(***************************************************************************)
(* The benchmarks a request is routed by, and the caches they pass through *)
(* on their way: get_benchmarks_for_models (router/benchmark_db.py) over   *)
(* router.db, ProviderDB.get_benchmarks_for_models (router/provider_db.py) *)
(* over provider.db, get_benchmarks_for_models_with_external               *)
(* (router/router.py) over both; the synchronisation that writes router.db *)
(* (router/benchmark_sync.py), the download that replaces provider.db (see *)
(* ProviderFile), and the invalidations after them.                        *)
(*                                                                         *)
(* Only the synchronisation awaits anything, so a request is one step.  An *)
(* answer gives every model a row of router.db, a row of provider.db, a    *)
(* row that was in one of them and has been replaced since, or none.       *)
(* Times are ages in ticks: one that has reached its limit stands for an   *)
(* entry that is not there, or was there too long ago to matter.           *)
(***************************************************************************)
EXTENDS Integers, FiniteSets

CONSTANTS
    Models,
    Queries,        \* the sets of names that requests ask for
    Benchmarked,    \* the models the synchronisation may find benchmarks of
    InProvider,     \* the models provider.db has a row of
    Malformed,      \* the names that provider.db is never asked for
    BenchmarkTTL,   \* _BENCHMARK_CACHE_TTL
    ProviderTTL,    \* _PROVIDER_DB_CACHE_TTL
    MergedTTL,      \* _MERGED_BENCHMARKS_CACHE_TTL
    StaleMax,       \* db_stale_cache_max_age_seconds
    Window          \* db_slow_fallback_window_seconds

ASSUME CachesAssumption ==
    /\ Queries \subseteq SUBSET Models
    /\ UNION {Benchmarked, InProvider, Malformed} \subseteq Models
    /\ BenchmarkTTL \in Nat \ {0} /\ ProviderTTL \in Nat \ {0}
    /\ MergedTTL \in Nat \ {0} /\ StaleMax \in Nat /\ Window \in Nat

VARIABLES
    table,      \* router.db: the models with a row
    cached,     \* _benchmarks_for_models_cache: [age, rows] of every query
    available,  \* whether provider.db is there
    announced,  \* of router.db and provider.db: the caches were told of the last change
    provider,   \* _provider_cache: [age, rows], and good, the age of the last write
    degraded,   \* for how long provider.db is degraded
    merged,     \* _MERGED_BENCHMARKS_CACHE: [age, rows] of every query
    quiet       \* for how long router.db and provider.db neither changed nor failed

vars == <<table, cached, available, announced, provider, degraded, merged, quiet>>

RowKinds == {"none", "router", "old router", "provider", "old provider"}

NoRows == [m \in Models |-> "none"]

\* A query of a database, or an entry of a cache, has the rows of some models.
Only(models, rows) == [m \in Models |-> IF m \in models THEN rows[m] ELSE "none"]
RowsOf(models, source) == [m \in Models |-> IF m \in models THEN source ELSE "none"]
Found(rows) == {m \in Models : rows[m] # "none"}

\* What is left of rows when those of some models have been replaced.
Outdated(rows, models, source) ==
    [m \in Models |->
        IF m \in models /\ rows[m] = source
        THEN IF source = "router" THEN "old router" ELSE "old provider"
        ELSE rows[m]]

\* The caches without an entry.
Forgotten(ttl) == [q \in Queries |-> [age |-> ttl, rows |-> NoRows]]
NothingRemembered == [age |-> ProviderTTL + 1, rows |-> NoRows, good |-> StaleMax + 1]

RouterQuiet == BenchmarkTTL + MergedTTL
ProviderQuiet == Window + MergedTTL

Init ==
    /\ table = {}
    /\ cached = Forgotten(BenchmarkTTL)
    /\ available = FALSE
    /\ announced = [router |-> TRUE, provider |-> TRUE]
    /\ provider = NothingRemembered
    /\ degraded = 0
    /\ merged = Forgotten(MergedTTL)
    /\ quiet = [router |-> 0, provider |-> 0]

-------------------------------------------------------------------------------
(* A request                                                               *)

\* The outcomes of get_benchmarks_for_models: a query that fails is not cached.
RouterAnswers(q) ==
    IF cached[q].age < BenchmarkTTL
    THEN {[rows |-> cached[q].rows, entry |-> cached[q], failed |-> FALSE]}
    ELSE LET rows == RowsOf(q \cap table, "router")
         IN  {[rows |-> rows, entry |-> [age |-> 0, rows |-> rows], failed |-> FALSE],
              [rows |-> NoRows, entry |-> cached[q], failed |-> TRUE]}

InMemory == IF provider.age <= ProviderTTL THEN provider.rows ELSE NoRows

\* _get_cached_all_benchmarks_if_fresh
Fallback ==
    IF StaleMax > 0 /\ provider.good > StaleMax THEN NoRows ELSE InMemory

\* A query adds what it finds to the cache, old rows and all, for another while.
Remembered(found) ==
    IF found = {} THEN provider
    ELSE [age  |-> 0,
          rows |-> [m \in Models |-> IF m \in found THEN "provider" ELSE InMemory[m]],
          good |-> 0]

\* The outcomes of ProviderDB.get_benchmarks_for_models.
Untroubled(rows, entry) ==
    [rows |-> rows, entry |-> entry, degraded |-> degraded, trouble |-> FALSE]

\* Mutant of Troubled: every failure adds to the time.
TroubledLonger(rows, entry) ==
    [rows |-> rows, entry |-> entry, degraded |-> degraded + Window, trouble |-> TRUE]

Troubled(rows, entry) ==
    [rows |-> rows, entry |-> entry, degraded |-> Window, trouble |-> TRUE]

ProviderAnswers(q) ==
    LET known == q \cap Found(InMemory)
        found == (q \ known) \cap InProvider
        rows == [m \in Models |-> IF m \in found THEN "provider"
                                  ELSE IF m \in known THEN InMemory[m] ELSE "none"]
    IN  IF ~available \/ q \cap Malformed # {} THEN {Untroubled(NoRows, provider)}
        ELSE IF known = q THEN {Untroubled(rows, provider)}
        ELSE IF degraded > 0 /\ q \cap Found(Fallback) # {}
             THEN {Untroubled(Only(q, Fallback), provider)}
        ELSE {Untroubled(rows, Remembered(found)),
              Troubled(rows, Remembered(found)),
              Troubled(Only(q, Fallback), provider)}

\* Rows of router.db take precedence.
Merge(local, external) ==
    [m \in Models |-> IF local[m] # "none" THEN local[m] ELSE external[m]]

Store(q, rows) == merged' = [merged EXCEPT ![q] = [age |-> 0, rows |-> rows]]

\* Another entry may leave the cache of router.db, which is bounded.
Keep(q, entry, evicted) ==
    cached' = [p \in Queries |->
                  IF p = q THEN entry
                  ELSE IF p \in evicted THEN [age |-> BenchmarkTTL, rows |-> NoRows]
                  ELSE cached[p]]

Answer(q) ==
    /\ \E local \in RouterAnswers(q), external \in ProviderAnswers(q),
          evicted \in {{}} \cup {{p} : p \in Queries} :
        /\ Store(q, Merge(local.rows, external.rows))
        /\ Keep(q, local.entry, evicted)
        /\ provider' = external.entry
        /\ degraded' = external.degraded
        /\ quiet' = [router   |-> IF local.failed THEN 0 ELSE quiet.router,
                     provider |-> IF external.trouble THEN 0 ELSE quiet.provider]
    /\ UNCHANGED <<table, available, announced>>

\* Mutant of Ask: an answer from the merged cache renews its time.
AskRenews(q) ==
    IF merged[q].age >= MergedTTL THEN Answer(q)
    ELSE /\ Store(q, merged[q].rows)
         /\ UNCHANGED <<table, cached, available, announced, provider, degraded, quiet>>

\* A request whose models are not in the merged cache; one whose models are
\* takes them from there and changes nothing.
Ask(q) == merged[q].age >= MergedTTL /\ Answer(q)

-------------------------------------------------------------------------------
(* Changes                                                                 *)


Outdate(cache, models, source) ==
    [q \in Queries |-> [cache[q] EXCEPT !.rows = Outdated(@, models, source)]]

\* Mutant of InvalidateCaches: it leaves the cache of provider.db.
InvalidateProvider(loop, models, source) ==
    /\ cached' = Outdate(cached, models, source)
    /\ provider' = IF loop THEN NothingRemembered
                   ELSE [provider EXCEPT !.rows = Outdated(@, models, source)]
    /\ degraded' = IF loop THEN 0 ELSE degraded

\* Rows of some models have been replaced.  The background task calls
\* invalidate_caches, which does not reach the merged cache; nobody else does.
InvalidateCaches(loop, models, source) ==
    /\ cached' = IF loop THEN Forgotten(BenchmarkTTL) ELSE Outdate(cached, models, source)
    /\ provider' = IF loop THEN NothingRemembered
                   ELSE [provider EXCEPT !.rows = Outdated(@, models, source)]
    /\ degraded' = IF loop THEN 0 ELSE degraded

\* The background task, an administrator or a retry has found benchmarks of some
\* models; the merged cache is cleared in any case.
SyncBenchmarks(matched, loop) ==
    /\ table' = table \cup matched
    /\ merged' = Forgotten(MergedTTL)
    /\ InvalidateCaches(loop, matched, "router")
    /\ announced' = [announced EXCEPT !.router = loop]
    /\ quiet' = [quiet EXCEPT !.router = 0]
    /\ UNCHANGED available

\* The background task or a retry has replaced provider.db.
DownloadProviderDB(loop) ==
    /\ available' = TRUE
    /\ merged' = Outdate(merged, Models, "provider")
    /\ InvalidateCaches(loop, Models, "provider")
    /\ announced' = [announced EXCEPT !.provider = loop]
    /\ quiet' = [quiet EXCEPT !.provider = 0]
    /\ UNCHANGED table

\* The process starts again with empty caches.
Restart ==
    /\ cached' = Forgotten(BenchmarkTTL)
    /\ merged' = Forgotten(MergedTTL)
    /\ provider' = NothingRemembered
    /\ degraded' = 0
    /\ UNCHANGED <<table, available, announced, quiet>>

Older(age, limit) == IF age < limit THEN age + 1 ELSE limit

\* An entry whose time is over is as good as gone.
Aged(entry, ttl) ==
    LET age == Older(entry.age, ttl)
    IN  [age |-> age, rows |-> IF age = ttl THEN NoRows ELSE entry.rows]

Tick ==
    /\ cached' = [q \in Queries |-> Aged(cached[q], BenchmarkTTL)]
    /\ merged' = [q \in Queries |-> Aged(merged[q], MergedTTL)]
    /\ provider' = LET entry == Aged([age |-> provider.age, rows |-> provider.rows],
                                     ProviderTTL + 1)
                   IN  [age  |-> entry.age, rows |-> entry.rows,
                        good |-> Older(provider.good, StaleMax + 1)]
    /\ degraded' = IF degraded > 0 THEN degraded - 1 ELSE 0
    /\ quiet' = [router   |-> Older(quiet.router, RouterQuiet),
                 provider |-> Older(quiet.provider, ProviderQuiet)]
    /\ UNCHANGED <<table, available, announced>>

Next ==
    \/ \E q \in Queries : Ask(q)
    \/ \E loop \in BOOLEAN :
           \/ \E matched \in SUBSET Benchmarked : SyncBenchmarks(matched, loop)
           \/ DownloadProviderDB(loop)
    \/ Restart
    \/ Tick

Spec == Init /\ [][Next]_vars

-------------------------------------------------------------------------------
(* Properties                                                              *)

Entries(ttl) == [age : 0 .. ttl, rows : [Models -> RowKinds]]

\* The state is what the code keeps: an entry of every query in the two caches by query,
\* with a row or none for every model, and no age or degraded time beyond its limit.
TypeOK ==
    /\ table \subseteq Models
    /\ cached \in [Queries -> Entries(BenchmarkTTL)]
    /\ merged \in [Queries -> Entries(MergedTTL)]
    /\ available \in BOOLEAN
    /\ announced \in [router : BOOLEAN, provider : BOOLEAN]
    /\ provider \in [age : 0 .. ProviderTTL + 1, rows : [Models -> RowKinds],
                     good : 0 .. StaleMax + 1]
    /\ degraded \in 0 .. Window
    /\ quiet \in [router : 0 .. RouterQuiet, provider : 0 .. ProviderQuiet]

\* Once router.db has neither changed nor failed for six minutes (the time to live of
\* its cache and that of the merged cache, one after the other), whatever entries were
\* kept or evicted, no request is answered without its rows, or with older ones.
RouterRowsCatchUp ==
    quiet.router >= RouterQuiet =>
    \A q \in Queries :
        merged[q].age < MergedTTL => \A m \in q \cap table : merged[q].rows[m] = "router"

\* If the background task downloaded provider.db, and it has not failed or been slow
\* since, then its rows show after five and a half minutes (a degraded window and the
\* time to live of the merged cache) wherever router.db has none.
ProviderRowsCatchUp ==
    (quiet.provider >= ProviderQuiet /\ announced.provider /\ available) =>
    \A q \in Queries :
        (merged[q].age < MergedTTL /\ q \cap Malformed = {}) =>
        \A m \in q \cap InProvider : merged[q].rows[m] \in {"provider", "router", "old router"}

\* Three caches one over the other hide a change of either database for a bounded time.
RowsCatchUp == RouterRowsCatchUp /\ ProviderRowsCatchUp

\* "Invalidate caches to pick up new benchmarks": once the background task has synchronised,
\* no cache has a row of router.db as it was before, and once it has downloaded provider.db,
\* the cache of provider.db has none either.  The merged cache is not cleared after a
\* download: for how long it shows the rows of the file before, RowsCatchUp bounds.
InvalidationReachesCaches ==
    /\ announced.router =>
         \A q \in Queries, m \in Models :
             /\ cached[q].rows[m] # "old router"
             /\ merged[q].rows[m] # "old router"
    /\ announced.provider => \A m \in Models : provider.rows[m] # "old provider"
===============================================================================
