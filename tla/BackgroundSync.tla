---------------------------- MODULE BackgroundSync ----------------------------
(***************************************************************************)
(* The upkeep of the model profiles: background_sync_task                  *)
(* (router/lifecycle.py), refresh_models and reprofile_models              *)
(* (router/router.py) and profile_all_models (router/profiler.py), run by  *)
(* the background task and, at the same time, by administrators and by     *)
(* retries of the dead letter queue.                                       *)
(*                                                                         *)
(* The calls await the list of models, each of the profilings and the      *)
(* synchronisation of benchmarks; at each of these the others run, models  *)
(* come and go, and the process may end.  From the start of a profiling to *)
(* the writing of its result nothing is read or written that another call  *)
(* could see; the unloading after it only takes time.  What a profile says *)
(* is left out, but for whether it has a measured VRAM requirement.        *)
(***************************************************************************)
EXTENDS Profiler, FiniteSets

CONSTANTS
    Models,
    External,        \* models named after an external provider, not profiled
    Excluded,        \* models that the filters of the settings exclude
    Inventories,     \* the sets of models the backend may have
    Loop,            \* background_sync_task
    Others,          \* other calls: administrators, retries
    Measurable,      \* models whose VRAM the backend or the driver reports
    ParallelCount,   \* profile_parallel_count
    Cleanup,         \* model_cleanup_enabled
    AutoProfile,     \* model_auto_profile_enabled
    Polling          \* model_polling_enabled

Callers == {Loop} \cup Others

ASSUME SyncAssumption ==
    /\ UNION {External, Excluded, Measurable} \subseteq Models
    /\ Inventories \subseteq SUBSET Models
    /\ Loop \notin Others
    /\ ParallelCount \in Nat \ {0}
    /\ {Cleanup, AutoProfile, Polling} \subseteq BOOLEAN

VARIABLES
    listed,    \* the models the backend has
    settled,   \* models no longer come and go, nor do listings, the
               \* database (but for saving) or the process fail
    client,    \* the cache of the backend client: a list, and whether it is young
    engine,    \* the young list in the router engine, {} for none
    profiles,  \* the table of profiles
    call,      \* call[c]: what c does, and the await at which it is
    work,      \* work[c][m]: how far c is with model m
    stage,     \* the part of its iteration the background task is in
    syncDue    \* a day has passed since the last row of benchmark_sync

vars == <<listed, settled, client, engine, profiles, call, work, stage, syncDue>>

NoProfile == [exists |-> FALSE, active |-> FALSE, measured |-> FALSE]

NeverListed == [models |-> {}, young |-> FALSE]

Idle == [op |-> "none", at |-> "idle"]

NoWork == [m \in Models |-> "none"]

Init ==
    /\ listed \in Inventories
    /\ settled = FALSE
    /\ client = NeverListed
    /\ engine = {}
    /\ profiles = [m \in Models |-> NoProfile]
    /\ call = [c \in Callers |-> Idle]
    /\ work = [c \in Callers |-> NoWork]
    /\ stage = "refresh"
    /\ syncDue = TRUE

Profiled == {m \in Models : profiles[m].exists}

At(c, place) == call[c].at = place

With(c, phase) == {m \in Models : work[c][m] = phase}

-------------------------------------------------------------------------------
(* Lists                                                                   *)

\* client.list_models() returns names: the young list, a new one, or, when the
\* backend fails, the old list or none.
ListModels(names) ==
    \/ /\ client.young
       /\ names = client.models
       /\ UNCHANGED client
    \/ /\ ~client.young
       /\ names = listed
       /\ client' = [models |-> listed, young |-> TRUE]
    \/ /\ ~client.young /\ ~settled
       /\ names \in {client.models, {}}
       /\ UNCHANGED client

\* The lists are kept for seconds.
ClientListAges ==
    /\ client.young
    /\ client' = [client EXCEPT !.young = FALSE]
    /\ UNCHANGED <<listed, settled, engine, profiles, call, work, stage, syncDue>>

EngineListAges ==
    /\ engine # {}
    /\ engine' = {}
    /\ UNCHANGED <<listed, settled, client, profiles, call, work, stage, syncDue>>

-------------------------------------------------------------------------------
(* Calls                                                                   *)

\* A retry or an administrator, perhaps through the engine, profiles the new models,
\* or an administrator has all of them profiled; a refresh begins with RefreshLists.
Ask(c, op) ==
    /\ c \in Others
    /\ call[c] = Idle
    /\ call' = [call EXCEPT ![c] = [op |-> op, at |-> "listing"]]
    /\ UNCHANGED <<listed, settled, client, engine, profiles, work, stage, syncDue>>

\* The background task goes on after refresh_models, and sleeps after profiling.
StageAfter(c) ==
    CASE c # Loop                 -> stage
      [] call[c].op = "refresh"   -> "sync"
      [] call[c].op # "refresh"   -> "asleep"

Return(c) ==
    /\ call' = [call EXCEPT ![c] = Idle]
    /\ work' = [work EXCEPT ![c] = NoWork]
    /\ stage' = StageAfter(c)

\* refresh_models, on the names listed: who is there is active, and who is not
\* is inactive, if missing models are to be marked.
Availability(names, cleanup) ==
    [m \in Models |->
        IF m \in Profiled /\ m \in names THEN [profiles[m] EXCEPT !.active = TRUE]
        ELSE IF cleanup                  THEN [profiles[m] EXCEPT !.active = FALSE]
        ELSE profiles[m]]

\* The setting decides, but for an administrator, who may say otherwise.
Cleanups(c) == IF c = Loop THEN {Cleanup} ELSE BOOLEAN

\* New models are profiled before refresh_models returns.
Refresh(c, names) ==
    /\ \E cleanup \in Cleanups(c) : profiles' = Availability(names, cleanup)
    /\ IF AutoProfile /\ names \ Profiled # {}
       THEN /\ call' = [call EXCEPT ![c] = [op |-> "refresh", at |-> "listing"]]
            /\ UNCHANGED <<work, stage>>
       ELSE Return(c)

\* Mutant of MayRefresh: the background task polls only when polling is disabled.
MayRefreshUnpolled(c) ==
    /\ call[c] = Idle
    /\ c = Loop => stage = "refresh" /\ ~Polling

MayRefresh(c) ==
    /\ call[c] = Idle
    /\ c = Loop => stage = "refresh" /\ Polling

RefreshFromCache(c) ==
    /\ MayRefresh(c)
    /\ engine # {}
    /\ Refresh(c, engine)
    /\ UNCHANGED <<listed, settled, client, engine, syncDue>>

RefreshLists(c) ==
    /\ MayRefresh(c)
    /\ engine = {}
    /\ call' = [call EXCEPT ![c] = [op |-> "refresh", at |-> "fetching"]]
    /\ UNCHANGED <<listed, settled, client, engine, profiles, work, stage, syncDue>>

RefreshListed(c, names) ==
    /\ At(c, "fetching")
    /\ ListModels(names)
    /\ engine' = names
    /\ Refresh(c, names)
    /\ UNCHANGED <<listed, settled, syncDue>>

\* The database fails, after the listing: the background task swallows it and goes on.
DatabaseFails(c, names) ==
    /\ At(c, "fetching") \/ At(c, "listing")
    /\ ~settled
    /\ ListModels(names)
    /\ engine' = IF At(c, "fetching") THEN names ELSE engine
    /\ Return(c)
    /\ UNCHANGED <<listed, settled, profiles, syncDue>>

\* The listing itself raises, as when the circuit of the backend is open.
ListingFails(c) ==
    /\ At(c, "fetching") \/ At(c, "listing")
    /\ ~client.young /\ ~settled
    /\ Return(c)
    /\ UNCHANGED <<listed, settled, client, engine, profiles, syncDue>>

-------------------------------------------------------------------------------
(* profile_all_models                                                      *)

Forced(c) == call[c].op = "reprofile"

\* Without force only models that have no profile yet.
Todo(c, names) ==
    LET local == (names \ Excluded) \ External
    IN  IF Forced(c) THEN local ELSE local \ Profiled

\* No model is left by the filters, which is an error, or none has to be profiled.
NothingToProfile(c, names) ==
    /\ At(c, "listing")
    /\ ListModels(names)
    /\ Todo(c, names) = {}
    /\ Return(c)
    /\ UNCHANGED <<listed, settled, engine, profiles, syncDue>>

ProfilingBegins(c, names) ==
    /\ At(c, "listing")
    /\ ListModels(names)
    /\ Todo(c, names) # {}
    /\ work' = [work EXCEPT ![c] =
                   [m \in Models |-> IF m \in Todo(c, names) THEN "todo" ELSE "none"]]
    /\ call' = [call EXCEPT ![c].at = "profiling"]
    /\ UNCHANGED <<listed, settled, engine, profiles, stage, syncDue>>

Advance(c, m, phase) == work' = [work EXCEPT ![c][m] = phase]

\* What has been profiled is needed again only at the end of reprofile_models, which
\* administrators call, with force or without.
Done(c) == IF c = Loop \/ call[c].op = "refresh" THEN "none" ELSE "done"

\* Mutant of StartModel: the slots of the semaphore are not counted.
StartModelAtOnce(c, m) ==
    /\ At(c, "profiling")
    /\ work[c][m] = "todo"
    /\ Advance(c, m, "running")
    /\ UNCHANGED <<listed, settled, client, engine, profiles, call, stage, syncDue>>

\* One after the other, or as many at a time as the semaphore has slots.
StartModel(c, m) ==
    /\ At(c, "profiling")
    /\ work[c][m] = "todo"
    /\ Cardinality(With(c, "running")) < ParallelCount
    /\ Advance(c, m, "running")
    /\ UNCHANGED <<listed, settled, client, engine, profiles, call, stage, syncDue>>

\* Mutant of Saved: what has not been measured this time is written over.
SavedAnew(m, measured) == [exists |-> TRUE, active |-> TRUE, measured |-> measured]

\* _save_profile keeps an earlier measurement if there is no new one.
Saved(m, measured) ==
    [exists |-> TRUE, active |-> TRUE, measured |-> profiles[m].measured \/ measured]

\* profile_model: a model that passes the screening is tested and perhaps measured,
\* one that does not gets a minimal profile.
SaveProfile(c, m) ==
    /\ work[c][m] = "running"
    /\ \E measured \in BOOLEAN :
           /\ measured => m \in Measurable
           /\ profiles' = [profiles EXCEPT ![m] = Saved(m, measured)]
    /\ Advance(c, m, Done(c))
    /\ UNCHANGED <<listed, settled, client, engine, call, stage, syncDue>>

\* The profile cannot be written: the model still counts as profiled.
SaveFails(c, m) ==
    /\ work[c][m] = "running"
    /\ Advance(c, m, Done(c))
    /\ UNCHANGED <<listed, settled, client, engine, profiles, call, stage, syncDue>>

\* The profiler itself raises; the other models go on.
ModelFails(c, m) ==
    /\ work[c][m] = "running"
    /\ Advance(c, m, "none")
    /\ UNCHANGED <<listed, settled, client, engine, profiles, call, stage, syncDue>>

\* The engine's reprofile_models marks what has been profiled active, as the saving
\* has done, however long ago that was.
Finish(c) ==
    /\ At(c, "profiling")
    /\ With(c, "todo") = {} /\ With(c, "running") = {}
    /\ \E marked \in {{}, With(c, "done") \cap Profiled} :
           profiles' = [m \in Models |->
               IF m \in marked THEN [profiles[m] EXCEPT !.active = TRUE] ELSE profiles[m]]
    /\ Return(c)
    /\ UNCHANGED <<listed, settled, client, engine, syncDue>>

-------------------------------------------------------------------------------
(* background_sync_task                                                    *)

GoTo(place) ==
    /\ stage' = place
    /\ UNCHANGED <<listed, settled, client, engine, profiles, call, work>>

\* Polling is disabled, or not yet due.
LoopSkipsRefresh ==
    /\ stage = "refresh" /\ call[Loop] = Idle
    /\ GoTo("sync")
    /\ UNCHANGED syncDue

LoopSkipsSync ==
    /\ stage = "sync" /\ ~syncDue
    /\ GoTo("profile")
    /\ UNCHANGED syncDue

\* The row is written first, with the status "running": one that fails later waits
\* for another day.
LoopSyncs ==
    /\ stage = "sync" /\ syncDue
    /\ GoTo("profile")
    /\ syncDue' = FALSE

\* Whatever fails, the rest of the iteration is left out.
LoopSyncFails ==
    /\ stage = "sync" /\ syncDue
    /\ GoTo("asleep")
    /\ syncDue' \in BOOLEAN

\* So it is if the time of the last one cannot be read.
LastSyncUnknown ==
    /\ stage = "sync" /\ ~syncDue /\ ~settled
    /\ GoTo("asleep")
    /\ UNCHANGED syncDue

LoopProfiles ==
    /\ stage = "profile" /\ call[Loop] = Idle
    /\ stage' = IF AutoProfile THEN "profile" ELSE "asleep"
    /\ call' = IF AutoProfile
               THEN [call EXCEPT ![Loop] = [op |-> "profile", at |-> "listing"]]
               ELSE call
    /\ UNCHANGED <<listed, settled, client, engine, profiles, work, syncDue>>

LoopWakes ==
    /\ stage = "asleep"
    /\ GoTo("refresh")
    /\ UNCHANGED syncDue

-------------------------------------------------------------------------------
(* The environment                                                         *)

DayPasses ==
    /\ ~syncDue /\ stage = "asleep"
    /\ syncDue' = TRUE
    /\ UNCHANGED <<listed, settled, client, engine, profiles, call, work, stage>>

ModelsChange(models) ==
    /\ ~settled
    /\ listed' = models
    /\ UNCHANGED <<settled, client, engine, profiles, call, work, stage, syncDue>>

\* The request timeout ends the call of an administrator at any await.
Cancel(c) ==
    /\ c \in Others
    /\ call[c] # Idle
    /\ Return(c)
    /\ UNCHANGED <<listed, settled, client, engine, profiles, syncDue>>

Restart ==
    /\ ~settled
    /\ client' = NeverListed
    /\ engine' = {}
    /\ call' = [c \in Callers |-> Idle]
    /\ work' = [c \in Callers |-> NoWork]
    /\ stage' = "refresh"
    /\ UNCHANGED <<listed, settled, profiles, syncDue>>

Settle ==
    /\ ~settled
    /\ settled' = TRUE
    /\ UNCHANGED <<listed, client, engine, profiles, call, work, stage, syncDue>>

-------------------------------------------------------------------------------
Lists == Inventories \cup {{}}

Saves(m) == \E c \in Callers : SaveProfile(c, m)

Step(c) ==
    \/ RefreshFromCache(c)
    \/ RefreshLists(c)
    \/ ListingFails(c)
    \/ \E names \in Lists :
           \/ RefreshListed(c, names)
           \/ NothingToProfile(c, names)
           \/ ProfilingBegins(c, names)
           \/ DatabaseFails(c, names)
    \/ \E m \in Models : StartModel(c, m) \/ SaveFails(c, m) \/ ModelFails(c, m)
    \/ Finish(c)

LoopStep ==
    \/ LoopSkipsRefresh
    \/ LoopSkipsSync
    \/ LoopSyncs
    \/ LoopSyncFails
    \/ LastSyncUnknown
    \/ LoopProfiles
    \/ LoopWakes

Next ==
    \/ \E c \in Callers : Step(c) \/ Cancel(c)
    \/ \E c \in Callers, op \in {"profile", "reprofile"} : Ask(c, op)
    \/ \E m \in Models : Saves(m)
    \/ LoopStep
    \/ \E models \in Inventories : ModelsChange(models)
    \/ ClientListAges \/ EngineListAges \/ DayPasses \/ Restart \/ Settle

Spec == Init /\ [][Next]_vars

\* The event loop runs the background task, every await of which has a timeout;
\* lists grow old; polling falls due; and no model's profiling fails every time.
Fairness ==
    /\ WF_vars(LoopStep \/ Step(Loop))
    /\ WF_vars(ClientListAges) /\ WF_vars(EngineListAges)
    /\ SF_vars(RefreshLists(Loop) \/ RefreshFromCache(Loop))
    /\ \A m \in Models : SF_vars(Saves(m))

FairSpec == Spec /\ Fairness

-------------------------------------------------------------------------------
(* Properties                                                              *)

TypeOK ==
    /\ listed \in Inventories
    /\ {settled, syncDue} \subseteq BOOLEAN
    /\ client \in [models : Lists, young : BOOLEAN]
    /\ engine \in Lists
    /\ profiles \in [Models -> [exists : BOOLEAN, active : BOOLEAN, measured : BOOLEAN]]
    /\ call \in [Callers ->
                   [op : {"none", "refresh", "profile", "reprofile"},
                    at : {"idle", "fetching", "listing", "profiling"}]]
    /\ work \in [Callers -> [Models -> {"none", "todo", "running", "done"}]]
    /\ stage \in {"refresh", "sync", "profile", "asleep"}
    /\ \A c \in Callers : Cardinality(With(c, "running")) <= ParallelCount

\* A measured VRAM requirement is never lost again, whichever calls profile the model
\* at the same time or later, and however it fares in their screenings.
MeasurementsAreKept ==
    [][\A m \in Models : profiles[m].measured => profiles'[m].measured]_vars

\* Once the environment has settled, the table catches up, whatever failed before,
\* was cancelled or is profiled by others: every model that is listed, is local and
\* passes the filters has a profile, and exactly the listed ones are active.
DatabaseCatchesUp ==
    <>[](settled =>
           /\ AutoProfile => (listed \ Excluded) \ External \subseteq Profiled
           /\ \A m \in Profiled \cap listed : profiles[m].active
           /\ Cleanup => \A m \in Profiled \ listed : ~profiles[m].active)
===============================================================================
