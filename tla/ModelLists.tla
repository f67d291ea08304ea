------------------------------ MODULE ModelLists ------------------------------
(***************************************************************************)
(* The lists of models the router goes by: the cache of the backend client *)
(* (list_models, router/backends/ollama.py), the one of the application    *)
(* (get_available_models_with_cache, router/state.py) and the one of the   *)
(* router engine (select_model and refresh_models, router/router.py).      *)
(*                                                                         *)
(* The last two ask the client when they have nothing young to serve.  All *)
(* read the clock before they ask and stamp what they get with that time.  *)
(* While a call waits for the backend others are made, models come and go, *)
(* and a later call may be answered before.  A tick is ten seconds.        *)
(***************************************************************************)
EXTENDS Integers, FiniteSets

CONSTANTS
    Inventories,   \* the sets of models the backend may have
    Askers,        \* concurrent calls
    ClientTTL,     \* models_cache_ttl, in ticks
    AppTTL,        \* MODEL_LIST_CACHE_TTL
    EngineTTL,     \* _models_cache_ttl
    AppTimeout     \* the timeout of list_models_with_timeout

ASSUME ListsAssumption ==
    /\ Inventories # {}
    /\ {ClientTTL, AppTTL, EngineTTL, AppTimeout} \subseteq Nat \ {0}

VARIABLES
    listed,   \* the models the backend has
    client,   \* _models_cache of the client
    app,      \* model_list_cache of the application
    engine,   \* _models_cache of the router engine
    asker,    \* asker[a]: the call a is in
    quiet     \* history: since when no model has come or gone and no call failed

vars == <<listed, client, app, engine, asker, quiet>>

Callers == {"app", "engine", "other"}

Longest(m, n) == IF m < n THEN n ELSE m

\* Beyond this age no list is served.
OldAge == Longest(ClientTTL, Longest(AppTTL, EngineTTL))

Settled == ClientTTL + Longest(AppTTL, EngineTTL)

Lists == Inventories \cup {{}}

Kept == [models : Lists, age : 0 .. OldAge]

\* None is like an empty list that is too old.
Nothing == [models |-> {}, age |-> OldAge]

Idle == [at |-> "idle", for |-> "other", since |-> 0, answer |-> {}]

Init ==
    /\ listed \in Inventories
    /\ client = Nothing
    /\ app = Nothing
    /\ engine = Nothing
    /\ asker = [a \in Askers |-> Idle]
    /\ quiet = 0

-------------------------------------------------------------------------------
(* What is served without asking                                           *)

\* The client serves an empty list too.
ClientServes == client.age < ClientTTL

\* The others ask again for an empty one.
AppServes == app.models # {} /\ app.age < AppTTL
EngineServes == engine.models # {} /\ engine.age < EngineTTL

Serves(for) ==
    CASE for = "app"    -> AppServes
      [] for = "engine" -> EngineServes
      [] for = "other"  -> FALSE

\* The engine drops its list before it asks.
Dropped(for) == IF for = "engine" THEN Nothing ELSE engine

\* Mutant of Stamped: the first tick is counted twice.
StampedTwice(models, since) == [models |-> models, age |-> IF since = 0 THEN 0 ELSE since + 1]

\* Mutant of Stamped: the time is read when the list has come.
StampedLate(models, since) == [models |-> models, age |-> 0]

\* What is kept is as old as the call that has brought it.
Stamped(models, since) == [models |-> models, age |-> since]

\* The list goes to whoever has asked.
Deliver(for, list) ==
    /\ app' = IF for = "app" THEN list ELSE app
    /\ engine' = IF for = "engine" THEN list ELSE Dropped(for)

-------------------------------------------------------------------------------
(* Calls: by the application, the router engine, or others, which keep no  *)
(* list: profile_all_models and GET /v1/models.                            *)

AskYoungClient(for) ==
    /\ ~Serves(for)
    /\ ClientServes
    /\ Deliver(for, Stamped(client.models, 0))
    /\ UNCHANGED <<listed, client, asker, quiet>>

Ask(a, for) ==
    /\ asker[a] = Idle
    /\ ~Serves(for)
    /\ ~ClientServes
    /\ asker' = [asker EXCEPT ![a] = [Idle EXCEPT !.at = "asking", !.for = for]]
    /\ engine' = Dropped(for)
    /\ UNCHANGED <<listed, client, app, quiet>>

\* The backend answers, at the last of the attempts.
Answer(a) ==
    /\ asker[a].at = "asking"
    /\ asker' = [asker EXCEPT ![a].at = "answered", ![a].answer = listed]
    /\ UNCHANGED <<listed, client, app, engine, quiet>>

Return(a) == asker' = [asker EXCEPT ![a] = Idle]

Receive(a) ==
    LET list == Stamped(asker[a].answer, asker[a].since)
    IN  /\ asker[a].at = "answered"
        /\ client' = list
        /\ Deliver(asker[a].for, list)
        /\ Return(a)
        /\ UNCHANGED <<listed, quiet>>

\* An HTTP error: the client returns what it has, however old, or nothing.
HTTPError(a) ==
    /\ asker[a].at = "asking"
    /\ Deliver(asker[a].for, Stamped(client.models, asker[a].since))
    /\ Return(a)
    /\ quiet' = 0
    /\ UNCHANGED <<listed, client>>

\* Another exception, as when the circuit is open: the application keeps an empty
\* list, and the engine none.
Raises(a) ==
    /\ asker[a].at = "asking"
    /\ Deliver(asker[a].for, Nothing)
    /\ Return(a)
    /\ UNCHANGED <<listed, client, quiet>>

\* list_models_with_timeout: the call is abandoned, and an empty list kept.
TimesOut(a) ==
    /\ asker[a].at # "idle" /\ asker[a].for = "app"
    /\ asker[a].since >= AppTimeout
    /\ app' = Stamped({}, asker[a].since)
    /\ Return(a)
    /\ UNCHANGED <<listed, client, engine, quiet>>

\* The request that has asked is cancelled.
Cancel(a) ==
    /\ asker[a].at # "idle"
    /\ Return(a)
    /\ UNCHANGED <<listed, client, app, engine, quiet>>

-------------------------------------------------------------------------------
(* The environment                                                         *)

ModelsChange(models) ==
    /\ models # listed
    /\ listed' = models
    /\ quiet' = 0
    /\ UNCHANGED <<client, app, engine, asker>>

OneMore(n, bound) == IF n < bound THEN n + 1 ELSE n

Older(list) == [list EXCEPT !.age = OneMore(@, OldAge)]

Tick ==
    /\ client' = Older(client)
    /\ app' = Older(app)
    /\ engine' = Older(engine)
    /\ asker' = [a \in Askers |->
                    IF asker[a].at = "idle" THEN Idle
                    ELSE [asker[a] EXCEPT !.since = OneMore(@, OldAge)]]
    /\ quiet' = OneMore(quiet, Settled)
    /\ UNCHANGED listed

Restart ==
    /\ client' = Nothing
    /\ app' = Nothing
    /\ engine' = Nothing
    /\ asker' = [a \in Askers |-> Idle]
    /\ UNCHANGED <<listed, quiet>>

Next ==
    \/ \E for \in Callers : AskYoungClient(for) \/ \E a \in Askers : Ask(a, for)
    \/ \E a \in Askers :
           Answer(a) \/ Receive(a) \/ HTTPError(a) \/ Raises(a) \/ TimesOut(a) \/ Cancel(a)
    \/ \E models \in Inventories : ModelsChange(models)
    \/ Tick
    \/ Restart

Spec == Init /\ [][Next]_vars

-------------------------------------------------------------------------------
(* Properties                                                              *)

\* Nothing is kept but what the backend may have had, and ages are within their bounds.
TypeOK ==
    /\ listed \in Inventories
    /\ {client, app, engine} \subseteq Kept
    /\ asker \in [Askers -> [at : {"idle", "asking", "answered"}, for : Callers,
                             since : 0 .. OldAge, answer : Lists]]
    /\ quiet \in 0 .. Settled

\* Whatever is served catches up with the backend: once no model has come or gone and
\* no call failed for the lifetimes of the two caches a list may have passed through,
\* it is what the backend has, however long calls take and in whatever order they end.
ListsCatchUp ==
    /\ quiet >= ClientTTL /\ ClientServes => client.models = listed
    /\ quiet >= ClientTTL + AppTTL /\ AppServes => app.models = listed
    /\ quiet >= ClientTTL + EngineTTL /\ EngineServes => engine.models = listed
===============================================================================
