----------------------------- MODULE VRAMManager -----------------------------
(***************************************************************************)
(* router/vram_manager.py: class VRAMManager, as asyncio tasks run it.     *)
(*                                                                         *)
(* A task runs without interruption between two awaits, so each action is  *)
(* the code between an await and the next one.  The awaits are: acquiring  *)
(* self._lock, backend.unload_model and backend.load_model.  At each of    *)
(* them other tasks run, and a task can be cancelled (the request timeout  *)
(* of router/middleware.py, or the shutdown).                              *)
(*                                                                         *)
(* The backend is external: resident is the set of models that really are  *)
(* in VRAM, whatever the manager tracks.                                   *)
(***************************************************************************)
EXTENDS VRAMBudget, SequencesExt

CONSTANTS
    Tasks,        \* asyncio tasks that call the manager: requests, startup
    NoTask,       \* the lock is free
    NoModel,      \* pinned_model is None
    AutoUnload,   \* auto_unload_enabled
    Faults        \* what the environment may do, a subset of FaultKinds

FaultKinds == {"load_raises",   \* backend.load_model raises
               "load_refused",  \* backend.load_model returns False
               "unload_fails",  \* backend.unload_model raises or returns False
               "cancel",        \* a task is cancelled at an await
               "restart"}       \* the router restarts, the backend does not

ASSUME ManagerAssumption ==
    /\ NoTask \notin Tasks
    /\ NoModel \notin Models
    /\ AutoUnload \in BOOLEAN
    /\ Faults \subseteq FaultKinds

VARIABLES
    loaded,      \* self.loaded_models
    pinned,      \* self.pinned_model
    lockHolder,  \* the task inside "async with self._lock"
    waiters,     \* the tasks asyncio.Lock queues, first come first served
    pc,          \* pc[t]: the await at which task t is
    call,        \* call[t]: the arguments of the call t makes
    work,        \* locals of the lock holder: snapshot, needed, freed, victim
    resident     \* external: the models in VRAM

vars == <<loaded, pinned, lockHolder, waiters, pc, call, work, resident>>

NoCall == [op |-> "none", model |-> NoModel, estimate |-> 0, pin |-> FALSE]

NoWork == [snapshot |-> EmptyDict, needed |-> 0, freed |-> 0, victim |-> NoModel]

Init ==
    /\ loaded = EmptyDict
    /\ pinned = NoModel
    /\ lockHolder = NoTask
    /\ waiters = <<>>
    /\ pc = [t \in Tasks |-> "idle"]
    /\ call = [t \in Tasks |-> NoCall]
    /\ work = NoWork
    /\ resident = {}

-------------------------------------------------------------------------------
(* Steps shared by the actions                                             *)

At(t, place) == pc[t] = place

Goto(t, place) == pc' = [pc EXCEPT ![t] = place]

\* The task enters "async with self._lock": it is the first of the queue.
Acquire(t) ==
    /\ At(t, "waiting")
    /\ lockHolder = NoTask
    /\ waiters # <<>>
    /\ Head(waiters) = t
    /\ waiters' = Tail(waiters)

\* Mutant of Return: one exit path leaves the lock locked.
ReturnLocked(t) ==
    /\ Goto(t, "idle")
    /\ call' = [call EXCEPT ![t] = NoCall]
    /\ lockHolder' = t
    /\ work' = NoWork

\* The call ends, normally or with an exception, and the lock is released.
Return(t) ==
    /\ Goto(t, "idle")
    /\ call' = [call EXCEPT ![t] = NoCall]
    /\ lockHolder' = NoTask
    /\ work' = NoWork

\* loaded_models.update(entries of the snapshot that are missing).
Restored(l, snapshot) == Merge(l, snapshot)

\* Mutant of EvictionCandidates: the pinned model can be evicted.
CandidatesWithPinned == IF AutoUnload THEN DOMAIN loaded ELSE {}

\* _free_vram may unload every model but the pinned one; without
\* auto_unload it is not called.
EvictionCandidates == IF AutoUnload THEN DOMAIN loaded \ {pinned} ELSE {}

\* Both strategies sort the candidates by estimate, largest first.
Largest(candidates) ==
    {m \in candidates : \A o \in candidates : loaded[o] <= loaded[m]}

\* await backend.unload_model(m): a failure leaves the model in VRAM.
BackendUnload(m) ==
    \/ resident' = resident \ {m}
    \/ /\ "unload_fails" \in Faults
       /\ UNCHANGED resident

-------------------------------------------------------------------------------
(* Calls                                                                   *)

RequestLoad(t, m, estimate, pin) ==
    /\ At(t, "idle")
    /\ Goto(t, "waiting")
    /\ call' = [call EXCEPT ![t] =
                   [op |-> "load", model |-> m, estimate |-> estimate, pin |-> pin]]
    /\ waiters' = Append(waiters, t)
    /\ UNCHANGED <<loaded, pinned, lockHolder, work, resident>>

RequestUnload(t, m) ==
    /\ At(t, "idle")
    /\ Goto(t, "waiting")
    /\ call' = [call EXCEPT ![t] =
                   [op |-> "unload", model |-> m, estimate |-> 0, pin |-> FALSE]]
    /\ waiters' = Append(waiters, t)
    /\ UNCHANGED <<loaded, pinned, lockHolder, work, resident>>

-------------------------------------------------------------------------------
(* load_model                                                              *)

BeginLoad(t) == Acquire(t) /\ call[t].op = "load"

\* "already loaded": returns without a look at the estimate or at pin.
LoadAlreadyTracked(t) ==
    /\ BeginLoad(t)
    /\ call[t].model \in DOMAIN loaded
    /\ Return(t)
    /\ UNCHANGED <<loaded, pinned, resident>>

\* The code takes its snapshot only before evicting; taken here it equals
\* loaded_models until the call ends, and restoring it changes nothing.
LoadFits(t) ==
    /\ BeginLoad(t)
    /\ call[t].model \notin DOMAIN loaded
    /\ CanLoad(loaded, call[t].estimate)
    /\ Goto(t, "loading")
    /\ lockHolder' = t
    /\ work' = [NoWork EXCEPT !.snapshot = loaded]
    /\ UNCHANGED <<loaded, pinned, call, resident>>

\* Does not fit and nothing can be evicted: VRAMExceededError.
LoadRejected(t) ==
    /\ BeginLoad(t)
    /\ call[t].model \notin DOMAIN loaded
    /\ ~CanLoad(loaded, call[t].estimate)
    /\ EvictionCandidates = {}
    /\ Return(t)
    /\ UNCHANGED <<loaded, pinned, resident>>

\* Mutant of Needed: the operands are swapped, nothing seems to be missing.
NeededSwapped(estimate) == Available(loaded) - estimate

\* Mutant of Needed: only half of what the model lacks is asked for.
NeededHalved(estimate) == (estimate - Available(loaded)) \div 2

\* Mutant of Needed: one unit more than the model lacks.
NeededOneMore(estimate) == estimate - Available(loaded) + 1

Needed(estimate) == estimate - Available(loaded)

\* Does not fit: snapshot, and the first unload of _free_vram.
BeginEviction(t) ==
    /\ BeginLoad(t)
    /\ call[t].model \notin DOMAIN loaded
    /\ ~CanLoad(loaded, call[t].estimate)
    /\ \E victim \in Largest(EvictionCandidates) :
           work' = [snapshot |-> loaded, needed |-> Needed(call[t].estimate),
                    freed |-> 0, victim |-> victim]
    /\ Goto(t, "evicting")
    /\ lockHolder' = t
    /\ UNCHANGED <<loaded, pinned, call, resident>>

-------------------------------------------------------------------------------
(* _free_vram: after an unload                                             *)

\* The victim leaves the tracking whatever the backend answered.
AfterEviction == Without(loaded, {work.victim})

FreedNow == work.freed + loaded[work.victim]

FinishEviction(t) ==
    /\ At(t, "evicting")
    /\ BackendUnload(work.victim)

EvictNext(t) ==
    /\ FinishEviction(t)
    /\ FreedNow < work.needed
    /\ \E victim \in Largest(EvictionCandidates \ {work.victim}) :
           work' = [work EXCEPT !.freed = FreedNow, !.victim = victim]
    /\ loaded' = AfterEviction
    /\ UNCHANGED <<pinned, lockHolder, waiters, pc, call>>

\* Every candidate is gone and it is not enough: restore, VRAMExceededError.
EvictionFallsShort(t) ==
    /\ FinishEviction(t)
    /\ FreedNow < work.needed
    /\ EvictionCandidates \ {work.victim} = {}
    /\ loaded' = Restored(AfterEviction, work.snapshot)
    /\ Return(t)
    /\ UNCHANGED <<pinned, waiters>>

\* Freed enough.  load_model checks again before it calls the backend.
EvictionSuffices(t) ==
    /\ FinishEviction(t)
    /\ FreedNow >= work.needed
    /\ IF CanLoad(AfterEviction, call[t].estimate)
       THEN /\ loaded' = AfterEviction
            /\ Goto(t, "loading")
            /\ work' = [work EXCEPT !.freed = FreedNow, !.victim = NoModel]
            /\ UNCHANGED <<lockHolder, call>>
       ELSE /\ loaded' = Restored(AfterEviction, work.snapshot)
            /\ Return(t)
    /\ UNCHANGED <<pinned, waiters>>

-------------------------------------------------------------------------------
(* load_model: after backend.load_model                                    *)

\* The result of backend.load_model is ignored: False counts as loaded.
LoadDone(t) ==
    /\ At(t, "loading")
    /\ loaded' = Enter(loaded, call[t].model, call[t].estimate)
    /\ pinned' = IF call[t].pin THEN call[t].model ELSE pinned
    /\ \/ resident' = resident \cup {call[t].model}
       \/ /\ "load_refused" \in Faults
          /\ UNCHANGED resident
    /\ Return(t)
    /\ UNCHANGED waiters

LoadRaises(t) ==
    /\ At(t, "loading")
    /\ "load_raises" \in Faults
    /\ loaded' = Restored(loaded, work.snapshot)
    /\ Return(t)
    /\ UNCHANGED <<pinned, waiters, resident>>

-------------------------------------------------------------------------------
(* unload_model                                                            *)

BeginUnload(t) == Acquire(t) /\ call[t].op = "unload"

Unloadable(m) == m \in DOMAIN loaded /\ m # pinned

UnloadSkipped(t) ==
    /\ BeginUnload(t)
    /\ ~Unloadable(call[t].model)
    /\ Return(t)
    /\ UNCHANGED <<loaded, pinned, resident>>

\* Mutant of UnloadStarts: the tracking is dropped before the backend call.
UnloadForgetsFirst(t) ==
    /\ BeginUnload(t)
    /\ Unloadable(call[t].model)
    /\ loaded' = Without(loaded, {call[t].model})
    /\ Goto(t, "unloading")
    /\ lockHolder' = t
    /\ UNCHANGED <<pinned, call, work, resident>>

UnloadStarts(t) ==
    /\ BeginUnload(t)
    /\ Unloadable(call[t].model)
    /\ Goto(t, "unloading")
    /\ lockHolder' = t
    /\ UNCHANGED <<loaded, pinned, call, work, resident>>

UnloadDone(t) ==
    /\ At(t, "unloading")
    /\ BackendUnload(call[t].model)
    /\ loaded' = Without(loaded, {call[t].model})
    /\ Return(t)
    /\ UNCHANGED <<pinned, waiters>>

-------------------------------------------------------------------------------
(* Cancellation and restart                                                *)

\* CancelledError while queued for the lock.
CancelWaiting(t) ==
    /\ At(t, "waiting")
    /\ "cancel" \in Faults
    /\ \E i \in DOMAIN waiters :
           /\ waiters[i] = t
           /\ waiters' = RemoveAt(waiters, i)
    /\ Goto(t, "idle")
    /\ call' = [call EXCEPT ![t] = NoCall]
    /\ UNCHANGED <<loaded, pinned, lockHolder, work, resident>>

\* CancelledError at a call of the backend: no "except Exception" catches it,
\* so nothing is restored.  The request may have reached the backend.
CancelAtBackend(t) ==
    /\ pc[t] \in {"evicting", "loading", "unloading"}
    /\ "cancel" \in Faults
    /\ resident' \in {resident,
                      CASE At(t, "evicting")  -> resident \ {work.victim}
                        [] At(t, "loading")   -> resident \cup {call[t].model}
                        [] At(t, "unloading") -> resident \ {call[t].model}}
    /\ Return(t)
    /\ UNCHANGED <<loaded, pinned, waiters>>

\* A new process: __init__ again, while the backend keeps its models.
Restart ==
    /\ "restart" \in Faults
    /\ loaded' = EmptyDict
    /\ pinned' = NoModel
    /\ lockHolder' = NoTask
    /\ waiters' = <<>>
    /\ pc' = [t \in Tasks |-> "idle"]
    /\ call' = [t \in Tasks |-> NoCall]
    /\ work' = NoWork
    /\ UNCHANGED resident

-------------------------------------------------------------------------------
(* The specification                                                       *)

Request(t) ==
    \E m \in Models :
        \/ \E estimate \in Estimates, pin \in BOOLEAN : RequestLoad(t, m, estimate, pin)
        \/ RequestUnload(t, m)

LoadStep(t) ==
    \/ LoadAlreadyTracked(t)
    \/ LoadFits(t)
    \/ LoadRejected(t)
    \/ BeginEviction(t)
    \/ EvictNext(t)
    \/ EvictionFallsShort(t)
    \/ EvictionSuffices(t)
    \/ LoadDone(t)
    \/ LoadRaises(t)

UnloadStep(t) ==
    \/ UnloadSkipped(t)
    \/ UnloadStarts(t)
    \/ UnloadDone(t)

Cancel(t) == CancelWaiting(t) \/ CancelAtBackend(t)

Next ==
    \/ \E t \in Tasks : Request(t) \/ LoadStep(t) \/ UnloadStep(t) \/ Cancel(t)
    \/ Restart

\* The event loop runs every task that is ready, and the HTTP client of the
\* backend bounds every call with a timeout.
Fairness == \A t \in Tasks : WF_vars(LoadStep(t) \/ UnloadStep(t))

Spec == Init /\ [][Next]_vars

FairSpec == Spec /\ Fairness

-------------------------------------------------------------------------------
(* Properties                                                              *)

TypeOK ==
    /\ loaded \in Dict
    /\ pinned \in Models \cup {NoModel}
    /\ lockHolder \in Tasks \cup {NoTask}
    /\ waiters \in Seq(Tasks)
    /\ pc \in [Tasks -> {"idle", "waiting", "evicting", "loading", "unloading"}]
    /\ call \in [Tasks -> [op : {"none", "load", "unload"},
                           model : Models \cup {NoModel},
                           estimate : Estimates \cup {0}, pin : BOOLEAN]]
    /\ work \in [snapshot : Dict, needed : Nat, freed : Nat,
                 victim : Models \cup {NoModel}]
    /\ resident \subseteq Models

\* The estimates of the tracked models never exceed max_vram minus the
\* fragmentation buffer, whatever fails, is cancelled or interleaves: neither
\* an eviction cut short nor a restored snapshot overbooks the budget.
BudgetRespected == Allocated(loaded) <= Capacity

\* "Enforce pinned model constraint (never unload)": from the moment a model
\* is pinned it stays tracked, through evictions, failed loads and unloads.
PinnedStaysTracked == pinned # NoModel => pinned \in DOMAIN loaded

\* The second can_load of load_model is never what stops a load: when
\* _free_vram returns, what it freed is what the model lacked.
FreeingEnoughIsEnough ==
    [][\A t \in Tasks : At(t, "evicting") /\ EvictionSuffices(t) => pc'[t] = "loading"]_vars

\* Every call of load_model or unload_model ends: the lock is handed on,
\* first come first served, by every path out of it.
EveryCallReturns == \A t \in Tasks : ~At(t, "idle") ~> At(t, "idle")

\* In VRAM without being counted in the budget.
Uncounted(m) == m \in resident /\ m \notin DOMAIN loaded

Unloading(m) ==
    \E t \in Tasks :
        \/ At(t, "evicting") /\ work.victim = m
        \/ At(t, "unloading") /\ call[t].model = m

\* VRAM is occupied without being counted only after a failure: the backend did not
\* unload the model, or a load was cancelled after it had reached the backend, or the
\* router was restarted.  No other order of calls makes the manager lose a model.
LosesTrackOnlyByFailure ==
    [][\A m \in Models : ~Uncounted(m) /\ Uncounted(m)' =>
           \/ Unloading(m)
           \/ \E t \in Tasks : At(t, "loading") /\ call[t].model = m /\ Cancel(t)
           \/ Restart]_vars

-------------------------------------------------------------------------------
(* Refinement: while a load is under way the ledger is still what it was   *)
(* when the load began.                                                    *)

LoadUnderWay == \E t \in Tasks : lockHolder = t /\ pc[t] \in {"evicting", "loading"}

Promise == INSTANCE VRAMLedger WITH
               ledger <- IF LoadUnderWay THEN work.snapshot ELSE loaded,
               Interruptible <- "cancel" \in Faults

\* The manager implements the ledger: loads are all or nothing, evict no
\* more than they need and never the pinned model, and every other call does
\* what it was asked for or nothing, whatever the others do in the meantime.
ImplementsLedger == Promise!Spec
===============================================================================
