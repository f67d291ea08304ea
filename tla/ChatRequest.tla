------------------------------ MODULE ChatRequest ------------------------------
(***************************************************************************)
(* The chat endpoint (router/api/chat.py): concurrent requests that look   *)
(* up the response cache, load models through the VRAM manager, generate,  *)
(* fall back to other models, run tools, and store what they got.          *)
(*                                                                         *)
(* The VRAM manager is its promise, VRAMLedger: a call of a request takes  *)
(* effect, or not, in one step.  Modelled is the router with a VRAM        *)
(* manager; current_loaded_model, which it then only shows on the status   *)
(* page, is left out.  Routing is any choice of a model: see RoutingCache. *)
(***************************************************************************)
EXTENDS ResponseCache

CONSTANTS
    Requests,
    MaxToolCalls,           \* max_tool_calls
    Pinned,                 \* the pinned model, or NoModel
    NoModel,
    EstimateOf,             \* get_model_vram_estimate
    MaxVRAM, FragmentationBuffer

VARIABLES
    req,                    \* for each request its progress
    ledger, pinned, call    \* the VRAM manager

Estimates == {EstimateOf[m] : m \in Models}

VRAM == INSTANCE VRAMLedger WITH Tasks <- Requests, Interruptible <- TRUE

cacheVars == <<responses, rows>>
vramVars  == <<ledger, pinned, call>>
vars      == <<req, responses, rows, ledger, pinned, call>>

ASSUME ChatAssumption ==
    /\ NoModel \notin Models
    /\ Pinned \in Models \cup {NoModel}
    /\ MaxToolCalls \in Nat
    /\ EstimateOf \in [Models -> Nat]

Ended == [pc |-> "ended"]

\* left: the models not yet tried. own, history: this request has loaded the
\* model that it is trying, and has not found it loaded.
ReqType ==
    {Ended} \cup
    [pc : {"load", "generate", "tools", "unload", "stream_load", "stream"},
     key : Keys, model : Models, left : SUBSET Models,
     rounds : 0 .. MaxToolCalls, own : BOOLEAN]

Ends(r) == req' = [req EXCEPT ![r] = Ended]

At(r, pc) == req[r].pc = pc

LoadCall(model) ==
    [op |-> "load", model |-> model, estimate |-> EstimateOf[model], pin |-> FALSE]

UnloadCall(model) ==
    [op |-> "unload", model |-> model, estimate |-> 0, pin |-> FALSE]

Calls(r, new) ==
    /\ call' = [call EXCEPT ![r] = new]
    /\ UNCHANGED <<ledger, pinned>>

(***************************************************************************)
(* The process.  Startup loads the pinned model, if that works, before the *)
(* first request.                                                          *)
(***************************************************************************)
Started ==
    {[ledger |-> VRAM!EmptyDict, pinned |-> NoModel]} \cup
    {[ledger |-> VRAM!Enter(VRAM!EmptyDict, m, EstimateOf[m]), pinned |-> m] :
        m \in {m \in Models \cap {Pinned} : VRAM!CanLoad(VRAM!EmptyDict, EstimateOf[m])}}

Init ==
    /\ ResponseCacheInit
    /\ req = [r \in Requests |-> Ended]
    /\ \E start \in Started : ledger = start.ledger /\ pinned = start.pinned
    /\ call = [r \in Requests |-> VRAM!NoCall]

Restart ==
    /\ LoadFromPersistence
    /\ req' = [r \in Requests |-> Ended]
    /\ \E start \in Started : ledger' = start.ledger /\ pinned' = start.pinned
    /\ call' = [r \in Requests |-> VRAM!NoCall]

(***************************************************************************)
(* A request is routed to key.model.  If the other models cannot be        *)
(* listed, there is no fallback.                                           *)
(***************************************************************************)
Begin(r, key, others, pc) ==
    req' = [req EXCEPT ![r] =
        [pc |-> pc, key |-> key, model |-> key.model, left |-> others,
         rounds |-> 0, own |-> FALSE]]

Fallbacks(key) == {{}, Models \ {key.model}}

CacheHit(r, key) ==
    /\ req[r] = Ended
    /\ Hit(key)
    /\ Ends(r)
    /\ UNCHANGED <<cacheVars, vramVars>>

CacheMiss(r, key) ==
    /\ req[r] = Ended
    /\ ~Hit(key)
    /\ responses' = responses \ Expired(key)
    /\ \E others \in Fallbacks(key) : Begin(r, key, others, "load")
    /\ Calls(r, LoadCall(key.model))
    /\ UNCHANGED rows

\* A stream neither reads nor fills the cache, and has no fallback.
BeginStream(r, key) ==
    /\ req[r] = Ended
    /\ Begin(r, key, {}, "stream_load")
    /\ Calls(r, LoadCall(key.model))
    /\ UNCHANGED cacheVars

(***************************************************************************)
(* load_model returns, having loaded the model or found it loaded, or      *)
(* raises.                                                                 *)
(***************************************************************************)
AfterLoad(r) == IF At(r, "load") THEN "generate" ELSE "stream"

Loads(r) ==
    /\ req[r].pc \in {"load", "stream_load"}
    /\ \E victims \in SUBSET (DOMAIN ledger \ {pinned}) : VRAM!Load(r, victims)
    /\ req' = [req EXCEPT ![r].pc = AfterLoad(r), ![r].own = At(r, "load")]
    /\ UNCHANGED cacheVars

FindsLoaded(r) ==
    /\ req[r].pc \in {"load", "stream_load"}
    /\ req[r].model \in DOMAIN ledger
    /\ VRAM!NoEffect(r)
    /\ req' = [req EXCEPT ![r].pc = AfterLoad(r)]
    /\ UNCHANGED cacheVars

\* Mutant of NextTry: a model that failed stays on the list.
NextTryOfAll(r) ==
    \E m \in Models :
        /\ req' = [req EXCEPT ![r].pc = "load", ![r].model = m, ![r].own = FALSE]
        /\ call' = [call EXCEPT ![r] = LoadCall(m)]

\* The next model of the list, or the end of it.
NextTry(r) ==
    \/ /\ req[r].left = {}
       /\ Ends(r)
       /\ call' = [call EXCEPT ![r] = VRAM!NoCall]
    \/ \E m \in req[r].left :
           /\ req' = [req EXCEPT ![r].pc = "load", ![r].model = m,
                                 ![r].left = @ \ {m}, ![r].own = FALSE]
           /\ call' = [call EXCEPT ![r] = LoadCall(m)]

LoadFails(r) ==
    /\ At(r, "load")
    /\ req[r].model \notin DOMAIN ledger
    /\ NextTry(r)
    /\ UNCHANGED <<ledger, pinned, cacheVars>>

StreamLoadFails(r) ==
    /\ At(r, "stream_load")
    /\ req[r].model \notin DOMAIN ledger
    /\ VRAM!NoEffect(r)
    /\ Ends(r)
    /\ UNCHANGED cacheVars

(***************************************************************************)
(* Generation.  When it fails the model is unloaded if it is loaded,       *)
(* whoever has loaded it, and the next one is tried.                       *)
(***************************************************************************)
GenerationFails(r) ==
    /\ At(r, "generate")
    /\ \/ /\ req[r].model \in DOMAIN ledger
          /\ req' = [req EXCEPT ![r].pc = "unload"]
          /\ Calls(r, UnloadCall(req[r].model))
       \/ /\ req[r].model \notin DOMAIN ledger
          /\ NextTry(r)
          /\ UNCHANGED <<ledger, pinned>>
    /\ UNCHANGED cacheVars

UnloadReturns(r) ==
    /\ At(r, "unload")
    /\ ledger' = IF req[r].model = pinned THEN ledger
                                          ELSE VRAM!Without(ledger, {req[r].model})
    /\ NextTry(r)
    /\ UNCHANGED <<pinned, cacheVars>>

\* The answer asks for tools; they are run, and their results sent to the model.
RunTools(r) ==
    /\ req[r].pc \in {"generate", "tools"}
    /\ req[r].rounds < MaxToolCalls
    /\ req' = [req EXCEPT ![r].pc = "tools", ![r].rounds = @ + 1, ![r].own = FALSE]
    /\ UNCHANGED <<cacheVars, vramVars>>

\* Nobody catches what a tool or the model raises from here on.
ToolsFail(r) ==
    /\ At(r, "tools")
    /\ Ends(r)
    /\ UNCHANGED <<cacheVars, vramVars>>

\* Mutant of AnsweredKey: the answer is kept for the model chosen first.
ChosenKey(r) == req[r].key

AnsweredKey(r) == [req[r].key EXCEPT !.model = req[r].model]

Answer(r) ==
    /\ req[r].pc \in {"generate", "tools"}
    /\ SetResponse(AnsweredKey(r), [by |-> req[r].model, prompt |-> req[r].key.prompt])
    /\ Ends(r)
    /\ UNCHANGED vramVars

\* A stream that fails ends with an error chunk; the model stays loaded.
StreamEnds(r) ==
    /\ At(r, "stream")
    /\ Ends(r)
    /\ UNCHANGED <<cacheVars, vramVars>>

(***************************************************************************)
(* The client goes away, or the request times out: at any await.           *)
(***************************************************************************)
Cancel(r) ==
    /\ req[r] # Ended
    /\ Ends(r)
    /\ \/ \E gone \in SUBSET (DOMAIN ledger \ {pinned}) : VRAM!Interrupt(r, gone)
       \/ VRAM!Unload(r)
       \/ VRAM!NoEffect(r)
       \/ call[r] = VRAM!NoCall /\ UNCHANGED vramVars
    /\ UNCHANGED cacheVars

Administer ==
    /\ Clear \/ EvictOldest \/ \E m \in Models : InvalidateResponse(m)
    /\ UNCHANGED <<req, vramVars>>

CleanUp == DeleteExpiredEntries /\ UNCHANGED <<req, vramVars>>

TimePasses == Tick /\ UNCHANGED <<req, vramVars>>

Proceed(r) ==
    \/ Loads(r) \/ FindsLoaded(r) \/ LoadFails(r) \/ StreamLoadFails(r)
    \/ GenerationFails(r) \/ UnloadReturns(r)
    \/ RunTools(r) \/ ToolsFail(r) \/ Answer(r) \/ StreamEnds(r)

Next ==
    \/ \E r \in Requests :
           \/ \E key \in Keys : CacheHit(r, key) \/ CacheMiss(r, key) \/ BeginStream(r, key)
           \/ Proceed(r)
           \/ Cancel(r)
    \/ Administer \/ CleanUp \/ TimePasses \/ Restart

\* Calls of the backend have time limits, and VRAMManager!EveryCallReturns.
Fairness == \A r \in Requests : WF_vars(Proceed(r))

Spec == Init /\ [][Next]_vars /\ Fairness

TypeOK ==
    /\ ResponseCacheTypeOK
    /\ req \in [Requests -> ReqType]
    /\ ledger \in VRAM!Dict
    /\ pinned \in Models \cup {NoModel}
    /\ call \in [Requests -> VRAM!Calls \cup {VRAM!NoCall}]
    /\ \A r \in Requests :
           call[r] # VRAM!NoCall => /\ req[r].pc \in {"load", "stream_load", "unload"}
                                    /\ call[r].model = req[r].model

(***************************************************************************)
(* Whatever fails, however often tools are asked for and whatever other    *)
(* requests do with the models, a request ends, in an answer or an error.  *)
(***************************************************************************)
RequestsEnd == \A r \in Requests : []<>(req[r] = Ended)

(***************************************************************************)
(* "If we loaded this model via VRAM manager and it's still loaded, unload *)
(* it to free VRAM" (router/api/chat.py:366): a failed request unloads a   *)
(* model only if it has loaded it itself.                                  *)
(***************************************************************************)
UnloadsOnlyWhatItLoaded ==
    [][\A r \in Requests :
          UnloadReturns(r) /\ DOMAIN ledger' # DOMAIN ledger => req[r].own]_vars
===============================================================================
