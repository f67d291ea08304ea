----------------------------- MODULE RoutingCache -----------------------------
(***************************************************************************)
(* The routing cache of class SemanticCache (router/router.py), and the    *)
(* way of a chat request through it: RouterEngine.select_model and, once   *)
(* the model has answered, log_decision (router/api/chat.py).              *)
(*                                                                         *)
(* get and set hold _routing_lock and await nothing that blocks under it,  *)
(* so each is one step.  A request awaits between them: the embedding of   *)
(* its prompt, the dispatch to a model, the loading and the generation.    *)
(*                                                                         *)
(* A prompt stands for its hash.  How similar two prompts are is data, and *)
(* the threshold adapts to the hits: a similar entry may be taken or not.  *)
(* The copy in the database is not modelled: it is never read back.        *)
(***************************************************************************)
EXTENDS Integers, FiniteSets, SequencesExt

CONSTANTS
    Prompts,
    Models,
    Similar,      \* the pairs of prompts that can pass the threshold
    Requests,     \* concurrent requests to the chat endpoint
    MaxSize,      \* cache_max_size
    MaxRecent,    \* max_recent
    TTL,          \* cache_ttl_seconds, in ticks
    CountBound,   \* bound: an entry used that often is not asked for again
    NoPrompt,
    NoModel,
    Events        \* what may happen, a subset of EventKinds

EventKinds == {"embed_fails",   \* _get_embedding returns None
               "override",      \* requests that name their model
               "admin"}         \* clear, evict, explain

ASSUME CacheAssumption ==
    /\ Similar \subseteq Prompts \X Prompts
    /\ MaxSize \in Nat \ {0}
    /\ MaxRecent \in Nat \ {0}
    /\ TTL \in Nat \ {0}
    /\ CountBound \in Nat \ {0}
    /\ NoPrompt \notin Prompts
    /\ NoModel \notin Models
    /\ Events \subseteq EventKinds

VARIABLES
    cache,      \* self.cache, the entry used the longest ago first
    counts,     \* _access_counts: 0 for a prompt without one
    recent,     \* recent_selections
    frequency,  \* _model_frequency: 0 for a model without one
    request,    \* request[r]: where r is, and its locals
    usedBefore  \* history: the pairs <<p, q>> such that q was used after the last use of p

vars == <<cache, counts, recent, frequency, request, usedBefore>>

Entry == [prompt : Prompts, model : Models, embedded : BOOLEAN,
          age : 0 .. TTL, count : 1 .. CountBound]

Idle == [at |-> "idle", prompt |-> NoPrompt, model |-> NoModel, embedded |-> FALSE]

Init ==
    /\ cache = <<>>
    /\ counts = [p \in Prompts |-> 0]
    /\ recent = <<>>
    /\ frequency = [m \in Models |-> 0]
    /\ request = [r \in Requests |-> Idle]
    /\ usedBefore = {}

-------------------------------------------------------------------------------
(* The ordered dictionary                                                  *)

Keys(entries) == {entries[i].prompt : i \in DOMAIN entries}

Place(entries, p) == CHOOSE i \in DOMAIN entries : entries[i].prompt = p

Without(entries, p) ==
    IF p \in Keys(entries) THEN RemoveAt(entries, Place(entries, p)) ELSE entries

Others(p) == Without(cache, p)

\* The entry of p, if there is one.
Of(p) == cache[Place(cache, p)]

Fresh(e) == e.age < TTL

CachedFresh(p) == \E i \in DOMAIN cache : cache[i].prompt = p /\ Fresh(cache[i])

\* Every other prompt was used, if at all, before p is now.
Used(p) ==
    usedBefore' = {pair \in usedBefore : pair[1] # p} \cup ((Prompts \ {p}) \X {p})

-------------------------------------------------------------------------------
(* SemanticCache.get                                                       *)

\* Mutant of Hit: the entry is not moved to the end.
HitInPlace(p) ==
    /\ CachedFresh(p)
    /\ LET used == Of(p).count + 1
       IN  /\ used <= CountBound
           /\ cache' = [i \in DOMAIN cache |->
                           IF cache[i].prompt = p THEN [cache[i] EXCEPT !.count = used]
                                                  ELSE cache[i]]
           /\ counts' = [counts EXCEPT ![p] = used]
    /\ Used(p)
    /\ UNCHANGED <<recent, frequency>>

\* Mutant of Hit: only one of the two counts is kept.
HitUncounted(p) ==
    /\ CachedFresh(p)
    /\ Of(p).count < CountBound
    /\ cache' = Append(Others(p), [Of(p) EXCEPT !.count = @ + 1])
    /\ Used(p)
    /\ UNCHANGED <<counts, recent, frequency>>

\* The entry of p answers: it is counted and moved to the end.
Hit(p) ==
    /\ CachedFresh(p)
    /\ LET used == Of(p).count + 1
       IN  /\ used <= CountBound
           /\ cache' = Append(Others(p), [Of(p) EXCEPT !.count = used])
           /\ counts' = [counts EXCEPT ![p] = used]
    /\ Used(p)
    /\ UNCHANGED <<recent, frequency>>

\* p has no entry, or one that has expired, which is dropped.
Expire(p) ==
    /\ cache' = Others(p)
    /\ counts' = IF p \in Keys(cache) THEN [counts EXCEPT ![p] = 0] ELSE counts
    /\ UNCHANGED <<recent, frequency, usedBefore>>

\* The entry of another prompt q, similar to p, answers for p.
SimilarHit(p, q) ==
    /\ ~CachedFresh(p)
    /\ <<p, q>> \in Similar
    /\ q # p
    /\ CachedFresh(q)
    /\ Of(q).embedded
    /\ LET used == Of(q).count + 1
       IN  /\ used <= CountBound
           /\ cache' = Append(Without(Others(q), p),
                              [Of(q) EXCEPT !.count = used])
           /\ counts' = [x \in Prompts |->
                            CASE x = q -> used
                              [] x = p /\ p \in Keys(cache) -> 0
                              [] OTHER -> counts[x]]
    /\ Used(q)
    /\ UNCHANGED <<recent, frequency>>

\* _calculate_adaptive_threshold, in thousandths: it follows the hits, once there are
\* enough lookups, and the share the entry's model has of the recent selections.
AdaptiveThreshold(base, hits, lookups, chosen, selections) ==
    LET rate == (1000 * hits) \div lookups
        share == (1000 * chosen) \div selections
        byHits == CASE lookups > 10 /\ rate < 300 -> -((300 - rate) \div 2)
                    [] lookups > 10 /\ rate > 700 -> (rate - 700) \div 3
                    [] OTHER                      -> 0
        byModel == IF selections > 0 /\ share > 500 THEN (share - 500) \div 10 ELSE 0
        threshold == base + byHits + byModel
    IN  CASE threshold < 700 -> 700
          [] threshold > 950 -> 950
          [] OTHER           -> threshold

-------------------------------------------------------------------------------
(* SemanticCache.set                                                       *)

\* Mutant of Select: what leaves recent_selections is still counted.
SelectOnly(m) ==
    /\ recent' = IF Len(recent) < MaxRecent THEN Append(recent, m)
                                            ELSE Append(Tail(recent), m)
    /\ frequency' = [frequency EXCEPT ![m] = @ + 1]

\* The selection is remembered and counted, the oldest one beyond the limit
\* is forgotten and no longer counted.
Select(m) ==
    IF Len(recent) < MaxRecent
    THEN /\ recent' = Append(recent, m)
         /\ frequency' = [frequency EXCEPT ![m] = @ + 1]
    ELSE /\ recent' = Append(Tail(recent), m)
         /\ frequency' = [[frequency EXCEPT ![Head(recent)] = IF @ > 0 THEN @ - 1 ELSE 0]
                              EXCEPT ![m] = @ + 1]

\* Mutant of Store: nothing is evicted.
StoreAll(p, m, embedded) ==
    /\ cache' = Append(Others(p), [prompt |-> p, model |-> m, embedded |-> embedded,
                                   age |-> 0, count |-> 1])
    /\ counts' = [counts EXCEPT ![p] = 1]
    /\ Used(p)
    /\ Select(m)

Store(p, m, embedded) ==
    LET grown == Append(Others(p), [prompt |-> p, model |-> m, embedded |-> embedded,
                                    age |-> 0, count |-> 1])
        full == Len(grown) > MaxSize
    IN  /\ cache' = IF full THEN Tail(grown) ELSE grown
        /\ counts' = [q \in Prompts |->
                         CASE q = p -> 1
                           [] full /\ q = Head(grown).prompt -> 0
                           [] OTHER -> counts[q]]
        /\ Used(p)
        /\ Select(m)

-------------------------------------------------------------------------------
(* select_model and the chat request around it                             *)

At(r, place) == request[r].at = place

Becomes(r, place, m, embedded) ==
    request' = [request EXCEPT ![r].at = place, ![r].model = m, ![r].embedded = embedded]

Return(r) == request' = [request EXCEPT ![r] = Idle]

Begin(r, p) ==
    /\ At(r, "idle")
    /\ request' = [request EXCEPT ![r] = [Idle EXCEPT !.at = "embedding", !.prompt = p]]
    /\ UNCHANGED <<cache, counts, recent, frequency, usedBefore>>

\* A request that names its model is not routed.
BeginOverride(r, p, m) ==
    /\ "override" \in Events
    /\ At(r, "idle")
    /\ request' = [request EXCEPT ![r] = [Idle EXCEPT !.at = "generating",
                                                      !.prompt = p, !.model = m]]
    /\ UNCHANGED <<cache, counts, recent, frequency, usedBefore>>

\* The embedding is there, or has failed, and the cache is asked.
Lookup(r) ==
    /\ At(r, "embedding")
    /\ \E embedded \in {TRUE} \cup {"embed_fails" \notin Events} :
        LET p == request[r].prompt
        IN  \/ /\ Hit(p)
               /\ Becomes(r, "generating", Of(p).model, FALSE)
            \/ \E q \in Prompts :
                   /\ embedded
                   /\ SimilarHit(p, q)
                   /\ Becomes(r, "generating", Of(q).model, FALSE)
            \/ /\ ~CachedFresh(p)
               /\ Expire(p)
               /\ Becomes(r, "dispatching", NoModel, embedded)

\* A model is chosen, and the decision cached with the embedding.
Dispatch(r, m) ==
    /\ At(r, "dispatching")
    /\ Store(request[r].prompt, m, request[r].embedded)
    /\ Becomes(r, "generating", m, FALSE)

\* "Routing failed": the first available model is taken.
DispatchFails(r, m) ==
    /\ At(r, "dispatching")
    /\ Becomes(r, "generating", m, FALSE)
    /\ UNCHANGED <<cache, counts, recent, frequency, usedBefore>>

\* log_decision, with the model that has answered: the chosen one, or one it
\* fell back to.  It caches the decision again, without an embedding.
LogDecision(r, m) ==
    /\ At(r, "generating")
    /\ Store(request[r].prompt, m, FALSE)
    /\ Return(r)

\* All models failed, the request was cancelled, or the log was not written.
GiveUp(r) ==
    /\ ~At(r, "idle")
    /\ Return(r)
    /\ UNCHANGED <<cache, counts, recent, frequency, usedBefore>>

-------------------------------------------------------------------------------
(* The admin endpoints and the clock                                       *)

\* The access counts stay.
Clear ==
    /\ cache' = <<>>
    /\ recent' = <<>>
    /\ frequency' = [m \in Models |-> 0]
    /\ UNCHANGED <<counts, request, usedBefore>>

\* Here too.
EvictOldest(n) ==
    /\ cache' = SubSeq(cache, n + 1, Len(cache))
    /\ UNCHANGED <<counts, recent, frequency, request, usedBefore>>

\* clear_cache: the entries that chose m, or any model, and are at least so old.  The
\* counts and the selections stay.
ClearSelected(m, age) ==
    /\ LET kept == {i \in DOMAIN cache : (m # NoModel /\ cache[i].model # m) \/ cache[i].age < age}
       IN  \E at \in [1 .. Cardinality(kept) -> kept] :
               /\ \A i, j \in DOMAIN at : i < j => at[i] < at[j]
               /\ cache' = [i \in DOMAIN at |-> cache[at[i]]]
    /\ UNCHANGED <<counts, recent, frequency, request, usedBefore>>

\* The explanation of a routing asks the cache first, with no embedding.
Explain(p) ==
    /\ Hit(p) \/ (~CachedFresh(p) /\ Expire(p))
    /\ UNCHANGED request

Admin ==
    /\ "admin" \in Events
    /\ \/ Clear
       \/ \E n \in 1 .. Len(cache) : EvictOldest(n)
       \/ \E m \in Models \cup {NoModel}, age \in 0 .. TTL : ClearSelected(m, age)
       \/ \E p \in Prompts : Explain(p)

Tick ==
    /\ cache' = [i \in DOMAIN cache |->
                    [cache[i] EXCEPT !.age = IF @ < TTL THEN @ + 1 ELSE @]]
    /\ UNCHANGED <<counts, recent, frequency, request, usedBefore>>

Next ==
    \/ \E r \in Requests :
           \/ \E p \in Prompts :
                  Begin(r, p) \/ \E m \in Models : BeginOverride(r, p, m)
           \/ Lookup(r)
           \/ \E m \in Models : Dispatch(r, m) \/ DispatchFails(r, m) \/ LogDecision(r, m)
           \/ GiveUp(r)
    \/ Admin
    \/ Tick

Spec == Init /\ [][Next]_vars

-------------------------------------------------------------------------------
(* Properties                                                              *)

\* The size of the cache included: max_size is never exceeded.
TypeOK ==
    /\ cache \in Seq(Entry)
    /\ Len(cache) <= MaxSize
    /\ \A i, j \in DOMAIN cache : cache[i].prompt = cache[j].prompt => i = j
    /\ counts \in [Prompts -> 0 .. CountBound]
    /\ recent \in Seq(Models)
    /\ Len(recent) <= MaxRecent
    /\ frequency \in [Models -> Nat]
    /\ request \in [Requests ->
                       [at : {"idle", "embedding", "dispatching", "generating"},
                        prompt : Prompts \cup {NoPrompt},
                        model : Models \cup {NoModel}, embedded : BOOLEAN]]
    /\ usedBefore \in SUBSET (Prompts \X Prompts)

\* The diversity penalty and the adaptive threshold go by _model_frequency: it
\* counts exactly the selections recent_selections remembers, although the two
\* are changed by every request and cleared by the administrator.
FrequencyMatches ==
    \A m \in Models :
        frequency[m] = Cardinality({i \in DOMAIN recent : recent[i] = m})

\* The two access counts of an entry agree, through hits by similarity, decisions
\* made again and evictions that leave counts behind.
CountsAgree == \A i \in DOMAIN cache : counts[cache[i].prompt] = cache[i].count

\* "LRU Eviction": whatever order requests end in, the entry in line for
\* eviction is the one whose last use, by a hit or a decision, is the oldest.
LeastRecentlyUsedFirst ==
    \A i, j \in DOMAIN cache : i < j => <<cache[i].prompt, cache[j].prompt>> \in usedBefore
===============================================================================
