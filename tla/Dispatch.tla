------------------------------- MODULE Dispatch -------------------------------
(***************************************************************************)
(* The choice of a model for a chat request: RouterEngine.select_model     *)
(* with _llm_dispatch and _keyword_dispatch (router/router.py), the filter *)
(* of names (router/model_filter.py), the detection and the filter of      *)
(* modalities (router/modality.py), and the handler around it              *)
(* (router/api/chat.py, /admin/explain in router/api/admin.py).            *)
(*                                                                         *)
(* A request awaits the list of models, then the scores of the feedback;   *)
(* profiles and benchmarks are read in between, from caches that may be    *)
(* older than the tables.  Meanwhile data arrives, and other requests add  *)
(* to the selections the diversity penalty goes by.  The routing cache,    *)
(* which RoutingCache models, may answer here with any model that was      *)
(* listed once.                                                            *)
(***************************************************************************)
EXTENDS Scoring, SequencesExt

CONSTANTS
    Included,    \* the models model_filter_include matches
    Excluded,    \* the models model_filter_exclude matches
    Including,   \* whether model_filter_include has a pattern
    Prompts,     \* Prompts[p]: what the analysis takes from the text p
    Asks,        \* what requests may add to their text
    Requests,
    Profile,     \* Profile[m]: the row the profiler writes
    BenchmarkRow,\* BenchmarkRow[m]: the row the synchronisation writes
    Arriving,    \* the profiles and benchmarks that may arrive
    Rated,       \* the models users give feedback on
    Running,     \* the sets of models the backend may have
    MaxRecent,   \* max_recent
    MaxAnalyses  \* _PROMPT_ANALYSIS_CACHE_MAX_SIZE

Texts == DOMAIN Prompts

ASSUME DispatchAssumption ==
    /\ Included \subseteq Models /\ Excluded \subseteq Models
    /\ Including \in BOOLEAN
    /\ Texts # {}
    /\ \A t \in Texts :
           Prompts[t] \in [reasoning : Nat, coding : Nat, creativity : Nat, factual : Nat,
                          code : BOOLEAN, length : Nat, questions : Nat, newlines : Nat,
                          complexity : Nat, requirements : Nat]
    /\ Asks \subseteq [image : BOOLEAN, tools : BOOLEAN, json : BOOLEAN]
    /\ NoRequest \in Asks
    /\ Profile \in [Models -> [reasoning : Nat, coding : Nat, time : Nat, days : Nat]]
    /\ BenchmarkRow \in [Models -> [reasoning_score : Nat, coding_score : Nat,
                                    general_score : Nat, elo_rating : Nat]]
    /\ Arriving \subseteq {"profile", "benchmark"} \X Models
    /\ Rated \subseteq Models
    /\ Running \subseteq SUBSET Models
    /\ {MaxRecent, MaxAnalyses} \subseteq Nat \ {0}

VARIABLES
    dispatcher,  \* whether a dispatcher_model is configured
    profiled,    \* the models with a profile
    benchmarked, \* the models with a benchmark
    feedback,    \* feedback[m]: the average score, in percent
    recent,      \* recent_selections: the models of the last decisions cached
    analysed,    \* _PROMPT_ANALYSIS_CACHE: texts, each with the request analysed
    request      \* request[r]: where r is, and its locals

data == <<profiled, benchmarked, feedback>>
dispatchVars == <<dispatcher, profiled, benchmarked, feedback, recent, analysed, request>>

Unrouted == [at |-> "idle", text |-> CHOOSE t \in Texts : TRUE, asks |-> NoRequest, model |-> NoModel,
         names |-> {}, profiled |-> {}, benchmarked |-> {}, via |-> "none"]

DispatchInit ==
    /\ dispatcher \in BOOLEAN
    /\ profiled = {}
    /\ benchmarked = {}
    /\ feedback = [m \in Models |-> 0]
    /\ recent = <<>>
    /\ analysed = <<>>
    /\ request = [r \in Requests |-> Unrouted]

-------------------------------------------------------------------------------
(* Filters                                                                 *)

FilterModelInfos(names) ==
    {m \in names : m \notin Excluded /\ (Including => m \in Included)}

\* What is left when the backend has all models.
Offered == FilterModelInfos(Models)

VisionWords == {"llava", "pixtral", "gpt-4o", "gpt-4-vision", "claude-3", "gemini", "qwen-vl",
                "internvl", "cogvlm", "bakllava", "moondream", "gemma4"}
ToolWords == {"gpt-4", "gpt-4o", "claude-3", "qwen2.5", "mistral-large", "command-r",
              "llama3.1", "llama3.2", "gemma4"}

\* Profiles are dictionaries, which have no attribute "vision": names decide.
Supports(m, modality) ==
    CASE modality = "vision"       -> Says(m, VisionWords)
      [] modality = "tool_calling" -> Says(m, ToolWords)
      [] OTHER                     -> TRUE

FromChatRequest(asks) ==
    IF asks.image THEN "vision" ELSE IF asks.tools THEN "tool_calling" ELSE "text"

\* All of them if none supports it.
ModelsForModality(names, modality) ==
    LET able == {m \in names : Supports(m, modality)}
    IN  IF able = {} THEN names ELSE able

-------------------------------------------------------------------------------
(* _keyword_dispatch                                                       *)

\* get_model_frequency, in percent.
Frequency(m) ==
    IF recent = <<>> THEN 0
    ELSE (100 * Cardinality({i \in DOMAIN recent : recent[i] = m})) \div Len(recent)

\* What the scores go by, of profiles and benchmarks read before.
Knowledge(names, withProfile, withBenchmark) ==
    [profile |-> [m \in Models |-> IF m \in withProfile THEN Profile[m] ELSE NoProfile],
     benchmarkOf |-> [m \in Models |-> BenchmarkFor(m, names \cap withBenchmark)],
     benchmark |-> BenchmarkRow,
     feedback |-> feedback,
     frequency |-> [m \in Models |-> Frequency(m)]]

\* What may be read of some names: the caches of profiles and of benchmarks may lack
\* what has arrived since they were filled.
Seen(names) == [profiled : SUBSET profiled, benchmarked : SUBSET (benchmarked \cap names)]

\* The analysis of every text, as part of any request.
Analyses == [t \in Texts |-> [asks \in Asks |-> AnalyzePrompt(Prompts[t], asks)]]

\* Of some models, those whose names promise most for a task.
Promising(names, task) ==
    {m \in names : \A n \in names : 100 * Affinity[m][task] >= 85 * Affinity[n][task]}

\* Mutant of Candidates: the best of the task are taken from all models.
CandidatesOfAll(names, a, modality) ==
    IF a.task = NoTask THEN ModelsForModality(names, modality) ELSE Promising(names, a.task)

\* The models of the right modality; of these, for a task that dominates, the
\* promising ones.
Candidates(names, a, modality) ==
    LET able == ModelsForModality(names, modality)
    IN  IF a.task = NoTask THEN able ELSE Promising(able, a.task)

\* The first of the candidates with the highest score.
Choice(names, a, modality, k) ==
    LET able == Candidates(names, a, modality)
        scores == {[model |-> m, total |-> TotalScore(m, a, k)] : m \in able}
        top == Max({s.total : s \in scores})
    IN  First({s.model : s \in {s \in scores : s.total = top}})

-------------------------------------------------------------------------------
(* select_model                                                            *)

At(r, place) == request[r].at = place

\* SemanticCache.set, which counts the selection.
Decide(m) ==
    recent' = IF Len(recent) < MaxRecent THEN Append(recent, m) ELSE Append(Tail(recent), m)

\* r has its model; of its locals only what keywords have chosen from still matters.
Chosen(r, m, via) ==
    LET before == IF via = "keyword" THEN request[r] ELSE Unrouted
    IN  request' = [request EXCEPT ![r] = [before EXCEPT !.at = "answering", !.model = m,
                                                         !.via = via, !.text = Unrouted.text,
                                                         !.profiled = {}, !.benchmarked = {}]]

\* The cache answers, for the last message alone, or the models are asked for.
Begin(r) ==
    /\ At(r, "idle")
    /\ \/ \E t \in Texts, asks \in Asks :
              request' = [request EXCEPT ![r] = [Unrouted EXCEPT !.at = "listing",
                                                             !.text = t, !.asks = asks]]
       \/ \E m \in Models : Chosen(r, m, "cache")
    /\ UNCHANGED <<dispatcher, data, recent, analysed>>

\* list_models has returned some of the models; they are filtered.  If none is left,
\* or anything has failed, the handler takes the first one of its own list.
List(r) ==
    /\ At(r, "listing")
    /\ \/ Chosen(r, First(Models), "first")
       \/ \E up \in Running :
          LET names == FilterModelInfos(up)
          IN  /\ names # {}
              /\ \E seen \in Seen(names) :
                     request' =
                         [request EXCEPT ![r] =
                             [@ EXCEPT !.at = IF dispatcher THEN "asking" ELSE "scoring",
                                       !.names = names, !.profiled = seen.profiled,
                                       !.benchmarked = seen.benchmarked]]
    /\ UNCHANGED <<dispatcher, data, recent, analysed>>

\* The dispatcher model names a model, whatever was asked for.
LLMDispatch(r, m) ==
    /\ At(r, "asking")
    /\ request[r].benchmarked # {}
    /\ m \in request[r].names
    /\ Decide(m)
    /\ Chosen(r, m, "llm")
    /\ UNCHANGED <<dispatcher, data, analysed>>

\* It fails, or there is nothing to tell it: without the request, keywords
\* are left, and the data is read again.
LLMDispatchFails(r) ==
    /\ At(r, "asking")
    /\ \E seen \in Seen(request[r].names) :
           request' = [request EXCEPT ![r] =
                          [@ EXCEPT !.at = "scoring", !.via = "fallback",
                                    !.profiled = seen.profiled,
                                    !.benchmarked = seen.benchmarked]]
    /\ UNCHANGED <<dispatcher, data, recent, analysed>>

\* What the text may have been analysed for: this request or, within
\* _PROMPT_ANALYSIS_CACHE_TTL, an earlier one.
Cached(t) == {i \in DOMAIN analysed : analysed[i].text = t}

AnalysedFor(t, asks) == {asks} \cup {analysed[i].asks : i \in Cached(t)}

OtherAnalyses(t) ==
    IF Cached(t) # {} THEN RemoveAt(analysed, CHOOSE i \in Cached(t) : TRUE) ELSE analysed

\* Mutant of Analyse: nothing is evicted.
AnalyseAll(t, made) == analysed' = Append(OtherAnalyses(t), [text |-> t, asks |-> made])

\* The cache with the analysis, made for one request: the text used longest ago leaves a
\* full one.
Analyse(t, made) ==
    LET grown == Append(OtherAnalyses(t), [text |-> t, asks |-> made])
    IN  analysed' = IF Len(grown) > MaxAnalyses THEN Tail(grown) ELSE grown

\* _keyword_dispatch, with profiles and benchmarks read before, and the text analysed
\* for one request.
KeywordDispatch(names, t, made, modality, withProfile, withBenchmark) ==
    IF withProfile = {} /\ withBenchmark = {} THEN First(names)
    ELSE Choice(names, Analyses[t][made], modality,
                Knowledge(names, withProfile, withBenchmark))

\* The decision is cached, and the analysis.  With no data nothing is analysed.
KeywordDecision(m, t, made, withProfile, withBenchmark) ==
    /\ IF withProfile = {} /\ withBenchmark = {} THEN UNCHANGED analysed ELSE Analyse(t, made)
    /\ Decide(m)

\* The model of the highest score is chosen.
Score(r) ==
    /\ At(r, "scoring")
    /\ LET q == request[r]
           asks == IF q.via = "fallback" THEN NoRequest ELSE q.asks
       IN  \E made \in AnalysedFor(q.text, asks) :
           \E m \in {KeywordDispatch(q.names, q.text, made, FromChatRequest(asks),
                                     q.profiled, q.benchmarked)} :
            /\ KeywordDecision(m, q.text, made, q.profiled, q.benchmarked)
            /\ Chosen(r, m, IF q.profiled \cup q.benchmarked = {} THEN "first"
                            ELSE IF q.via = "fallback" THEN "fallback" ELSE "keyword")
    /\ UNCHANGED <<dispatcher, data>>

\* A model has answered, the chosen one or one the handler fell back to, and
\* log_decision caches it once more.
Serve(r, m) ==
    /\ At(r, "answering")
    /\ Decide(m)
    /\ request' = [request EXCEPT ![r] = Unrouted]
    /\ UNCHANGED <<dispatcher, data, analysed>>

\* No model answers, or the request is cancelled on its way.
GiveUp(r) ==
    /\ ~At(r, "idle")
    /\ request' = [request EXCEPT ![r] = Unrouted]
    /\ UNCHANGED <<dispatcher, data, recent, analysed>>

\* /admin/explain has a prompt dispatched that the cache does not know, with the
\* names of the models for the request: it asks for text, and counts.
Explain(t) ==
    /\ ~dispatcher
    /\ Offered # {}
    /\ \E seen \in Seen(Offered), made \in AnalysedFor(t, NoRequest) :
       \E m \in {KeywordDispatch(Offered, t, made, "text", seen.profiled, seen.benchmarked)} :
           KeywordDecision(m, t, made, seen.profiled, seen.benchmarked)
    /\ UNCHANGED <<dispatcher, data, request>>

-------------------------------------------------------------------------------
(* What changes meanwhile                                                  *)

NewProfile(m) ==
    /\ <<"profile", m>> \in Arriving
    /\ m \notin profiled
    /\ profiled' = profiled \cup {m}
    /\ UNCHANGED <<dispatcher, benchmarked, feedback, recent, analysed, request>>

NewBenchmark(m) ==
    /\ <<"benchmark", m>> \in Arriving
    /\ m \notin benchmarked
    /\ benchmarked' = benchmarked \cup {m}
    /\ UNCHANGED <<dispatcher, profiled, feedback, recent, analysed, request>>

Rate(m, score) ==
    /\ m \in Rated
    /\ feedback' = [feedback EXCEPT ![m] = score]
    /\ UNCHANGED <<dispatcher, profiled, benchmarked, recent, analysed, request>>

DispatchNext ==
    \/ \E r \in Requests :
           \/ Begin(r) \/ List(r) \/ LLMDispatchFails(r) \/ Score(r) \/ GiveUp(r)
           \/ \E m \in Models : LLMDispatch(r, m) \/ Serve(r, m)
    \/ \E t \in Texts : Explain(t)
    \/ \E m \in Models : NewProfile(m) \/ NewBenchmark(m)
                         \/ \E score \in {0, 100} : Rate(m, score)

DispatchSpec == DispatchInit /\ [][DispatchNext]_dispatchVars

-------------------------------------------------------------------------------
(* Properties                                                              *)

Places == {"idle", "listing", "asking", "scoring", "answering"}
Ways == {"none", "cache", "first", "llm", "fallback", "keyword"}

\* The state is what the code keeps: at most one analysis per text, both lists within
\* their limits, and a model for every request that is answered.
DispatchTypeOK ==
    /\ dispatcher \in BOOLEAN
    /\ profiled \subseteq Models
    /\ benchmarked \subseteq Models
    /\ feedback \in [Models -> -100 .. 100]
    /\ recent \in Seq(Models) /\ Len(recent) <= MaxRecent
    /\ analysed \in Seq([text : Texts, asks : Asks]) /\ Len(analysed) <= MaxAnalyses
    /\ \A i, j \in DOMAIN analysed : analysed[i].text = analysed[j].text => i = j
    /\ request \in [Requests -> [at : Places, text : Texts, asks : Asks,
                                 model : Models \cup {NoModel}, names : SUBSET Models,
                                 profiled : SUBSET Models, benchmarked : SUBSET Models,
                                 via : Ways]]
    /\ \A r \in Requests :
           /\ At(r, "asking") \/ At(r, "scoring") => request[r].names # {}
           /\ At(r, "answering") => request[r].model \in Models

\* "Automatically detects images and routes to vision-capable models": what the
\* keyword dispatch, once it has data, chooses for a request supports its modality if any model
\* offered does, however the task, sizes, scores and selections favour others.
CapableIfAny ==
    \A r \in Requests :
        LET q == request[r]
            asked == FromChatRequest(q.asks)
        IN  (q.via = "keyword" /\ \E m \in q.names : Supports(m, asked))
            => Supports(q.model, asked)

\* What the scores of a request that is offered all models would go by now.
KnownNow == Knowledge(Offered, profiled, benchmarked)

\* Whether there is anything for the scores to go by: without, the model listed first
\* is taken, and nothing is scored.
HasData == profiled \cup (benchmarked \cap Offered) # {}

\* The choice such a request with nothing but text t would get.
TextChoice(t, k) == Choice(Offered, Analyses[t][NoRequest], "text", k)

\* "Prevents small models from being selected for complex tasks": to be chosen over
\* a candidate that is large enough and rated no worse, a model needs a lead in its
\* base score of ten points for every billion it is too small, but for the one point
\* that its speed, its age and having a benchmark are worth at most.
SmallNeedsALead ==
    (HasData /\ \A r \in Requests : At(r, "idle")) =>
    \A k \in {KnownNow}, t \in Texts :
        LET a == Analyses[t][NoRequest]
            m == TextChoice(t, k)
            lead(c) == Diversified(BaseScore(m, a, k), k.frequency[m])
                       - Diversified(BaseScore(c, a, k), k.frequency[c])
        IN  \A c \in Candidates(Offered, a, "text") :
                (TooSmall(m, a) > 0 /\ ExtractParameterCount[c] # Unknown
                 /\ TooSmall(c, a) = 0 /\ k.feedback[c] >= k.feedback[m])
                => lead(c) >= 10000 * (TooSmall(m, a) - 1)

\* More is known of m, nothing worse, and nothing else: a benchmark of m is the first
\* that m takes, and no other model offered takes it.
Gains(m) ==
    /\ data' # data
    /\ profiled \subseteq profiled' /\ profiled' \subseteq profiled \cup {m}
    /\ benchmarked \subseteq benchmarked' /\ benchmarked' \subseteq benchmarked \cup {m}
    /\ feedback'[m] >= feedback[m] /\ \A n \in Models \ {m} : feedback'[n] = feedback[n]
    /\ LET before == KnownNow.benchmarkOf
           after == KnownNow'.benchmarkOf
       IN  /\ before[m] \in {NoModel, after[m]}
           /\ \A n \in Offered \ {m} : before[n] = after[n]

\* Where there is data already, a profile, a benchmark or better feedback that arrives
\* for a model never makes a prompt lose it, as long as the model has not been chosen so
\* often (six times out of seven) that its base score counts against it.  The very first
\* row is the exception, which FirstDataNeverDemotes is about.  Requests under way make
\* no difference to it, so it is looked at when there are none.
NewDataNeverDemotes ==
    [][\A m \in Models :
           /\ Gains(m)
           /\ HasData
           /\ \A r \in Requests : At(r, "idle")
           /\ Frequency(m) <= 85
           => \A before \in {KnownNow}, after \in {KnownNow'}, t \in Texts :
                  TextChoice(t, before) = m => TextChoice(t, after) = m]_dispatchVars

===============================================================================
