------------------------------- MODULE Scoring -------------------------------
(***************************************************************************)
(* How a prompt is analysed and every model scored for it: _analyze_prompt,*)
(* _build_model_category_affinity, _extract_parameter_count and            *)
(* _calculate_combined_scores of class RouterEngine (router/router.py).    *)
(*                                                                         *)
(* Floats are whole numbers here: weights, signals and frequencies are     *)
(* percentages, scores are ten-thousandths, sizes are tenths of a billion  *)
(* parameters and 0 where the name tells none.  A prompt is the counts the *)
(* analysis takes from it, a name the words the code looks for in it.      *)
(***************************************************************************)
EXTENDS Integers, Sequences, FiniteSets, Functions

CONSTANTS
    Models,
    NoModel,
    Listed,             \* list_models, in the order of the backend
    RowOrder,           \* the order in which the benchmarks are read
    Name,               \* Name[m]: [size, words, tag], see ExtractParameterCount
    Kinship,            \* Kinship[m][b]: how alike two names are, in percent, or SameBase
    SamePrefix,         \* the pairs of names with the same first letters
    QualityPreference,  \* quality_preference, in tenths
    PreferNewer         \* prefer_newer_models

\* Two names with the same base are more than alike.
SameBase == 101

ASSUME ScoringAssumption ==
    /\ NoModel \notin Models
    /\ Listed \in Seq(Models) /\ Listed # <<>> /\ Range(Listed) = Models
    /\ RowOrder \in Seq(Models) /\ Range(RowOrder) = Models
    /\ Name \in [Models -> [size : Nat, words : SUBSET STRING, tag : Nat]]
    /\ Kinship \in [Models -> [Models -> 0 .. SameBase]]
    /\ \A m \in Models : Kinship[m][m] = SameBase
    /\ SamePrefix \subseteq Models \X Models
    /\ QualityPreference \in 0 .. 10
    /\ PreferNewer \in BOOLEAN

Unknown == 0

AtLeast(a, b) == IF a < b THEN b ELSE a
AtMost(a, b) == IF a < b THEN a ELSE b

\* quality_weight and speed_weight, in tenths.
QualityWeight == QualityPreference + 5
SpeedWeight == 10 - QualityPreference

Tasks == <<"reasoning", "coding", "creativity", "factual">>
Categories == Range(Tasks) \cup {"vision", "tools"}

\* The first of the members of a list that are in S.
FirstOf(list, S) ==
    list[CHOOSE i \in DOMAIN list :
            list[i] \in S /\ \A j \in DOMAIN list : list[j] \in S => i <= j]

\* Of some models, the one that is listed first.
First(S) == FirstOf(Listed, S)

\* Of some benchmarked models, the one whose row is read first.
FirstRow(S) == FirstOf(RowOrder, S)

-------------------------------------------------------------------------------
(* The prompt                                                              *)

\* What a request adds to its text; a prompt without a request adds nothing.
NoRequest == [image |-> FALSE, tools |-> FALSE, json |-> FALSE]

CodingHits(p, q) == 40 * p.coding + (IF q.tools THEN 20 ELSE 0) + (IF q.json THEN 30 ELSE 0)

Hits(p, q) ==
    [t \in Range(Tasks) |->
        CASE t = "reasoning"  -> 30 * p.reasoning
          [] t = "coding"     -> IF p.code THEN 100 ELSE CodingHits(p, q)
          [] t = "creativity" -> 35 * p.creativity
          [] t = "factual"    -> 30 * p.factual]

Complexity(p, q) ==
    LET length == IF p.length > 1500 THEN 50 ELSE IF p.length > 500 THEN 20 ELSE 0
        layout == (IF p.questions > 2 THEN 10 ELSE 0) + (IF p.newlines > 5 THEN 10 ELSE 0)
        request == (IF q.tools THEN 30 ELSE 0) + (IF q.json THEN 10 ELSE 0)
        requirements ==
            IF CodingHits(p, q) <= 50 \/ p.requirements < 2 THEN 0
            ELSE IF p.requirements = 2 THEN 15 ELSE 30
    IN  AtMost(100, length + layout + request + requirements + 15 * p.complexity)

\* The weight of each category.  A prompt that says nothing may be about facts.
Weights(p, q) ==
    LET nothing == /\ ~q.image /\ ~q.tools /\ Complexity(p, q) = 0
                   /\ \A t \in Range(Tasks) : Hits(p, q)[t] = 0
    IN  [c \in Categories |->
            CASE c = "vision"  -> IF q.image THEN 100 ELSE 0
              [] c = "tools"   -> IF q.tools THEN 100 ELSE 0
              [] c = "factual" -> IF nothing THEN 50 ELSE Hits(p, q)[c]
              [] OTHER         -> Hits(p, q)[c]]

\* The first of the tasks with the largest weight, if that is above one half.
NoTask == "none"

DominantTask(weight) ==
    LET top == {t \in Range(Tasks) : weight[t] > 50
                                     /\ \A u \in Range(Tasks) : weight[u] <= weight[t]}
    IN  IF top = {} THEN NoTask ELSE FirstOf(Tasks, top)

\* The analysis, with the task that dominates.
AnalyzePrompt(p, q) ==
    [weight |-> Weights(p, q), complexity |-> Complexity(p, q),
     task |-> DominantTask(Weights(p, q))]

ComplexityBucket(a) ==
    IF a.complexity < 20 THEN "simple"
    ELSE IF a.complexity < 50 THEN "medium" ELSE "hard"

\* CATEGORY_MIN_SIZES
MinSize(task, bucket) ==
    CASE task \in {"coding", "reasoning"} /\ bucket = "medium" -> 40
      [] task \in {"coding", "reasoning"} /\ bucket = "hard"   -> 80
      [] task = "creativity" /\ bucket = "medium"              -> 10
      [] task = "creativity" /\ bucket = "hard"                -> 40
      [] OTHER                                                 -> 0

-------------------------------------------------------------------------------
(* The name                                                                *)

SizeWords == <<[word |-> "mini", size |-> 38], [word |-> "small", size |-> 70],
               [word |-> "medium", size |-> 140], [word |-> "large", size |-> 700],
               [word |-> "nemo", size |-> 120], [word |-> "r1", size |-> 140],
               [word |-> "gemma3", size |-> 10], [word |-> "gemma2", size |-> 90]>>

\* A size is read before the colon (size), then from a word, and only for two
\* families from the tag after the colon.
ExtractParameterCount ==
  [m \in Models |->
    LET worded == {w \in Range(SizeWords) : w.word \in Name[m].words}
    IN  IF Name[m].size # Unknown THEN Name[m].size
        ELSE IF worded # {} THEN FirstOf(SizeWords, worded).size
        ELSE IF "llama3" \in Name[m].words
             THEN IF Name[m].tag \in {10, 30, 80} THEN Name[m].tag ELSE 80
        ELSE IF "qwen2.5" \in Name[m].words /\ Name[m].tag \in {5, 15, 70, 140, 320, 720}
             THEN Name[m].tag
        ELSE Unknown]

Coders == {"coder", "starcoder", "codegeex", "codellama", "deepseek-coder"}
Reasoners == {"r1", "math", "logic", "thought", "reasoner"}
Writers == {"dolphin", "uncensored", "creative", "writer"}
Generalists == {"llama", "llama3", "mistral", "gemma", "gemma2", "gemma3", "gemma4",
                "phi", "qwen", "qwen2.5"}

Says(m, words) == Name[m].words \cap words # {}

Affinity ==
  [m \in Models |->
    [c \in Categories |->
        CASE c = "coding"     -> IF Says(m, Coders) THEN 90 ELSE 10
          [] c = "reasoning"  -> IF Says(m, Reasoners) THEN 100
                                 ELSE IF Says(m, Coders) THEN 50 ELSE 10
          [] c = "creativity" -> IF Says(m, Writers) THEN 80
                                 ELSE IF Says(m, Generalists) THEN 60 ELSE 10
          [] c = "factual"    -> IF Says(m, Generalists) THEN 70 ELSE 10
          [] OTHER            -> 0]]

-------------------------------------------------------------------------------
(* The data: the rows k.profile[m] and k.benchmark[b], or these for none,  *)
(* and k.benchmarkOf[m], the name whose row m takes                        *)

NoProfile == [reasoning |-> 0, coding |-> 0, time |-> 0, days |-> 30]
NoBenchmark == [reasoning_score |-> 0, coding_score |-> 0, general_score |-> 0, elo_rating |-> 0]

\* Of the benchmarked names, the one whose row m takes: the first of the most alike.
\* If the first one found has but its first letters in common, it counts as half alike.
BenchmarkFor(m, benchmarked) ==
    LET found == {b \in benchmarked : Kinship[m][b] > 0 \/ <<m, b>> \in SamePrefix}
        likeness(b) == IF b = FirstRow(found) /\ Kinship[m][b] = 0 THEN 50 ELSE Kinship[m][b]
    IN  IF found = {} THEN NoModel
        ELSE FirstRow({b \in found : \A c \in found : likeness(c) <= likeness(b)})

Benchmark(m, k) ==
    IF k.benchmarkOf[m] = NoModel THEN NoBenchmark ELSE k.benchmark[k.benchmarkOf[m]]

\* A score above 1 is taken to be a percentage.
BenchmarkSignal(c, row) ==
    LET raw == CASE c = "reasoning" -> row.reasoning_score
                 [] c = "coding"    -> row.coding_score
                 [] c = "factual"   -> row.general_score
                 [] OTHER           -> 0
    IN  IF raw > 100 THEN raw \div 100 ELSE raw

EloSignal(row) ==
    IF row.elo_rating > 200 THEN AtLeast(AtMost((row.elo_rating - 1000) \div 8, 150), 0)
                            ELSE row.elo_rating

\* Only these two of a profile's scores are asked for.
ProfileSignal(c, row) ==
    CASE c = "reasoning" -> row.reasoning
      [] c = "coding"    -> row.coding
      [] OTHER           -> 0

Combined(benchmark, elo, profile, affinity) ==
    ((15 * benchmark + 10 * elo + 4 * affinity + 8 * profile) * QualityWeight) \div 10

\* Mutant of Boost: a model with data gets what a model of the right size gets.
BoostBySize(c, a, m, score, hasData) ==
    IF score <= 150 \/ c # a.task THEN 2
    ELSE IF hasData THEN 3
    ELSE IF ExtractParameterCount[m] # Unknown
            /\ ExtractParameterCount[m] >= MinSize(c, ComplexityBucket(a)) THEN 20
    ELSE 40

\* The boost of the dominant category, in halves.
Boost(c, a, m, score, hasData) ==
    IF score <= 150 \/ c # a.task THEN 2
    ELSE IF hasData THEN 40
    ELSE IF ExtractParameterCount[m] # Unknown
            /\ ExtractParameterCount[m] >= MinSize(c, ComplexityBucket(a)) THEN 20
    ELSE 3

\* What category c adds, in one weight.
Part(c, m, a, row, profile) ==
    LET benchmark == BenchmarkSignal(c, row)
        elo == EloSignal(row)
        measured == ProfileSignal(c, profile)
        score == Combined(benchmark, elo, measured, Affinity[m][c])
    IN  score * Boost(c, a, m, score, benchmark + elo + measured > 0) * AtLeast(a.weight[c], 1)

BaseScore(m, a, k) ==
    LET row == Benchmark(m, k)
        part(c) == Part(c, m, a, row, k.profile[m])
    IN  (part("reasoning") + part("coding") + part("creativity") + part("factual")
         + part("vision") + part("tools")) \div 20

-------------------------------------------------------------------------------
(* The bonuses                                                             *)

\* Of the sizes this large, where the largest bound that applies counts.
BySize(size, huge, large, medium) ==
    IF size >= 300 THEN huge ELSE IF size >= 140 THEN large
    ELSE IF size >= 70 THEN medium ELSE 0

SizeScore(size) ==
    IF size < 30 THEN IF QualityPreference >= 5 THEN -10000 ELSE -2500
    ELSE QualityWeight * BySize(size, 1500, 1000, 500)

SizeBonus(m, a) ==
    LET size == ExtractParameterCount[m]
        complexity == a.complexity
        small == size < 40
    IN  IF size = Unknown THEN 0
        ELSE IF complexity >= 50
             THEN SizeScore(size) + QualityWeight
                    * IF small THEN -3000 ELSE BySize(size, 3000, 2000, 1000)
        ELSE IF complexity >= 30
             THEN SizeScore(size) + QualityWeight
                    * IF small THEN -2000 ELSE BySize(size, 2000, 1200, 400)
        ELSE IF complexity < 15
             THEN SpeedWeight * (IF size <= 40 THEN 1500 ELSE IF size <= 70 THEN 800
                                 ELSE IF size >= 140 THEN -1000 ELSE 0)
        ELSE 0

\* By how much a model of known size is below the minimum for the task.
TooSmall(m, a) ==
    IF ExtractParameterCount[m] = Unknown THEN 0
    ELSE AtLeast(MinSize(a.task, ComplexityBucket(a)) - ExtractParameterCount[m], 0)

SpeedBonus(m, a, k) ==
    LET time == k.profile[m].time
    IN  IF time > 0 /\ (a.complexity < 40 \/ SpeedWeight > 5)
        THEN ((10000 - AtMost(time, 8000)) * 4 * SpeedWeight) \div 100 ELSE 0

\* By the days since the model was first seen.
Newness(days) ==
    IF days < 1 THEN 100 ELSE IF days < 7 THEN 80 ELSE IF days < 30 THEN 50 ELSE 0

NewnessBonus(m, k) ==
    IF PreferNewer THEN 5 * Newness(k.profile[m].days) ELSE 0

\* Mutant of Bonus: the minimum size of the task is not asked for.
BonusOfAnySize(m, a, k) ==
    200 * k.feedback[m]
    + (IF k.benchmarkOf[m] # NoModel THEN 300 * QualityWeight ELSE 0)
    + SizeBonus(m, a) + SpeedBonus(m, a, k) + NewnessBonus(m, k)

Bonus(m, a, k) ==
    200 * k.feedback[m]
    + (IF k.benchmarkOf[m] # NoModel THEN 300 * QualityWeight ELSE 0)
    + SizeBonus(m, a) - 10000 * TooSmall(m, a)
    + SpeedBonus(m, a, k) + NewnessBonus(m, k)

\* A model chosen more than half the time has its base score reduced, and the
\* reduction, meant for the log, subtracted once more.
Diversified(base, frequency) ==
    IF frequency > 50
    THEN LET multiplier == AtLeast(30, 100 - ((frequency - 50) * 7) \div 5)
         IN  (base * (multiplier - (100 - multiplier))) \div 100
    ELSE base - 20 * frequency

TotalScore(m, a, k) == Diversified(BaseScore(m, a, k), k.frequency[m]) + Bonus(m, a, k)
===============================================================================
