--------------------------- MODULE BenchmarkSources ---------------------------
(***************************************************************************)
(* What a synchronisation of benchmarks computes from the answers of the   *)
(* providers (router/providers/*.py): which of the router's models a row   *)
(* of theirs is about, the scores it gives, and how the rows are merged    *)
(* (sync_benchmarks) and written (bulk_upsert_benchmarks).                 *)
(*                                                                         *)
(* A name is a sequence of pieces, in lower case, that are letters, digits *)
(* or one character of punctuation.  Scores are in thousandths; results    *)
(* are rounded down.                                                       *)
(***************************************************************************)
EXTENDS Integers, SequencesExt

Missing == -1

\* No name, which is false in Python, as None is.
NoName == <<>>

Benchmarks == {"mmlu", "mmlu_pro", "gpqa", "math", "humaneval",
               "hellaswag", "winogrande", "truthfulqa"}

Fields == Benchmarks \cup
          {"reasoning_score", "coding_score", "general_score", "elo_rating", "throughput"}

NoValues == [f \in Fields |-> Missing]

-------------------------------------------------------------------------------
(* Names                                                                   *)

Punctuation == {".", "-", "_", "/", " "}

Without(name, pieces) == SelectSeq(name, LAMBDA x : x \notin pieces)

\* _normalize_name: what is before the colon, letters and digits only.
Normalized(name) ==
    LET colon == SelectInSeq(name, LAMBDA x : x = ":")
    IN  Without(IF colon = 0 THEN name ELSE SubSeq(name, 1, colon - 1), Punctuation)

\* s in t, in Python.
Within(s, t) ==
    \E i \in 0 .. Len(t) - Len(s) : \A j \in DOMAIN s : t[i + j] = s[j]

\* An entry of OLLAMA_MODEL_MAPPING: the name of a family, and variants of it.
Hits(entry, normalized) ==
    \/ Within(entry.family, normalized)
    \/ \E v \in entry.variants : Within(Without(v, {"-", "_"}), normalized)

\* _match_model: the table first, for each of the normalised names of the models, in
\* the order the set of them is walked in; then the first that contains the other.
MatchModel(table, name, models, bases) ==
    LET normalized == Normalized(name)
        Listed(base) == \E e \in table : Hits(e, normalized) /\ Within(e.family, base)
        Alike(base) == Within(normalized, base) \/ Within(base, normalized)
        ordered == [i \in DOMAIN models |-> Normalized(models[i])]
        i == SelectInSeq(bases, Listed)
        j == SelectInSeq(ordered, Alike)
    IN  IF i # 0      THEN bases[i]
        ELSE IF j # 0 THEN ordered[j]
        ELSE NoName

-------------------------------------------------------------------------------
(* The Open LLM Leaderboard, through Hugging Face                          *)

\* What is found under the name of the benchmark, or else under a common one.
GetScore(data, key) == IF key \in DOMAIN data.named THEN data.named[key] ELSE data.common

Section(results, name, key) ==
    IF name \in DOMAIN results THEN GetScore(results[name], key) ELSE Missing

InLeaderboard == {"mmlu", "math", "gpqa", "humaneval"}

\* _extract_scores
ExtractScores(results) ==
    [key \in Benchmarks |->
        IF key \in InLeaderboard
        THEN LET score == Section(results, <<"leaderboard">>, key)
             IN  IF key = "mmlu" /\ score = Missing THEN Section(results, <<"all">>, key)
                                                    ELSE score
        ELSE IF <<"leaderboard", key>> \in DOMAIN results
             THEN Section(results, <<"leaderboard", key>>, key)
             ELSE Section(results, <<key>>, key)]

\* What the row itself has, if it is not zero, fills what was not found.
WithRow(scores, row) ==
    [key \in Benchmarks |->
        IF key \in InLeaderboard /\ scores[key] = Missing /\ row[key] > 0
        THEN row[key] ELSE scores[key]]

\* The capabilities from the benchmarks that are counted: each adds to the divisor by
\* what it could add to, whichever capability is computed.
Capabilities(scores, counted) ==
    LET score(key) == IF key \in counted THEN scores[key] ELSE 0
        weight(key, w) == IF key \in counted THEN w ELSE 0
        count == weight("mmlu", 2) + weight("mmlu_pro", 2) + weight("gpqa", 1)
                   + weight("math", 2) + weight("humaneval", 2) + weight("hellaswag", 1)
        divisor == IF count = 0 THEN 1 ELSE count
    IN  [reasoning |-> (10 * (score("mmlu") + score("gpqa") + score("math"))
                          + 8 * score("mmlu_pro")) \div (10 * divisor),
         coding |-> score("humaneval") \div (1 + weight("humaneval", 1)),
         general |-> (2 * (score("mmlu") + score("mmlu_pro") + score("humaneval")
                             + score("hellaswag")) + score("math")) \div (2 * divisor)]

Row(name, scores, capabilities) ==
    [name |-> name,
     values |-> [f \in Fields |->
         CASE f \in Benchmarks        -> scores[f]
           [] f = "reasoning_score"   -> capabilities.reasoning
           [] f = "coding_score"      -> capabilities.coding
           [] f = "general_score"     -> capabilities.general
           [] OTHER                   -> Missing]]

\* _calculate_scores: a benchmark of zero is not counted.
HuggingFaceRow(base, row) ==
    LET scores == WithRow(ExtractScores(row.results), row.scores)
    IN  Row(base, scores, Capabilities(scores, {key \in Benchmarks : scores[key] > 0}))

\* The rows that are about some model; one of them that cannot be read loses all.
HuggingFace(table, rows, models, bases) ==
    LET Base(row) == IF row.name = NoName THEN NoName
                     ELSE MatchModel(table, row.name, models, bases)
        matched == SelectSeq(rows, LAMBDA row : Base(row) # NoName)
    IN  IF \E i \in DOMAIN matched : ~matched[i].readable THEN <<>>
        ELSE [i \in DOMAIN matched |-> HuggingFaceRow(Base(matched[i]), matched[i])]

-------------------------------------------------------------------------------
(* The arena of LMSYS: a rating, for the models matched in the same way    *)

LMSYS(table, rows, models, bases) ==
    LET Base(row) == IF row.name = NoName THEN NoName
                     ELSE MatchModel(table, row.name, models, bases)
        rated == SelectSeq(rows, LAMBDA row : row.rating # 0 /\ Base(row) # NoName)
    IN  IF \E i \in DOMAIN rated : ~rated[i].readable THEN <<>>
        ELSE [i \in DOMAIN rated |->
                 [name |-> Base(rated[i]),
                  values |-> [NoValues EXCEPT !["elo_rating"] = rated[i].rating]]]

-------------------------------------------------------------------------------
(* ArtificialAnalysis                                                      *)

Dashed(name) == [i \in DOMAIN name |-> IF name[i] \in {" ", "_"} THEN "-" ELSE name[i]]

\* _map_to_ollama_name: the mapping of the user, by identifier or name, then
\* creator/name, then the name, exactly as the router has it.
MapToOllamaName(mapping, row, models) ==
    LET Mapped(key) == key # NoName /\ key \in DOMAIN mapping /\ mapping[key] \in models
        slug == Dashed(row.creator) \o <<"/">> \o Without(Dashed(row.name), {"."})
    IN  IF Mapped(row.id)        THEN mapping[row.id]
        ELSE IF Mapped(row.name) THEN mapping[row.name]
        ELSE IF row.creator # NoName /\ slug \in models THEN slug
        ELSE IF row.name \in models THEN row.name
        ELSE NoName

\* _convert_to_benchmark_dict: MMLU-Pro stands for MMLU and LiveCodeBench for
\* HumanEval, and a benchmark of zero is counted.
AnalysisRow(name, row) ==
    LET scores == [key \in Benchmarks |->
                      CASE key = "mmlu"      -> row.evals.mmlu_pro
                        [] key = "gpqa"      -> row.evals.gpqa
                        [] key = "math"      -> row.evals.math_500
                        [] key = "humaneval" -> row.evals.livecodebench
                        [] OTHER             -> Missing]
        counted == {key \in Benchmarks : scores[key] # Missing}
        converted == Row(name, scores, Capabilities(scores, counted))
    IN  [converted EXCEPT !.values["throughput"] = row.speed]

\* A row that cannot be converted is left out; at one that cannot be mapped or has no
\* identifier the rest is lost.  The cache and the daily limit are of an object made for
\* this one synchronisation.
ArtificialAnalysis(mapping, rows, models) ==
    LET Name(row) == MapToOllamaName(mapping, row, models)
        Good(row) == row.readable /\ Name(row) # NoName
        end == SelectInSeq(rows, LAMBDA row :
                   ~row.mappable \/ (Good(row) /\ row.id = NoName))
        kept == SelectSeq(IF end = 0 THEN rows ELSE SubSeq(rows, 1, end - 1), Good)
    IN  [i \in DOMAIN kept |-> AnalysisRow(Name(kept[i]), kept[i])]

-------------------------------------------------------------------------------
(* sync_benchmarks and bulk_upsert_benchmarks                              *)

\* What is new and not missing replaces what is old.
Overlay(old, new) == [f \in Fields |-> IF new[f] = Missing THEN old[f] ELSE new[f]]

AddRow(rows, row) ==
    LET old == IF row.name \in DOMAIN rows THEN rows[row.name] ELSE NoValues
    IN  [n \in DOMAIN rows \cup {row.name} |->
            IF n = row.name THEN Overlay(old, row.values) ELSE rows[n]]

\* The answers in the order of the providers; one that fails or times out gave none.
Merge(answers) ==
    FoldLeft(LAMBDA rows, answer : FoldLeft(AddRow, rows, answer), <<>>, answers)

\* Each of the merged rows is added to the table, or written over the one there.
Upsert(stored, merged) ==
    [n \in DOMAIN stored \cup DOMAIN merged |->
        IF n \notin DOMAIN merged     THEN stored[n]
        ELSE IF n \notin DOMAIN stored THEN merged[n]
        ELSE Overlay(stored[n], merged[n])]

\* get_benchmarks_for_models selects by the whole name, with its tag.
Found(stored, models) == DOMAIN stored \cap models
===============================================================================
