--------------------------- MODULE MCBenchmarkCaches ---------------------------
(* Instances of BenchmarkCaches for TLC, and checks of what a              *)
(* synchronisation of benchmarks computes over bounded inputs.             *)
EXTENDS BenchmarkCaches, Sequences, TLC

CONSTANTS llama, gpt, odd

\* All the models, the local one, and all with one whose name is malformed.
MCQueries == {{llama, gpt}, {llama}, {gpt, odd}}

-------------------------------------------------------------------------------
Sources == INSTANCE BenchmarkSources

Absent == Sources!Missing

Llama == <<"llama", "3", ".", "1">>
LlamaTagged == Llama \o <<":", "8", "b">>
Mistral == <<"mistral">>
MistralLarge == <<"mistral", "-", "large">>

\* Two of the entries of the table, one of them with punctuation in its name.
Table == {[family |-> Llama, variants |-> {<<"llama", "-", "3", ".", "1", "-", "8", "b">>}],
          [family |-> Mistral, variants |-> {<<"mistral", "-", "7", "b">>}]}

MCNames == {Llama, LlamaTagged, Mistral, MistralLarge, <<"llama", "3">>, <<"phi", "4">>}

Bases == {Sources!Normalized(n) : n \in MCNames}

\* A family with punctuation in its name is never found through the table, as the names
\* it is looked for in have none.
ASSUME PunctuatedNeverMatch ==
    \A name, model \in MCNames :
        LET models == <<model>>
            bases == <<Sources!Normalized(model)>>
            plain == {e \in Table : Sources!Without(e.family, Sources!Punctuation) = e.family}
        IN  Sources!MatchModel(Table, name, models, bases)
                = Sources!MatchModel(plain, name, models, bases)

\* What a row is about depends on the order a set is walked in.
ASSUME OrderDecides ==
    LET models == <<Mistral, MistralLarge>>
        a == Sources!Normalized(Mistral)
        b == Sources!Normalized(MistralLarge)
    IN  Sources!MatchModel(Table, Mistral, models, <<a, b>>)
            # Sources!MatchModel(Table, Mistral, models, <<b, a>>)

-------------------------------------------------------------------------------
MCScores == [{"mmlu", "math", "humaneval", "mmlu_pro", "gpqa"} -> {Absent, 0, 300, 1000}]

Filled(scores) ==
    [key \in Sources!Benchmarks |-> IF key \in DOMAIN scores THEN scores[key] ELSE Absent]

Counted(scores) == {key \in DOMAIN scores : scores[key] > 0}

CapabilitiesOf(scores) == Sources!Capabilities(Filled(scores), Counted(scores))

\* A capability is never above that of a model with all points.
ASSUME CapabilitiesBounded ==
    \A scores \in MCScores :
        LET c == CapabilitiesOf(scores)
        IN  {c.reasoning, c.coding, c.general} \subseteq 0 .. 1000

\* Whatever is known of a model, a result in HumanEval only lowers its reasoning.
ASSUME CodingLowersReasoning ==
    \A scores \in MCScores :
        CapabilitiesOf(scores).reasoning
            <= CapabilitiesOf([scores EXCEPT !["humaneval"] = Absent]).reasoning

\* Where the leaderboard has only one score for all, it is taken for each of four.
ASSUME CommonScoreForAll ==
    \A common \in {0, 300, 1000} :
        LET results == (<<"leaderboard">> :> [named |-> <<>>, common |-> common])
        IN  \A key \in Sources!InLeaderboard : Sources!ExtractScores(results)[key] = common

-------------------------------------------------------------------------------
Values == {[Sources!NoValues EXCEPT !["mmlu"] = x, !["elo_rating"] = y] :
              x \in {Absent, 0, 300}, y \in {Absent, 1100}}

Answers == UNION {[1 .. n -> [name : {Llama, Mistral}, values : Values]] : n \in 0 .. 2}

Stored == {<<>>} \cup [{Llama} -> Values]

\* What has been known is never forgotten, whichever rows are missing or incomplete; the
\* provider that comes later prevails; and to write the same again changes nothing.
ASSUME NothingIsForgotten ==
    \A first, second \in Answers, stored \in Stored :
        LET rows == Sources!Merge(<<first, second>>)
            after == Sources!Upsert(stored, rows)
        IN  /\ \A n \in DOMAIN stored, f \in Sources!Fields :
                   stored[n][f] # Absent => after[n][f] # Absent
            /\ \A i \in DOMAIN second, f \in Sources!Fields :
                   LET row == second[i]
                       last == \A j \in i + 1 .. Len(second) : second[j].name # row.name
                   IN  last /\ row.values[f] # Absent
                           => after[row.name][f] = row.values[f]
            /\ Sources!Upsert(after, rows) = after

-------------------------------------------------------------------------------
LeaderboardRow(name, readable) ==
    [name |-> name, readable |-> readable, results |-> <<>>, scores |-> Filled([mmlu |-> 300])]

AnalysisRow(name, id, readable) ==
    [name |-> name, id |-> id, creator |-> <<>>, readable |-> readable, mappable |-> TRUE,
     speed |-> 50, evals |-> [mmlu_pro |-> 300, gpqa |-> 0, math_500 |-> Absent,
                              livecodebench |-> 300]]

ArenaRow(name, readable) == [name |-> name, readable |-> readable, rating |-> 1100]

\* One row that cannot be read costs all rows of the leaderboard or of the arena, and of
\* the analysis only itself; there one without an identifier costs those after it.
ASSUME OneBadRow ==
    LET names == <<Llama, Mistral, MistralLarge>>
        bases == [i \in 1 .. 3 |-> Sources!Normalized(names[i])]
        id == <<"x">>
    IN  \A bad \in 1 .. 3 :
            /\ Sources!HuggingFace(Table, [i \in 1 .. 3 |-> LeaderboardRow(names[i], i # bad)],
                                   names, bases) = <<>>
            /\ Sources!LMSYS(Table, [i \in 1 .. 3 |-> ArenaRow(names[i], i # bad)],
                             names, bases) = <<>>
            /\ Len(Sources!ArtificialAnalysis(<<>>,
                       [i \in 1 .. 3 |-> AnalysisRow(names[i], id, i # bad)],
                       {Llama, Mistral, MistralLarge})) = 2
            /\ Len(Sources!ArtificialAnalysis(<<>>,
                       [i \in 1 .. 3 |-> AnalysisRow(names[i], IF i = bad THEN <<>> ELSE id, TRUE)],
                       {Llama, Mistral, MistralLarge})) = bad - 1

\* What the leaderboard says of a model with a tag, or with punctuation in its name, is
\* written under a name by which the router never asks.
ASSUME TagsAreNotFound ==
    \A model \in MCNames :
        LET rows == Sources!HuggingFace(Table, <<LeaderboardRow(model, TRUE)>>,
                                        <<model>>, <<Sources!Normalized(model)>>)
            stored == Sources!Upsert(<<>>, Sources!Merge(<<rows>>))
        IN  Sources!Found(stored, {model}) # {} <=> model = Sources!Normalized(model)

===============================================================================
