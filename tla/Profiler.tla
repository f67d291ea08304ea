------------------------------- MODULE Profiler -------------------------------
(***************************************************************************)
(* What router/profiler.py and router/judge.py compute about one model:    *)
(* how long it may take to load, to answer the screening and to answer the *)
(* benchmark, whether it passes the screening, and its scores.             *)
(*                                                                         *)
(* Times are in milliseconds, factors and the scores of answers in tenths, *)
(* the scores of a profile in hundredths.  What the code computes in       *)
(* floating point is rounded down.                                         *)
(***************************************************************************)
EXTENDS Integers, SequencesExt

CONSTANTS
    BaseTimeout,         \* profile_timeout
    MinTimeout,          \* profile_adaptive_timeout_min
    MaxTimeout,          \* profile_adaptive_timeout_max
    SafetyFactor,        \* profile_adaptive_safety_factor
    PromptsPerCategory,  \* profile_prompts_per_category
    DiskSpeed,           \* profile_warmup_disk_speed_mbps
    WarmupMax,           \* profile_warmup_max_timeout
    JudgeEnabled,        \* judge_enabled
    JudgeRetries         \* judge_max_retries

ASSUME ProfilerAssumption ==
    /\ {BaseTimeout, MinTimeout, MaxTimeout, SafetyFactor, WarmupMax} \subseteq Nat
    /\ PromptsPerCategory \in Nat \ {0}
    /\ DiskSpeed \in Nat
    /\ JudgeEnabled \in BOOLEAN
    /\ JudgeRetries \in Nat

Least(a, b) == IF a <= b THEN a ELSE b
Greatest(a, b) == IF a <= b THEN b ELSE a

-------------------------------------------------------------------------------
(* Timeouts                                                                *)

\* A name has the number before a "b", taken as a whole one, if any, and letters.
Unknown == -1

\* Every name with an "l" in it is taken for a large model.
ExtractParams(name) ==
    CASE name.number # Unknown    -> name.number
      [] "l" \in name.letters     -> 70
      [] "m" \in name.letters     -> 14
      [] "s" \in name.letters     -> 7
      [] OTHER                    -> Unknown

\* A size of zero counts as unknown.
SizeFactor(params) ==
    CASE params \in {Unknown, 0} -> 10
      [] params >= 70            -> 25
      [] params \in 30 .. 69     -> 18
      [] params \in 14 .. 29     -> 14
      [] params \in 7 .. 13      -> 11
      [] params \in 4 .. 6       -> 10
      [] params \in 1 .. 3       -> 8

CalculateTimeout(name) == (BaseTimeout * SizeFactor(ExtractParams(name))) \div 10

\* Megabytes, at so many a second, and half a minute.
WarmupTimeout(size) ==
    IF size = Unknown THEN 600000
    ELSE IF DiskSpeed = 0 THEN WarmupMax
    ELSE Least((size * 1000) \div DiskSpeed + 30000, WarmupMax)

\* Method A: the longest answer of the screening; reasoning models get twice as long.
FromLongest(longest, reasoning) ==
    (longest * (IF reasoning THEN 2 * SafetyFactor ELSE SafetyFactor)) \div 10

BenchmarkPrompts == 3 * PromptsPerCategory

\* The tokens of the remaining prompts, at the rate of the screening.
ProjectedTime(total, tokens) ==
    total + (tokens * (BenchmarkPrompts - 3) * total) \div (3 * tokens)

\* Method B: the projected time of a prompt, without regard to reasoning.
FromTokens(total, longest, tokens, reasoning) ==
    IF total > 0 /\ tokens > 0
    THEN (ProjectedTime(total, tokens) * SafetyFactor) \div (10 * BenchmarkPrompts)
    ELSE FromLongest(longest, reasoning)

\* The timeout by size is the floor, even above the maximum.
AdaptiveTimeout(floor, total, longest, tokens, reasoning) ==
    Greatest(Greatest(floor, MinTimeout),
             Least(Greatest(FromLongest(longest, reasoning),
                            FromTokens(total, longest, tokens, reasoning)),
                   MaxTimeout))

-------------------------------------------------------------------------------
(* Screening: an answer has a time, a number of tokens, and is long, short *)
(* or missing.  One that fails counts as one that took the whole timeout.  *)

ScreeningAnswers(timeout) ==
    [length : {"long", "short"}, time : 0 .. timeout]
        \cup [length : {"none"}, time : {timeout}]

ScreenScore(answer) ==
    CASE answer.length = "long"  -> 5
      [] answer.length = "short" -> 1
      [] answer.length = "none"  -> 0

ScreenSum(answers) ==
    ScreenScore(answers[1]) + ScreenScore(answers[2]) + ScreenScore(answers[3])

LongestTime(answers) ==
    Greatest(Greatest(answers[1].time, answers[2].time), answers[3].time)

TotalTime(answers) == answers[1].time + answers[2].time + answers[3].time

\* (0.5 + 0.1 + 0.0) / 3 is less than 0.2 in floating point.
PassesScreening(answers, timeout) ==
    /\ ScreenSum(answers) > 6
    /\ 100 * LongestTime(answers) <= 95 * timeout

\* What a model that fails is given for reasoning, coding and creativity.
MinimalScore(answers) == ScreenSum(answers)

-------------------------------------------------------------------------------
(* Scores                                                                  *)

\* The replies of the judge to the attempts at one answer: a score, a refusal
\* (400), something that is no score, or nothing for now.
Replies == [kind : {"score", "refused", "malformed", "unavailable"}, score : -5 .. 15]

\* _score_single: only what is unavailable is asked again.
JudgeScore(replies) ==
    LET final == {i \in 1 .. JudgeRetries :
                     /\ replies[i].kind # "unavailable"
                     /\ \A j \in 1 .. i - 1 : replies[j].kind = "unavailable"}
    IN  IF \E i \in final : replies[i].kind = "score"
        THEN LET score == replies[CHOOSE i \in final : TRUE].score
             IN  Greatest(0, Least(10, score))
        ELSE 5

\* The score of an answer: none, an apology or another obvious failure, or more.
AnswerScore(answer, replies) ==
    CASE answer = "none"    -> 0
      [] answer = "failure" -> 1
      [] answer = "more"    -> IF JudgeEnabled THEN JudgeScore(replies) ELSE 5

\* The average over the answers of a category, in hundredths.
CategoryScore(scores) == (10 * FoldLeft(+, 0, scores)) \div Len(scores)

\* The response time is worth nothing from thirty seconds.
SpeedScore(average) == 100 - Least(average \div 300, 100)
===============================================================================
