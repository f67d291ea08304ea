---------------------------- MODULE MCBackgroundSync ----------------------------
(* An instance of BackgroundSync for TLC, and checks of what the profiler  *)
(* computes over bounded inputs.                                           *)
EXTENDS BackgroundSync

CONSTANTS m1, m2

\* One model stays, another comes and goes.
MCInventories == {{m1}, {m1, m2}}

Timings == {0, 1, 700, 29999, 85500, 90000, 600000}

\* A larger model is never given less time, and a number in the name is worth more than
\* any letter in it.
ASSUME LargerHasLonger ==
    \A p \in 1 .. 80 : SizeFactor(p) <= SizeFactor(p + 1)

ASSUME NumberBeforeLetters ==
    \A p \in 1 .. 80, letters \in SUBSET {"l", "m", "s"} :
        ExtractParams([number |-> p, letters |-> letters]) = p

\* The time to load a model grows with it up to the maximum, if the disk has a speed.
ASSUME WarmupGrows ==
    \A size \in 0 .. 100 :
        /\ WarmupTimeout(1000 * size) <= WarmupTimeout(1000 * (size + 1))
        /\ WarmupTimeout(1000 * size) <= WarmupMax

\* The method by tokens never asks for more than that by the longest answer, which is
\* at least the average: the number of tokens cancels out.
ASSUME TokensNeverDecide ==
    \A a, b, c \in Timings, tokens \in {0, 1, 7, 100}, reasoning \in BOOLEAN :
        LET longest == Greatest(Greatest(a, b), c)
        IN  FromTokens(a + b + c, longest, tokens, reasoning) <= FromLongest(longest, reasoning)

\* No model has less time for its benchmark than its size gives it for the screening.
ASSUME NeverLessThanBySize ==
    \A a, b, c \in Timings, tokens \in {0, 100}, reasoning \in BOOLEAN, p \in {Unknown, 3, 8, 70} :
        LET floor == CalculateTimeout([number |-> p, letters |-> {}])
        IN  AdaptiveTimeout(floor, a + b + c, Greatest(Greatest(a, b), c), tokens, reasoning) >= floor

\* One prompt of the screening without an answer is enough to fail, whatever the others.
ASSUME EveryPromptCounts ==
    \A answers \in [1 .. 3 -> ScreeningAnswers(3)] :
        PassesScreening(answers, 3) => \A i \in 1 .. 3 : answers[i].length # "none"

\* A judge that never answers, refuses or answers with no score costs a model nothing
\* and gains it nothing; every score is within 0 .. 10.
MCReplies == [kind : {"score"}, score : {-5, 0, 7, 15}]
                \cup [kind : {"refused", "malformed", "unavailable"}, score : {0}]

ASSUME JudgeBounds ==
    \A replies \in [1 .. JudgeRetries -> MCReplies] :
        /\ JudgeScore(replies) \in 0 .. 10
        /\ (\A i \in 1 .. JudgeRetries : replies[i].kind # "score") => JudgeScore(replies) = 5

\* The average stays within the bounds of its parts, and speed within 0 .. 100.
ASSUME ScoresAreBounded ==
    /\ \A scores \in [1 .. 5 -> {0, 1, 5, 10}] : CategoryScore(scores) \in 0 .. 100
    /\ \A t \in Timings : SpeedScore(t) \in 0 .. 100
===============================================================================
