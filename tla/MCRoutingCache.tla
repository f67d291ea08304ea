---------------------------- MODULE MCRoutingCache ----------------------------
(* Instances of RoutingCache for TLC, and checks of the threshold.         *)
EXTENDS RoutingCache, TLC

\* Any two prompts may be similar enough.
AllPairs == Prompts \X Prompts

\* No property and no action tells prompts, models or requests apart.
Symmetry == Permutations(Prompts) \cup Permutations(Models) \cup Permutations(Requests)

Base == {0, 500, 700, 850, 950, 1000}

\* However often it hits, the threshold stays within 0.7 and 0.95, whatever is
\* configured; with more hits it never falls; and a model chosen more often makes it
\* no lower.
ASSUME ThresholdFollows ==
    \A base \in Base, n \in {1, 10, 11, 40}, k \in {0, 1, 20} :
        \A hits \in 0 .. n, chosen \in 0 .. k :
            LET threshold == AdaptiveThreshold(base, hits, n, chosen, k)
            IN  /\ threshold \in 700 .. 950
                /\ hits < n => threshold <= AdaptiveThreshold(base, hits + 1, n, chosen, k)
                /\ chosen < k => threshold <= AdaptiveThreshold(base, hits, n, chosen + 1, k)
                /\ n <= 10 /\ 2 * chosen <= k /\ base \in 700 .. 950 => threshold = base
===============================================================================
