------------------------------- MODULE MCGuards -------------------------------
(***************************************************************************)
(* An instance of both guards for TLC.  They have no state in common and   *)
(* neither waits for the other, so a behaviour is about one of them, while *)
(* the other stays as it is initially.                                     *)
(***************************************************************************)
EXTENDS CircuitBreaker, RateLimiter

VARIABLE subject

guards == <<vars, limiterVars, subject>>

GuardsInit == Init /\ LimiterInit /\ subject \in {"breaker", "limiter"}

GuardsNext ==
    \/ subject = "breaker" /\ Next /\ UNCHANGED <<limiterVars, subject>>
    \/ subject = "limiter" /\ LimiterNext /\ UNCHANGED <<vars, subject>>

\* What each is fair to in a module of its own, where the behaviour is about it.
GuardsFairness ==
    /\ WF_vars(subject = "breaker" /\ Tick)
    /\ \A c \in Callers :
        /\ WF_vars(subject = "breaker" /\ Admit(c))
        /\ WF_vars(subject = "breaker" /\ Return(c))
        /\ SF_vars(subject = "breaker" /\ healthy /\ CallSucceeds(c))
    /\ WF_limiterVars(subject = "limiter" /\ LimiterTick)

GuardsSpec == GuardsInit /\ [][GuardsNext]_guards /\ GuardsFairness
===============================================================================
