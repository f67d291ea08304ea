---------------------------- MODULE CircuitBreaker ----------------------------
(***************************************************************************)
(* router/circuit_breaker.py, one breaker, and the calls that go through   *)
(* it: router/backends/resilience.py and router/backends/retry.py.         *)
(*                                                                         *)
(* The breaker's lock is never held over an await, so a record_success or  *)
(* a record_failure is atomic with the end of the backend call.  Between   *)
(* is_call_allowed and that moment everything else may happen: the clock   *)
(* advances, other calls end, the circuit changes state.                   *)
(*                                                                         *)
(* Times are ages in ticks, capped at the longer of the two timeouts: no   *)
(* comparison of the code tells two older ages apart.                      *)
(***************************************************************************)
EXTENDS Integers, Sequences, FiniteSets

CONSTANTS
    Callers,              \* concurrent users of with_backend_resilience
    FailureThreshold,     \* failure_threshold
    ResetTimeout,         \* reset_timeout
    QuotaResetTimeout,    \* quota_reset_timeout
    HalfOpenMaxAttempts,  \* half_open_max_attempts
    SlidingWindowSize,    \* sliding_window_size
    RetryEnabled,         \* backend_retry_enabled
    MaxRetries,           \* backend_max_retries
    Faults                \* of {"cancel", "reset"}: cancelled tasks, resets

ASSUME BreakerAssumption ==
    /\ FailureThreshold \in Nat \ {0}
    /\ ResetTimeout \in Nat
    /\ QuotaResetTimeout \in Nat
    /\ ResetTimeout <= QuotaResetTimeout
    /\ HalfOpenMaxAttempts \in Nat \ {0}
    /\ SlidingWindowSize \in Nat \ {0}
    /\ RetryEnabled \in BOOLEAN
    /\ MaxRetries \in Nat
    /\ Faults \subseteq {"cancel", "reset"}

VARIABLES
    state,            \* _state
    failureCount,     \* _failure_count
    successCount,     \* _success_count
    sinceFailure,     \* age of _last_failure_time
    lastFailureType,  \* _last_failure_type; "never": _last_failure_time is None
    sinceChange,      \* age of _last_state_change_time
    recent,           \* _recent_calls: TRUE for a success
    pc,               \* pc[c]: the await at which caller c is
    attempt,          \* attempt[c]: retry_operation's attempt
    healthy,          \* external: the backend answers every call
    openedBy          \* history: the failure type that opened the circuit

breaker == <<state, failureCount, successCount, sinceChange, openedBy>>
failure == <<sinceFailure, lastFailureType>>
calls   == <<pc, attempt>>
vars    == <<breaker, failure, recent, calls, healthy>>

Init ==
    /\ state = "closed"
    /\ failureCount = 0
    /\ successCount = 0
    /\ sinceFailure = 0
    /\ lastFailureType = "never"
    /\ sinceChange = 0
    /\ recent = <<>>
    /\ pc = [c \in Callers |-> "idle"]
    /\ attempt = [c \in Callers |-> 0]
    /\ healthy = TRUE
    /\ openedBy = "none"

-------------------------------------------------------------------------------
(* CircuitBreaker                                                          *)

\* Mutant of Remember: nothing is ever popped.
RememberAll(window, outcome) == Append(window, outcome)

\* append, and pop(0) beyond the size of the window.
Remember(window, outcome) ==
    IF Len(window) < SlidingWindowSize
    THEN Append(window, outcome)
    ELSE Append(Tail(window), outcome)

LastSucceeded(window, n) ==
    /\ Len(window) >= n
    /\ \A i \in DOMAIN window : i > Len(window) - n => window[i] = TRUE

\* Mutant of SetState: opening the circuit keeps the successes counted so far.
SetStateKeepingSuccesses(new, failures, type) ==
    /\ state' = new
    /\ failureCount' = IF new \in {state, "open"} THEN failures ELSE 0
    /\ successCount' = IF new \in {state, "open"} THEN successCount ELSE 0
    /\ sinceChange' = IF new = state THEN sinceChange ELSE 0
    /\ openedBy' = IF new = state THEN openedBy ELSE type

\* _set_state, with _failure_count = failures when it is called.
SetState(new, failures, type) ==
    /\ state' = new
    /\ failureCount' = IF new \in {state, "open"} THEN failures ELSE 0
    /\ successCount' = IF new = state THEN successCount ELSE 0
    /\ sinceChange' = IF new = state THEN sinceChange ELSE 0
    /\ openedBy' = IF new = state THEN openedBy ELSE type

Timeout == IF lastFailureType = "quota" THEN QuotaResetTimeout ELSE ResetTimeout

\* Mutant of ResetTimeoutElapsed: one tick early.
ElapsedEarly == lastFailureType # "never" /\ sinceFailure + 1 >= Timeout

ResetTimeoutElapsed == lastFailureType # "never" /\ sinceFailure >= Timeout

\* is_call_allowed: it answers True, and moves an OPEN circuit whose timeout
\* has elapsed to HALF_OPEN.
IsCallAllowed ==
    \/ /\ state # "open"
       /\ UNCHANGED breaker
    \/ /\ state = "open"
       /\ ResetTimeoutElapsed
       /\ SetState("half_open", failureCount, "none")

\* Mutant of RecordSuccess: a success in OPEN is counted as in HALF_OPEN.
RecordSuccessWhenOpen ==
    /\ recent' = Remember(recent, TRUE)
    /\ IF state = "closed"
       THEN /\ failureCount' = IF LastSucceeded(recent', 3) THEN 0 ELSE failureCount
            /\ UNCHANGED <<state, successCount, sinceChange, openedBy>>
       ELSE IF successCount + 1 >= HalfOpenMaxAttempts
            THEN SetState("closed", failureCount, "none")
            ELSE /\ successCount' = successCount + 1
                 /\ UNCHANGED <<state, failureCount, sinceChange, openedBy>>
    /\ UNCHANGED failure

\* Mutant of RecordSuccess: the successes in HALF_OPEN are not counted.
RecordSuccessUncounted ==
    /\ recent' = Remember(recent, TRUE)
    /\ failureCount' = IF LastSucceeded(recent', 3) THEN 0 ELSE failureCount
    /\ UNCHANGED <<state, successCount, sinceChange, openedBy, failure>>

\* record_success.  A success that arrives in OPEN changes only the window.
RecordSuccess ==
    /\ recent' = Remember(recent, TRUE)
    /\ \/ /\ state = "half_open"
          /\ successCount + 1 >= HalfOpenMaxAttempts
          /\ SetState("closed", failureCount, "none")
       \/ /\ state = "half_open"
          /\ successCount + 1 < HalfOpenMaxAttempts
          /\ successCount' = successCount + 1
          /\ UNCHANGED <<state, failureCount, sinceChange, openedBy>>
       \/ /\ state = "closed"
          /\ failureCount' = IF LastSucceeded(recent', 3) THEN 0 ELSE failureCount
          /\ UNCHANGED <<state, successCount, sinceChange, openedBy>>
       \/ /\ state = "open"
          /\ UNCHANGED breaker
    /\ UNCHANGED failure

Opens(failures) == failures >= FailureThreshold

\* record_failure: counted in every state; CLOSED opens at the threshold,
\* HALF_OPEN at once; in OPEN the timeout starts again.
RecordFailure(type) ==
    /\ recent' = Remember(recent, FALSE)
    /\ LET opens == \/ state = "half_open"
                    \/ state = "closed" /\ Opens(failureCount + 1)
       IN  SetState(IF opens THEN "open" ELSE state, failureCount + 1, type)
    /\ sinceFailure' = 0
    /\ lastFailureType' = type

-------------------------------------------------------------------------------
(* with_backend_resilience and retry_operation                             *)

At(c, place) == pc[c] = place

Finish(c) ==
    /\ pc' = [pc EXCEPT ![c] = "idle"]
    /\ attempt' = [attempt EXCEPT ![c] = 0]

\* A call the breaker does not allow raises CircuitBreakerOpenError and
\* changes nothing: it is a stuttering step.
Admit(c) ==
    /\ At(c, "idle")
    /\ IsCallAllowed
    /\ pc' = [pc EXCEPT ![c] = "calling"]
    /\ UNCHANGED <<failure, recent, attempt, healthy>>

CallSucceeds(c) ==
    /\ At(c, "calling")
    /\ RecordSuccess
    /\ Finish(c)
    /\ UNCHANGED healthy

\* A timeout, a network error, 429 or 5xx, with attempts left: the caller
\* sleeps before the next attempt, and the breaker hears nothing of it.
AttemptFails(c) ==
    /\ At(c, "calling")
    /\ ~healthy
    /\ RetryEnabled
    /\ attempt[c] < MaxRetries
    /\ pc' = [pc EXCEPT ![c] = "sleeping"]
    /\ attempt' = [attempt EXCEPT ![c] = @ + 1]
    /\ UNCHANGED <<breaker, failure, recent, healthy>>

Retry(c) ==
    /\ At(c, "sleeping")
    /\ pc' = [pc EXCEPT ![c] = "calling"]
    /\ UNCHANGED <<breaker, failure, recent, attempt, healthy>>

\* An error that is not retryable, or the last attempt.
CallFails(c) ==
    /\ At(c, "calling")
    /\ ~healthy
    /\ RecordFailure("generic")
    /\ Finish(c)
    /\ UNCHANGED healthy

\* retry_operation turns a quota 429 into QuotaExhaustedError at once; without
\* retry it stays an HTTPStatusError like any other.
QuotaExhausted(c) ==
    /\ At(c, "calling")
    /\ ~healthy
    /\ RecordFailure(IF RetryEnabled THEN "quota" ELSE "generic")
    /\ Finish(c)
    /\ UNCHANGED healthy

\* CancelledError is no Exception: neither a success nor a failure.
Cancel(c) ==
    /\ "cancel" \in Faults
    /\ ~At(c, "idle")
    /\ Finish(c)
    /\ UNCHANGED <<breaker, failure, recent, healthy>>

\* CircuitBreakerManager.reset: _set_state alone, so the window and the last
\* failure stay, and a CLOSED circuit keeps its failure count.
Reset ==
    /\ "reset" \in Faults
    /\ SetState("closed", failureCount, "none")
    /\ UNCHANGED <<failure, recent, calls, healthy>>

-------------------------------------------------------------------------------
(* The clock and the backend                                               *)

Older(age) == IF age < QuotaResetTimeout THEN age + 1 ELSE age

Tick ==
    /\ sinceFailure' = IF lastFailureType = "never" THEN 0 ELSE Older(sinceFailure)
    /\ sinceChange' = Older(sinceChange)
    /\ UNCHANGED <<state, failureCount, successCount, openedBy,
                   lastFailureType, recent, calls, healthy>>

BackendChanges ==
    /\ healthy' = ~healthy
    /\ UNCHANGED <<breaker, failure, recent, calls>>

-------------------------------------------------------------------------------
Return(c) ==
    \/ CallSucceeds(c)
    \/ AttemptFails(c)
    \/ Retry(c)
    \/ CallFails(c)
    \/ QuotaExhausted(c)

Next ==
    \/ \E c \in Callers : Admit(c) \/ Return(c) \/ Cancel(c)
    \/ Reset
    \/ Tick
    \/ BackendChanges

Spec == Init /\ [][Next]_vars

\* Time passes, requests keep coming, every HTTP call has a timeout, and not
\* every call of a healthy backend is cancelled.
Fairness ==
    /\ WF_vars(Tick)
    /\ \A c \in Callers :
        /\ WF_vars(Admit(c))
        /\ WF_vars(Return(c))
        /\ SF_vars(healthy /\ CallSucceeds(c))

FairSpec == Spec /\ Fairness

-------------------------------------------------------------------------------
(* Properties                                                              *)

TypeOK ==
    /\ state \in {"closed", "open", "half_open"}
    /\ failureCount \in Nat
    /\ successCount \in Nat
    /\ sinceFailure \in 0 .. QuotaResetTimeout
    /\ lastFailureType \in {"never", "generic", "quota"}
    /\ sinceChange \in 0 .. QuotaResetTimeout
    /\ recent \in Seq(BOOLEAN)
    /\ Len(recent) <= SlidingWindowSize
    /\ pc \in [Callers -> {"idle", "calling", "sleeping"}]
    /\ attempt \in [Callers -> 0 .. MaxRetries]
    /\ healthy \in BOOLEAN
    /\ openedBy \in {"none", "generic", "quota"}

\* The counters agree with the state, also when calls admitted in one state
\* end in another: a CLOSED circuit is below the threshold, an OPEN one knows
\* when it last failed, a HALF_OPEN one has not failed since it began to
\* probe, and no success of an earlier probing is left over.
CountersMatchState ==
    /\ state = "closed" => failureCount < FailureThreshold /\ successCount = 0
    /\ state = "open" => lastFailureType # "never" /\ successCount = 0
    /\ state = "half_open" => failureCount = 0 /\ successCount < HalfOpenMaxAttempts

\* "When failure count exceeds threshold, circuit opens for reset_timeout":
\* whatever arrives from calls in flight, and whichever failure type is the
\* last, an OPEN circuit is not probed sooner than that.
OpenLastsForResetTimeout ==
    [][state = "open" /\ state' = "half_open" => sinceChange >= ResetTimeout]_vars

\* "If test requests succeed, circuit closes; otherwise reopens": short of a
\* reset, a circuit closes only from HALF_OPEN, on half_open_max_attempts
\* successes with no failure recorded between them.
ClosingIsEarned ==
    [][state # "closed" /\ state' = "closed" =>
           \/ Reset
           \/ state = "half_open" /\ LastSucceeded(recent', HalfOpenMaxAttempts)]_vars

\* When the backend is well for good, so is the circuit.
RecoversWithBackend == <>[]healthy => <>[](state = "closed")

===============================================================================
