------------------------------ MODULE GuardProofs ------------------------------
(***************************************************************************)
(* The two guards of the router, which have no state in common: the        *)
(* limiter in front of its endpoints, for any clients, limits, window and  *)
(* threshold, and the circuit breaker in front of its backends, for any    *)
(* number of callers, any thresholds and any timeouts.                     *)
(*                                                                         *)
(* The breaker's IInv adds to TypeOK and CountersMatchState that in OPEN   *)
(* the last failure is no older than the opening (a failure in flight may  *)
(* be younger): this is what turns the test of is_call_allowed, which      *)
(* looks at the failure, into a bound on how long the circuit was OPEN.    *)
(* In HALF_OPEN, the successes counted are the end of the window of recent *)
(* calls, which is what "no failure between them" needs.                   *)
(*                                                                         *)
(* LimitsHold rests on ListCoversWindow: every request that was let        *)
(* through and still counts has its time stamp in the list.                *)
(***************************************************************************)
EXTENDS CircuitBreaker, RateLimiter, FiniteSetTheorems, TLAPS

-------------------------------------------------------------------------------
(* The circuit breaker                                                     *)


OpenedAtFailure == state = "open" => sinceFailure <= sinceChange

SuccessesAreTheLast == state = "half_open" => LastSucceeded(recent, successCount)

IInv == TypeOK /\ CountersMatchState /\ OpenedAtFailure

-------------------------------------------------------------------------------
(* The window                                                              *)

\* Remember keeps the window a sequence of outcomes within its size.
LEMMA RememberType ==
    ASSUME NEW w \in Seq(BOOLEAN), Len(w) <= SlidingWindowSize, NEW b \in BOOLEAN
    PROVE  /\ Remember(w, b) \in Seq(BOOLEAN)
           /\ Len(Remember(w, b)) <= SlidingWindowSize
<1>1. SlidingWindowSize \in Nat \ {0}
  BY BreakerAssumption
<1>2. CASE Len(w) < SlidingWindowSize
  <2>1. Remember(w, b) = Append(w, b)
    BY <1>2 DEF Remember
  <2> QED
    BY <1>1, <1>2, <2>1
<1>3. CASE ~(Len(w) < SlidingWindowSize)
  <2>1. Remember(w, b) = Append(Tail(w), b)
    BY <1>3 DEF Remember
  <2>2. Len(w) = SlidingWindowSize /\ w # <<>>
    BY <1>1, <1>3
  <2>3. Tail(w) \in Seq(BOOLEAN) /\ Len(Tail(w)) = Len(w) - 1
    BY <2>2
  <2> QED
    BY <1>1, <2>1, <2>2, <2>3
<1> QED
  BY <1>2, <1>3

\* A success after n successes makes n + 1, if the window can hold them.
LEMMA RememberSuccess ==
    ASSUME NEW w \in Seq(BOOLEAN), Len(w) <= SlidingWindowSize,
           NEW n \in Nat, n < SlidingWindowSize, LastSucceeded(w, n)
    PROVE  LastSucceeded(Remember(w, TRUE), n + 1)
<1>1. SlidingWindowSize \in Nat \ {0}
  BY BreakerAssumption
<1>2. CASE Len(w) < SlidingWindowSize
  <2>1. Remember(w, TRUE) = Append(w, TRUE)
    BY <1>2 DEF Remember
  <2>2. Len(Append(w, TRUE)) = Len(w) + 1
    OBVIOUS
  <2>3. ASSUME NEW i \in DOMAIN Append(w, TRUE),
               i > Len(Append(w, TRUE)) - (n + 1)
        PROVE  Append(w, TRUE)[i] = TRUE
    BY <2>2, <2>3 DEF LastSucceeded
  <2>4. Len(Append(w, TRUE)) >= n + 1
    BY <2>2 DEF LastSucceeded
  <2>5. LastSucceeded(Append(w, TRUE), n + 1)
    BY <2>3, <2>4 DEF LastSucceeded
  <2> QED
    BY <2>1, <2>5
<1>3. CASE ~(Len(w) < SlidingWindowSize)
  <2> DEFINE r == Append(Tail(w), TRUE)
  <2>1. Remember(w, TRUE) = r
    BY <1>3 DEF Remember
  <2>2. Len(w) = SlidingWindowSize /\ w # <<>>
    BY <1>1, <1>3
  <2>3. Tail(w) \in Seq(BOOLEAN) /\ Len(Tail(w)) = Len(w) - 1
    BY <2>2
  <2>4. Len(r) = Len(w) /\ DOMAIN r = 1 .. Len(w)
    BY <2>3
  <2>5. ASSUME NEW i \in DOMAIN r, i > Len(r) - (n + 1)
        PROVE  r[i] = TRUE
    <3>1. CASE i = Len(w)
      BY <3>1, <2>3
    <3>2. CASE i # Len(w)
      <4> HIDE DEF r
      <4>1. i \in 1 .. Len(w) - 1 /\ i + 1 \in DOMAIN w
        <5>1. Len(w) \in Nat /\ DOMAIN w = 1 .. Len(w)
          OBVIOUS
        <5>2. i \in 1 .. Len(w)
          BY <2>4, <2>5
        <5>. QED  BY <3>2, <5>1, <5>2
      <4>2. Tail(w)[i] = w[i + 1]
        BY <4>1, <2>2
      <4>3. i + 1 > Len(w) - n
        BY <4>1, <2>4, <2>5
      <4> QED
        BY <4>1, <4>2, <4>3, <2>3 DEF LastSucceeded, r
    <3> QED
      BY <3>1, <3>2
  <2>6. Len(r) >= n + 1
    BY <1>1, <2>2, <2>4
  <2>7. LastSucceeded(r, n + 1)
    BY <2>5, <2>6 DEF LastSucceeded
  <2> QED
    BY <2>1, <2>7
<1> QED
  BY <1>2, <1>3

-------------------------------------------------------------------------------
(* The inductive invariant                                                 *)

\* The state in which the program starts satisfies the invariant.
LEMMA InitIInv == Init => IInv
<1> USE BreakerAssumption
<1> QED
  BY DEF Init, IInv, TypeOK, CountersMatchState, OpenedAtFailure

\* is_call_allowed preserves it: HALF_OPEN begins with both counters at 0.
LEMMA AdmitIInv == ASSUME IInv, NEW c \in Callers, Admit(c) PROVE IInv'
<1> USE BreakerAssumption
<1>1. CASE state # "open"
  <2>1. UNCHANGED <<breaker, failure, recent, attempt, healthy>>
    BY <1>1 DEF Admit, IsCallAllowed
  <2>2. TypeOK'
    BY <2>1 DEF Admit, IInv, TypeOK, breaker, failure
  <2>3. CountersMatchState' /\ OpenedAtFailure'
    BY <2>1 DEF IInv, CountersMatchState, OpenedAtFailure, breaker, failure
  <2> QED
    BY <2>2, <2>3 DEF IInv
<1>2. CASE state = "open"
  <2>1. SetState("half_open", failureCount, "none")
    BY <1>2 DEF Admit, IsCallAllowed
  <2>2. TypeOK'
    BY <1>2, <2>1 DEF Admit, SetState, IInv, TypeOK, failure
  <2>3. CountersMatchState' /\ OpenedAtFailure'
    BY <1>2, <2>1 DEF SetState, CountersMatchState, OpenedAtFailure
  <2> QED
    BY <2>2, <2>3 DEF IInv
<1> QED
  BY <1>1, <1>2

\* The end of a call leaves the bookkeeping of the callers well typed.
LEMMA FinishType ==
    ASSUME TypeOK, NEW c \in Callers, Finish(c)
    PROVE  /\ pc' \in [Callers -> {"idle", "calling", "sleeping"}]
           /\ attempt' \in [Callers -> 0 .. MaxRetries]
<1>1. 0 \in 0 .. MaxRetries
  BY BreakerAssumption
<1> QED
  BY <1>1 DEF TypeOK, Finish

\* A success preserves it, in whichever state it arrives.
LEMMA SuccessIInv == ASSUME IInv, NEW c \in Callers, CallSucceeds(c) PROVE IInv'
<1> USE BreakerAssumption
<1>1. recent' \in Seq(BOOLEAN) /\ Len(recent') <= SlidingWindowSize
  BY RememberType DEF CallSucceeds, RecordSuccess, IInv, TypeOK
<1>2. /\ state' \in {"closed", "open", "half_open"}
      /\ failureCount' \in Nat /\ successCount' \in Nat
      /\ sinceChange' \in 0 .. QuotaResetTimeout
      /\ openedBy' \in {"none", "generic", "quota"}
      /\ CountersMatchState'
      /\ OpenedAtFailure'
  <2> UNCHANGED failure
    BY DEF CallSucceeds, RecordSuccess
  <2> USE DEF IInv, TypeOK, CountersMatchState, OpenedAtFailure, failure
  <2>1. CASE state = "half_open" /\ SetState("closed", failureCount, "none")
    BY <2>1 DEF SetState
  <2>2. CASE /\ state = "half_open"
             /\ successCount + 1 < HalfOpenMaxAttempts
             /\ successCount' = successCount + 1
             /\ UNCHANGED <<state, failureCount, sinceChange, openedBy>>
    BY <2>2
  <2>3. CASE /\ state = "closed"
             /\ failureCount' \in {0, failureCount}
             /\ UNCHANGED <<state, successCount, sinceChange, openedBy>>
    BY <2>3
  <2>4. CASE state = "open" /\ UNCHANGED breaker
    BY <2>4 DEF breaker
  <2> QED
    BY <2>1, <2>2, <2>3, <2>4 DEF CallSucceeds, RecordSuccess
<1>3. TypeOK'
  BY <1>1, <1>2, FinishType DEF CallSucceeds, RecordSuccess, IInv, TypeOK, failure
<1> QED
  BY <1>2, <1>3 DEF IInv

\* A failure preserves it: an opening is as old as the failure that opens.
LEMMA FailureIInv ==
    ASSUME IInv, NEW c \in Callers, NEW type \in {"generic", "quota"},
           RecordFailure(type), Finish(c), UNCHANGED healthy
    PROVE  IInv'
<1> USE BreakerAssumption
<1>1. recent' \in Seq(BOOLEAN) /\ Len(recent') <= SlidingWindowSize
  BY RememberType DEF RecordFailure, IInv, TypeOK
<1>2. TypeOK'
  <2>1. /\ pc' \in [Callers -> {"idle", "calling", "sleeping"}]
        /\ attempt' \in [Callers -> 0 .. MaxRetries]
    BY FinishType DEF IInv
  <2>2. /\ state' \in {"closed", "open", "half_open"}
        /\ failureCount' \in Nat /\ successCount' \in Nat
        /\ sinceChange' \in 0 .. QuotaResetTimeout
        /\ openedBy' \in {"none", "generic", "quota"}
    BY DEF RecordFailure, SetState, IInv, TypeOK
  <2>3. sinceFailure' = 0 /\ lastFailureType' = type /\ healthy' = healthy
    BY DEF RecordFailure
  <2> QED
    BY <1>1, <2>1, <2>2, <2>3 DEF IInv, TypeOK
<1>3. CountersMatchState'
  BY DEF RecordFailure, SetState, Opens, IInv, TypeOK, CountersMatchState
<1>4. OpenedAtFailure'
  BY DEF RecordFailure, SetState, IInv, TypeOK, OpenedAtFailure
<1> QED
  BY <1>2, <1>3, <1>4 DEF IInv

\* Every step of the program preserves the invariant.
LEMMA NextIInv == IInv /\ [Next]_vars => IInv'
<1> SUFFICES ASSUME IInv, [Next]_vars PROVE IInv'
  OBVIOUS
<1> USE BreakerAssumption
<1>1. ASSUME NEW c \in Callers, Admit(c) PROVE IInv'
  BY <1>1, AdmitIInv
<1>2. ASSUME NEW c \in Callers, CallSucceeds(c) PROVE IInv'
  BY <1>2, SuccessIInv
<1>3. ASSUME NEW c \in Callers, CallFails(c) PROVE IInv'
  <2>1. RecordFailure("generic") /\ Finish(c) /\ UNCHANGED healthy
    BY <1>3 DEF CallFails
  <2> QED
    BY <2>1, FailureIInv
<1>4. ASSUME NEW c \in Callers, QuotaExhausted(c) PROVE IInv'
  <2>1. PICK type \in {"generic", "quota"} : RecordFailure(type)
    BY <1>4 DEF QuotaExhausted
  <2>2. Finish(c) /\ UNCHANGED healthy
    BY <1>4 DEF QuotaExhausted
  <2> QED
    BY <2>1, <2>2, FailureIInv
<1>5. ASSUME NEW c \in Callers, AttemptFails(c) \/ Retry(c) PROVE IInv'
  <2>1. UNCHANGED <<breaker, failure, recent, healthy>>
    BY <1>5 DEF AttemptFails, Retry
  <2>2. pc' \in [Callers -> {"idle", "calling", "sleeping"}]
    BY <1>5 DEF AttemptFails, Retry, IInv, TypeOK
  <2>3. attempt' \in [Callers -> 0 .. MaxRetries]
    <3>1. CASE Retry(c)
      BY <3>1 DEF Retry, IInv, TypeOK
    <3>2. CASE AttemptFails(c)
      <4>1. attempt[c] + 1 \in 0 .. MaxRetries
        BY <3>2 DEF AttemptFails, IInv, TypeOK
      <4> QED
        BY <3>2, <4>1 DEF AttemptFails, IInv, TypeOK
    <3> QED
      BY <1>5, <3>1, <3>2
  <2>4. TypeOK'
    BY <2>1, <2>2, <2>3 DEF IInv, TypeOK, breaker, failure
  <2>5. CountersMatchState' /\ OpenedAtFailure'
    BY <2>1 DEF IInv, CountersMatchState, OpenedAtFailure, breaker, failure
  <2> QED
    BY <2>4, <2>5 DEF IInv
<1>6. ASSUME NEW c \in Callers, Cancel(c) PROVE IInv'
  <2>1. UNCHANGED <<breaker, failure, recent, healthy>> /\ Finish(c)
    BY <1>6 DEF Cancel
  <2>2. TypeOK'
    BY <2>1 DEF Finish, IInv, TypeOK, breaker, failure
  <2>3. CountersMatchState' /\ OpenedAtFailure'
    BY <2>1 DEF IInv, CountersMatchState, OpenedAtFailure, breaker, failure
  <2> QED
    BY <2>2, <2>3 DEF IInv
<1>7. CASE Reset
  <2>1. TypeOK'
    BY <1>7 DEF Reset, SetState, IInv, TypeOK, failure, calls
  <2>2. CountersMatchState' /\ OpenedAtFailure'
    BY <1>7 DEF Reset, SetState, IInv, TypeOK, CountersMatchState, OpenedAtFailure
  <2> QED
    BY <2>1, <2>2 DEF IInv
<1>8. CASE Tick
  <2>1. TypeOK'
    BY <1>8 DEF Tick, Older, IInv, TypeOK, calls
  <2>2. CountersMatchState'
    BY <1>8 DEF Tick, IInv, CountersMatchState
  <2>3. OpenedAtFailure'
    BY <1>8 DEF Tick, Older, IInv, TypeOK, OpenedAtFailure
  <2> QED
    BY <2>1, <2>2, <2>3 DEF IInv
<1>9. CASE BackendChanges
  <2>1. UNCHANGED <<breaker, failure, recent, calls>> /\ healthy' = ~healthy
    BY <1>9 DEF BackendChanges
  <2>2. TypeOK'
    BY <2>1 DEF IInv, TypeOK, breaker, failure, calls
  <2>3. CountersMatchState' /\ OpenedAtFailure'
    BY <2>1 DEF IInv, CountersMatchState, OpenedAtFailure, breaker, failure
  <2> QED
    BY <2>2, <2>3 DEF IInv
<1>10. CASE UNCHANGED vars
  BY <1>10 DEF vars, breaker, failure, calls, IInv, TypeOK, CountersMatchState,
               OpenedAtFailure
<1> QED
  BY <1>1, <1>2, <1>3, <1>4, <1>5, <1>6, <1>7, <1>8, <1>9, <1>10 DEF Next, Return

-------------------------------------------------------------------------------
(* Theorems                                                                *)

\* The invariant holds throughout.
THEOREM InductiveInvariant == Spec => []IInv
<1> QED
  BY InitIInv, NextIInv, PTL DEF Spec

\* Every variable keeps its type; the window never outgrows its size.
THEOREM TypeCorrect == Spec => []TypeOK
<1>1. IInv => TypeOK
  BY DEF IInv
<1> QED
  BY <1>1, InductiveInvariant, PTL

\* The counters agree with the state, however late a result arrives.
THEOREM CountersAlwaysMatch == Spec => []CountersMatchState
<1>1. IInv => CountersMatchState
  BY DEF IInv
<1> QED
  BY <1>1, InductiveInvariant, PTL

\* Once open, the circuit blocks for at least reset_timeout.
THEOREM OpenLasts == Spec => OpenLastsForResetTimeout
<1>1. IInv /\ [Next]_vars =>
          [state = "open" /\ state' = "half_open" => sinceChange >= ResetTimeout]_vars
  <2> SUFFICES ASSUME IInv, Next, state = "open", state' = "half_open"
               PROVE  sinceChange >= ResetTimeout
    OBVIOUS
  <2> USE BreakerAssumption
  <2>1. ASSUME NEW c \in Callers, Admit(c) PROVE sinceChange >= ResetTimeout
    <3>1. ResetTimeoutElapsed
      BY <2>1 DEF Admit, IsCallAllowed
    <3>2. sinceFailure >= ResetTimeout
      BY <3>1 DEF ResetTimeoutElapsed, Timeout, IInv, TypeOK
    <3> QED
      BY <3>2 DEF IInv, TypeOK, OpenedAtFailure
  <2>2. ASSUME NEW c \in Callers, CallSucceeds(c) PROVE FALSE
    BY <2>2 DEF CallSucceeds, RecordSuccess, breaker
  <2>3. ASSUME NEW c \in Callers, NEW type, RecordFailure(type) PROVE FALSE
    BY <2>3 DEF RecordFailure, SetState
  <2>4. ASSUME NEW c \in Callers, AttemptFails(c) \/ Retry(c) \/ Cancel(c) PROVE FALSE
    BY <2>4 DEF AttemptFails, Retry, Cancel, breaker
  <2>5. CASE Reset \/ Tick \/ BackendChanges
    BY <2>5 DEF Reset, SetState, Tick, BackendChanges, breaker
  <2> QED
    BY <2>1, <2>2, <2>3, <2>4, <2>5 DEF Next, Return, CallFails, QuotaExhausted
<1> QED
  BY <1>1, InductiveInvariant, PTL DEF Spec, OpenLastsForResetTimeout

-------------------------------------------------------------------------------
(* Closing                                                                 *)

\* The window can hold as many calls as closing needs successes.
WindowHoldsProbes == HalfOpenMaxAttempts <= SlidingWindowSize

\* In HALF_OPEN the successes counted so far end the window.
LEMMA SuccessesStayTheLast ==
    ASSUME WindowHoldsProbes, IInv, SuccessesAreTheLast, [Next]_vars
    PROVE  SuccessesAreTheLast'
<1> USE BreakerAssumption
<1>1. ASSUME state = "half_open", state' = "half_open", NEW c \in Callers, CallSucceeds(c)
      PROVE  SuccessesAreTheLast'
  <2>1. recent' = Remember(recent, TRUE) /\ successCount' = successCount + 1
    BY <1>1 DEF CallSucceeds, RecordSuccess, SetState
  <2>2. successCount \in Nat /\ successCount < SlidingWindowSize
    BY <1>1 DEF IInv, TypeOK, CountersMatchState, WindowHoldsProbes
  <2>3. LastSucceeded(recent, successCount)
    BY <1>1 DEF SuccessesAreTheLast
  <2>4. LastSucceeded(Remember(recent, TRUE), successCount + 1)
    BY <2>2, <2>3, RememberSuccess DEF IInv, TypeOK
  <2> QED
    BY <2>1, <2>4 DEF SuccessesAreTheLast
<1>2. ASSUME state # "half_open", state' = "half_open", NEW c \in Callers, Admit(c)
      PROVE  SuccessesAreTheLast'
  <2>1. successCount' = 0 /\ recent' = recent
    BY <1>2 DEF Admit, IsCallAllowed, SetState, breaker
  <2>2. LastSucceeded(recent, 0)
    BY DEF LastSucceeded, IInv, TypeOK
  <2> QED
    BY <2>1, <2>2 DEF SuccessesAreTheLast
<1>3. ASSUME UNCHANGED <<state, successCount, recent>> PROVE SuccessesAreTheLast'
  BY <1>3 DEF SuccessesAreTheLast
<1>4. ASSUME NEW type, RecordFailure(type) PROVE state' # "half_open"
  BY <1>4 DEF RecordFailure, SetState
<1>5. ASSUME NEW c \in Callers, CallSucceeds(c), state # "half_open"
      PROVE  state' # "half_open"
  BY <1>5 DEF CallSucceeds, RecordSuccess, SetState, breaker
<1>6. ASSUME NEW c \in Callers, Admit(c), state = "half_open"
      PROVE  UNCHANGED <<state, successCount, recent>>
  BY <1>6 DEF Admit, IsCallAllowed, breaker
<1>7. ASSUME NEW c \in Callers, AttemptFails(c) \/ Retry(c) \/ Cancel(c)
      PROVE  UNCHANGED <<state, successCount, recent>>
  BY <1>7 DEF AttemptFails, Retry, Cancel, breaker
<1>8. ASSUME Reset PROVE state' # "half_open"
  BY <1>8 DEF Reset, SetState
<1>9. ASSUME Tick \/ BackendChanges \/ UNCHANGED vars
      PROVE  UNCHANGED <<state, successCount, recent>>
  BY <1>9 DEF Tick, BackendChanges, vars, breaker
<1> SUFFICES ASSUME state' = "half_open" PROVE SuccessesAreTheLast'
  BY DEF SuccessesAreTheLast
<1>10. ASSUME NEW c \in Callers, Admit(c) PROVE SuccessesAreTheLast'
  BY <1>2, <1>3, <1>6, <1>10
<1>11. ASSUME NEW c \in Callers, CallSucceeds(c) PROVE SuccessesAreTheLast'
  BY <1>1, <1>5, <1>11
<1>12. ASSUME NEW c \in Callers, CallFails(c) \/ QuotaExhausted(c) PROVE FALSE
  BY <1>4, <1>12 DEF CallFails, QuotaExhausted
<1>13. CASE Reset
  BY <1>8, <1>13
<1> QED
  BY <1>3, <1>7, <1>9, <1>10, <1>11, <1>12, <1>13 DEF Next, Return

\* "If test requests succeed, circuit closes": short of a reset, only
\* half_open_max_attempts successes in a row close it.
THEOREM ClosingEarned ==
    ASSUME WindowHoldsProbes
    PROVE  Spec => ClosingIsEarned
<1> DEFINE Closing == state # "closed" /\ state' = "closed" =>
                          \/ Reset
                          \/ /\ state = "half_open"
                             /\ LastSucceeded(recent', HalfOpenMaxAttempts)
<1> USE BreakerAssumption
<1>1. Init => SuccessesAreTheLast
  BY DEF Init, SuccessesAreTheLast
<1>2. IInv /\ SuccessesAreTheLast /\ [Next]_vars => SuccessesAreTheLast'
  BY SuccessesStayTheLast
<1>3. IInv /\ SuccessesAreTheLast /\ [Next]_vars => [Closing]_vars
  <2> SUFFICES ASSUME IInv, SuccessesAreTheLast, Next, ~Reset,
                      state # "closed", state' = "closed"
               PROVE  /\ state = "half_open"
                      /\ LastSucceeded(recent', HalfOpenMaxAttempts)
    OBVIOUS
  <2>1. ASSUME NEW c \in Callers, CallSucceeds(c)
        PROVE  state = "half_open" /\ LastSucceeded(recent', HalfOpenMaxAttempts)
    <3>1. /\ state = "half_open"
          /\ recent' = Remember(recent, TRUE)
          /\ successCount + 1 >= HalfOpenMaxAttempts
      BY <2>1 DEF CallSucceeds, RecordSuccess, breaker
    <3>2. successCount + 1 = HalfOpenMaxAttempts /\ successCount < SlidingWindowSize
      BY <3>1 DEF IInv, TypeOK, CountersMatchState, WindowHoldsProbes
    <3>3. LastSucceeded(Remember(recent, TRUE), successCount + 1)
      BY <3>1, <3>2, RememberSuccess DEF IInv, TypeOK, SuccessesAreTheLast
    <3> QED
      BY <3>1, <3>2, <3>3
  <2>2. ASSUME NEW c \in Callers, Admit(c) PROVE FALSE
    BY <2>2 DEF Admit, IsCallAllowed, SetState, breaker
  <2>3. ASSUME NEW type, RecordFailure(type) PROVE FALSE
    BY <2>3 DEF RecordFailure, SetState
  <2>4. ASSUME NEW c \in Callers, AttemptFails(c) \/ Retry(c) \/ Cancel(c) PROVE FALSE
    BY <2>4 DEF AttemptFails, Retry, Cancel, breaker
  <2>5. CASE Tick \/ BackendChanges
    BY <2>5 DEF Tick, BackendChanges, breaker
  <2> QED
    BY <2>1, <2>2, <2>3, <2>4, <2>5 DEF Next, Return, CallFails, QuotaExhausted
<1> QED
  BY <1>1, <1>2, <1>3, InductiveInvariant, PTL DEF Spec, ClosingIsEarned

-------------------------------------------------------------------------------
(* The rate limiter, for any clients, limits, window and threshold.        *)

\* Whatever is cleaned, the list still has every request that counts.
ListCoversWindow ==
    \A client \in Clients :
        /\ IsFiniteSet(stamps[client])
        /\ served[client] \subseteq {stamp \in stamps[client] : Recent(stamp)}

\* The inductive invariant of the limiter.
LimiterInv == LimiterTypeOK /\ ListCoversWindow /\ LimitsHold

\* Limits are numbers.
LEMMA LimitType == \A kind \in Kinds : Limit(kind) \in Nat
  BY LimiterAssumption DEF Limit, Kinds

\* Among the first n + 1 numbers one is not the id of any of n stamps.
LEMMA FreeIdIsFree ==
    ASSUME NEW list \in SUBSET Stamps, IsFiniteSet(list)
    PROVE  FreeId(list) \in Nat /\ \A stamp \in list : stamp.id # FreeId(list)
<1> DEFINE n == Cardinality(list)
           idOf == [stamp \in list |-> stamp.id]
           ids == {idOf[stamp] : stamp \in list}
<1>1. n \in Nat
  BY FS_CardinalityType
<1>2. IsFiniteSet(ids) /\ Cardinality(ids) <= n
  <2>1. idOf \in Surjection(list, ids)
    BY DEF Surjection
  <2> HIDE DEF idOf, ids
  <2>. QED  BY <2>1, FS_Surjection
<1>3. Cardinality(ids) \in Nat
  BY <1>2, FS_CardinalityType
<1>4. \E id \in 0 .. n : id \notin ids
  <2> HIDE DEF n, ids
  <2>1. IsFiniteSet(0 .. n) /\ Cardinality(0 .. n) = n + 1
    BY <1>1, FS_Interval
  <2>2. CASE 0 .. n \in SUBSET ids
    <3>1. Cardinality(0 .. n) <= Cardinality(ids)
      BY <1>2, <2>2, FS_Subset
    <3>. QED  BY <1>1, <1>2, <1>3, <2>1, <3>1
  <2>. QED  BY <2>2
<1>5. \E id \in 0 .. Cardinality(list) : \A stamp \in list : stamp.id # id
  BY <1>4
<1>6. /\ FreeId(list) \in 0 .. Cardinality(list)
      /\ \A stamp \in list : stamp.id # FreeId(list)
  BY <1>5 DEF FreeId
<1>. QED  BY <1>1, <1>6

\* Cleaning forgets no request that still counts.
LEMMA CleaningKeepsRecent ==
    ASSUME NEW list, IsFiniteSet(list)
    PROVE  /\ Cleaned(list) \subseteq list
           /\ {stamp \in list : Recent(stamp)} \subseteq Cleaned(list)
           /\ IsFiniteSet(Cleaned(list))
           /\ Cardinality(Cleaned(list)) \in Nat
           /\ Cardinality(list) \in Nat
           /\ Cardinality(Cleaned(list)) <= Cardinality(list)
<1>1. /\ Cleaned(list) \subseteq list
      /\ {stamp \in list : Recent(stamp)} \subseteq Cleaned(list)
  BY DEF Cleaned
<1>2. IsFiniteSet(Cleaned(list)) /\ Cardinality(Cleaned(list)) <= Cardinality(list)
  BY <1>1, FS_Subset
<1>. QED  BY <1>1, <1>2, FS_CardinalityType

\* The stamps of a client, and the ages of all of them, one tick later.
LEMMA AgedStamps ==
    ASSUME NEW list \in SUBSET Stamps, IsFiniteSet(list)
    PROVE  LET aged == {Aged(stamp) : stamp \in list}
           IN  /\ aged \in SUBSET Stamps
               /\ IsFiniteSet(aged)
               /\ Cardinality(aged) <= Cardinality(list)
               /\ Cardinality(aged) \in Nat /\ Cardinality(list) \in Nat
<1> DEFINE older == [stamp \in list |-> Aged(stamp)]
           aged == {older[stamp] : stamp \in list}
<1>1. aged \in SUBSET Stamps
  BY LimiterAssumption DEF Aged, Stamps, Recent
<1>2. IsFiniteSet(aged) /\ Cardinality(aged) <= Cardinality(list)
  <2>1. older \in Surjection(list, aged)
    BY DEF Surjection
  <2> HIDE DEF older, aged
  <2>. QED  BY <2>1, FS_Surjection
<1>3. Cardinality(aged) \in Nat /\ Cardinality(list) \in Nat
  BY <1>2, FS_CardinalityType
<1>4. aged = {Aged(stamp) : stamp \in list}
  OBVIOUS
<1>. QED  BY <1>1, <1>2, <1>3, <1>4

\* A request that is let through is below the limit with all that still counts.
LEMMA LetThroughKeepsInv ==
    ASSUME LimiterInv, NEW client \in Clients, NEW kind \in Kinds, LetThrough(client, kind)
    PROVE  LimiterInv'
<1> DEFINE list == Cleaned(stamps[client])
           new == Now(client, kind)
<1>1. /\ stamps[client] \in SUBSET Stamps /\ IsFiniteSet(stamps[client])
      /\ served[client] \subseteq {stamp \in stamps[client] : Recent(stamp)}
      /\ stamps[client] \cup served[client] = stamps[client]
      /\ stamps \in [Clients -> SUBSET Stamps] /\ served \in [Clients -> SUBSET Stamps]
  BY DEF LimiterInv, LimiterTypeOK, ListCoversWindow
<1>2. /\ new \in Stamps /\ Recent(new) /\ new.kind = kind
      /\ \A stamp \in stamps[client] : stamp.id # new.id
  <2>1. /\ FreeId(stamps[client]) \in Nat
        /\ \A stamp \in stamps[client] : stamp.id # FreeId(stamps[client])
    BY <1>1, FreeIdIsFree
  <2>2. new = [id |-> FreeId(stamps[client]), age |-> 0, kind |-> kind]
    BY <1>1 DEF Now
  <2>. QED  BY <2>1, <2>2, LimiterAssumption DEF Stamps, Recent
<1>3. /\ list \subseteq stamps[client]
      /\ {stamp \in stamps[client] : Recent(stamp)} \subseteq list
      /\ IsFiniteSet(list) /\ Cardinality(list) \in Nat
  BY <1>1, CleaningKeepsRecent
<1>4. /\ Cardinality(list) < Limit(kind)
      /\ stamps' = [stamps EXCEPT ![client] = list \cup {new}]
      /\ served' = [served EXCEPT ![client] = @ \cup {new}]
  BY DEF LetThrough
<1> HIDE DEF list, new
<1>5. /\ IsFiniteSet(stamps'[client])
      /\ Cardinality(stamps'[client]) \in Nat
      /\ Cardinality(stamps'[client]) <= Limit(kind)
  <2>1. stamps'[client] = list \cup {new}
    BY <1>1, <1>4
  <2>2. /\ IsFiniteSet(list \cup {new})
        /\ Cardinality(list \cup {new}) \in {Cardinality(list), Cardinality(list) + 1}
    BY <1>3, FS_AddElement
  <2>3. Limit(kind) \in Nat
    BY LimitType
  <2>. QED  BY <1>3, <1>4, <2>1, <2>2, <2>3
<1>6. served'[client] \subseteq {stamp \in stamps'[client] : Recent(stamp)}
  BY <1>1, <1>2, <1>3, <1>4
<1>7. LimiterTypeOK'
  <2>1. stamps' \in [Clients -> SUBSET Stamps] /\ served' \in [Clients -> SUBSET Stamps]
    BY <1>1, <1>2, <1>3, <1>4
  <2>2. ASSUME NEW c \in Clients
        PROVE  /\ \A stamp, other \in stamps'[c] : stamp.id = other.id => stamp = other
               /\ \E k \in Kinds : Cardinality(stamps'[c]) <= Limit(k)
    <3>1. CASE c = client
      <4>1. \A stamp, other \in stamps'[client] : stamp.id = other.id => stamp = other
        <5>1. stamps'[client] = list \cup {new}
          BY <1>1, <1>4
        <5>. QED  BY <1>2, <1>3, <5>1 DEF LimiterInv, LimiterTypeOK
      <4>. QED  BY <1>5, <3>1, <4>1
    <3>2. CASE c # client
      BY <1>1, <1>4, <3>2 DEF LimiterInv, LimiterTypeOK
    <3>. QED  BY <3>1, <3>2
  <2>. QED  BY <2>1, <2>2 DEF LimiterTypeOK
<1>8. ListCoversWindow'
  <2> SUFFICES ASSUME NEW c \in Clients
               PROVE  /\ IsFiniteSet(stamps'[c])
                      /\ served'[c] \subseteq {stamp \in stamps'[c] : Recent(stamp)}
    BY DEF ListCoversWindow, Recent
  <2>1. CASE c = client
    BY <1>5, <1>6, <2>1
  <2>2. CASE c # client
    BY <1>1, <1>4, <2>2 DEF LimiterInv, ListCoversWindow
  <2>. QED  BY <2>1, <2>2
<1>9. LimitsHold'
  <2> SUFFICES ASSUME NEW c \in Clients, NEW k \in Kinds
               PROVE  Cardinality(OfKind(c, k)') <= Limit(k)
    BY DEF LimitsHold, Limit
  <2>1. CASE c = client /\ k = kind
    <3>1. OfKind(client, kind)' \subseteq stamps'[client]
      BY <1>6 DEF OfKind
    <3>2. /\ Cardinality(OfKind(client, kind)') <= Cardinality(stamps'[client])
          /\ IsFiniteSet(OfKind(client, kind)')
      BY <1>5, <3>1, FS_Subset
    <3>3. Cardinality(OfKind(client, kind)') \in Nat /\ Limit(kind) \in Nat
      BY <3>2, FS_CardinalityType, LimitType
    <3>. QED  BY <1>5, <2>1, <3>2, <3>3
  <2>2. CASE c # client \/ k # kind
    <3>1. OfKind(c, k)' = OfKind(c, k)
      BY <1>1, <1>2, <1>4, <2>2 DEF OfKind
    <3>. QED  BY <3>1 DEF LimiterInv, LimitsHold
  <2>. QED  BY <2>1, <2>2
<1>. QED  BY <1>7, <1>8, <1>9 DEF LimiterInv

\* A request that is refused leaves at most a cleaning behind.
LEMMA RejectKeepsInv ==
    ASSUME LimiterInv, NEW client \in Clients, NEW kind \in Kinds, Reject(client, kind)
    PROVE  LimiterInv'
<1> DEFINE list == Cleaned(stamps[client])
<1>1. /\ IsFiniteSet(stamps[client])
      /\ served[client] \subseteq {stamp \in stamps[client] : Recent(stamp)}
      /\ stamps \in [Clients -> SUBSET Stamps] /\ served \in [Clients -> SUBSET Stamps]
  BY DEF LimiterInv, LimiterTypeOK, ListCoversWindow
<1>2. /\ list \subseteq stamps[client]
      /\ {stamp \in stamps[client] : Recent(stamp)} \subseteq list
      /\ IsFiniteSet(list) /\ Cardinality(list) \in Nat
      /\ Cardinality(stamps[client]) \in Nat
      /\ Cardinality(list) <= Cardinality(stamps[client])
  BY <1>1, CleaningKeepsRecent
<1>3. stamps' = [stamps EXCEPT ![client] = list] /\ served' = served
  BY DEF Reject
<1> HIDE DEF list
<1>4. LimiterTypeOK'
  <2>1. stamps' \in [Clients -> SUBSET Stamps] /\ served' \in [Clients -> SUBSET Stamps]
    BY <1>1, <1>2, <1>3
  <2>2. \A c \in Clients : stamps'[c] \subseteq stamps[c]
    BY <1>1, <1>2, <1>3
  <2>3. \E k \in Kinds : Cardinality(list) <= Limit(k)
    <3>1. PICK k \in Kinds : Cardinality(stamps[client]) <= Limit(k)
      BY DEF LimiterInv, LimiterTypeOK
    <3>2. Limit(k) \in Nat
      BY LimitType
    <3>. QED  BY <1>2, <3>1, <3>2
  <2>4. \A c \in Clients : \E k \in Kinds : Cardinality(stamps'[c]) <= Limit(k)
    BY <1>1, <1>3, <2>3 DEF LimiterInv, LimiterTypeOK
  <2>5. \A c \in Clients :
            \A stamp, other \in stamps'[c] : stamp.id = other.id => stamp = other
    BY <2>2 DEF LimiterInv, LimiterTypeOK
  <2>. QED  BY <2>1, <2>4, <2>5 DEF LimiterTypeOK, Limit
<1>5. ListCoversWindow'
  BY <1>1, <1>2, <1>3 DEF LimiterInv, ListCoversWindow, Recent
<1>6. LimitsHold'
  BY <1>3 DEF LimiterInv, LimitsHold, OfKind, Limit
<1>. QED  BY <1>4, <1>5, <1>6 DEF LimiterInv

\* Time lets requests leave the window, and brings none back.
LEMMA TickKeepsInv ==
    ASSUME LimiterInv, LimiterTick
    PROVE  LimiterInv'
<1>1. ASSUME NEW client \in Clients
      PROVE  /\ stamps[client] \in SUBSET Stamps /\ IsFiniteSet(stamps[client])
             /\ served[client] \in SUBSET Stamps /\ IsFiniteSet(served[client])
             /\ served[client] \subseteq {stamp \in stamps[client] : Recent(stamp)}
             /\ stamps'[client] = {Aged(stamp) : stamp \in stamps[client]}
             /\ served'[client] =
                    {stamp \in {Aged(s) : s \in served[client]} : Recent(stamp)}
  <2>1. /\ stamps[client] \in SUBSET Stamps /\ IsFiniteSet(stamps[client])
        /\ served[client] \in SUBSET Stamps
        /\ served[client] \subseteq {stamp \in stamps[client] : Recent(stamp)}
    BY DEF LimiterInv, LimiterTypeOK, ListCoversWindow
  <2>2. IsFiniteSet(served[client])
    BY <2>1, FS_Subset
  <2>. QED  BY <2>1, <2>2 DEF LimiterTick
<1>2. LimiterTypeOK'
  <2>1. ASSUME NEW client \in Clients
        PROVE  /\ stamps'[client] \in SUBSET Stamps
               /\ served'[client] \in SUBSET Stamps
               /\ \A stamp, other \in stamps'[client] : stamp.id = other.id => stamp = other
               /\ \E kind \in Kinds : Cardinality(stamps'[client]) <= Limit(kind)
    <3>1. stamps'[client] \in SUBSET Stamps /\ served'[client] \in SUBSET Stamps
      BY <1>1, AgedStamps
    <3>2. \A stamp, other \in stamps'[client] : stamp.id = other.id => stamp = other
      <4>1. \A stamp, other \in stamps[client] : stamp.id = other.id => stamp = other
        BY DEF LimiterInv, LimiterTypeOK
      <4>2. \A stamp \in stamps[client] : Aged(stamp).id = stamp.id
        BY <1>1 DEF Aged, Stamps
      <4>. QED  BY <1>1, <4>1, <4>2
    <3>3. \E kind \in Kinds : Cardinality(stamps'[client]) <= Limit(kind)
      <4>1. PICK kind \in Kinds : Cardinality(stamps[client]) <= Limit(kind)
        BY DEF LimiterInv, LimiterTypeOK
      <4>2. /\ Cardinality(stamps'[client]) <= Cardinality(stamps[client])
            /\ Cardinality(stamps'[client]) \in Nat /\ Cardinality(stamps[client]) \in Nat
        BY <1>1, AgedStamps
      <4>3. Limit(kind) \in Nat
        BY LimitType
      <4>. QED  BY <4>1, <4>2, <4>3
    <3>. QED  BY <3>1, <3>2, <3>3
  <2>2. stamps' \in [Clients -> SUBSET Stamps] /\ served' \in [Clients -> SUBSET Stamps]
    <3>1. /\ stamps' = [client \in Clients |-> stamps'[client]]
          /\ served' = [client \in Clients |-> served'[client]]
      BY DEF LimiterTick
    <3>. QED  BY <2>1, <3>1
  <2>. QED  BY <2>1, <2>2 DEF LimiterTypeOK, Limit
<1>3. ListCoversWindow'
  <2> SUFFICES ASSUME NEW client \in Clients
               PROVE  /\ IsFiniteSet(stamps'[client])
                      /\ served'[client] \subseteq {stamp \in stamps'[client] : Recent(stamp)}
    BY DEF ListCoversWindow, Recent
  <2>1. IsFiniteSet(stamps'[client])
    BY <1>1, AgedStamps
  <2>2. {Aged(s) : s \in served[client]} \subseteq {Aged(s) : s \in stamps[client]}
    BY <1>1
  <2>. QED  BY <1>1, <2>1, <2>2
<1>4. LimitsHold'
  <2> SUFFICES ASSUME NEW client \in Clients, NEW kind \in Kinds
               PROVE  Cardinality(OfKind(client, kind)') <= Limit(kind)
    BY DEF LimitsHold, Limit
  <2> DEFINE before == OfKind(client, kind)
             aged == {Aged(stamp) : stamp \in before}
  <2>1. before \in SUBSET Stamps /\ IsFiniteSet(before)
    BY <1>1, FS_Subset DEF OfKind
  <2>2. OfKind(client, kind)' \subseteq aged
    BY <1>1 DEF OfKind, Aged, Stamps
  <2>3. /\ IsFiniteSet(aged)
        /\ Cardinality(aged) <= Cardinality(before)
        /\ Cardinality(aged) \in Nat /\ Cardinality(before) \in Nat
    <3> HIDE DEF before
    <3>. QED  BY <2>1, AgedStamps
  <2>4. Cardinality(before) <= Limit(kind) /\ Limit(kind) \in Nat
    BY LimitType DEF LimiterInv, LimitsHold
  <2> HIDE DEF before, aged
  <2>5. /\ Cardinality(OfKind(client, kind)') <= Cardinality(aged)
        /\ IsFiniteSet(OfKind(client, kind)')
    BY <2>2, <2>3, FS_Subset
  <2>6. Cardinality(OfKind(client, kind)') \in Nat
    BY <2>5, FS_CardinalityType
  <2>. QED  BY <2>3, <2>4, <2>5, <2>6
<1>. QED  BY <1>2, <1>3, <1>4 DEF LimiterInv

\* The limiter's properties hold, and what they rest on, in every state.
THEOREM LimiterInvariant == LimiterSpec => []LimiterInv
<1>1. LimiterInit => LimiterInv
  <2> SUFFICES ASSUME LimiterInit
               PROVE  LimiterInv
    OBVIOUS
  <2>1. \A client \in Clients : stamps[client] = {} /\ served[client] = {}
    BY DEF LimiterInit
  <2>2. IsFiniteSet({}) /\ Cardinality({}) = 0 /\ "chat" \in Kinds
    BY FS_EmptySet DEF Kinds
  <2>3. \A kind \in Kinds : 0 <= Limit(kind)
    BY LimitType
  <2>4. LimiterTypeOK
    BY <2>1, <2>2, <2>3 DEF LimiterTypeOK, LimiterInit
  <2>5. ListCoversWindow
    BY <2>1, <2>2 DEF ListCoversWindow
  <2>6. ASSUME NEW client \in Clients, NEW kind \in Kinds
        PROVE  Cardinality(OfKind(client, kind)) <= Limit(kind)
    <3>1. OfKind(client, kind) = {}
      BY <2>1 DEF OfKind
    <3>. QED  BY <2>2, <2>3, <3>1
  <2>. QED  BY <2>4, <2>5, <2>6 DEF LimiterInv, LimitsHold
<1>2. LimiterInv /\ [LimiterNext]_limiterVars => LimiterInv'
  <2> SUFFICES ASSUME LimiterInv, [LimiterNext]_limiterVars
               PROVE  LimiterInv'
    OBVIOUS
  <2>1. CASE LimiterTick
    BY <2>1, TickKeepsInv
  <2>2. ASSUME NEW client \in Clients, NEW kind \in Kinds, LetThrough(client, kind)
        PROVE  LimiterInv'
    BY <2>2, LetThroughKeepsInv
  <2>3. ASSUME NEW client \in Clients, NEW kind \in Kinds, Reject(client, kind)
        PROVE  LimiterInv'
    BY <2>3, RejectKeepsInv
  <2>4. CASE UNCHANGED limiterVars
    BY <2>4 DEF limiterVars, LimiterInv, LimiterTypeOK, ListCoversWindow, LimitsHold,
                OfKind, Limit, Recent
  <2>. QED  BY <2>1, <2>2, <2>3, <2>4 DEF LimiterNext, Request
<1>. QED  BY <1>1, <1>2, PTL DEF LimiterSpec

\* No client's list grows beyond the higher of the limits, and its stamps are
\* told apart, whatever the limits and the threshold of the cleaning.
THEOREM LimiterTypeCorrect == LimiterSpec => []LimiterTypeOK
<1>1. LimiterInv => LimiterTypeOK
  BY DEF LimiterInv
<1>. QED  BY <1>1, LimiterInvariant, PTL

\* No client is served more requests of a kind within the window than the limit
\* of that kind, however it mixes them and whenever its list is cleaned.
THEOREM LimitsAlwaysHold == LimiterSpec => []LimitsHold
<1>1. LimiterInv => LimitsHold
  BY DEF LimiterInv
<1>. QED  BY <1>1, LimiterInvariant, PTL
===============================================================================
