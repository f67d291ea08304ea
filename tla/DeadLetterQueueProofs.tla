------------------------ MODULE DeadLetterQueueProofs ------------------------
(***************************************************************************)
(* The safety invariants of DeadLetterQueue, for any number of entries,    *)
(* administrators and retries.                                             *)
(*                                                                         *)
(* WorkerRetriesBounded is not inductive: it needs the number of attempts. *)
(* While an entry waits for a retry, or the worker holds it, the retries   *)
(* recorded for the worker are among its attempts.  A retry that succeeds  *)
(* is not an attempt, so a resolved entry may have one more; it waits for  *)
(* a retry again only after a failure, which is one.                       *)
(***************************************************************************)
EXTENDS DeadLetterQueue, FiniteSetTheorems, TLAPS

\* The entries the worker has yet to retry, the one under way included.
Held == batch \cup ({running[Worker]} \ {NoEntry})

RecordedAreAttempts ==
    /\ \A e \in Ids \ Stored : recorded[e] = 0
    /\ \A e \in Stored :
        /\ recorded[e] <= queue[e].attempts + 1
        /\ queue[e].status \in {"failed", "retrying"} => recorded[e] <= queue[e].attempts
    /\ \A e \in Held : recorded[e] <= queue[e].attempts /\ recorded[e] < MaxRetries
    /\ running[Worker] \notin batch
    /\ worker = "sleeping" => batch = {}

IInv == TypeOK /\ StatusMatchesAttempts /\ WorkerRetriesBounded /\ RecordedAreAttempts

-------------------------------------------------------------------------------
(* The operations of dlq.py                                                *)

\* The backoff is a natural number: as many as the subsets of 1 .. n.
LEMMA PowerOfTwo == ASSUME NEW n \in Nat PROVE 2 ^ n \in Nat
<1>1. IsFiniteSet(1 .. n) /\ Cardinality(1 .. n) = n
  BY FS_Interval
<1>2. /\ IsFiniteSet(SUBSET (1 .. n))
      /\ Cardinality(SUBSET (1 .. n)) = 2 ^ Cardinality(1 .. n)
  BY <1>1, FS_SUBSET
<1> QED
  BY <1>1, <1>2, FS_CardinalityType

\* A failed retry counts, and leaves the entry dead or waiting again.
LEMMA FailureFacts ==
    ASSUME NEW entry \in Entry
    PROVE  /\ AfterFailure(entry) \in Entry
           /\ AfterFailure(entry).attempts = entry.attempts + 1
           /\ AfterFailure(entry).status =
                 IF entry.attempts + 1 >= MaxRetries THEN "dead" ELSE "retrying"
<1>1. PICK n \in Nat : n = entry.attempts + 1
  BY DEF Entry
<1>2. 2 ^ (n - 1) \in Nat
  BY <1>1, PowerOfTwo DEF Entry
<1>3. PICK w \in Nat : w = IF n >= MaxRetries THEN 0 ELSE BaseDelay * 2 ^ (n - 1)
  BY <1>2, QueueAssumption
<1>4. PICK s \in {"retrying", "dead"} : s = IF n >= MaxRetries THEN "dead" ELSE "retrying"
  OBVIOUS
<1>5. AfterFailure(entry) = [entry EXCEPT !.attempts = n, !.status = s, !.wait = w]
  BY <1>1, <1>3, <1>4 DEF AfterFailure
<1>6. AfterFailure(entry) \in Entry
  BY <1>5 DEF Entry
<1> QED
  BY <1>1, <1>4, <1>5, <1>6 DEF Entry

\* The oldest of a set of entries are entries of that set.
LEMMA OldestSubset == ASSUME NEW S, NEW n PROVE Oldest(S, n) \subseteq S
BY DEF Oldest

-------------------------------------------------------------------------------
(* What a step does to an entry, and what that keeps                       *)

Quiet(x, y) == y.attempts = x.attempts /\ y.status = x.status

Succeeded(x, y) == y.attempts = x.attempts /\ y.status = "resolved"

Failed(x, y) ==
    /\ y.attempts = x.attempts + 1
    /\ y.status = IF x.attempts + 1 >= MaxRetries THEN "dead" ELSE "retrying"

Evolves == \A e \in Stored : \/ Quiet(queue[e], queue'[e])
                             \/ Succeeded(queue[e], queue'[e])
                             \/ Failed(queue[e], queue'[e])

WorkerOK == running[Worker] \notin batch /\ (worker = "sleeping" => batch = {})

\* Status and attempts stay in agreement, whoever records an outcome.
LEMMA EvolvesKeepsStatus ==
    ASSUME IInv, TypeOK', Stored' = Stored, Evolves
    PROVE  StatusMatchesAttempts'
<1> SUFFICES ASSUME NEW e \in Stored
             PROVE  /\ queue'[e].status = "failed" => queue'[e].attempts = 0
                    /\ queue'[e].status = "retrying" =>
                          queue'[e].attempts \in 1 .. MaxRetries - 1
                    /\ queue'[e].status = "dead" => queue'[e].attempts >= MaxRetries
  BY DEF StatusMatchesAttempts
<1> USE QueueAssumption
<1>1. queue[e].attempts \in Nat
  BY DEF IInv, TypeOK, Entry
<1>2. CASE Quiet(queue[e], queue'[e])
  BY <1>2 DEF Quiet, IInv, StatusMatchesAttempts
<1>3. CASE Succeeded(queue[e], queue'[e])
  BY <1>3 DEF Succeeded
<1>4. CASE Failed(queue[e], queue'[e])
  BY <1>1, <1>4 DEF Failed
<1> QED
  BY <1>2, <1>3, <1>4 DEF Evolves

\* An outcome the worker does not record leaves its retries among the attempts.
LEMMA OthersKeepRecorded ==
    ASSUME IInv, TypeOK', Stored' = Stored, Evolves, recorded' = recorded,
           Held' \subseteq Held, WorkerOK'
    PROVE  WorkerRetriesBounded' /\ RecordedAreAttempts'
<1> USE QueueAssumption
<1>1. WorkerRetriesBounded'
  BY DEF IInv, WorkerRetriesBounded
<1>2. ASSUME NEW e \in Stored
      PROVE  /\ recorded[e] <= queue'[e].attempts + 1
             /\ queue'[e].status \in {"failed", "retrying"} =>
                   recorded[e] <= queue'[e].attempts
             /\ queue[e].attempts <= queue'[e].attempts
  <2>1. /\ queue[e].attempts \in Nat /\ recorded[e] \in Nat
        /\ recorded[e] <= queue[e].attempts + 1
        /\ queue[e].status \in {"failed", "retrying"} => recorded[e] <= queue[e].attempts
    BY DEF IInv, TypeOK, Entry, RecordedAreAttempts
  <2>2. CASE Quiet(queue[e], queue'[e])
    BY <2>1, <2>2 DEF Quiet
  <2>3. CASE Succeeded(queue[e], queue'[e])
    BY <2>1, <2>3 DEF Succeeded
  <2>4. CASE Failed(queue[e], queue'[e])
    BY <2>1, <2>4 DEF Failed
  <2> QED
    BY <2>2, <2>3, <2>4 DEF Evolves
<1>3. \A e \in Held' : recorded[e] <= queue'[e].attempts /\ recorded[e] < MaxRetries
  <2> SUFFICES ASSUME NEW e \in Held'
               PROVE  recorded[e] <= queue'[e].attempts /\ recorded[e] < MaxRetries
    OBVIOUS
  <2>1. e \in Stored
    BY DEF Held, TypeOK, Runners
  <2>2. recorded[e] \in Nat /\ queue[e].attempts \in Nat /\ queue'[e].attempts \in Nat
    BY <2>1 DEF IInv, TypeOK, Entry
  <2>3. recorded[e] <= queue[e].attempts /\ recorded[e] < MaxRetries
    BY DEF IInv, RecordedAreAttempts
  <2> QED
    BY <1>2, <2>1, <2>2, <2>3
<1>4. \A e \in Ids \ Stored : recorded[e] = 0
  BY DEF IInv, RecordedAreAttempts
<1> QED
  BY <1>1, <1>2, <1>3, <1>4 DEF RecordedAreAttempts, WorkerOK

\* The worker records the retry of an entry it held: it had retries left.
LEMMA WorkerKeepsRecorded ==
    ASSUME IInv, TypeOK', Stored' = Stored, Evolves, NEW h \in Held,
           Succeeded(queue[h], queue'[h]) \/ Failed(queue[h], queue'[h]),
           recorded' = [recorded EXCEPT ![h] = @ + 1],
           Held' \subseteq Held \ {h}, WorkerOK'
    PROVE  WorkerRetriesBounded' /\ RecordedAreAttempts'
<1> USE QueueAssumption
<1>1. /\ h \in Stored /\ h \in Ids
      /\ recorded[h] \in Nat /\ queue[h].attempts \in Nat
      /\ recorded[h] <= queue[h].attempts /\ recorded[h] < MaxRetries
  <2>1. h \in Stored
    BY DEF Held, IInv, TypeOK, Runners
  <2> QED
    BY <2>1 DEF IInv, TypeOK, Entry, RecordedAreAttempts
<1>2. recorded'[h] = recorded[h] + 1 /\ \A e \in Ids \ {h} : recorded'[e] = recorded[e]
  BY <1>1 DEF IInv, TypeOK
<1>3. WorkerRetriesBounded'
  BY <1>1, <1>2 DEF IInv, TypeOK, WorkerRetriesBounded
<1>4. /\ recorded'[h] <= queue'[h].attempts + 1
      /\ queue'[h].status \in {"failed", "retrying"} => recorded'[h] <= queue'[h].attempts
  <2>1. CASE Succeeded(queue[h], queue'[h])
    BY <1>1, <1>2, <2>1 DEF Succeeded
  <2>2. CASE Failed(queue[h], queue'[h])
    BY <1>1, <1>2, <2>2 DEF Failed
  <2> QED
    BY <2>1, <2>2
<1>5. ASSUME NEW e \in Stored \ {h}
      PROVE  /\ recorded'[e] = recorded[e]
             /\ recorded[e] <= queue'[e].attempts + 1
             /\ queue'[e].status \in {"failed", "retrying"} =>
                   recorded[e] <= queue'[e].attempts
             /\ queue[e].attempts <= queue'[e].attempts
  <2>1. /\ queue[e].attempts \in Nat /\ recorded[e] \in Nat
        /\ recorded[e] <= queue[e].attempts + 1
        /\ queue[e].status \in {"failed", "retrying"} => recorded[e] <= queue[e].attempts
    BY DEF IInv, TypeOK, Entry, RecordedAreAttempts
  <2>2. CASE Quiet(queue[e], queue'[e])
    BY <1>2, <2>1, <2>2 DEF Quiet, IInv, TypeOK
  <2>3. CASE Succeeded(queue[e], queue'[e])
    BY <1>2, <2>1, <2>3 DEF Succeeded, IInv, TypeOK
  <2>4. CASE Failed(queue[e], queue'[e])
    BY <1>2, <2>1, <2>4 DEF Failed, IInv, TypeOK
  <2> QED
    BY <2>2, <2>3, <2>4 DEF Evolves
<1>6. \A e \in Held' : recorded'[e] <= queue'[e].attempts /\ recorded'[e] < MaxRetries
  <2> SUFFICES ASSUME NEW e \in Held'
               PROVE  recorded'[e] <= queue'[e].attempts /\ recorded'[e] < MaxRetries
    OBVIOUS
  <2>1. e \in Stored \ {h} /\ e \in Held
    BY DEF Held, TypeOK, Runners
  <2>2. recorded[e] \in Nat /\ queue[e].attempts \in Nat /\ queue'[e].attempts \in Nat
    BY <2>1 DEF IInv, TypeOK, Entry
  <2>3. recorded[e] <= queue[e].attempts /\ recorded[e] < MaxRetries
    BY <2>1 DEF IInv, RecordedAreAttempts
  <2> QED
    BY <1>5, <2>1, <2>2, <2>3
<1>7. \A e \in Ids \ Stored : recorded'[e] = 0
  BY <1>1, <1>2 DEF IInv, RecordedAreAttempts
<1> QED
  BY <1>3, <1>4, <1>5, <1>6, <1>7 DEF RecordedAreAttempts, WorkerOK

-------------------------------------------------------------------------------
(* The actions                                                             *)

\* Replacing one entry leaves the table well formed and the rest alone.
LEMMA ReplaceEntry ==
    ASSUME TypeOK, NEW e \in Stored, NEW new \in Entry,
           queue' = [queue EXCEPT ![e] = new]
    PROVE  /\ Stored' = Stored
           /\ queue' \in [Stored -> Entry]
           /\ queue'[e] = new
           /\ \A d \in Stored \ {e} : Quiet(queue[d], queue'[d])
BY DEF TypeOK, Stored, Quiet

\* A rejected task is a failed retry.
LEMMA RejectFacts ==
    ASSUME TypeOK, NEW e \in Stored, Reject(e)
    PROVE  /\ Stored' = Stored
           /\ queue' \in [Stored -> Entry]
           /\ Failed(queue[e], queue'[e])
           /\ Evolves
<1>1. queue[e] \in Entry
  BY DEF TypeOK
<1>2. PICK new \in Entry : new = AfterFailure(queue[e])
  BY <1>1, FailureFacts
<1>3. queue' = [queue EXCEPT ![e] = new]
  BY <1>2 DEF Reject
<1>4. Stored' = Stored /\ queue' \in [Stored -> Entry] /\ queue'[e] = new
  BY <1>3, ReplaceEntry
<1>5. \A d \in Stored \ {e} : Quiet(queue[d], queue'[d])
  BY <1>3, ReplaceEntry
<1>6. Failed(queue[e], queue'[e])
  BY <1>1, <1>2, <1>4, FailureFacts DEF Failed
<1> QED
  BY <1>4, <1>5, <1>6 DEF Evolves

\* Launching a task changes nothing an invariant looks at.
LEMMA LaunchFacts ==
    ASSUME TypeOK, NEW r \in Runners, NEW e \in Stored, Launch(r, e)
    PROVE  /\ Stored' = Stored
           /\ queue' \in [Stored -> Entry]
           /\ Evolves
           /\ running' = [running EXCEPT ![r] = e]
<1>1. queue' = queue /\ Stored' = Stored
  BY DEF Launch, Stored
<1>2. \A d \in Stored : Quiet(queue[d], queue'[d])
  BY <1>1 DEF Quiet
<1> QED
  BY <1>1, <1>2 DEF Evolves, Launch, TypeOK

\* Recording the end of a task resolves the entry or fails it once more.
LEMMA RecordFacts ==
    ASSUME TypeOK, NEW r \in Runners, Record(r)
    PROVE  /\ running[r] \in Stored
           /\ Stored' = Stored
           /\ queue' \in [Stored -> Entry]
           /\ \/ Succeeded(queue[running[r]], queue'[running[r]])
              \/ Failed(queue[running[r]], queue'[running[r]])
           /\ Evolves
           /\ running' = [running EXCEPT ![r] = NoEntry]
<1> DEFINE e == running[r]
<1>1. e \in Stored /\ queue[e] \in Entry
  BY DEF Record, TypeOK
<1>2. PICK new \in Entry : /\ queue' = [queue EXCEPT ![e] = new]
                           /\ Succeeded(queue[e], new) \/ Failed(queue[e], new)
  <2>1. CASE queue' = [queue EXCEPT ![e] = AfterSuccess(@)]
    <3>1. PICK new \in Entry : new = AfterSuccess(queue[e])
      BY <1>1 DEF AfterSuccess, Entry
    <3>2. Succeeded(queue[e], new)
      BY <1>1, <3>1 DEF AfterSuccess, Succeeded, Entry
    <3> QED
      BY <2>1, <3>1, <3>2
  <2>2. CASE queue' = [queue EXCEPT ![e] = AfterFailure(@)]
    <3>1. PICK new \in Entry : new = AfterFailure(queue[e])
      BY <1>1, FailureFacts
    <3>2. Failed(queue[e], new)
      BY <1>1, <3>1, FailureFacts DEF Failed
    <3> QED
      BY <2>2, <3>1, <3>2
  <2> QED
    BY <2>1, <2>2 DEF Record
<1>3. Stored' = Stored /\ queue' \in [Stored -> Entry] /\ queue'[e] = new
  BY <1>1, <1>2, ReplaceEntry
<1>4. \A d \in Stored \ {e} : Quiet(queue[d], queue'[d])
  BY <1>1, <1>2, ReplaceEntry
<1>5. Evolves
  BY <1>2, <1>3, <1>4 DEF Evolves
<1> QED
  BY <1>1, <1>2, <1>3, <1>5 DEF Record

\* An administrator's step preserves the invariant.
LEMMA AdminIInv ==
    ASSUME IInv, NEW a \in Admins,
           AdminEnds(a) \/ \E e \in Ids : AdminRetries(a, e)
    PROVE  IInv'
<1> USE QueueAssumption
<1>1. a \in Runners /\ Worker \in Runners /\ a # Worker /\ TypeOK
  BY DEF Runners, IInv
<1>2. UNCHANGED <<batch, worker, recorded>>
  BY DEF AdminEnds, AdminRetries
<1>3. /\ Stored' = Stored
      /\ queue' \in [Stored -> Entry]
      /\ Evolves
      /\ running' \in [Runners -> Stored \cup {NoEntry}]
      /\ running'[Worker] = running[Worker]
  <2>1. ASSUME NEW e \in Ids, AdminRetries(a, e), Launch(a, e) PROVE <1>3!:
    <3>1. e \in Stored
      BY <2>1 DEF AdminRetries
    <3> QED
      BY <1>1, <2>1, <3>1, LaunchFacts DEF TypeOK
  <2>2. ASSUME NEW e \in Ids, AdminRetries(a, e), Reject(e) PROVE <1>3!:
    <3>1. e \in Stored /\ running' = running
      BY <2>2 DEF AdminRetries, Reject
    <3> QED
      BY <1>1, <2>2, <3>1, RejectFacts DEF TypeOK
  <2>3. CASE Record(a)
    BY <1>1, <2>3, RecordFacts DEF TypeOK
  <2>4. CASE Drop(a)
    BY <1>1, <2>4 DEF Drop, TypeOK, Stored, Evolves, Quiet
  <2> QED
    BY <2>1, <2>2, <2>3, <2>4 DEF AdminEnds, AdminRetries
<1>4. TypeOK'
  BY <1>1, <1>2, <1>3 DEF TypeOK
<1>5. Held' = Held /\ WorkerOK'
  BY <1>2, <1>3 DEF Held, WorkerOK, IInv, RecordedAreAttempts
<1> QED
  BY <1>2, <1>3, <1>4, <1>5, EvolvesKeepsStatus, OthersKeepRecorded DEF IInv

\* A new entry has no attempts, and the worker never recorded one.
LEMMA EnqueueIInv == ASSUME IInv, NEW task \in Failing, Enqueue(task) PROVE IInv'
<1> USE QueueAssumption
<1>1. PICK e \in Ids :
        /\ Stored = 1 .. e - 1
        /\ queue' = [i \in Stored \cup {e} |->
                        IF i = e
                        THEN [task |-> task, status |-> "failed", attempts |-> 0,
                              wait |-> BaseDelay]
                        ELSE queue[i]]
  BY DEF Enqueue
<1>2. UNCHANGED <<running, batch, worker, recorded>>
  BY DEF Enqueue
<1>3. Stored' = Stored \cup {e} /\ e \notin Stored
  BY <1>1 DEF Stored, Ids
<1>4. /\ queue'[e] \in Entry
      /\ queue'[e].status = "failed" /\ queue'[e].attempts = 0
  BY <1>1 DEF Entry
<1>5. \A i \in Stored : queue'[i] = queue[i]
  BY <1>1, <1>3
<1>6. TypeOK'
  <2>1. queue' \in [Stored' -> Entry]
    BY <1>1, <1>3, <1>4, <1>5 DEF IInv, TypeOK
  <2> QED
    BY <1>2, <1>3, <2>1 DEF IInv, TypeOK
<1>7. StatusMatchesAttempts'
  BY <1>3, <1>4, <1>5 DEF IInv, StatusMatchesAttempts
<1>8. WorkerRetriesBounded'
  BY <1>2 DEF IInv, WorkerRetriesBounded
<1>9. Held' = Held /\ Held \subseteq Stored
  BY <1>2 DEF Held, IInv, TypeOK, Runners
<1>10. RecordedAreAttempts'
  <2>1. recorded'[e] = 0
    BY <1>2, <1>3 DEF IInv, RecordedAreAttempts
  <2> QED
    BY <1>2, <1>3, <1>4, <1>5, <1>9, <2>1 DEF IInv, RecordedAreAttempts
<1> QED
  BY <1>6, <1>7, <1>8, <1>10 DEF IInv

\* The worker takes up entries that are due: they have retries left.
LEMMA WakesIInv == ASSUME IInv, WorkerWakes PROVE IInv'
<1> USE QueueAssumption
<1>1. UNCHANGED <<queue, running, recorded>> /\ worker' = "picking" /\ worker = "sleeping"
  BY DEF WorkerWakes
<1>2. running[Worker] = NoEntry
  BY <1>1 DEF IInv, TypeOK, Runners
<1>3. batch' \subseteq {e \in Stored : Due(e)}
  BY OldestSubset DEF WorkerWakes
<1>4. Stored' = Stored /\ TypeOK'
  BY <1>1, <1>2, <1>3 DEF IInv, TypeOK, Stored
<1>5. StatusMatchesAttempts' /\ WorkerRetriesBounded'
  BY <1>1, <1>4 DEF IInv, StatusMatchesAttempts, WorkerRetriesBounded
<1>6. ASSUME NEW e \in Held' PROVE recorded[e] <= queue[e].attempts /\ recorded[e] < MaxRetries
  <2>1. e \in Stored /\ Due(e)
    BY <1>1, <1>2, <1>3 DEF Held
  <2>2. recorded[e] \in Nat /\ queue[e].attempts \in Nat
    BY <2>1 DEF IInv, TypeOK, Entry
  <2>3. recorded[e] <= queue[e].attempts
    BY <2>1 DEF Due, IInv, RecordedAreAttempts
  <2> QED
    BY <2>1, <2>2, <2>3 DEF Due
<1>7. running'[Worker] \notin batch'
  BY <1>1, <1>2, <1>3 DEF IInv, TypeOK, Ids, NoEntry
<1>8. RecordedAreAttempts'
  BY <1>1, <1>4, <1>6, <1>7 DEF IInv, RecordedAreAttempts
<1> QED
  BY <1>4, <1>5, <1>8 DEF IInv

\* The entry picked is launched, or rejected and recorded at once.
LEMMA PicksIInv == ASSUME IInv, WorkerPicks PROVE IInv'
<1> USE QueueAssumption
<1>1. PICK e \in batch :
        /\ batch' = batch \ {e}
        /\ \/ /\ Launch(Worker, e)
              /\ worker' = "retrying"
              /\ UNCHANGED recorded
           \/ /\ Reject(e)
              /\ worker' = IF batch' = {} THEN "sleeping" ELSE "picking"
              /\ recorded' = [recorded EXCEPT ![e] = @ + 1]
  BY OldestSubset DEF WorkerPicks
<1>2. /\ TypeOK /\ e \in Stored /\ e \in Ids /\ e # NoEntry
      /\ Worker \in Runners /\ running[Worker] = NoEntry
  BY DEF WorkerPicks, IInv, TypeOK, Runners, Ids, NoEntry
<1>3. CASE Launch(Worker, e) /\ worker' = "retrying" /\ UNCHANGED recorded
  <2>1. /\ Stored' = Stored
        /\ queue' \in [Stored -> Entry]
        /\ Evolves
        /\ running' = [running EXCEPT ![Worker] = e]
    BY <1>2, <1>3, LaunchFacts
  <2>2. running'[Worker] = e
    BY <1>2, <2>1 DEF TypeOK
  <2>3. TypeOK'
    BY <1>1, <1>2, <1>3, <2>1, <2>2 DEF TypeOK
  <2>4. Held' \subseteq Held /\ WorkerOK'
    BY <1>1, <1>3, <2>2 DEF Held, WorkerOK
  <2> QED
    BY <1>3, <2>1, <2>3, <2>4, EvolvesKeepsStatus, OthersKeepRecorded DEF IInv
<1>4. CASE /\ Reject(e)
           /\ worker' = IF batch' = {} THEN "sleeping" ELSE "picking"
           /\ recorded' = [recorded EXCEPT ![e] = @ + 1]
  <2>1. /\ Stored' = Stored
        /\ queue' \in [Stored -> Entry]
        /\ Failed(queue[e], queue'[e])
        /\ Evolves
    BY <1>2, <1>4, RejectFacts
  <2>2. running' = running /\ e \in Held
    BY <1>4 DEF Reject, Held
  <2>3. TypeOK'
    BY <1>1, <1>2, <1>4, <2>1, <2>2 DEF TypeOK
  <2>4. Held' \subseteq Held \ {e} /\ WorkerOK'
    BY <1>1, <1>2, <1>4, <2>2 DEF Held, WorkerOK, IInv, TypeOK, Ids, NoEntry
  <2> QED
    BY <1>4, <2>1, <2>2, <2>3, <2>4, EvolvesKeepsStatus, WorkerKeepsRecorded DEF IInv
<1> QED
  BY <1>1, <1>3, <1>4

\* The end of a task the worker awaited, recorded or not, and the end of a batch.
LEMMA WorkerEndsIInv ==
    ASSUME IInv, WorkerRecords \/ WorkerGivesUp \/ WorkerStops PROVE IInv'
<1> USE QueueAssumption
<1>1. TypeOK /\ Worker \in Runners
  BY DEF IInv, Runners
<1>2. CASE WorkerRecords
  <2> DEFINE h == running[Worker]
  <2>1. /\ h \in Stored
        /\ Stored' = Stored
        /\ queue' \in [Stored -> Entry]
        /\ Succeeded(queue[h], queue'[h]) \/ Failed(queue[h], queue'[h])
        /\ Evolves
        /\ running' = [running EXCEPT ![Worker] = NoEntry]
    BY <1>1, <1>2, RecordFacts DEF WorkerRecords
  <2>2. /\ batch' = batch /\ recorded' = [recorded EXCEPT ![h] = @ + 1]
        /\ worker' = IF batch = {} THEN "sleeping" ELSE "picking"
    BY <1>2 DEF WorkerRecords
  <2>3. running'[Worker] = NoEntry /\ h # NoEntry
    BY <1>1, <2>1 DEF TypeOK, Ids, NoEntry
  <2>4. TypeOK'
    BY <1>1, <2>1, <2>2, <2>3 DEF TypeOK
  <2>5. h \in Held /\ Held' \subseteq Held \ {h} /\ WorkerOK'
    BY <1>1, <2>2, <2>3 DEF Held, WorkerOK, IInv, TypeOK, RecordedAreAttempts, Ids, NoEntry
  <2>6. StatusMatchesAttempts'
    BY <2>1, <2>4, EvolvesKeepsStatus
  <2>7. WorkerRetriesBounded' /\ RecordedAreAttempts'
    BY <2>1, <2>2, <2>4, <2>5, WorkerKeepsRecorded
  <2> QED
    BY <2>4, <2>6, <2>7 DEF IInv
<1>3. CASE WorkerGivesUp
  <2>1. /\ queue' = queue /\ recorded' = recorded /\ batch' = {} /\ worker' = "sleeping"
        /\ running' = [running EXCEPT ![Worker] = NoEntry]
    BY <1>3 DEF WorkerGivesUp, Drop
  <2>2. Stored' = Stored /\ Evolves
    BY <2>1 DEF Stored, Evolves, Quiet
  <2>3. running'[Worker] = NoEntry /\ TypeOK'
    BY <1>1, <2>1, <2>2 DEF TypeOK
  <2>4. Held' \subseteq Held /\ WorkerOK'
    BY <2>1, <2>3 DEF Held, WorkerOK
  <2> QED
    BY <2>1, <2>2, <2>3, <2>4, EvolvesKeepsStatus, OthersKeepRecorded DEF IInv
<1>4. CASE WorkerStops
  <2>1. /\ queue' = queue /\ recorded' = recorded /\ batch' = {} /\ worker' = "sleeping"
        /\ running' = running /\ running[Worker] = NoEntry
    BY <1>1, <1>4 DEF WorkerStops, TypeOK
  <2>2. Stored' = Stored /\ Evolves
    BY <2>1 DEF Stored, Evolves, Quiet
  <2>3. TypeOK'
    BY <1>1, <2>1, <2>2 DEF TypeOK
  <2>4. Held' \subseteq Held /\ WorkerOK'
    BY <2>1 DEF Held, WorkerOK
  <2> QED
    BY <2>1, <2>2, <2>3, <2>4, EvolvesKeepsStatus, OthersKeepRecorded DEF IInv
<1> QED
  BY <1>2, <1>3, <1>4

\* The passing of time and a restart touch neither status nor attempts.
LEMMA EnvironmentIInv == ASSUME IInv, Tick \/ Restart \/ UNCHANGED vars PROVE IInv'
<1> USE QueueAssumption
<1>1. recorded' = recorded
  BY DEF Tick, Restart, vars
<1>2. CASE Tick
  <2>1. Stored' = Stored /\ UNCHANGED <<running, batch, worker>>
    BY <1>2 DEF Tick, Stored
  <2>2. ASSUME NEW e \in Stored PROVE queue'[e] \in Entry /\ Quiet(queue[e], queue'[e])
    <3>1. queue'[e] = Sooner(queue[e]) /\ queue[e] \in Entry
      BY <1>2 DEF Tick, IInv, TypeOK
    <3> DEFINE w == IF queue[e].wait = 0 THEN 0 ELSE queue[e].wait - 1
    <3>2. w \in Nat /\ Sooner(queue[e]) = [queue[e] EXCEPT !.wait = w]
      BY <3>1 DEF Sooner, Entry
    <3> HIDE DEF w
    <3> QED
      BY <3>1, <3>2 DEF Entry, Quiet
  <2>3. queue' \in [Stored -> Entry]
    BY <1>2, <2>2 DEF Tick
  <2>4. TypeOK' /\ Evolves
    BY <1>1, <2>1, <2>2, <2>3 DEF IInv, TypeOK, Evolves
  <2>5. Held' = Held /\ WorkerOK'
    BY <2>1 DEF Held, WorkerOK, IInv, RecordedAreAttempts
  <2> QED
    BY <1>1, <2>1, <2>4, <2>5, EvolvesKeepsStatus, OthersKeepRecorded DEF IInv
<1>3. CASE Restart
  <2>1. /\ queue' = queue /\ batch' = {} /\ worker' = "sleeping"
        /\ running' = [r \in Runners |-> NoEntry]
    BY <1>3 DEF Restart
  <2>2. Stored' = Stored /\ Evolves /\ running'[Worker] = NoEntry
    BY <2>1 DEF Stored, Evolves, Quiet, Runners
  <2>3. TypeOK'
    BY <1>1, <2>1, <2>2 DEF IInv, TypeOK
  <2>4. Held' \subseteq Held /\ WorkerOK'
    BY <2>1, <2>2 DEF Held, WorkerOK
  <2> QED
    BY <1>1, <2>2, <2>3, <2>4, EvolvesKeepsStatus, OthersKeepRecorded DEF IInv
<1>4. CASE UNCHANGED vars
  BY <1>4 DEF vars, IInv, TypeOK, Stored, StatusMatchesAttempts, WorkerRetriesBounded,
              RecordedAreAttempts, Held
<1> QED
  BY <1>2, <1>3, <1>4

-------------------------------------------------------------------------------
(* Theorems                                                                *)

\* The table starts empty.
LEMMA InitIInv == Init => IInv
<1> SUFFICES ASSUME Init PROVE IInv
  OBVIOUS
<1> USE QueueAssumption
<1>1. Stored = {} /\ queue \in [Stored -> Entry] /\ running[Worker] = NoEntry
  BY DEF Init, Stored, Runners
<1>2. TypeOK
  BY <1>1 DEF Init, TypeOK
<1> QED
  BY <1>1, <1>2 DEF Init, IInv, StatusMatchesAttempts, WorkerRetriesBounded,
                    RecordedAreAttempts, Held

\* Every step preserves the invariant.
LEMMA NextIInv == IInv /\ [Next]_vars => IInv'
<1> QED
  BY EnqueueIInv, AdminIInv, WakesIInv, PicksIInv, WorkerEndsIInv, EnvironmentIInv
     DEF Next

\* The invariant holds throughout.
THEOREM InductiveInvariant == Spec => []IInv
<1> QED
  BY InitIInv, NextIInv, PTL DEF Spec

\* Every variable keeps its type.
THEOREM TypeCorrect == Spec => []TypeOK
<1>1. IInv => TypeOK
  BY DEF IInv
<1> QED
  BY <1>1, InductiveInvariant, PTL

\* An entry waits for a retry exactly while it has retries left.
THEOREM StatusAlwaysMatches == Spec => []StatusMatchesAttempts
<1>1. IInv => StatusMatchesAttempts
  BY DEF IInv
<1> QED
  BY <1>1, InductiveInvariant, PTL

\* The worker never records more than dlq_max_retries retries of an entry.
THEOREM WorkerRetriesAreBounded == Spec => []WorkerRetriesBounded
<1>1. IInv => WorkerRetriesBounded
  BY DEF IInv
<1> QED
  BY <1>1, InductiveInvariant, PTL
===============================================================================
