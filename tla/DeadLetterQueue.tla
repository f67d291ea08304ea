--------------------------- MODULE DeadLetterQueue ---------------------------
(***************************************************************************)
(* router/dlq.py, and the two places of the router that retry its entries: *)
(* background_dlq_retry_task and retry_dlq_entry of router/lifecycle.py,   *)
(* and POST /admin/dlq/retry/{entry_id} of router/api/admin.py.            *)
(*                                                                         *)
(* The table is in the database: it survives a restart, the runs under way *)
(* do not.  Every function of dlq.py is synchronous, hence atomic in the   *)
(* event loop; the await of a retry is the failed task's own work, and the *)
(* entry can change while it is under way.                                 *)
(*                                                                         *)
(* Ids are given in order of creation.  next_retry_at is the number of     *)
(* ticks left before it, 0 when it has passed or is None.                  *)
(***************************************************************************)
EXTENDS Integers, FiniteSets

\* The names retry_dlq_entry knows, and the one it does not but that
\* background_sync_task enqueues.
KnownTasks == {"provider_db_download", "benchmark_sync", "profile_all_models",
               "background_cache_cleanup"}

TaskNames == KnownTasks \cup {"background_sync_task"}

CONSTANTS
    Failing,       \* the tasks that fail, a subset of TaskNames
    MaxEntries,    \* bound: failures that are enqueued
    Admins,        \* concurrent requests to the admin endpoint
    Worker,        \* background_dlq_retry_task
    MaxRetries,    \* dlq_max_retries
    BaseDelay,     \* dlq_retry_base_delay_seconds, in ticks
    BatchSize,     \* dlq_auto_retry_batch_size
    ManualBound,   \* bound: no manual retry beyond this number of attempts
    Faults         \* of {"restart", "database"}

ASSUME QueueAssumption ==
    /\ Failing \subseteq TaskNames
    /\ MaxEntries \in Nat
    /\ Worker \notin Admins
    /\ MaxRetries \in Nat \ {0}
    /\ BaseDelay \in Nat \ {0}
    /\ BatchSize \in Nat \ {0}
    /\ ManualBound \in Nat
    /\ Faults \subseteq {"restart", "database"}

VARIABLES
    queue,     \* the table: queue[e] for every id e given so far
    running,   \* running[r]: the entry whose task runner r awaits
    batch,     \* the worker's entries still to retry, as it read them
    worker,    \* "sleeping", "picking" the next of the batch, or "retrying"
    recorded   \* history: the worker's retries of e whose outcome was recorded

vars == <<queue, running, batch, worker, recorded>>

NoEntry == 0

Ids == 1 .. MaxEntries

Runners == Admins \cup {Worker}

Entry == [task : TaskNames,
          status : {"failed", "retrying", "resolved", "dead"},
          attempts : Nat,
          wait : Nat]

Init ==
    /\ queue = [e \in {} |-> NoEntry]
    /\ running = [r \in Runners |-> NoEntry]
    /\ batch = {}
    /\ worker = "sleeping"
    /\ recorded = [e \in Ids |-> 0]

Stored == DOMAIN queue

-------------------------------------------------------------------------------
(* dlq.py                                                                  *)

\* The worker yields to the event loop only when it sleeps or awaits a task.
Yielded == worker # "picking"

\* enqueue_failed_task, with the next id.
Enqueue(task) ==
    /\ Yielded
    /\ \E e \in Ids :
        /\ Stored = 1 .. e - 1
        /\ queue' = [i \in Stored \cup {e} |->
                        IF i = e
                        THEN [task |-> task, status |-> "failed", attempts |-> 0,
                              wait |-> BaseDelay]
                        ELSE queue[i]]
    /\ UNCHANGED <<running, batch, worker, recorded>>

\* Mutant of Due: what is not resolved is due, however often it was retried.
DueUnlessResolved(e) == queue[e].status # "resolved" /\ queue[e].wait = 0

\* The filter of get_due_retry_entries.
Due(e) ==
    /\ queue[e].attempts < MaxRetries
    /\ queue[e].status \in {"failed", "retrying"}
    /\ queue[e].wait = 0

\* ORDER BY created_at LIMIT n
Oldest(S, n) == {e \in S : Cardinality({d \in S : d < e}) < n}

\* Mutant of AfterSuccess: it is set back to wait for another retry.
AfterSuccessRequeued(entry) == [entry EXCEPT !.status = "retrying", !.wait = BaseDelay]

\* mark_retry_success
AfterSuccess(entry) == [entry EXCEPT !.status = "resolved"]

\* Mutant of AfterFailure: an entry is dead one failure too late.
AfterFailureLate(entry) ==
    LET attempts == entry.attempts + 1
        dead == attempts > MaxRetries
    IN  [entry EXCEPT !.attempts = attempts,
                      !.status = IF dead THEN "dead" ELSE "retrying",
                      !.wait = IF dead THEN 0 ELSE BaseDelay * 2 ^ (attempts - 1)]

\* mark_retry_failure: whatever the status was.
AfterFailure(entry) ==
    LET attempts == entry.attempts + 1
        dead == attempts >= MaxRetries
    IN  [entry EXCEPT !.attempts = attempts,
                      !.status = IF dead THEN "dead" ELSE "retrying",
                      !.wait = IF dead THEN 0 ELSE BaseDelay * 2 ^ (attempts - 1)]

-------------------------------------------------------------------------------
(* retry_dlq_entry                                                         *)

\* The task is awaited.  Neither the status nor another runner is looked at.
Launch(r, e) ==
    /\ queue[e].task \in KnownTasks
    /\ running' = [running EXCEPT ![r] = e]
    /\ UNCHANGED queue

\* "Unknown DLQ task" is raised, and recorded, without an await.  If recording it
\* fails the administrator gets an error, and nothing has changed.
Reject(e) ==
    /\ queue[e].task \notin KnownTasks
    /\ queue' = [queue EXCEPT ![e] = AfterFailure(@)]
    /\ UNCHANGED running

\* Mutant of Record: the runner is not freed.
RecordStillRunning(r) ==
    /\ running[r] # NoEntry
    /\ \/ queue' = [queue EXCEPT ![running[r]] = AfterSuccess(@)]
       \/ queue' = [queue EXCEPT ![running[r]] = AfterFailure(@)]
    /\ UNCHANGED running

\* The task ends, and its outcome is recorded.
Record(r) ==
    /\ running[r] # NoEntry
    /\ \/ queue' = [queue EXCEPT ![running[r]] = AfterSuccess(@)]
       \/ queue' = [queue EXCEPT ![running[r]] = AfterFailure(@)]
    /\ running' = [running EXCEPT ![r] = NoEntry]

\* Recording the outcome fails too: the exception leaves retry_dlq_entry.
Drop(r) ==
    /\ "database" \in Faults
    /\ running[r] # NoEntry
    /\ running' = [running EXCEPT ![r] = NoEntry]
    /\ UNCHANGED queue

-------------------------------------------------------------------------------
(* The admin endpoint                                                      *)

AdminRetries(a, e) ==
    /\ Yielded
    /\ running[a] = NoEntry
    /\ e \in Stored
    /\ queue[e].attempts < ManualBound
    /\ Launch(a, e) \/ Reject(e)
    /\ UNCHANGED <<batch, worker, recorded>>

AdminEnds(a) ==
    /\ Yielded
    /\ Record(a) \/ Drop(a)
    /\ UNCHANGED <<batch, worker, recorded>>

-------------------------------------------------------------------------------
(* background_dlq_retry_task                                               *)

\* Its sleep ends: how long it slept is left open.
WorkerWakes ==
    /\ worker = "sleeping"
    /\ batch' = Oldest({e \in Stored : Due(e)}, BatchSize)
    /\ batch' # {}
    /\ worker' = "picking"
    /\ UNCHANGED <<queue, running, recorded>>

\* The next entry as it is now, which need not be as it was in the batch.
WorkerPicks ==
    /\ worker = "picking"
    /\ \E e \in Oldest(batch, 1) :
        /\ batch' = batch \ {e}
        /\ \/ /\ Launch(Worker, e)
              /\ worker' = "retrying"
              /\ UNCHANGED recorded
           \/ /\ Reject(e)
              /\ worker' = IF batch' = {} THEN "sleeping" ELSE "picking"
              /\ recorded' = [recorded EXCEPT ![e] = @ + 1]

\* The next entry cannot be read, or the rejection of it not be recorded.
WorkerStops ==
    /\ "database" \in Faults
    /\ worker = "picking"
    /\ batch' = {}
    /\ worker' = "sleeping"
    /\ UNCHANGED <<queue, running, recorded>>

WorkerRecords ==
    /\ worker = "retrying"
    /\ Record(Worker)
    /\ recorded' = [recorded EXCEPT ![running[Worker]] = @ + 1]
    /\ worker' = IF batch = {} THEN "sleeping" ELSE "picking"
    /\ UNCHANGED batch

\* "DLQ retry task error": the rest of the batch is left for another time.
WorkerGivesUp ==
    /\ worker = "retrying"
    /\ Drop(Worker)
    /\ batch' = {}
    /\ worker' = "sleeping"
    /\ UNCHANGED recorded

-------------------------------------------------------------------------------
(* The clock and the process                                               *)

Sooner(entry) == [entry EXCEPT !.wait = IF @ = 0 THEN 0 ELSE @ - 1]

Tick ==
    /\ Yielded
    /\ queue' = [e \in Stored |-> Sooner(queue[e])]
    /\ UNCHANGED <<running, batch, worker, recorded>>

\* Shutdown or crash: nothing of the runs under way is recorded.  A crash
\* while the worker picks leaves what one just after it would leave.
Restart ==
    /\ "restart" \in Faults
    /\ Yielded
    /\ running' = [r \in Runners |-> NoEntry]
    /\ batch' = {}
    /\ worker' = "sleeping"
    /\ UNCHANGED <<queue, recorded>>

-------------------------------------------------------------------------------
Next ==
    \/ \E task \in Failing : Enqueue(task)
    \/ \E a \in Admins : AdminEnds(a) \/ \E e \in Ids : AdminRetries(a, e)
    \/ WorkerWakes
    \/ WorkerPicks
    \/ WorkerStops
    \/ WorkerRecords
    \/ WorkerGivesUp
    \/ Tick
    \/ Restart

Spec == Init /\ [][Next]_vars

\* Time passes, the event loop runs the worker, and not every retry is cut short
\* by a restart or a failing database before it begins or before it is recorded.
Fairness ==
    /\ WF_vars(Tick)
    /\ WF_vars(WorkerWakes)
    /\ SF_vars(WorkerPicks)
    /\ SF_vars(WorkerRecords)

FairSpec == Spec /\ Fairness

-------------------------------------------------------------------------------
(* Properties                                                              *)

TypeOK ==
    /\ Stored \subseteq Ids
    /\ queue \in [Stored -> Entry]
    /\ running \in [Runners -> Stored \cup {NoEntry}]
    /\ batch \subseteq Stored
    /\ worker \in {"sleeping", "picking", "retrying"}
    /\ worker = "retrying" <=> running[Worker] # NoEntry
    /\ recorded \in [Ids -> Nat]

\* Status and attempts never contradict each other, although the worker and
\* the administrators may retry one entry at the same time: an entry waits for
\* a retry exactly while it has retries left, and is dead only without any.
StatusMatchesAttempts ==
    \A e \in Stored :
        /\ queue[e].status = "failed" => queue[e].attempts = 0
        /\ queue[e].status = "retrying" => queue[e].attempts \in 1 .. MaxRetries - 1
        /\ queue[e].status = "dead" => queue[e].attempts >= MaxRetries

\* "Maximum retry attempts per failed background task before marking it dead":
\* the worker never records more than dlq_max_retries retries of an entry, not
\* even of one an administrator brings back or has just used up.
WorkerRetriesBounded == \A e \in Ids : recorded[e] <= MaxRetries

\* Every entry ends resolved or dead: none is left behind by a full batch, a
\* batch given up halfway or a restart.
EntriesSettle ==
    \A e \in Ids :
        (e \in Stored /\ queue[e].status \in {"failed", "retrying"})
            ~> (e \in Stored /\ queue[e].status \in {"resolved", "dead"})

===============================================================================
