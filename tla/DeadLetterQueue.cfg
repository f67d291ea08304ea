\* Three entries in batches of two, a manual retry next to the worker's, restarts
\* and a failing database.
SPECIFICATION FairSpec
CONSTANTS
    Failing = {"benchmark_sync", "background_sync_task"}
    MaxEntries = 3
    Admins = {a1}
    Worker = Worker
    MaxRetries = 2
    BaseDelay = 1
    BatchSize = 2
    ManualBound = 3
    Faults = {"restart", "database"}
INVARIANTS
    TypeOK
    StatusMatchesAttempts
    WorkerRetriesBounded
PROPERTIES
    EntriesSettle
