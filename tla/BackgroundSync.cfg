\* The background task and one other call, two models, one of which comes and goes.
SPECIFICATION FairSpec
CONSTANTS
    BaseTimeout = 90000
    MinTimeout = 30000
    MaxTimeout = 1800000
    SafetyFactor = 20
    PromptsPerCategory = 3
    DiskSpeed = 50
    WarmupMax = 1800000
    JudgeEnabled = TRUE
    JudgeRetries = 3
    m1 = m1
    m2 = m2
    Models = {m1, m2}
    External = {}
    Excluded = {}
    Inventories <- MCInventories
    Loop = loop
    Others = {admin}
    Measurable = {m2}
    ParallelCount = 1
    Cleanup = TRUE
    AutoProfile = TRUE
    Polling = TRUE
INVARIANTS
    TypeOK
PROPERTIES
    MeasurementsAreKept
    DatabaseCatchesUp
