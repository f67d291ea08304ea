\* The breaker with three concurrent calls, cancellations and resets; the limiter with two
\* clients, the chat limit beyond the cleaning threshold and the admin limit not.
SPECIFICATION GuardsSpec
CONSTANTS
    Callers = {c1, c2, c3}
    FailureThreshold = 2
    ResetTimeout = 1
    QuotaResetTimeout = 2
    HalfOpenMaxAttempts = 2
    SlidingWindowSize = 3
    RetryEnabled = TRUE
    MaxRetries = 1
    Faults = {"cancel", "reset"}
    Clients = {ip1, ip2}
    AdminLimit = 2
    ChatLimit = 3
    Window = 2
    CleanupThreshold = 2
INVARIANTS
    TypeOK
    CountersMatchState
    LimiterTypeOK
    LimitsHold
PROPERTIES
    OpenLastsForResetTimeout
    ClosingIsEarned
    RecoversWithBackend
    RefusalEnds
