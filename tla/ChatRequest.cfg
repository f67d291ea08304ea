\* Two concurrent requests, two models of which the budget holds one, and a
\* cache with room for one answer. The local time is UTC.
SPECIFICATION Spec
CONSTANTS
    Models = {mA, mB}
    Prompts = {p1}
    Params = {"given"}
    MaxSize = 1
    TTL = 2
    MaxAge = 2
    UTCShift = 0
    Requests = {r1, r2}
    MaxToolCalls = 1
    Pinned = mA
    NoModel = NoModel
    EstimateOf <- OneUnit
    MaxVRAM = 1
    FragmentationBuffer = 0
INVARIANTS
    TypeOK
    AnswersAreTheModels
    ServedWithinTTL
    SavedAnswersArePersisted
PROPERTY RequestsEnd
