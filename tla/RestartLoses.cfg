\* Rows are kept for longer than an answer lives, as they are by default.
SPECIFICATION Spec
CONSTANTS
    Models = {mA, mB}
    Prompts = {p1}
    Params = {"given"}
    MaxSize = 1
    TTL = 2
    MaxAge = 3
    UTCShift = 0
    Requests = {r1}
    MaxToolCalls = 0
    Pinned = NoModel
    NoModel = NoModel
    EstimateOf <- OneUnit
    MaxVRAM = 1
    FragmentationBuffer = 0
INVARIANT RestartRestores
