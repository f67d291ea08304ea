SPECIFICATION Spec
CONSTANTS
    Models = {mA, mB}
    Prompts = {p1}
    Params = {"given"}
    MaxSize = 1
    TTL = 1
    MaxAge = 1
    UTCShift = 0
    Requests = {r1, r2}
    MaxToolCalls = 0
    Pinned = NoModel
    NoModel = NoModel
    EstimateOf <- OneUnit
    MaxVRAM = 1
    FragmentationBuffer = 0
PROPERTY UnloadsOnlyWhatItLoaded
