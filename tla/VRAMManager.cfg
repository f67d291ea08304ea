\* Every fault of the environment; no symmetry, because of EveryCallReturns.
SPECIFICATION FairSpec
CONSTANTS
    Models = {m1, m2, m3}
    Tasks = {t1, t2}
    NoTask = NoTask
    NoModel = NoModel
    Estimates <- MCEstimates
    MaxVRAM = 7
    FragmentationBuffer = 3
    AutoUnload = TRUE
    Faults = {"load_raises", "load_refused", "unload_fails", "cancel", "restart"}
INVARIANTS
    TypeOK
    BudgetRespected
    PinnedStaysTracked
PROPERTIES
    FreeingEnoughIsEnough
    ImplementsLedger
    LosesTrackOnlyByFailure
    EveryCallReturns
