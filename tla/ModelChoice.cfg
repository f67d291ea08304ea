\* The dispatch: five models that differ in size, modality and what is known of them, one
\* of them excluded; benchmarks, profiles and ratings arrive while the request is dispatched.
\* The lists: two concurrent calls; the lifetimes of the lists and the timeout in ticks of
\* ten seconds, as they are set by default.
SPECIFICATION ChoiceSpec
CONSTANTS
    qwen = qwen
    llama = llama
    codellama = codellama
    llava = llava
    phi = phi
    Models = {qwen, llama, codellama, llava, phi}
    NoModel = NoModel
    Name <- MCName
    Kinship <- MCKinship
    SamePrefix <- MCSamePrefix
    QualityPreference = 5
    PreferNewer = TRUE
    Listed <- MCListed
    RowOrder <- MCRowOrder
    Included = {qwen, llama, codellama, llava}
    Excluded = {phi}
    Including = TRUE
    Prompts <- MCPrompts
    Asks <- MCAsks
    Requests = {r1}
    Profile <- MCProfile
    BenchmarkRow <- MCBenchmarkRow
    Rated = {llama}
    Arriving <- MCArriving
    Running <- MCRunning
    MaxRecent = 2
    MaxAnalyses = 1
    m1 = m1
    m2 = m2
    Inventories <- MCInventories
    Askers = {a1, a2}
    ClientTTL = 3
    AppTTL = 3
    EngineTTL = 1
    AppTimeout = 1
SYMMETRY Symmetry
INVARIANTS
    TypeOK
    ListsCatchUp
    DispatchTypeOK
    CapableIfAny
    SmallNeedsALead
PROPERTIES
    NewDataNeverDemotes
