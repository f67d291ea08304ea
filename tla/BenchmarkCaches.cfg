\* A name with benchmarks of its own and in provider.db, one only in provider.db, and
\* a malformed one.  Times to live of 2, 2 and 3 ticks keep the order of the real ones.
SPECIFICATION Spec
CONSTANTS
    llama = llama
    gpt = gpt
    odd = odd
    Models = {llama, gpt, odd}
    Queries <- MCQueries
    Benchmarked = {llama}
    InProvider = {llama, gpt}
    Malformed = {odd}
    BenchmarkTTL = 2
    ProviderTTL = 2
    MergedTTL = 3
    StaleMax = 1
    Window = 1
INVARIANTS
    TypeOK
    RowsCatchUp
    InvalidationReachesCaches
