\* Three similar prompts for a cache of two entries, two concurrent requests,
\* overrides, failing embeddings and administrators; safety only.
SPECIFICATION Spec
CONSTANTS
    Prompts = {p1, p2, p3}
    Models = {mA, mB}
    Similar <- AllPairs
    Requests = {r1, r2}
    MaxSize = 2
    MaxRecent = 2
    TTL = 1
    CountBound = 2
    NoPrompt = NoPrompt
    NoModel = NoModel
    Events = {"embed_fails", "override", "admin"}
SYMMETRY Symmetry
INVARIANTS
    TypeOK
    FrequencyMatches
    CountsAgree
    LeastRecentlyUsedFirst
