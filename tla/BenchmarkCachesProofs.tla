------------------------- MODULE BenchmarkCachesProofs -------------------------
(***************************************************************************)
(* How long the three caches may hide a change of router.db or provider.db *)
(* from requests, for any models, queries, times to live and windows.      *)
(*                                                                         *)
(* An entry is dated by its age, a change by the time it has been quiet.   *)
(* Ages and quiet times grow together, so that "the entry is younger than  *)
(* the last change" is kept by every tick, up to the caps of both.         *)
(***************************************************************************)
EXTENDS BenchmarkCaches, TLAPS

RouterKinds == {"none", "router", "old router"}
ProviderKinds == {"none", "provider", "old provider"}

\* Each of the two lower caches has rows of its own database only.
KindsApart ==
    /\ \A q \in Queries : cached[q].rows \in [Models -> RouterKinds]
    /\ provider.rows \in [Models -> ProviderKinds]

\* What was cached after the last change of router.db has its rows.
CachedIsCurrent ==
    \A q \in Queries :
        cached[q].age < BenchmarkTTL /\ cached[q].age < quiet.router =>
            \A m \in q \cap table : cached[q].rows[m] = "router"

\* What was merged a lifetime of the cache below after that has them too.
MergedHasRouter ==
    \A q \in Queries :
        merged[q].age < MergedTTL /\ quiet.router >= BenchmarkTTL + merged[q].age =>
            \A m \in q \cap table : merged[q].rows[m] = "router"

\* A degraded window has begun with the last trouble, or later ones have renewed it.
DegradedEnds == degraded > 0 => degraded + quiet.provider <= Window

\* What was merged after the degraded window has the rows of provider.db.
MergedHasProvider ==
    announced.provider /\ available =>
    \A q \in Queries :
        /\ merged[q].age < MergedTTL
        /\ quiet.provider > Window + merged[q].age
        /\ q \cap Malformed = {}
        => \A m \in q \cap InProvider : merged[q].rows[m] \in {"provider", "router", "old router"}

\* The inductive invariant.
IInv ==
    /\ TypeOK
    /\ KindsApart
    /\ InvalidationReachesCaches
    /\ CachedIsCurrent
    /\ MergedHasRouter
    /\ DegradedEnds
    /\ MergedHasProvider

-------------------------------------------------------------------------------
(* Requests                                                                *)

\* What get_benchmarks_for_models may answer, and leave in its cache: the rows of
\* router.db itself, or what was cached, or nothing after a failure.
LEMMA RouterAnswer ==
    ASSUME IInv, NEW q \in Queries, NEW local \in RouterAnswers(q)
    PROVE  /\ local.rows \in [Models -> RouterKinds]
           /\ local.entry \in Entries(BenchmarkTTL)
           /\ local.entry.rows \in [Models -> RouterKinds]
           /\ local.failed \in BOOLEAN
           /\ announced.router => \A m \in Models : /\ local.rows[m] # "old router"
                                                    /\ local.entry.rows[m] # "old router"
           /\ local.entry.age < BenchmarkTTL /\ local.entry.age < quiet.router =>
                \A m \in q \cap table : local.entry.rows[m] = "router"
           /\ ~local.failed /\ quiet.router >= BenchmarkTTL =>
                \A m \in q \cap table : local.rows[m] = "router"
  <1> DEFINE rows == RowsOf(q \cap table, "router")
  <1>1. /\ cached[q] \in Entries(BenchmarkTTL)
        /\ cached[q].rows \in [Models -> RouterKinds]
        /\ cached[q].age \in 0 .. BenchmarkTTL
        /\ quiet.router \in Nat
    BY CachesAssumption DEF IInv, TypeOK, KindsApart, Entries, RouterQuiet
  <1>2. /\ rows \in [Models -> RouterKinds]
        /\ \A m \in Models : rows[m] # "old router"
        /\ \A m \in q \cap table : rows[m] = "router"
    BY CachesAssumption DEF RowsOf, RouterKinds, IInv, TypeOK
  <1>3. NoRows \in [Models -> RouterKinds] /\ \A m \in Models : NoRows[m] # "old router"
    BY DEF NoRows, RouterKinds
  <1>4. RouterKinds \subseteq RowKinds
    BY DEF RouterKinds, RowKinds
  <1> HIDE DEF rows
  <1>5. [age |-> 0, rows |-> rows] \in Entries(BenchmarkTTL)
    <2>1. rows \in [Models -> RowKinds]
      BY <1>2 DEF RouterKinds, RowKinds
    <2>2. 0 \in 0 .. BenchmarkTTL
      BY CachesAssumption
    <2>3. QED
      BY <2>1, <2>2 DEF Entries
  <1> USE DEF rows
  <1>6. CASE cached[q].age < BenchmarkTTL
    <2>1. local = [rows |-> cached[q].rows, entry |-> cached[q], failed |-> FALSE]
      BY <1>6 DEF RouterAnswers
    <2>2. announced.router => \A m \in Models : cached[q].rows[m] # "old router"
      BY DEF IInv, InvalidationReachesCaches
    <2>3. cached[q].age < quiet.router => \A m \in q \cap table : cached[q].rows[m] = "router"
      BY <1>6 DEF IInv, CachedIsCurrent
    <2>4. quiet.router >= BenchmarkTTL => cached[q].age < quiet.router
      BY <1>1, <1>6, CachesAssumption
    <2>5. /\ local.rows = cached[q].rows
          /\ local.entry = cached[q]
          /\ local.failed = FALSE
      BY <2>1
    <2>6. QED
      BY <1>1, <2>2, <2>3, <2>4, <2>5
  <1>7. CASE ~(cached[q].age < BenchmarkTTL)
    <2>1. \/ local = [rows |-> rows, entry |-> [age |-> 0, rows |-> rows], failed |-> FALSE]
          \/ local = [rows |-> NoRows, entry |-> cached[q], failed |-> TRUE]
      BY <1>7 DEF RouterAnswers
    <2>2. CASE local = [rows |-> rows, entry |-> [age |-> 0, rows |-> rows], failed |-> FALSE]
      BY <2>2, <1>2, <1>5
    <2>3. CASE local = [rows |-> NoRows, entry |-> cached[q], failed |-> TRUE]
      BY <2>3, <1>1, <1>3, <1>7 DEF IInv, InvalidationReachesCaches
    <2>4. QED
      BY <2>1, <2>2, <2>3
  <1>8. QED
    BY <1>6, <1>7

\* What the cache of provider.db answers with, also after trouble.
LEMMA InMemoryRows ==
    ASSUME IInv, NEW rows \in {InMemory, Fallback}
    PROVE  /\ rows \in [Models -> ProviderKinds]
           /\ announced.provider => \A m \in Models : rows[m] # "old provider"
  <1>1. NoRows \in [Models -> ProviderKinds] /\ \A m \in Models : NoRows[m] # "old provider"
    BY DEF NoRows, ProviderKinds
  <1>2. rows = provider.rows \/ rows = NoRows
    BY DEF InMemory, Fallback
  <1>3. QED
    BY <1>1, <1>2 DEF IInv, KindsApart, InvalidationReachesCaches

\* What ProviderDB.get_benchmarks_for_models may answer, and leave in its cache: without
\* trouble, and beyond a degraded window, the row of every model asked for that has one.
LEMMA ProviderAnswer ==
    ASSUME IInv, NEW q \in Queries, NEW external \in ProviderAnswers(q)
    PROVE  /\ external.rows \in [Models -> ProviderKinds]
           /\ external.entry \in [age : 0 .. ProviderTTL + 1, rows : [Models -> ProviderKinds],
                                  good : 0 .. StaleMax + 1]
           /\ external.degraded \in 0 .. Window
           /\ external.trouble \in BOOLEAN
           /\ ~external.trouble => external.degraded = degraded
           /\ announced.provider => \A m \in Models : external.entry.rows[m] # "old provider"
           /\ (/\ announced.provider /\ available /\ q \cap Malformed = {}
               /\ ~external.trouble /\ degraded = 0)
                => \A m \in q \cap InProvider : external.rows[m] = "provider"
  <1> DEFINE known == q \cap Found(InMemory)
             found == (q \ known) \cap InProvider
             rows == [m \in Models |-> IF m \in found THEN "provider"
                                       ELSE IF m \in known THEN InMemory[m] ELSE "none"]
             Kept == [age : 0 .. ProviderTTL + 1, rows : [Models -> ProviderKinds],
                      good : 0 .. StaleMax + 1]
  <1>1. q \subseteq Models
    BY CachesAssumption
  <1>2. /\ InMemory \in [Models -> ProviderKinds]
        /\ announced.provider => \A m \in Models : InMemory[m] # "old provider"
    BY InMemoryRows
  <1>3. /\ Only(q, Fallback) \in [Models -> ProviderKinds]
        /\ NoRows \in [Models -> ProviderKinds]
    BY InMemoryRows DEF Only, NoRows, ProviderKinds
  <1>4. rows \in [Models -> ProviderKinds]
    BY <1>2 DEF ProviderKinds
  <1>5. ASSUME announced.provider
        PROVE  \A m \in q \cap InProvider : rows[m] = "provider"
    BY <1>1, <1>2, <1>5 DEF Found, ProviderKinds
  <1>6. /\ provider \in Kept
        /\ announced.provider => \A m \in Models : provider.rows[m] # "old provider"
        /\ degraded \in 0 .. Window
    BY DEF IInv, TypeOK, KindsApart, InvalidationReachesCaches
  <1>7. /\ Remembered(found) \in Kept
        /\ announced.provider => \A m \in Models : Remembered(found).rows[m] # "old provider"
    <2>1. CASE found = {}
      BY <1>6, <2>1 DEF Remembered
    <2>2. CASE found # {}
      <3> DEFINE enlarged == [m \in Models |-> IF m \in found THEN "provider" ELSE InMemory[m]]
      <3>1. Remembered(found) = [age |-> 0, rows |-> enlarged, good |-> 0]
        BY <2>2 DEF Remembered
      <3>2. /\ enlarged \in [Models -> ProviderKinds]
            /\ announced.provider => \A m \in Models : enlarged[m] # "old provider"
        BY <1>2 DEF ProviderKinds
      <3>3. 0 \in 0 .. ProviderTTL + 1 /\ 0 \in 0 .. StaleMax + 1
        BY CachesAssumption
      <3> HIDE DEF enlarged
      <3>4. [age |-> 0, rows |-> enlarged, good |-> 0] \in Kept
        BY <3>2, <3>3
      <3>5. Remembered(found).rows = enlarged
        BY <3>1
      <3> HIDE DEF found, Kept
      <3>6. QED
        BY <3>1, <3>2, <3>4, <3>5
    <2>3. QED
      BY <2>1, <2>2
  <1>8. Window \in 0 .. Window
    BY CachesAssumption
  <1>9. CASE ~available \/ q \cap Malformed # {}
    <2>1. external = Untroubled(NoRows, provider)
      BY <1>9 DEF ProviderAnswers
    <2>2. QED
      BY <1>3, <1>6, <1>9, <2>1 DEF Untroubled
  <1>10. CASE ~(~available \/ q \cap Malformed # {}) /\ known = q
    <2>1. external = Untroubled(rows, provider)
      BY <1>10 DEF ProviderAnswers
    <2>2. QED
      BY <1>4, <1>5, <1>6, <2>1 DEF Untroubled
  <1>11. CASE /\ ~(~available \/ q \cap Malformed # {}) /\ known # q
              /\ degraded > 0 /\ q \cap Found(Fallback) # {}
    <2>1. external = Untroubled(Only(q, Fallback), provider)
      BY <1>11 DEF ProviderAnswers
    <2>2. degraded # 0
      BY <1>11
    <2>3. QED
      BY <1>3, <1>6, <2>1, <2>2 DEF Untroubled
  <1>12. CASE /\ ~(~available \/ q \cap Malformed # {}) /\ known # q
              /\ ~(degraded > 0 /\ q \cap Found(Fallback) # {})
    <2>1. external \in {Untroubled(rows, Remembered(found)), Troubled(rows, Remembered(found)),
                        Troubled(Only(q, Fallback), provider)}
      BY <1>12 DEF ProviderAnswers
    <2>2. CASE external = Untroubled(rows, Remembered(found))
      BY <1>4, <1>5, <1>6, <1>7, <2>2 DEF Untroubled
    <2>3. CASE external = Troubled(rows, Remembered(found))
      BY <1>4, <1>7, <1>8, <2>3 DEF Troubled
    <2>4. CASE external = Troubled(Only(q, Fallback), provider)
      BY <1>3, <1>6, <1>8, <2>4 DEF Troubled
    <2>5. QED
      BY <2>1, <2>2, <2>3, <2>4
  <1>13. QED
    BY <1>9, <1>10, <1>11, <1>12

-------------------------------------------------------------------------------
(* The operators of the caches                                             *)

\* A cache that has forgotten everything has no row of any kind.
LEMMA ForgottenEntries ==
    ASSUME NEW ttl \in Nat
    PROVE  /\ Forgotten(ttl) \in [Queries -> Entries(ttl)]
           /\ \A q \in Queries : /\ Forgotten(ttl)[q].age = ttl
                                 /\ Forgotten(ttl)[q].rows \in [Models -> RouterKinds]
                                 /\ \A m \in Models : Forgotten(ttl)[q].rows[m] = "none"
  <1>1. NoRows \in [Models -> RowKinds] /\ NoRows \in [Models -> RouterKinds]
    BY DEF NoRows, RowKinds, RouterKinds
  <1>2. ttl \in 0 .. ttl
    OBVIOUS
  <1>3. [age |-> ttl, rows |-> NoRows] \in Entries(ttl)
    BY <1>1, <1>2 DEF Entries
  <1>4. Forgotten(ttl) \in [Queries -> Entries(ttl)]
    BY <1>3 DEF Forgotten
  <1>5. ASSUME NEW q \in Queries
        PROVE  /\ Forgotten(ttl)[q].age = ttl
               /\ Forgotten(ttl)[q].rows = NoRows
    BY DEF Forgotten
  <1>6. \A m \in Models : NoRows[m] = "none"
    BY DEF NoRows
  <1>7. QED
    BY <1>1, <1>4, <1>5, <1>6

\* What nothing remembered means for the cache of provider.db.
LEMMA NothingOfProvider ==
    /\ NothingRemembered \in [age : 0 .. ProviderTTL + 1, rows : [Models -> ProviderKinds],
                              good : 0 .. StaleMax + 1]
    /\ \A m \in Models : NothingRemembered.rows[m] = "none"
  <1>1. NoRows \in [Models -> ProviderKinds] /\ \A m \in Models : NoRows[m] = "none"
    BY DEF NoRows, ProviderKinds
  <1>2. ProviderTTL + 1 \in 0 .. ProviderTTL + 1 /\ StaleMax + 1 \in 0 .. StaleMax + 1
    BY CachesAssumption
  <1>3. QED
    BY <1>1, <1>2 DEF NothingRemembered

\* A change makes the rows it replaces old, and no others.
LEMMA OutdatedRows ==
    ASSUME NEW rows, NEW models, NEW source \in {"router", "provider"}
    PROVE  /\ rows \in [Models -> RowKinds] =>
                Outdated(rows, models, source) \in [Models -> RowKinds]
           /\ \A m \in Models :
                /\ rows[m] # source => Outdated(rows, models, source)[m] = rows[m]
                /\ source = "router" => Outdated(rows, models, source)[m] \in {rows[m], "old router"}
                /\ source = "provider" =>
                     Outdated(rows, models, source)[m] \in {rows[m], "old provider"}
           /\ rows \in [Models -> RouterKinds] =>
                Outdated(rows, models, source) \in [Models -> RouterKinds]
           /\ rows \in [Models -> ProviderKinds] =>
                Outdated(rows, models, source) \in [Models -> ProviderKinds]
  BY DEF Outdated, RowKinds, RouterKinds, ProviderKinds

\* The same of the entries of a cache, whose ages a change leaves alone.
LEMMA OutdatedEntries ==
    ASSUME NEW ttl \in Nat, NEW cache \in [Queries -> Entries(ttl)],
           NEW models, NEW source \in {"router", "provider"}
    PROVE  /\ Outdate(cache, models, source) \in [Queries -> Entries(ttl)]
           /\ \A q \in Queries :
                /\ Outdate(cache, models, source)[q].age = cache[q].age
                /\ Outdate(cache, models, source)[q].rows = Outdated(cache[q].rows, models, source)
  <1>1. ASSUME NEW q \in Queries
        PROVE  /\ Outdate(cache, models, source)[q] =
                     [age |-> cache[q].age, rows |-> Outdated(cache[q].rows, models, source)]
               /\ Outdate(cache, models, source)[q] \in Entries(ttl)
    <2>1. cache[q] \in Entries(ttl)
      OBVIOUS
    <2>2. cache[q].age \in 0 .. ttl /\ cache[q].rows \in [Models -> RowKinds]
      BY <2>1 DEF Entries
    <2>3. Outdated(cache[q].rows, models, source) \in [Models -> RowKinds]
      BY <2>2, OutdatedRows
    <2>4. Outdate(cache, models, source)[q] =
             [age |-> cache[q].age, rows |-> Outdated(cache[q].rows, models, source)]
      BY <2>1 DEF Outdate, Entries
    <2>5. QED
      BY <2>2, <2>3, <2>4 DEF Entries
  <1>2. Outdate(cache, models, source) = [q \in Queries |-> Outdate(cache, models, source)[q]]
    BY DEF Outdate
  <1>3. QED
    BY <1>1, <1>2

\* Time makes every entry older by a tick, and those whose time is over empty.
LEMMA AgedEntry ==
    ASSUME NEW ttl \in Nat \ {0}, NEW age \in 0 .. ttl, NEW rows
    PROVE  /\ Aged([age |-> age, rows |-> rows], ttl).age \in 0 .. ttl
           /\ Aged([age |-> age, rows |-> rows], ttl).age < ttl =>
                /\ Aged([age |-> age, rows |-> rows], ttl).age = age + 1
                /\ Aged([age |-> age, rows |-> rows], ttl).rows = rows
           /\ Aged([age |-> age, rows |-> rows], ttl).rows \in {rows, NoRows}
           /\ Aged([age |-> age, rows |-> rows], ttl) =
                [age  |-> Aged([age |-> age, rows |-> rows], ttl).age,
                 rows |-> Aged([age |-> age, rows |-> rows], ttl).rows]
  BY DEF Aged, Older

\* The rows a request is answered with are those of router.db, and else of provider.db.
LEMMA MergedRows ==
    ASSUME NEW local \in [Models -> RouterKinds], NEW external \in [Models -> ProviderKinds]
    PROVE  /\ Merge(local, external) \in [Models -> RowKinds]
           /\ \A m \in Models :
                /\ local[m] = "router" => Merge(local, external)[m] = "router"
                /\ local[m] # "old router" => Merge(local, external)[m] # "old router"
                /\ external[m] = "provider" =>
                     Merge(local, external)[m] \in {"provider", "router", "old router"}
  BY DEF Merge, RouterKinds, ProviderKinds, RowKinds

-------------------------------------------------------------------------------
(* The steps                                                               *)

\* The caches of a process that has just started hold nothing.
LEMMA Initially ==
    Init => IInv
  <1> SUFFICES ASSUME Init PROVE IInv
    OBVIOUS
  <1>1. BenchmarkTTL \in Nat /\ MergedTTL \in Nat /\ Window \in Nat
    BY CachesAssumption
  <1>2. /\ cached \in [Queries -> Entries(BenchmarkTTL)]
        /\ merged \in [Queries -> Entries(MergedTTL)]
        /\ \A q \in Queries : /\ cached[q].age = BenchmarkTTL /\ merged[q].age = MergedTTL
                              /\ cached[q].rows \in [Models -> RouterKinds]
                              /\ \A m \in Models : /\ cached[q].rows[m] = "none"
                                                   /\ merged[q].rows[m] = "none"
    BY <1>1, ForgottenEntries DEF Init
  <1>3. /\ provider \in [age : 0 .. ProviderTTL + 1, rows : [Models -> ProviderKinds],
                         good : 0 .. StaleMax + 1]
        /\ \A m \in Models : provider.rows[m] = "none"
    BY NothingOfProvider DEF Init
  <1>4. provider.rows \in [Models -> RowKinds]
    BY <1>3 DEF ProviderKinds, RowKinds
  <1>5. quiet \in [router : 0 .. RouterQuiet, provider : 0 .. ProviderQuiet]
    BY <1>1 DEF Init, RouterQuiet, ProviderQuiet
  <1>6. TypeOK
    <2>1. /\ table \subseteq Models /\ available \in BOOLEAN /\ degraded \in 0 .. Window
          /\ announced \in [router : BOOLEAN, provider : BOOLEAN]
      <3>1. degraded \in 0 .. Window
        BY <1>1 DEF Init
      <3>2. QED
        BY <3>1 DEF Init
    <2>2. provider \in [age : 0 .. ProviderTTL + 1, rows : [Models -> RowKinds],
                        good : 0 .. StaleMax + 1]
      BY <1>3, <1>4
    <2>3. QED
      BY <1>2, <1>5, <2>1, <2>2 DEF TypeOK
  <1>7. KindsApart /\ InvalidationReachesCaches
    BY <1>2, <1>3 DEF KindsApart, InvalidationReachesCaches
  <1>8. CachedIsCurrent /\ MergedHasRouter /\ DegradedEnds /\ MergedHasProvider
    <2>1. \A q \in Queries : ~(cached[q].age < BenchmarkTTL) /\ ~(merged[q].age < MergedTTL)
      BY <1>1, <1>2
    <2>2. CachedIsCurrent /\ MergedHasRouter
      BY <2>1 DEF CachedIsCurrent, MergedHasRouter
    <2>3. MergedHasProvider
      BY <2>1 DEF MergedHasProvider
    <2>4. DegradedEnds
      BY DEF Init, DegradedEnds
    <2>5. QED
      BY <2>2, <2>3, <2>4
  <1>9. QED
    BY <1>6, <1>7, <1>8 DEF IInv

\* A request that looks its models up keeps what it finds.
LEMMA AnswerStep ==
    ASSUME IInv, NEW q \in Queries, Answer(q)
    PROVE  IInv'
  <1>1. PICK local, external, evicted :
          /\ local \in RouterAnswers(q) /\ external \in ProviderAnswers(q)
          /\ Store(q, Merge(local.rows, external.rows))
          /\ Keep(q, local.entry, evicted)
          /\ provider' = external.entry
          /\ degraded' = external.degraded
          /\ quiet' = [router   |-> IF local.failed THEN 0 ELSE quiet.router,
                       provider |-> IF external.trouble THEN 0 ELSE quiet.provider]
    BY DEF Answer
  <1>2. UNCHANGED <<table, available, announced>>
    BY DEF Answer
  <1> DEFINE answer == Merge(local.rows, external.rows)
  <1>3. /\ local.rows \in [Models -> RouterKinds]
        /\ local.entry \in Entries(BenchmarkTTL)
        /\ local.entry.rows \in [Models -> RouterKinds]
        /\ announced.router => \A m \in Models : /\ local.rows[m] # "old router"
                                                 /\ local.entry.rows[m] # "old router"
        /\ local.entry.age < BenchmarkTTL /\ local.entry.age < quiet.router =>
             \A m \in q \cap table : local.entry.rows[m] = "router"
        /\ ~local.failed /\ quiet.router >= BenchmarkTTL =>
             \A m \in q \cap table : local.rows[m] = "router"
        /\ local.failed \in BOOLEAN
    BY <1>1, RouterAnswer
  <1>4. /\ external.rows \in [Models -> ProviderKinds]
        /\ external.entry \in [age : 0 .. ProviderTTL + 1, rows : [Models -> ProviderKinds],
                               good : 0 .. StaleMax + 1]
        /\ external.degraded \in 0 .. Window
        /\ external.trouble \in BOOLEAN
        /\ ~external.trouble => external.degraded = degraded
        /\ announced.provider => \A m \in Models : external.entry.rows[m] # "old provider"
        /\ (/\ announced.provider /\ available /\ q \cap Malformed = {}
            /\ ~external.trouble /\ degraded = 0)
             => \A m \in q \cap InProvider : external.rows[m] = "provider"
    BY <1>1, ProviderAnswer
  <1>5. /\ answer \in [Models -> RowKinds]
        /\ \A m \in Models :
             /\ local.rows[m] = "router" => answer[m] = "router"
             /\ local.rows[m] # "old router" => answer[m] # "old router"
             /\ external.rows[m] = "provider" =>
                  answer[m] \in {"provider", "router", "old router"}
    BY <1>3, <1>4, MergedRows
  <1>6. /\ BenchmarkTTL \in Nat \ {0} /\ MergedTTL \in Nat \ {0} /\ Window \in Nat
        /\ q \subseteq Models
    BY CachesAssumption
  <1>7. /\ cached \in [Queries -> Entries(BenchmarkTTL)]
        /\ merged \in [Queries -> Entries(MergedTTL)]
        /\ table \subseteq Models
        /\ degraded \in 0 .. Window
        /\ quiet.router \in 0 .. RouterQuiet /\ quiet.provider \in 0 .. ProviderQuiet
    BY DEF IInv, TypeOK
  <1>8. [age |-> BenchmarkTTL, rows |-> NoRows] \in Entries(BenchmarkTTL)
        /\ NoRows \in [Models -> RouterKinds] /\ \A m \in Models : NoRows[m] = "none"
    BY <1>6 DEF Entries, NoRows, RowKinds, RouterKinds
  \* Which entries the caches have now.
  <1>9. /\ cached' \in [Queries -> Entries(BenchmarkTTL)]
        /\ cached'[q] = local.entry
        /\ \A p \in Queries \ {q} :
             cached'[p] = cached[p] \/ cached'[p] = [age |-> BenchmarkTTL, rows |-> NoRows]
    BY <1>1, <1>3, <1>7, <1>8 DEF Keep
  <1> HIDE DEF answer
  <1>10. merged' = [merged EXCEPT ![q] = [age |-> 0, rows |-> answer]]
    BY <1>1 DEF Store, answer
  <1>11. [age |-> 0, rows |-> answer] \in Entries(MergedTTL)
    <2>1. 0 \in 0 .. MergedTTL
      BY <1>6
    <2>2. QED
      BY <1>5, <2>1 DEF Entries
  <1>12. /\ merged' \in [Queries -> Entries(MergedTTL)]
         /\ merged'[q].age = 0 /\ merged'[q].rows = answer
         /\ \A p \in Queries \ {q} : merged'[p] = merged[p]
    BY <1>7, <1>10, <1>11
  <1>13. /\ quiet' \in [router : 0 .. RouterQuiet, provider : 0 .. ProviderQuiet]
         /\ local.failed => quiet'.router = 0
         /\ ~local.failed => quiet'.router = quiet.router
         /\ external.trouble => quiet'.provider = 0
         /\ ~external.trouble => quiet'.provider = quiet.provider
    BY <1>1, <1>6, <1>7 DEF RouterQuiet, ProviderQuiet
  <1>13a. \A p \in Queries : /\ cached'[p].age \in Nat /\ merged'[p].age \in Nat
                            /\ cached'[p].rows \in [Models -> RowKinds]
    BY <1>6, <1>9, <1>12 DEF Entries
  <1>14. TypeOK'
    <2>1. available' \in BOOLEAN /\ announced' \in [router : BOOLEAN, provider : BOOLEAN]
          /\ table' \subseteq Models
      BY <1>2 DEF IInv, TypeOK
    <2>2. provider' \in [age : 0 .. ProviderTTL + 1, rows : [Models -> RowKinds],
                         good : 0 .. StaleMax + 1]
      BY <1>1, <1>4 DEF ProviderKinds, RowKinds
    <2>3. degraded' \in 0 .. Window
      BY <1>1, <1>4
    <2>4. QED
      BY <1>9, <1>12, <1>13, <2>1, <2>2, <2>3 DEF TypeOK
  <1>15. KindsApart'
    <2>1. ASSUME NEW p \in Queries PROVE cached'[p].rows \in [Models -> RouterKinds]
      <3>1. CASE p = q
        BY <1>3, <1>9, <3>1
      <3>2. cached[p].rows \in [Models -> RouterKinds]
        BY DEF IInv, KindsApart
      <3>3. CASE p # q
        BY <1>8, <1>9, <3>2, <3>3
      <3>4. QED
        BY <3>1, <3>3
    <2>2. provider'.rows \in [Models -> ProviderKinds]
      BY <1>1, <1>4
    <2>3. QED
      BY <2>1, <2>2 DEF KindsApart
  <1>16. InvalidationReachesCaches'
    <2>1. ASSUME announced.router, NEW p \in Queries, NEW m \in Models
          PROVE  cached'[p].rows[m] # "old router" /\ merged'[p].rows[m] # "old router"
      <3>1. CASE p = q
        BY <1>3, <1>5, <1>9, <1>12, <2>1, <3>1
      <3>2. cached[p].rows[m] # "old router" /\ merged[p].rows[m] # "old router"
        BY <2>1 DEF IInv, InvalidationReachesCaches
      <3>3. CASE p # q
        <4>1. cached'[p].rows[m] # "old router"
          <5>1. CASE cached'[p] = cached[p]
            BY <3>2, <5>1
          <5>2. CASE cached'[p] = [age |-> BenchmarkTTL, rows |-> NoRows]
            <6>1. cached'[p].rows = NoRows
              BY <5>2
            <6>2. QED
              BY <1>8, <6>1
          <5>3. QED
            BY <1>9, <3>3, <5>1, <5>2
        <4>2. merged'[p].rows[m] # "old router"
          BY <1>12, <3>3, <3>2
        <4>3. QED
          BY <4>1, <4>2
      <3>4. QED
        BY <3>1, <3>3
    <2>2. announced.provider => \A m \in Models : provider'.rows[m] # "old provider"
      BY <1>1, <1>4
    <2>3. QED
      BY <1>2, <2>1, <2>2 DEF InvalidationReachesCaches
  <1>17. CachedIsCurrent'
    <2> SUFFICES ASSUME NEW p \in Queries, cached'[p].age < BenchmarkTTL,
                        cached'[p].age < quiet'.router, NEW m \in p \cap table
                 PROVE  cached'[p].rows[m] = "router"
      BY <1>2 DEF CachedIsCurrent
    <2>1. cached'[p].age \in Nat
      BY <1>13a
    <2>2. quiet'.router = quiet.router
      <3>1. quiet'.router # 0
        BY <2>1
      <3>2. QED
        BY <1>3, <1>13, <3>1
    <2>3. CASE p = q
      BY <1>3, <1>9, <2>2, <2>3
    <2>4. CASE p # q
      <3>1. cached'[p] = cached[p]
        BY <1>6, <1>9, <2>4
      <3>2. QED
        BY <2>2, <3>1 DEF IInv, CachedIsCurrent
    <2>5. QED
      BY <2>3, <2>4
  <1>18. MergedHasRouter'
    <2> SUFFICES ASSUME NEW p \in Queries, merged'[p].age < MergedTTL,
                        quiet'.router >= BenchmarkTTL + merged'[p].age, NEW m \in p \cap table
                 PROVE  merged'[p].rows[m] = "router"
      BY <1>2 DEF MergedHasRouter
    <2>1. merged'[p].age \in Nat
      BY <1>13a
    <2>2. ~local.failed /\ quiet'.router = quiet.router
      <3>1. quiet'.router # 0
        BY <1>6, <2>1
      <3>2. QED
        BY <1>3, <1>13, <3>1
    <2>3. CASE p = q
      <3>1. quiet.router >= BenchmarkTTL
        BY <1>6, <1>7, <1>12, <2>2, <2>3 DEF RouterQuiet
      <3>2. QED
        BY <1>3, <1>5, <1>6, <1>12, <2>2, <2>3, <3>1
    <2>4. CASE p # q
      BY <1>12, <2>2, <2>4 DEF IInv, MergedHasRouter
    <2>5. QED
      BY <2>3, <2>4
  <1>19. DegradedEnds'
    <2>1. CASE external.trouble
      <3>1. degraded' \in 0 .. Window /\ quiet'.provider = 0
        BY <1>1, <1>4, <1>13, <2>1
      <3>2. degraded' \in Int /\ degraded' <= Window
        BY <3>1
      <3>3. Window \in Int
        BY <1>6
      <3>4. ASSUME NEW time \in Int, NEW window \in Int, NEW since, time <= window, since = 0
            PROVE  time + since <= window
        BY <3>4
      <3>5. degraded' + quiet'.provider <= Window
        BY <3>1, <3>4, <3>2, <3>3
      <3>6. QED
        BY <3>5 DEF DegradedEnds
    <2>2. CASE ~external.trouble
      BY <1>1, <1>4, <1>13, <2>2 DEF IInv, DegradedEnds
    <2>3. QED
      BY <2>1, <2>2
  <1>20. MergedHasProvider'
    <2> SUFFICES ASSUME announced.provider, available,
                        NEW p \in Queries, merged'[p].age < MergedTTL,
                        quiet'.provider > Window + merged'[p].age,
                        p \cap Malformed = {}, NEW m \in p \cap InProvider
                 PROVE  merged'[p].rows[m] \in {"provider", "router", "old router"}
      BY <1>2 DEF MergedHasProvider
    <2>1. merged'[p].age \in Nat
      BY <1>13a
    <2>2. ~external.trouble /\ quiet'.provider = quiet.provider
      <3>1. quiet'.provider # 0
        BY <1>6, <2>1
      <3>2. QED
        BY <1>4, <1>13, <3>1
    <2>3. CASE p = q
      <3>1. degraded = 0
        BY <1>6, <1>7, <2>1, <2>2 DEF IInv, DegradedEnds, ProviderQuiet
      <3>2. QED
        BY <1>4, <1>5, <1>6, <1>12, <2>2, <2>3, <3>1
    <2>4. CASE p # q
      BY <1>12, <2>2, <2>4 DEF IInv, MergedHasProvider
    <2>5. QED
      BY <2>3, <2>4
  <1>21. QED
    BY <1>14, <1>15, <1>16, <1>17, <1>18, <1>19, <1>20 DEF IInv

\* What invalidate_caches leaves, and what the caches hold when nobody calls it.
LEMMA Invalidated ==
    ASSUME IInv, NEW loop \in BOOLEAN, NEW models, NEW source \in {"router", "provider"},
           InvalidateCaches(loop, models, source)
    PROVE  /\ cached' \in [Queries -> Entries(BenchmarkTTL)]
           /\ \A q \in Queries : cached'[q].rows \in [Models -> RouterKinds]
           /\ loop => \A q \in Queries, m \in Models : cached'[q].rows[m] = "none"
           /\ source = "provider" =>
                \A q \in Queries :
                    \/ cached'[q].age = BenchmarkTTL /\ \A m \in Models : cached'[q].rows[m] = "none"
                    \/ /\ cached'[q].age = cached[q].age
                       /\ \A m \in Models : cached'[q].rows[m] = cached[q].rows[m]
           /\ provider' \in [age : 0 .. ProviderTTL + 1, rows : [Models -> ProviderKinds],
                             good : 0 .. StaleMax + 1]
           /\ loop => \A m \in Models : provider'.rows[m] = "none"
           /\ source = "router" => \A m \in Models : provider'.rows[m] \in {"none", provider.rows[m]}
           /\ degraded' \in {0, degraded}
  <1>1. /\ BenchmarkTTL \in Nat
        /\ cached \in [Queries -> Entries(BenchmarkTTL)]
        /\ \A q \in Queries : cached[q].rows \in [Models -> RouterKinds]
        /\ provider \in [age : 0 .. ProviderTTL + 1, rows : [Models -> ProviderKinds],
                         good : 0 .. StaleMax + 1]
    BY CachesAssumption DEF IInv, TypeOK, KindsApart
  <1>2. CASE loop
    <2>1. /\ cached' = Forgotten(BenchmarkTTL)
          /\ provider' = NothingRemembered
          /\ degraded' = 0
      BY <1>2 DEF InvalidateCaches
    <2>2. /\ cached' \in [Queries -> Entries(BenchmarkTTL)]
          /\ \A q \in Queries : /\ cached'[q].age = BenchmarkTTL
                                /\ cached'[q].rows \in [Models -> RouterKinds]
                                /\ \A m \in Models : cached'[q].rows[m] = "none"
      BY <1>1, <2>1, ForgottenEntries
    <2>3. /\ provider' \in [age : 0 .. ProviderTTL + 1, rows : [Models -> ProviderKinds],
                            good : 0 .. StaleMax + 1]
          /\ \A m \in Models : provider'.rows[m] = "none"
      BY <2>1, NothingOfProvider
    <2>4. QED
      BY <2>1, <2>2, <2>3
  <1>3. CASE ~loop
    <2>1. /\ cached' = Outdate(cached, models, source)
          /\ provider' = [provider EXCEPT !.rows = Outdated(@, models, source)]
          /\ degraded' = degraded
      BY <1>3 DEF InvalidateCaches
    <2>2. /\ cached' \in [Queries -> Entries(BenchmarkTTL)]
          /\ \A q \in Queries : /\ cached'[q].age = cached[q].age
                                /\ cached'[q].rows = Outdated(cached[q].rows, models, source)
      BY <1>1, <2>1, OutdatedEntries
    <2>3. ASSUME NEW q \in Queries
          PROVE  /\ cached'[q].rows \in [Models -> RouterKinds]
                 /\ source = "provider" => \A m \in Models : cached'[q].rows[m] = cached[q].rows[m]
      <3> DEFINE rows == cached[q].rows
      <3>1. rows \in [Models -> RouterKinds]
        BY <1>1
      <3>2. \A m \in Models : rows[m] # "provider"
        BY <3>1 DEF RouterKinds
      <3>3. cached'[q].rows = Outdated(rows, models, source)
        BY <2>2
      <3> HIDE DEF rows
      <3>4. /\ Outdated(rows, models, source) \in [Models -> RouterKinds]
            /\ \A m \in Models : rows[m] # source => Outdated(rows, models, source)[m] = rows[m]
        BY <3>1, OutdatedRows
      <3>5. QED
        BY <3>2, <3>3, <3>4 DEF rows
    <2>4. /\ provider'.rows = Outdated(provider.rows, models, source)
          /\ provider' = [age |-> provider.age, rows |-> Outdated(provider.rows, models, source),
                          good |-> provider.good]
      BY <1>1, <2>1
    <2>5. /\ Outdated(provider.rows, models, source) \in [Models -> ProviderKinds]
          /\ source = "router" =>
               \A m \in Models : Outdated(provider.rows, models, source)[m] = provider.rows[m]
      <3> DEFINE rows == provider.rows
      <3>1. rows \in [Models -> ProviderKinds]
        BY <1>1
      <3>2. \A m \in Models : rows[m] # "router"
        BY <3>1 DEF ProviderKinds
      <3> HIDE DEF rows
      <3>3. /\ Outdated(rows, models, source) \in [Models -> ProviderKinds]
            /\ \A m \in Models : rows[m] # source => Outdated(rows, models, source)[m] = rows[m]
        BY <3>1, OutdatedRows
      <3>4. QED
        BY <3>2, <3>3 DEF rows
    <2>6. provider' \in [age : 0 .. ProviderTTL + 1, rows : [Models -> ProviderKinds],
                         good : 0 .. StaleMax + 1]
      BY <1>1, <2>4, <2>5
    <2>7. QED
      BY <1>3, <2>1, <2>2, <2>3, <2>4, <2>5, <2>6
  <1>4. QED
    BY <1>2, <1>3

\* A synchronisation empties the merged cache, and the lower two if the background
\* task ran it.
LEMMA SyncStep ==
    ASSUME IInv, NEW matched \in SUBSET Benchmarked, NEW loop \in BOOLEAN,
           SyncBenchmarks(matched, loop)
    PROVE  IInv'
  <1>1. /\ cached' \in [Queries -> Entries(BenchmarkTTL)]
        /\ \A q \in Queries : cached'[q].rows \in [Models -> RouterKinds]
        /\ loop => \A q \in Queries, m \in Models : cached'[q].rows[m] = "none"
        /\ provider' \in [age : 0 .. ProviderTTL + 1, rows : [Models -> ProviderKinds],
                          good : 0 .. StaleMax + 1]
        /\ \A m \in Models : provider'.rows[m] \in {"none", provider.rows[m]}
        /\ degraded' \in {0, degraded}
    BY Invalidated DEF SyncBenchmarks
  <1>2. /\ BenchmarkTTL \in Nat /\ MergedTTL \in Nat /\ Window \in Nat
        /\ matched \subseteq Models
    BY CachesAssumption
  <1>3. /\ merged' \in [Queries -> Entries(MergedTTL)]
        /\ \A q \in Queries : /\ merged'[q].age = MergedTTL
                              /\ \A m \in Models : merged'[q].rows[m] = "none"
    BY <1>2, ForgottenEntries DEF SyncBenchmarks
  <1>4. /\ table' = table \cup matched
        /\ available' = available
        /\ announced' = [announced EXCEPT !.router = loop]
        /\ quiet' = [quiet EXCEPT !.router = 0]
    BY DEF SyncBenchmarks
  <1>5. /\ quiet \in [router : 0 .. RouterQuiet, provider : 0 .. ProviderQuiet]
        /\ announced \in [router : BOOLEAN, provider : BOOLEAN]
        /\ degraded \in 0 .. Window /\ table \subseteq Models /\ available \in BOOLEAN
    BY DEF IInv, TypeOK
  <1>6. 0 \in 0 .. RouterQuiet
    BY <1>2 DEF RouterQuiet
  <1>7. /\ quiet' \in [router : 0 .. RouterQuiet, provider : 0 .. ProviderQuiet]
        /\ quiet'.router = 0 /\ quiet'.provider = quiet.provider
    BY <1>4, <1>5, <1>6
  <1>8. /\ announced' \in [router : BOOLEAN, provider : BOOLEAN]
        /\ announced'.router = loop /\ announced'.provider = announced.provider
    BY <1>4, <1>5
  <1>9. TypeOK'
    <2>1. provider' \in [age : 0 .. ProviderTTL + 1, rows : [Models -> RowKinds],
                         good : 0 .. StaleMax + 1]
      BY <1>1 DEF ProviderKinds, RowKinds
    <2>2. degraded' \in 0 .. Window
      BY <1>1, <1>2, <1>5
    <2>3. table' \subseteq Models /\ available' \in BOOLEAN
      BY <1>2, <1>4, <1>5
    <2>4. QED
      BY <1>1, <1>3, <1>7, <1>8, <2>1, <2>2, <2>3 DEF TypeOK
  <1>10. KindsApart'
    <2>1. provider'.rows \in [Models -> ProviderKinds]
      BY <1>1
    <2>2. QED
      BY <1>1, <2>1 DEF KindsApart
  <1>11. InvalidationReachesCaches'
    <2>1. announced.provider => \A m \in Models : provider'.rows[m] # "old provider"
      BY <1>1 DEF IInv, InvalidationReachesCaches
    <2>2. loop => \A q \in Queries, m \in Models : cached'[q].rows[m] # "old router"
      BY <1>1
    <2>3. \A q \in Queries, m \in Models : merged'[q].rows[m] # "old router"
      BY <1>3
    <2>4. QED
      BY <1>8, <2>1, <2>2, <2>3 DEF InvalidationReachesCaches
  <1>12. CachedIsCurrent'
    <2>1. \A q \in Queries : cached'[q].age \in 0 .. BenchmarkTTL
      BY <1>1 DEF Entries
    <2>2. \A q \in Queries : ~(cached'[q].age < quiet'.router)
      BY <1>2, <1>7, <2>1
    <2>3. QED
      BY <2>2 DEF CachedIsCurrent
  <1>13. MergedHasRouter' /\ MergedHasProvider'
    <2>1. \A q \in Queries : ~(merged'[q].age < MergedTTL)
      BY <1>2, <1>3
    <2>2. QED
      BY <2>1 DEF MergedHasRouter, MergedHasProvider
  <1>14. DegradedEnds'
    BY <1>1, <1>7 DEF IInv, DegradedEnds
  <1>15. QED
    BY <1>9, <1>10, <1>11, <1>12, <1>13, <1>14 DEF IInv

\* A download leaves the merged cache its rows, as those of a replaced file, and
\* empties the lower two if the background task ran it.
LEMMA DownloadStep ==
    ASSUME IInv, NEW loop \in BOOLEAN, DownloadProviderDB(loop)
    PROVE  IInv'
  <1>1. /\ cached' \in [Queries -> Entries(BenchmarkTTL)]
        /\ \A q \in Queries : cached'[q].rows \in [Models -> RouterKinds]
        /\ \A q \in Queries :
             \/ cached'[q].age = BenchmarkTTL /\ \A m \in Models : cached'[q].rows[m] = "none"
             \/ /\ cached'[q].age = cached[q].age
                /\ \A m \in Models : cached'[q].rows[m] = cached[q].rows[m]
        /\ provider' \in [age : 0 .. ProviderTTL + 1, rows : [Models -> ProviderKinds],
                          good : 0 .. StaleMax + 1]
        /\ loop => \A m \in Models : provider'.rows[m] = "none"
        /\ degraded' \in {0, degraded}
    BY Invalidated DEF DownloadProviderDB
  <1>2. /\ BenchmarkTTL \in Nat /\ MergedTTL \in Nat /\ Window \in Nat
        /\ \A q \in Queries : q \subseteq Models
    BY CachesAssumption
  <1>3. /\ quiet \in [router : 0 .. RouterQuiet, provider : 0 .. ProviderQuiet]
        /\ announced \in [router : BOOLEAN, provider : BOOLEAN]
        /\ degraded \in 0 .. Window /\ table \subseteq Models
        /\ merged \in [Queries -> Entries(MergedTTL)]
    BY DEF IInv, TypeOK
  <1>4. /\ merged' = Outdate(merged, Models, "provider")
        /\ table' = table
        /\ available' = TRUE
        /\ announced' = [announced EXCEPT !.provider = loop]
        /\ quiet' = [quiet EXCEPT !.provider = 0]
    BY DEF DownloadProviderDB
  <1>5. /\ merged' \in [Queries -> Entries(MergedTTL)]
        /\ \A q \in Queries : /\ merged'[q].age = merged[q].age
                              /\ merged'[q].rows = Outdated(merged[q].rows, Models, "provider")
    BY <1>2, <1>3, <1>4, OutdatedEntries
  <1>6. ASSUME NEW q \in Queries, NEW m \in Models
        PROVE  /\ merged[q].rows[m] = "router" => merged'[q].rows[m] = "router"
               /\ merged[q].rows[m] # "old router" => merged'[q].rows[m] # "old router"
    <2> DEFINE rows == merged[q].rows
    <2>1. merged'[q].rows = Outdated(rows, Models, "provider")
      BY <1>5
    <2> HIDE DEF rows
    <2>2. /\ rows[m] # "provider" => Outdated(rows, Models, "provider")[m] = rows[m]
          /\ Outdated(rows, Models, "provider")[m] \in {rows[m], "old provider"}
      BY OutdatedRows
    <2>3. QED
      BY <2>1, <2>2 DEF rows
  <1>7. 0 \in 0 .. ProviderQuiet
    BY <1>2 DEF ProviderQuiet
  <1>8. /\ quiet' \in [router : 0 .. RouterQuiet, provider : 0 .. ProviderQuiet]
        /\ quiet'.provider = 0 /\ quiet'.router = quiet.router
    BY <1>3, <1>4, <1>7
  <1>9. /\ announced' \in [router : BOOLEAN, provider : BOOLEAN]
        /\ announced'.provider = loop /\ announced'.router = announced.router
    BY <1>3, <1>4
  <1>10. TypeOK'
    <2>1. provider' \in [age : 0 .. ProviderTTL + 1, rows : [Models -> RowKinds],
                         good : 0 .. StaleMax + 1]
      BY <1>1 DEF ProviderKinds, RowKinds
    <2>2. degraded' \in 0 .. Window
      BY <1>1, <1>2, <1>3
    <2>3. table' \subseteq Models /\ available' \in BOOLEAN
      BY <1>3, <1>4
    <2>4. QED
      BY <1>1, <1>5, <1>8, <1>9, <2>1, <2>2, <2>3 DEF TypeOK
  <1>11. KindsApart'
    <2>1. provider'.rows \in [Models -> ProviderKinds]
      BY <1>1
    <2>2. QED
      BY <1>1, <2>1 DEF KindsApart
  <1>12. InvalidationReachesCaches'
    <2>1. loop => \A m \in Models : provider'.rows[m] # "old provider"
      BY <1>1
    <2>2. ASSUME announced.router, NEW q \in Queries, NEW m \in Models
          PROVE  cached'[q].rows[m] # "old router" /\ merged'[q].rows[m] # "old router"
      <3>1. cached[q].rows[m] # "old router" /\ merged[q].rows[m] # "old router"
        BY <2>2 DEF IInv, InvalidationReachesCaches
      <3>2. cached'[q].rows[m] \in {"none", cached[q].rows[m]}
        BY <1>1
      <3>3. QED
        BY <1>6, <3>1, <3>2
    <2>3. QED
      BY <1>9, <2>1, <2>2 DEF InvalidationReachesCaches
  <1>13. CachedIsCurrent'
    <2> SUFFICES ASSUME NEW q \in Queries, cached'[q].age < BenchmarkTTL,
                        cached'[q].age < quiet'.router, NEW m \in q \cap table
                 PROVE  cached'[q].rows[m] = "router"
      BY <1>4 DEF CachedIsCurrent
    <2>1. cached'[q].age # BenchmarkTTL
      BY <1>2
    <2>2. /\ cached'[q].age = cached[q].age
          /\ cached'[q].rows[m] = cached[q].rows[m]
      BY <1>1, <1>2, <2>1
    <2>3. QED
      BY <1>8, <2>2 DEF IInv, CachedIsCurrent
  <1>14. MergedHasRouter'
    <2> SUFFICES ASSUME NEW q \in Queries, merged'[q].age < MergedTTL,
                        quiet'.router >= BenchmarkTTL + merged'[q].age, NEW m \in q \cap table
                 PROVE  merged'[q].rows[m] = "router"
      BY <1>4 DEF MergedHasRouter
    <2>1. merged[q].rows[m] = "router"
      BY <1>5, <1>8 DEF IInv, MergedHasRouter
    <2>2. QED
      BY <1>2, <1>6, <2>1
  <1>15. DegradedEnds'
    <2>1. \A time \in 0 .. Window : time + 0 <= Window
      BY <1>2
    <2>2. degraded' \in 0 .. Window
      BY <1>1, <1>2, <1>3
    <2>3. degraded' + quiet'.provider <= Window
      BY <1>8, <2>1, <2>2
    <2>4. QED
      BY <2>3 DEF DegradedEnds
  <1>16. MergedHasProvider'
    <2>1. \A q \in Queries : merged'[q].age \in 0 .. MergedTTL
      BY <1>5 DEF Entries
    <2>2. \A q \in Queries : ~(quiet'.provider > Window + merged'[q].age)
      BY <1>2, <1>8, <2>1
    <2>3. QED
      BY <2>2 DEF MergedHasProvider
  <1>17. QED
    BY <1>10, <1>11, <1>12, <1>13, <1>14, <1>15, <1>16 DEF IInv

\* A restart keeps the databases, and forgets all that was cached of them.
LEMMA RestartStep ==
    ASSUME IInv, Restart
    PROVE  IInv'
  <1>1. BenchmarkTTL \in Nat /\ MergedTTL \in Nat /\ Window \in Nat
    BY CachesAssumption
  <1>2. /\ cached' \in [Queries -> Entries(BenchmarkTTL)]
        /\ merged' \in [Queries -> Entries(MergedTTL)]
        /\ \A q \in Queries : /\ cached'[q].age = BenchmarkTTL /\ merged'[q].age = MergedTTL
                              /\ cached'[q].rows \in [Models -> RouterKinds]
                              /\ \A m \in Models : /\ cached'[q].rows[m] = "none"
                                                   /\ merged'[q].rows[m] = "none"
    BY <1>1, ForgottenEntries DEF Restart
  <1>3. /\ provider' \in [age : 0 .. ProviderTTL + 1, rows : [Models -> ProviderKinds],
                          good : 0 .. StaleMax + 1]
        /\ \A m \in Models : provider'.rows[m] = "none"
    BY NothingOfProvider DEF Restart
  <1>4. degraded' = 0 /\ UNCHANGED <<table, available, announced, quiet>>
    BY DEF Restart
  <1>5. TypeOK'
    <2>1. provider' \in [age : 0 .. ProviderTTL + 1, rows : [Models -> RowKinds],
                         good : 0 .. StaleMax + 1]
      BY <1>3 DEF ProviderKinds, RowKinds
    <2>2. degraded' \in 0 .. Window
      BY <1>1, <1>4
    <2>3. /\ table' \subseteq Models /\ available' \in BOOLEAN
          /\ announced' \in [router : BOOLEAN, provider : BOOLEAN]
          /\ quiet' \in [router : 0 .. RouterQuiet, provider : 0 .. ProviderQuiet]
      BY <1>4 DEF IInv, TypeOK
    <2>4. QED
      BY <1>2, <2>1, <2>2, <2>3 DEF TypeOK
  <1>6. KindsApart' /\ InvalidationReachesCaches'
    <2>1. provider'.rows \in [Models -> ProviderKinds]
      BY <1>3
    <2>2. KindsApart'
      BY <1>2, <2>1 DEF KindsApart
    <2>3. InvalidationReachesCaches'
      BY <1>2, <1>3 DEF InvalidationReachesCaches
    <2>4. QED
      BY <2>2, <2>3
  <1>7. CachedIsCurrent' /\ MergedHasRouter' /\ MergedHasProvider'
    <2>1. \A q \in Queries : ~(cached'[q].age < BenchmarkTTL) /\ ~(merged'[q].age < MergedTTL)
      BY <1>1, <1>2
    <2>2. QED
      BY <2>1 DEF CachedIsCurrent, MergedHasRouter, MergedHasProvider
  <1>8. DegradedEnds'
    BY <1>4 DEF DegradedEnds
  <1>9. QED
    BY <1>5, <1>6, <1>7, <1>8 DEF IInv

\* A tick makes everything older, and no entry older than the last change by more.
LEMMA TickStep ==
    ASSUME IInv, Tick
    PROVE  IInv'
  <1>1. /\ BenchmarkTTL \in Nat \ {0} /\ MergedTTL \in Nat \ {0} /\ Window \in Nat
        /\ ProviderTTL \in Nat /\ StaleMax \in Nat
    BY CachesAssumption
  <1>2. /\ cached \in [Queries -> Entries(BenchmarkTTL)]
        /\ merged \in [Queries -> Entries(MergedTTL)]
        /\ provider \in [age : 0 .. ProviderTTL + 1, rows : [Models -> ProviderKinds],
                         good : 0 .. StaleMax + 1]
        /\ degraded \in 0 .. Window
        /\ quiet.router \in 0 .. RouterQuiet /\ quiet.provider \in 0 .. ProviderQuiet
    BY DEF IInv, TypeOK, KindsApart
  <1>3. ASSUME NEW cache, NEW ttl \in Nat \ {0}, cache \in [Queries -> Entries(ttl)], NEW q \in Queries
        PROVE  /\ Aged(cache[q], ttl) \in Entries(ttl)
               /\ Aged(cache[q], ttl).rows \in {cache[q].rows, NoRows}
               /\ Aged(cache[q], ttl).age < ttl =>
                    /\ Aged(cache[q], ttl).age = cache[q].age + 1
                    /\ Aged(cache[q], ttl).rows = cache[q].rows
    <2> DEFINE age == cache[q].age
               rows == cache[q].rows
    <2>1. age \in 0 .. ttl /\ rows \in [Models -> RowKinds] /\ cache[q] = [age |-> age, rows |-> rows]
      BY <1>3 DEF Entries
    <2> HIDE DEF age, rows
    <2>2. /\ Aged([age |-> age, rows |-> rows], ttl).age \in 0 .. ttl
          /\ Aged([age |-> age, rows |-> rows], ttl).age < ttl =>
               /\ Aged([age |-> age, rows |-> rows], ttl).age = age + 1
               /\ Aged([age |-> age, rows |-> rows], ttl).rows = rows
          /\ Aged([age |-> age, rows |-> rows], ttl).rows \in {rows, NoRows}
          /\ Aged([age |-> age, rows |-> rows], ttl) =
               [age  |-> Aged([age |-> age, rows |-> rows], ttl).age,
                rows |-> Aged([age |-> age, rows |-> rows], ttl).rows]
      BY <2>1, AgedEntry
    <2>3. NoRows \in [Models -> RowKinds]
      BY DEF NoRows, RowKinds
    <2>4. Aged(cache[q], ttl) \in Entries(ttl)
      BY <2>1, <2>2, <2>3 DEF Entries
    <2>5. QED
      BY <2>1, <2>2, <2>4 DEF age, rows
  <1>4. /\ cached' \in [Queries -> Entries(BenchmarkTTL)]
        /\ \A q \in Queries :
             /\ cached'[q].rows \in {cached[q].rows, NoRows}
             /\ cached'[q].age < BenchmarkTTL =>
                  cached'[q].age = cached[q].age + 1 /\ cached'[q].rows = cached[q].rows
    <2>1. cached' = [q \in Queries |-> Aged(cached[q], BenchmarkTTL)]
      BY DEF Tick
    <2>2. QED
      BY <1>1, <1>2, <1>3, <2>1
  <1>5. /\ merged' \in [Queries -> Entries(MergedTTL)]
        /\ \A q \in Queries :
             /\ merged'[q].rows \in {merged[q].rows, NoRows}
             /\ merged'[q].age < MergedTTL =>
                  merged'[q].age = merged[q].age + 1 /\ merged'[q].rows = merged[q].rows
    <2>1. merged' = [q \in Queries |-> Aged(merged[q], MergedTTL)]
      BY DEF Tick
    <2>2. QED
      BY <1>1, <1>2, <1>3, <2>1
  <1>6. /\ NoRows \in [Models -> RouterKinds] /\ NoRows \in [Models -> ProviderKinds]
        /\ \A m \in Models : NoRows[m] = "none"
    BY DEF NoRows, RouterKinds, ProviderKinds
  <1>7. /\ provider' \in [age : 0 .. ProviderTTL + 1, rows : [Models -> ProviderKinds],
                          good : 0 .. StaleMax + 1]
        /\ provider'.rows \in {provider.rows, NoRows}
    <2> DEFINE age == provider.age
               rows == provider.rows
               entry == Aged([age |-> age, rows |-> rows], ProviderTTL + 1)
    <2>1. /\ age \in 0 .. ProviderTTL + 1 /\ rows \in [Models -> ProviderKinds]
          /\ ProviderTTL + 1 \in Nat \ {0}
      BY <1>1, <1>2
    <2>2. entry.age \in 0 .. ProviderTTL + 1 /\ entry.rows \in {rows, NoRows}
      <3> HIDE DEF age, rows
      <3>1. QED
        BY <2>1, AgedEntry
    <2>3. Older(provider.good, StaleMax + 1) \in 0 .. StaleMax + 1
      BY <1>1, <1>2 DEF Older
    <2>4. provider' = [age |-> entry.age, rows |-> entry.rows,
                       good |-> Older(provider.good, StaleMax + 1)]
      BY DEF Tick
    <2> HIDE DEF entry
    <2>5. QED
      BY <1>6, <2>1, <2>2, <2>3, <2>4
  <1>8. /\ quiet' \in [router : 0 .. RouterQuiet, provider : 0 .. ProviderQuiet]
        /\ quiet'.router <= quiet.router + 1 /\ quiet'.provider <= quiet.provider + 1
    <2>1. /\ RouterQuiet \in Nat /\ ProviderQuiet \in Nat
      BY <1>1 DEF RouterQuiet, ProviderQuiet
    <2>2. ASSUME NEW limit \in Nat, NEW age \in 0 .. limit
          PROVE  Older(age, limit) \in 0 .. limit /\ Older(age, limit) <= age + 1
      BY DEF Older
    <2>3. quiet' = [router   |-> Older(quiet.router, RouterQuiet),
                    provider |-> Older(quiet.provider, ProviderQuiet)]
      BY DEF Tick
    <2>4. QED
      BY <1>2, <2>1, <2>2, <2>3
  <1>9. /\ degraded' \in 0 .. Window
        /\ degraded' > 0 => degraded > 0 /\ degraded' = degraded - 1
    BY <1>1, <1>2 DEF Tick
  <1>10. UNCHANGED <<table, available, announced>>
    BY DEF Tick
  <1>11. /\ quiet'.router \in Nat /\ quiet.router \in Nat
         /\ quiet'.provider \in Nat /\ quiet.provider \in Nat
         /\ \A q \in Queries : /\ cached[q].age \in Nat /\ merged[q].age \in Nat
                               /\ cached'[q].age \in Nat /\ merged'[q].age \in Nat
    BY <1>1, <1>2, <1>4, <1>5, <1>8 DEF Entries, RouterQuiet, ProviderQuiet
  <1>12. TypeOK'
    <2>1. provider' \in [age : 0 .. ProviderTTL + 1, rows : [Models -> RowKinds],
                         good : 0 .. StaleMax + 1]
      BY <1>7 DEF ProviderKinds, RowKinds
    <2>2. /\ table' \subseteq Models /\ available' \in BOOLEAN
          /\ announced' \in [router : BOOLEAN, provider : BOOLEAN]
      BY <1>10 DEF IInv, TypeOK
    <2>3. QED
      BY <1>4, <1>5, <1>8, <1>9, <2>1, <2>2 DEF TypeOK
  <1>13. KindsApart'
    <2>1. provider'.rows \in [Models -> ProviderKinds]
      BY <1>7
    <2>2. \A q \in Queries : cached'[q].rows \in [Models -> RouterKinds]
      BY <1>4, <1>6 DEF IInv, KindsApart
    <2>3. QED
      BY <2>1, <2>2 DEF KindsApart
  <1>14. InvalidationReachesCaches'
    <2>1. ASSUME announced.router, NEW q \in Queries, NEW m \in Models
          PROVE  cached'[q].rows[m] # "old router" /\ merged'[q].rows[m] # "old router"
      <3>1. cached[q].rows[m] # "old router" /\ merged[q].rows[m] # "old router"
        BY <2>1 DEF IInv, InvalidationReachesCaches
      <3>2. /\ cached'[q].rows \in {cached[q].rows, NoRows}
            /\ merged'[q].rows \in {merged[q].rows, NoRows}
            /\ NoRows[m] = "none"
        BY <1>4, <1>5, <1>6
      <3>3. QED
        BY <3>1, <3>2
    <2>2. ASSUME announced.provider, NEW m \in Models
          PROVE  provider'.rows[m] # "old provider"
      <3>1. provider.rows[m] # "old provider"
        BY <2>2 DEF IInv, InvalidationReachesCaches
      <3>2. QED
        BY <1>6, <1>7, <3>1
    <2>3. QED
      BY <1>10, <2>1, <2>2 DEF InvalidationReachesCaches
  <1>15. CachedIsCurrent'
    <2> SUFFICES ASSUME NEW q \in Queries, cached'[q].age < BenchmarkTTL,
                        cached'[q].age < quiet'.router, NEW m \in q \cap table
                 PROVE  cached'[q].rows[m] = "router"
      BY <1>10 DEF CachedIsCurrent
    <2>1. cached'[q].age = cached[q].age + 1 /\ cached'[q].rows = cached[q].rows
      BY <1>4
    <2>2. cached[q].age < BenchmarkTTL /\ cached[q].age < quiet.router
      BY <1>1, <1>8, <1>11, <2>1
    <2>3. QED
      BY <2>1, <2>2 DEF IInv, CachedIsCurrent
  <1>16. MergedHasRouter'
    <2> SUFFICES ASSUME NEW q \in Queries, merged'[q].age < MergedTTL,
                        quiet'.router >= BenchmarkTTL + merged'[q].age, NEW m \in q \cap table
                 PROVE  merged'[q].rows[m] = "router"
      BY <1>10 DEF MergedHasRouter
    <2>1. merged'[q].age = merged[q].age + 1 /\ merged'[q].rows = merged[q].rows
      BY <1>5
    <2>2. merged[q].age < MergedTTL /\ quiet.router >= BenchmarkTTL + merged[q].age
      BY <1>1, <1>8, <1>11, <2>1
    <2>3. QED
      BY <2>1, <2>2 DEF IInv, MergedHasRouter
  <1>17. DegradedEnds'
    <2> SUFFICES ASSUME degraded' > 0 PROVE degraded' + quiet'.provider <= Window
      BY DEF DegradedEnds
    <2>1. degraded' = degraded - 1 /\ degraded + quiet.provider <= Window
      BY <1>9 DEF IInv, DegradedEnds
    <2>2. QED
      BY <1>1, <1>2, <1>8, <1>11, <2>1
  <1>18. MergedHasProvider'
    <2> SUFFICES ASSUME announced.provider, available,
                        NEW q \in Queries, merged'[q].age < MergedTTL,
                        quiet'.provider > Window + merged'[q].age,
                        q \cap Malformed = {}, NEW m \in q \cap InProvider
                 PROVE  merged'[q].rows[m] \in {"provider", "router", "old router"}
      BY <1>10 DEF MergedHasProvider
    <2>1. merged'[q].age = merged[q].age + 1 /\ merged'[q].rows = merged[q].rows
      BY <1>5
    <2>2. merged[q].age < MergedTTL /\ quiet.provider > Window + merged[q].age
      BY <1>1, <1>8, <1>11, <2>1
    <2>3. QED
      BY <2>1, <2>2 DEF IInv, MergedHasProvider
  <1>19. QED
    BY <1>12, <1>13, <1>14, <1>15, <1>16, <1>17, <1>18 DEF IInv

-------------------------------------------------------------------------------
(* The theorems                                                            *)

LEMMA Steps ==
    IInv /\ [Next]_vars => IInv'
  <1> SUFFICES ASSUME IInv, [Next]_vars PROVE IInv'
    OBVIOUS
  <1>1. CASE \E q \in Queries : Ask(q)
    BY <1>1, AnswerStep DEF Ask
  <1>2. CASE \E loop \in BOOLEAN, matched \in SUBSET Benchmarked : SyncBenchmarks(matched, loop)
    BY <1>2, SyncStep
  <1>3. CASE \E loop \in BOOLEAN : DownloadProviderDB(loop)
    BY <1>3, DownloadStep
  <1>4. CASE Restart
    BY <1>4, RestartStep
  <1>5. CASE Tick
    BY <1>5, TickStep
  <1>6. CASE UNCHANGED vars
    BY <1>6 DEF vars, IInv, TypeOK, KindsApart, InvalidationReachesCaches, CachedIsCurrent,
                MergedHasRouter, DegradedEnds, MergedHasProvider
  <1>7. QED
    BY <1>1, <1>2, <1>3, <1>4, <1>5, <1>6 DEF Next

\* Whatever is cached where, it is as the times of the changes allow: the invariant the
\* theorems below follow from.
THEOREM InductiveInvariant == Spec => []IInv
  BY Initially, Steps, PTL DEF Spec

\* The three caches, the file and the times keep their types.
THEOREM TypeCorrect == Spec => []TypeOK
  <1>1. IInv => TypeOK
    BY DEF IInv
  <1>2. QED
    BY <1>1, InductiveInvariant, PTL

\* A change of router.db reaches every request within the lifetimes of its cache and of
\* the merged cache, one of provider.db within a degraded window and the latter, for any
\* lifetimes: nothing that is kept, evicted or answered from a cache puts it off.
THEOREM RowsAlwaysCatchUp == Spec => []RowsCatchUp
  <1>1. IInv => RowsCatchUp
    <2> SUFFICES ASSUME IInv PROVE RowsCatchUp
      OBVIOUS
    <2>1. /\ BenchmarkTTL \in Nat /\ MergedTTL \in Nat /\ Window \in Nat
          /\ quiet.router \in Int /\ quiet.provider \in Int
          /\ \A q \in Queries : merged[q].age \in Int
      BY CachesAssumption DEF IInv, TypeOK, Entries
    <2>2. RouterRowsCatchUp
      <3> SUFFICES ASSUME quiet.router >= RouterQuiet, NEW q \in Queries,
                          merged[q].age < MergedTTL, NEW m \in q \cap table
                   PROVE  merged[q].rows[m] = "router"
        BY DEF RouterRowsCatchUp
      <3>1. quiet.router >= BenchmarkTTL + merged[q].age
        BY <2>1 DEF RouterQuiet
      <3>2. QED
        BY <3>1 DEF IInv, MergedHasRouter
    <2>3. ProviderRowsCatchUp
      <3> SUFFICES ASSUME quiet.provider >= ProviderQuiet, announced.provider, available,
                          NEW q \in Queries, merged[q].age < MergedTTL, q \cap Malformed = {},
                          NEW m \in q \cap InProvider
                   PROVE  merged[q].rows[m] \in {"provider", "router", "old router"}
        BY DEF ProviderRowsCatchUp
      <3>1. quiet.provider > Window + merged[q].age
        BY <2>1 DEF ProviderQuiet
      <3>2. QED
        BY <3>1 DEF IInv, MergedHasProvider
    <2>4. QED
      BY <2>2, <2>3 DEF RowsCatchUp
  <1>2. QED
    BY <1>1, InductiveInvariant, PTL

\* In any order of requests, ticks, restarts and changes: after a synchronisation by the
\* background task neither the cache by names nor the merged one has a row of router.db that
\* was replaced, and after its download the cache of provider.db has none of the file before.
\* Of the merged cache after a download it says nothing.
THEOREM InvalidationAlwaysReaches == Spec => []InvalidationReachesCaches
  <1>1. IInv => InvalidationReachesCaches
    BY DEF IInv
  <1>2. QED
    BY <1>1, InductiveInvariant, PTL
===============================================================================
