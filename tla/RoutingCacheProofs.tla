-------------------------- MODULE RoutingCacheProofs --------------------------
(***************************************************************************)
(* The routing cache keeps its counts, its size and its order, for any     *)
(* prompts, models, concurrent requests and sizes.                         *)
(*                                                                         *)
(* Every operation takes entries out of the ordered dictionary and may put *)
(* one at its end: what is true of all entries, and of all pairs of them   *)
(* in their order, is true of what is left (PartIsOrdered), and of the     *)
(* whole if it is true of the new last one (GrownIsOrdered).               *)
(***************************************************************************)
EXTENDS RoutingCache, FiniteSetTheorems, SequenceTheorems, TLAPS

\* What the invariants say of the entries of the cache, with the access counts and the
\* history of uses beside them.
Ordered(entries, access, before) ==
    /\ entries \in Seq(Entry)
    /\ \A i, j \in DOMAIN entries : entries[i].prompt = entries[j].prompt => i = j
    /\ \A i \in DOMAIN entries : access[entries[i].prompt] = entries[i].count
    /\ \A i, j \in DOMAIN entries :
           i < j => <<entries[i].prompt, entries[j].prompt>> \in before

\* Some of the entries, in their order.
Part(part, entries) ==
    /\ part \in Seq(Entry)
    /\ \E at \in [DOMAIN part -> DOMAIN entries] :
           /\ \A i, j \in DOMAIN part : i < j => at[i] < at[j]
           /\ \A i \in DOMAIN part : part[i] = entries[at[i]]

\* A request that is under way has a prompt.
RequestsHavePrompts == \A r \in Requests : ~At(r, "idle") => request[r].prompt \in Prompts

CacheInv ==
    /\ Ordered(cache, counts, usedBefore)
    /\ Len(cache) <= MaxSize
    /\ counts \in [Prompts -> 0 .. CountBound]
    /\ usedBefore \in SUBSET (Prompts \X Prompts)

SelectionsInv ==
    /\ recent \in Seq(Models)
    /\ Len(recent) <= MaxRecent
    /\ frequency \in [Models -> Nat]
    /\ FrequencyMatches

RequestsInv ==
    /\ request \in [Requests ->
                       [at : {"idle", "embedding", "dispatching", "generating"},
                        prompt : Prompts \cup {NoPrompt},
                        model : Models \cup {NoModel}, embedded : BOOLEAN]]
    /\ RequestsHavePrompts

\* The inductive invariant.
IInv == CacheInv /\ SelectionsInv /\ RequestsInv

-------------------------------------------------------------------------------
(* The ordered dictionary                                                  *)

LEMMA EntryType ==
    ASSUME NEW e \in Entry
    PROVE  /\ e.prompt \in Prompts /\ e.model \in Models /\ e.embedded \in BOOLEAN
           /\ e.age \in 0 .. TTL /\ e.count \in 1 .. CountBound
  BY DEF Entry

\* What is true of the entries and of their order is true of a part of them, and so
\* when counts change of what is not in it.
LEMMA PartIsOrdered ==
    ASSUME NEW entries, NEW access, NEW before, Ordered(entries, access, before),
           NEW part, Part(part, entries),
           NEW new, \A i \in DOMAIN part : new[part[i].prompt] = access[part[i].prompt]
    PROVE  Ordered(part, new, before)
  <1>1. PICK at \in [DOMAIN part -> DOMAIN entries] :
          /\ \A i, j \in DOMAIN part : i < j => at[i] < at[j]
          /\ \A i \in DOMAIN part : part[i] = entries[at[i]]
    BY DEF Part
  <1>2. part \in Seq(Entry) /\ DOMAIN part \subseteq Int
    BY DEF Part
  <1>3. ASSUME NEW i \in DOMAIN part, NEW j \in DOMAIN part, part[i].prompt = part[j].prompt
        PROVE  i = j
    <2>1. at[i] = at[j]
      BY <1>1, <1>3 DEF Ordered
    <2>2. entries \in Seq(Entry) /\ at[i] \in DOMAIN entries
      BY DEF Ordered
    <2>3. at[i] \in Int
      BY <2>2
    <2>4. ~(i < j) /\ ~(j < i)
      BY <1>1, <2>1, <2>3
    <2>5. QED
      BY <1>2, <2>4
  <1>4. \A i \in DOMAIN part : new[part[i].prompt] = part[i].count
    BY <1>1 DEF Ordered
  <1>5. \A i, j \in DOMAIN part : i < j => <<part[i].prompt, part[j].prompt>> \in before
    BY <1>1 DEF Ordered
  <1>6. QED
    BY <1>2, <1>3, <1>4, <1>5 DEF Ordered

\* All entries are a part of themselves.
LEMMA WholeIsPart ==
    ASSUME NEW entries \in Seq(Entry)
    PROVE  Part(entries, entries)
  <1> DEFINE at == [i \in DOMAIN entries |-> i]
  <1>1. /\ at \in [DOMAIN entries -> DOMAIN entries]
        /\ \A i, j \in DOMAIN entries : i < j => at[i] < at[j]
        /\ \A i \in DOMAIN entries : entries[i] = entries[at[i]]
    OBVIOUS
  <1> HIDE DEF at
  <1>2. QED
    BY <1>1 DEF Part

\* The entries without the one at a place.
LEMMA RemovedAt ==
    ASSUME NEW entries \in Seq(Entry), NEW k \in DOMAIN entries
    PROVE  /\ RemoveAt(entries, k) \in Seq(Entry)
           /\ Len(RemoveAt(entries, k)) = Len(entries) - 1
           /\ \A i \in 1 .. Len(entries) - 1 :
                RemoveAt(entries, k)[i] = entries[IF i < k THEN i ELSE i + 1]
  <1> DEFINE front == SubSeq(entries, 1, k - 1)
             rest == SubSeq(entries, k + 1, Len(entries))
  <1>1. k \in 1 .. Len(entries) /\ Len(entries) \in Nat
    OBVIOUS
  <1>2. /\ front \in Seq(Entry) /\ Len(front) = k - 1
        /\ \A i \in 1 .. k - 1 : front[i] = entries[i]
    BY <1>1
  <1>3. /\ rest \in Seq(Entry) /\ Len(rest) = Len(entries) - k
        /\ \A i \in 1 .. Len(entries) - k : rest[i] = entries[k + i]
    BY <1>1
  <1>4. RemoveAt(entries, k) = front \o rest
    BY DEF RemoveAt
  <1> HIDE DEF front, rest
  <1>5. /\ front \o rest \in Seq(Entry)
        /\ Len(front \o rest) = Len(entries) - 1
    BY <1>1, <1>2, <1>3
  <1>6. ASSUME NEW i \in 1 .. Len(entries) - 1
        PROVE  (front \o rest)[i] = entries[IF i < k THEN i ELSE i + 1]
    <2>1. CASE i < k
      BY <1>1, <1>2, <1>3, <2>1
    <2>2. CASE ~(i < k)
      <3>1. (front \o rest)[i] = rest[i - (k - 1)]
        BY <1>1, <1>2, <1>3, <2>2
      <3>2. i - (k - 1) \in 1 .. Len(entries) - k /\ k + (i - (k - 1)) = i + 1
        BY <1>1, <2>2
      <3>3. rest[i - (k - 1)] = entries[k + (i - (k - 1))]
        BY <1>3, <3>2
      <3>4. QED
        BY <2>2, <3>1, <3>2, <3>3
    <2>3. QED
      BY <2>1, <2>2
  <1>7. QED
    BY <1>4, <1>5, <1>6

\* Without the entry of p there is a part of the entries, with no entry of p.
LEMMA WithoutEntry ==
    ASSUME NEW entries \in Seq(Entry), NEW p,
           \A i, j \in DOMAIN entries : entries[i].prompt = entries[j].prompt => i = j
    PROVE  /\ Part(Without(entries, p), entries)
           /\ p \notin Keys(Without(entries, p))
           /\ Len(Without(entries, p)) <= Len(entries)
           /\ p \in Keys(entries) => Len(Without(entries, p)) = Len(entries) - 1
  <1> DEFINE left == Without(entries, p)
  <1>1. CASE p \notin Keys(entries)
    <2>1. left = entries
      BY <1>1 DEF Without
    <2>2. Part(entries, entries)
      BY WholeIsPart
    <2>3. QED
      BY <1>1, <2>1, <2>2
  <1>2. CASE p \in Keys(entries)
    <2> DEFINE k == Place(entries, p)
    <2>1. k \in DOMAIN entries /\ entries[k].prompt = p
      BY <1>2 DEF Keys, Place
    <2>2. left = RemoveAt(entries, k)
      BY <1>2 DEF Without
    <2> HIDE DEF k, left
    <2>3. /\ left \in Seq(Entry) /\ Len(left) = Len(entries) - 1
          /\ \A i \in 1 .. Len(entries) - 1 : left[i] = entries[IF i < k THEN i ELSE i + 1]
      BY <2>1, <2>2, RemovedAt
    <2> DEFINE at == [i \in DOMAIN left |-> IF i < k THEN i ELSE i + 1]
    <2>4. DOMAIN left = 1 .. Len(entries) - 1 /\ DOMAIN entries = 1 .. Len(entries)
          /\ Len(entries) \in Nat
      BY <2>3
    <2>5. /\ at \in [DOMAIN left -> DOMAIN entries]
          /\ \A i, j \in DOMAIN left : i < j => at[i] < at[j]
          /\ \A i \in DOMAIN left : at[i] # k
      BY <2>1, <2>4
    <2>6. \A i \in DOMAIN left : left[i] = entries[at[i]]
      BY <2>3, <2>4
    <2> HIDE DEF at
    <2>7. Part(left, entries)
      BY <2>3, <2>5, <2>6 DEF Part
    <2>8. p \notin Keys(left)
      BY <2>1, <2>5, <2>6 DEF Keys
    <2>9. QED
      BY <2>3, <2>4, <2>7, <2>8 DEF left
  <1>3. QED
    BY <1>1, <1>2

\* From some place on the entries are a part.
LEMMA EndIsPart ==
    ASSUME NEW entries \in Seq(Entry), NEW n \in 1 .. Len(entries)
    PROVE  /\ Part(SubSeq(entries, n + 1, Len(entries)), entries)
           /\ Len(SubSeq(entries, n + 1, Len(entries))) = Len(entries) - n
           /\ Tail(entries) = SubSeq(entries, 2, Len(entries))
  <1> DEFINE rest == SubSeq(entries, n + 1, Len(entries))
             at == [i \in DOMAIN rest |-> n + i]
  <1>1. /\ rest \in Seq(Entry) /\ Len(rest) = Len(entries) - n
        /\ \A i \in 1 .. Len(entries) - n : rest[i] = entries[n + i]
    OBVIOUS
  <1>2. Tail(entries) = SubSeq(entries, 2, Len(entries))
    BY HeadTailProperties, TailIsSubSeq
  <1> HIDE DEF rest
  <1>3. /\ at \in [DOMAIN rest -> DOMAIN entries]
        /\ \A i, j \in DOMAIN rest : i < j => at[i] < at[j]
        /\ \A i \in DOMAIN rest : rest[i] = entries[at[i]]
    BY <1>1
  <1> HIDE DEF at
  <1>4. Part(rest, entries)
    BY <1>1, <1>3 DEF Part
  <1>5. QED
    BY <1>1, <1>2, <1>4 DEF rest

\* An entry of a prompt without one is put at the end, is counted, and is the last used.
LEMMA GrownIsOrdered ==
    ASSUME NEW entries, NEW access, NEW before, Ordered(entries, access, before),
           NEW e \in Entry, e.prompt \notin Keys(entries),
           NEW new, new[e.prompt] = e.count,
           \A i \in DOMAIN entries : new[entries[i].prompt] = access[entries[i].prompt],
           NEW after,
           after = {pair \in before : pair[1] # e.prompt}
                       \cup ((Prompts \ {e.prompt}) \X {e.prompt})
    PROVE  /\ Ordered(Append(entries, e), new, after)
           /\ Len(Append(entries, e)) = Len(entries) + 1
  <1> DEFINE grown == Append(entries, e)
             n == Len(entries) + 1
  <1>1. entries \in Seq(Entry)
    BY DEF Ordered
  <1>2. /\ grown \in Seq(Entry) /\ Len(grown) = n /\ DOMAIN grown = 1 .. n
        /\ \A i \in DOMAIN entries : grown[i] = entries[i]
        /\ grown[n] = e /\ DOMAIN entries = 1 .. n - 1 /\ n \in Nat
    BY <1>1
  <1> HIDE DEF grown, n
  <1>3. \A i \in DOMAIN entries : grown[i].prompt # e.prompt /\ grown[i].prompt \in Prompts
    <2>1. ASSUME NEW i \in DOMAIN entries
          PROVE  entries[i].prompt # e.prompt /\ entries[i].prompt \in Prompts
      <3>1. entries[i] \in Entry
        BY <1>1
      <3>2. QED
        BY <3>1, EntryType DEF Keys
    <2>2. QED
      BY <1>2, <2>1
  <1>4. \A i \in DOMAIN grown : i \in DOMAIN entries \/ i = n
    BY <1>2
  <1>5. \A i, j \in DOMAIN grown : grown[i].prompt = grown[j].prompt => i = j
    BY <1>2, <1>3, <1>4 DEF Ordered
  <1>6. \A i \in DOMAIN grown : new[grown[i].prompt] = grown[i].count
    BY <1>2, <1>4 DEF Ordered
  <1>7. ASSUME NEW i \in DOMAIN grown, NEW j \in DOMAIN grown, i < j
        PROVE  <<grown[i].prompt, grown[j].prompt>> \in after
    <2>1. i \in DOMAIN entries
      BY <1>2, <1>7
    <2>2. CASE j \in DOMAIN entries
      <3>1. <<entries[i].prompt, entries[j].prompt>> \in before
        BY <1>7, <2>1, <2>2 DEF Ordered
      <3>2. QED
        BY <1>2, <1>3, <2>1, <2>2, <3>1
    <2>3. CASE j = n
      BY <1>2, <1>3, <2>1, <2>3
    <2>4. QED
      BY <1>4, <2>2, <2>3
  <1>8. Ordered(grown, new, after)
    BY <1>2, <1>5, <1>6, <1>7 DEF Ordered
  <1>9. QED
    BY <1>2, <1>8 DEF grown, n

-------------------------------------------------------------------------------
(* The selections                                                          *)

Occurrences(list, m) == {i \in DOMAIN list : list[i] = m}

LEMMA OccurrencesAreFinite ==
    ASSUME NEW list \in Seq(Models), NEW m
    PROVE  IsFiniteSet(Occurrences(list, m)) /\ Cardinality(Occurrences(list, m)) \in Nat
  <1>1. IsFiniteSet(1 .. Len(list))
    BY FS_Interval
  <1>2. Occurrences(list, m) \in SUBSET (1 .. Len(list))
    BY DEF Occurrences
  <1>3. IsFiniteSet(Occurrences(list, m))
    BY <1>1, <1>2, FS_Subset
  <1>4. QED
    BY <1>3, FS_CardinalityType

\* One more selection adds one to the count of its model.
LEMMA CountOfAppend ==
    ASSUME NEW list \in Seq(Models), NEW m \in Models, NEW x \in Models
    PROVE  Cardinality(Occurrences(Append(list, m), x)) =
               Cardinality(Occurrences(list, x)) + IF x = m THEN 1 ELSE 0
  <1> DEFINE n == Len(list) + 1
  <1>1. /\ DOMAIN Append(list, m) = DOMAIN list \cup {n} /\ n \notin DOMAIN list
        /\ \A i \in DOMAIN list : Append(list, m)[i] = list[i]
        /\ Append(list, m)[n] = m
    OBVIOUS
  <1> HIDE DEF n
  <1>2. CASE x = m
    <2>1. Occurrences(Append(list, m), x) = Occurrences(list, x) \cup {n}
      BY <1>1, <1>2 DEF Occurrences
    <2>2. n \notin Occurrences(list, x)
      BY <1>1 DEF Occurrences
    <2>3. Cardinality(Occurrences(list, x) \cup {n}) = Cardinality(Occurrences(list, x)) + 1
      BY <2>2, OccurrencesAreFinite, FS_AddElement
    <2>4. QED
      BY <1>2, <2>1, <2>3
  <1>3. CASE x # m
    <2>1. Occurrences(Append(list, m), x) = Occurrences(list, x)
      BY <1>1, <1>3 DEF Occurrences
    <2>2. QED
      BY <1>3, <2>1, OccurrencesAreFinite
  <1>4. QED
    BY <1>2, <1>3

\* Without the oldest selection its model has one less.
LEMMA CountOfTail ==
    ASSUME NEW list \in Seq(Models), list # <<>>, NEW x \in Models
    PROVE  Cardinality(Occurrences(list, x)) =
               Cardinality(Occurrences(Tail(list), x)) + IF x = Head(list) THEN 1 ELSE 0
  <1> DEFINE rest == Tail(list)
             shift == [i \in Occurrences(rest, x) |-> i + 1]
             late == Occurrences(list, x) \ {1}
  <1>1. /\ rest \in Seq(Models) /\ Len(rest) = Len(list) - 1
        /\ DOMAIN list = 1 .. Len(list) /\ DOMAIN rest = 1 .. Len(list) - 1
        /\ Len(list) \in Nat \ {0}
        /\ \A i \in DOMAIN rest : rest[i] = list[i + 1]
        /\ Head(list) = list[1]
    OBVIOUS
  <1> HIDE DEF rest
  <1>2. shift \in Bijection(Occurrences(rest, x), late)
    <2>1. shift \in [Occurrences(rest, x) -> late]
      BY <1>1 DEF Occurrences
    <2>2. \A a, b \in Occurrences(rest, x) : shift[a] = shift[b] => a = b
      BY <1>1 DEF Occurrences
    <2>3. ASSUME NEW j \in late PROVE \E i \in Occurrences(rest, x) : shift[i] = j
      <3>1. j - 1 \in Occurrences(rest, x) /\ (j - 1) + 1 = j
        BY <1>1 DEF Occurrences
      <3>2. shift[j - 1] = j
        BY <3>1
      <3>3. QED
        BY <3>1, <3>2
    <2> HIDE DEF shift
    <2>4. QED
      BY <2>1, <2>2, <2>3 DEF Bijection, Injection, Surjection, IsInjective
  <1>3. Cardinality(late) = Cardinality(Occurrences(rest, x))
    <2>1. ExistsBijection(Occurrences(rest, x), late)
      BY <1>2 DEF ExistsBijection
    <2> HIDE DEF late
    <2>2. QED
      BY <1>1, <2>1, OccurrencesAreFinite, FS_Bijection
  <1>4. Cardinality(late) = IF 1 \in Occurrences(list, x)
                            THEN Cardinality(Occurrences(list, x)) - 1
                            ELSE Cardinality(Occurrences(list, x))
    BY OccurrencesAreFinite, FS_RemoveElement
  <1>5. 1 \in Occurrences(list, x) <=> x = Head(list)
    BY <1>1 DEF Occurrences
  <1>6. Cardinality(Occurrences(list, x)) \in Nat
    BY OccurrencesAreFinite
  <1> HIDE DEF late
  <1>7. QED
    BY <1>3, <1>4, <1>5, <1>6 DEF rest

-------------------------------------------------------------------------------
(* SemanticCache.get                                                       *)

LEMMA FoundEntry ==
    ASSUME CacheInv, NEW p \in Prompts, CachedFresh(p)
    PROVE  /\ p \in Keys(cache)
           /\ Of(p) \in Entry
           /\ Of(p).prompt = p
           /\ Of(p).model \in Models
           /\ Of(p).count \in Nat
  <1>1. PICK i \in DOMAIN cache : cache[i].prompt = p
    BY DEF CachedFresh
  <1>2. Place(cache, p) \in DOMAIN cache /\ cache[Place(cache, p)].prompt = p
    BY <1>1 DEF Place
  <1>3. cache \in Seq(Entry)
    BY DEF CacheInv, Ordered
  <1>4. Of(p) \in Entry
    BY <1>2, <1>3 DEF Of
  <1>5. Of(p).model \in Models /\ Of(p).count \in 1 .. CountBound
    BY <1>4, EntryType
  <1>6. QED
    BY <1>1, <1>2, <1>4, <1>5, CacheAssumption DEF Keys, Of

\* An entry used once more is the same but for its count.
LEMMA CountedEntry ==
    ASSUME NEW e \in Entry, NEW n \in 1 .. CountBound
    PROVE  /\ [e EXCEPT !.count = n] \in Entry
           /\ [e EXCEPT !.count = n].prompt = e.prompt
           /\ [e EXCEPT !.count = n].count = n
  BY DEF Entry

\* The use of p leaves the history of uses a relation on prompts.
LEMMA UsedType ==
    ASSUME CacheInv, NEW p \in Prompts, Used(p)
    PROVE  usedBefore' \in SUBSET (Prompts \X Prompts)
  BY DEF CacheInv, Used

\* Without an entry of its own, or two, what is left is ordered.
LEMMA OthersAreOrdered ==
    ASSUME NEW entries, NEW access, NEW before, Ordered(entries, access, before), NEW p
    PROVE  /\ Ordered(Without(entries, p), access, before)
           /\ p \notin Keys(Without(entries, p))
           /\ Len(Without(entries, p)) \in Nat /\ Len(entries) \in Nat
           /\ Len(Without(entries, p)) <= Len(entries)
           /\ p \in Keys(entries) => Len(Without(entries, p)) = Len(entries) - 1
           /\ Keys(Without(entries, p)) \subseteq Keys(entries)
  <1>1. /\ entries \in Seq(Entry)
        /\ \A i, j \in DOMAIN entries : entries[i].prompt = entries[j].prompt => i = j
    BY DEF Ordered
  <1>2. /\ Part(Without(entries, p), entries)
        /\ p \notin Keys(Without(entries, p))
        /\ Len(Without(entries, p)) <= Len(entries)
        /\ p \in Keys(entries) => Len(Without(entries, p)) = Len(entries) - 1
    BY <1>1, WithoutEntry
  <1>3. Ordered(Without(entries, p), access, before)
    BY <1>2, PartIsOrdered
  <1>4. Len(Without(entries, p)) \in Nat /\ Len(entries) \in Nat
    BY <1>1, <1>3 DEF Ordered
  <1>5. Keys(Without(entries, p)) \subseteq Keys(entries)
    BY <1>2 DEF Part, Keys
  <1>6. QED
    BY <1>2, <1>3, <1>4, <1>5

\* The step lemmas of get, set and the administrator say what they do to the cache.
LEMMA HitStep ==
    ASSUME CacheInv, NEW p \in Prompts, Hit(p)
    PROVE  CacheInv' /\ Of(p).model \in Models
  <1> DEFINE n == Of(p).count + 1
             e == [Of(p) EXCEPT !.count = n]
             left == Others(p)
  <1>1. /\ p \in Keys(cache) /\ Of(p) \in Entry /\ Of(p).prompt = p
        /\ Of(p).model \in Models /\ Of(p).count \in Nat
    BY FoundEntry DEF Hit
  <1>2. n <= CountBound /\ cache' = Append(left, e) /\ counts' = [counts EXCEPT ![p] = n]
        /\ Used(p)
    BY DEF Hit
  <1>3. n \in 1 .. CountBound
    BY <1>1, <1>2, CacheAssumption
  <1> HIDE DEF n
  <1>4. e \in Entry /\ e.prompt = p /\ e.count = n
    BY <1>1, <1>3, CountedEntry
  <1>5. /\ Ordered(left, counts, usedBefore) /\ p \notin Keys(left)
        /\ Len(left) = Len(cache) - 1 /\ Len(cache) \in Nat
    BY <1>1, OthersAreOrdered DEF CacheInv, Others
  <1>6. counts' \in [Prompts -> 0 .. CountBound] /\ counts'[p] = n
    BY <1>2, <1>3 DEF CacheInv
  <1>7. \A i \in DOMAIN left : counts'[left[i].prompt] = counts[left[i].prompt]
    <2>1. ASSUME NEW i \in DOMAIN left
          PROVE  left[i].prompt # p /\ left[i].prompt \in Prompts
      <3>1. left[i] \in Entry
        BY <1>5 DEF Ordered
      <3>2. QED
        BY <1>5, <3>1, EntryType DEF Keys
    <2>2. QED
      BY <1>2, <2>1 DEF CacheInv
  <1>8. usedBefore' = {pair \in usedBefore : pair[1] # e.prompt}
                          \cup ((Prompts \ {e.prompt}) \X {e.prompt})
    BY <1>2, <1>4 DEF Used
  <1> HIDE DEF e, left
  <1>9. /\ Ordered(Append(left, e), counts', usedBefore')
        /\ Len(Append(left, e)) = Len(left) + 1
    BY <1>4, <1>5, <1>6, <1>7, <1>8, GrownIsOrdered
  <1>10. Len(cache') <= MaxSize
    BY <1>2, <1>5, <1>9 DEF CacheInv
  <1>11. usedBefore' \in SUBSET (Prompts \X Prompts)
    BY <1>2, UsedType
  <1>12. QED
    BY <1>1, <1>2, <1>6, <1>9, <1>10, <1>11 DEF CacheInv

LEMMA ExpireStep ==
    ASSUME CacheInv, NEW p \in Prompts, Expire(p)
    PROVE  CacheInv'
  <1>1. /\ cache' = Without(cache, p)
        /\ counts' = IF p \in Keys(cache) THEN [counts EXCEPT ![p] = 0] ELSE counts
        /\ usedBefore' = usedBefore
    BY DEF Expire, Others
  <1>2. /\ cache \in Seq(Entry)
        /\ \A i, j \in DOMAIN cache : cache[i].prompt = cache[j].prompt => i = j
        /\ counts \in [Prompts -> 0 .. CountBound]
    BY DEF CacheInv, Ordered
  <1>3. /\ Part(cache', cache) /\ p \notin Keys(cache')
        /\ Len(cache') <= Len(cache)
    BY <1>1, <1>2, WithoutEntry
  <1>4. counts' \in [Prompts -> 0 .. CountBound]
        /\ \A q \in Prompts \ {p} : counts'[q] = counts[q]
    BY <1>1, <1>2, CacheAssumption
  <1>5. \A i \in DOMAIN cache' : counts'[cache'[i].prompt] = counts[cache'[i].prompt]
    <2>1. ASSUME NEW i \in DOMAIN cache'
          PROVE  cache'[i].prompt \in Prompts \ {p}
      <3>1. cache'[i] \in Entry
        BY <1>3 DEF Part
      <3>2. QED
        BY <1>3, <3>1, EntryType DEF Keys
    <2>2. QED
      BY <1>4, <2>1
  <1>6. Ordered(cache', counts', usedBefore')
    <2>1. Ordered(cache, counts, usedBefore)
      BY DEF CacheInv
    <2>2. Ordered(cache', counts', usedBefore)
      BY <1>3, <1>5, <2>1, PartIsOrdered
    <2>3. QED
      BY <1>1, <2>2
  <1>7. Len(cache') <= MaxSize
    <2>1. cache' \in Seq(Entry)
      BY <1>3 DEF Part
    <2>2. QED
      BY <1>2, <1>3, <2>1, CacheAssumption DEF CacheInv
  <1>8. QED
    BY <1>1, <1>4, <1>6, <1>7 DEF CacheInv

LEMMA SimilarHitStep ==
    ASSUME CacheInv, NEW p \in Prompts, NEW q \in Prompts, SimilarHit(p, q)
    PROVE  CacheInv' /\ Of(q).model \in Models
  <1> DEFINE n == Of(q).count + 1
             e == [Of(q) EXCEPT !.count = n]
             others == Others(q)
             left == Without(others, p)
  <1>1. /\ q \in Keys(cache) /\ Of(q) \in Entry /\ Of(q).prompt = q
        /\ Of(q).model \in Models /\ Of(q).count \in Nat
    BY FoundEntry DEF SimilarHit
  <1>2. /\ q # p /\ n <= CountBound /\ cache' = Append(left, e) /\ Used(q)
        /\ counts' = [x \in Prompts |-> CASE x = q -> n
                                          [] x = p /\ p \in Keys(cache) -> 0
                                          [] OTHER -> counts[x]]
    BY DEF SimilarHit
  <1>3. n \in 1 .. CountBound
    BY <1>1, <1>2, CacheAssumption
  <1> HIDE DEF n
  <1>4. e \in Entry /\ e.prompt = q /\ e.count = n
    BY <1>1, <1>3, CountedEntry
  <1>5. /\ Ordered(others, counts, usedBefore) /\ q \notin Keys(others)
        /\ Len(others) = Len(cache) - 1 /\ Len(cache) \in Nat
    BY <1>1, OthersAreOrdered DEF CacheInv, Others
  <1> HIDE DEF others
  <1>6. /\ Ordered(left, counts, usedBefore) /\ p \notin Keys(left)
        /\ Len(left) <= Len(others) /\ Len(left) \in Nat
        /\ Keys(left) \subseteq Keys(others)
    BY <1>5, OthersAreOrdered
  <1> HIDE DEF left
  <1>7. counts \in [Prompts -> 0 .. CountBound]
    BY DEF CacheInv
  <1>8. /\ counts' \in [Prompts -> 0 .. CountBound] /\ counts'[q] = n
        /\ \A x \in Prompts \ {p, q} : counts'[x] = counts[x]
    <2>1. 0 \in 0 .. CountBound /\ n \in 0 .. CountBound
      BY <1>3, CacheAssumption
    <2>2. QED
      BY <1>2, <1>7, <2>1
  <1>9. \A i \in DOMAIN left : counts'[left[i].prompt] = counts[left[i].prompt]
    <2>1. ASSUME NEW i \in DOMAIN left
          PROVE  left[i].prompt \in Prompts \ {p, q}
      <3>1. left[i] \in Entry
        BY <1>6 DEF Ordered
      <3>2. QED
        BY <1>5, <1>6, <3>1, EntryType DEF Keys
    <2>2. QED
      BY <1>8, <2>1
  <1>10. usedBefore' = {pair \in usedBefore : pair[1] # e.prompt}
                           \cup ((Prompts \ {e.prompt}) \X {e.prompt})
    BY <1>2, <1>4 DEF Used
  <1>11. e.prompt \notin Keys(left)
    BY <1>4, <1>5, <1>6
  <1> HIDE DEF e
  <1>12. /\ Ordered(Append(left, e), counts', usedBefore')
         /\ Len(Append(left, e)) = Len(left) + 1
    BY <1>4, <1>6, <1>8, <1>9, <1>10, <1>11, GrownIsOrdered
  <1>13. Len(cache') <= MaxSize
    BY <1>2, <1>5, <1>6, <1>12, CacheAssumption DEF CacheInv
  <1>14. usedBefore' \in SUBSET (Prompts \X Prompts)
    BY <1>2, UsedType
  <1>15. QED
    BY <1>1, <1>2, <1>8, <1>12, <1>13, <1>14 DEF CacheInv

-------------------------------------------------------------------------------
(* SemanticCache.set                                                       *)

LEMMA SelectStep ==
    ASSUME SelectionsInv, NEW m \in Models, Select(m)
    PROVE  SelectionsInv'
  <1>1. /\ recent \in Seq(Models) /\ Len(recent) \in Nat /\ Len(recent) <= MaxRecent
        /\ frequency \in [Models -> Nat]
        /\ \A x \in Models : frequency[x] = Cardinality(Occurrences(recent, x))
        /\ MaxRecent \in Nat \ {0}
    BY CacheAssumption DEF SelectionsInv, FrequencyMatches, Occurrences
  <1>2. CASE Len(recent) < MaxRecent
    <2>1. recent' = Append(recent, m) /\ frequency' = [frequency EXCEPT ![m] = @ + 1]
      BY <1>2 DEF Select
    <2>2. ASSUME NEW x \in Models
          PROVE  frequency'[x] = Cardinality(Occurrences(recent', x))
      <3>1. Cardinality(Occurrences(recent', x)) =
               Cardinality(Occurrences(recent, x)) + IF x = m THEN 1 ELSE 0
        BY <1>1, <2>1, CountOfAppend
      <3>2. frequency'[x] = frequency[x] + IF x = m THEN 1 ELSE 0
        BY <1>1, <2>1
      <3>3. QED
        BY <1>1, <3>1, <3>2
    <2>3. recent' \in Seq(Models) /\ Len(recent') <= MaxRecent
      BY <1>1, <1>2, <2>1
    <2>4. frequency' \in [Models -> Nat]
      BY <1>1, <2>1
    <2>5. QED
      BY <2>2, <2>3, <2>4 DEF SelectionsInv, FrequencyMatches, Occurrences
  <1>3. CASE ~(Len(recent) < MaxRecent)
    <2> DEFINE rest == Tail(recent)
    <2>1. /\ recent' = Append(rest, m)
          /\ frequency' = [[frequency EXCEPT ![Head(recent)] = IF @ > 0 THEN @ - 1 ELSE 0]
                              EXCEPT ![m] = @ + 1]
      BY <1>3 DEF Select
    <2>2. /\ recent # <<>> /\ rest \in Seq(Models) /\ Len(rest) = Len(recent) - 1
          /\ Head(recent) \in Models
      BY <1>1, <1>3
    <2>3. ASSUME NEW x \in Models
          PROVE  /\ frequency'[x] = Cardinality(Occurrences(recent', x))
                 /\ frequency'[x] \in Nat
      <3>1. Cardinality(Occurrences(recent, x)) =
               Cardinality(Occurrences(rest, x)) + IF x = Head(recent) THEN 1 ELSE 0
        BY <1>1, <2>2, CountOfTail
      <3>2. Cardinality(Occurrences(rest, x)) \in Nat
        BY <2>2, OccurrencesAreFinite
      <3>3. Cardinality(Occurrences(recent', x)) =
               Cardinality(Occurrences(rest, x)) + IF x = m THEN 1 ELSE 0
        BY <2>1, <2>2, CountOfAppend
      <3> DEFINE dropped == [frequency EXCEPT ![Head(recent)] = IF @ > 0 THEN @ - 1 ELSE 0]
      <3> HIDE DEF rest
      <3>4. dropped[x] = Cardinality(Occurrences(rest, x)) /\ dropped \in [Models -> Nat]
        BY <1>1, <2>2, <3>1, <3>2
      <3>5. frequency' = [dropped EXCEPT ![m] = @ + 1]
        BY <2>1
      <3> HIDE DEF dropped
      <3>6. frequency'[x] = dropped[x] + IF x = m THEN 1 ELSE 0
        BY <3>4, <3>5
      <3>7. QED
        BY <3>2, <3>3, <3>4, <3>6
    <2>4. frequency' = [x \in Models |-> frequency'[x]]
      BY <1>1, <2>1
    <2>5. frequency' \in [Models -> Nat]
      BY <2>3, <2>4
    <2>6. recent' \in Seq(Models) /\ Len(recent') <= MaxRecent
      BY <1>1, <2>1, <2>2
    <2>7. QED
      BY <2>3, <2>5, <2>6 DEF SelectionsInv, FrequencyMatches, Occurrences
  <1>4. QED
    BY <1>2, <1>3

LEMMA StoreStep ==
    ASSUME CacheInv, SelectionsInv, NEW p \in Prompts, NEW m \in Models,
           NEW embedded \in BOOLEAN, Store(p, m, embedded)
    PROVE  CacheInv' /\ SelectionsInv'
  <1> DEFINE e == [prompt |-> p, model |-> m, embedded |-> embedded, age |-> 0, count |-> 1]
             left == Others(p)
             grown == Append(left, e)
             full == Len(grown) > MaxSize
             stored == [counts EXCEPT ![p] = 1]
  <1>1. /\ cache' = (IF full THEN Tail(grown) ELSE grown)
        /\ counts' = [q \in Prompts |-> CASE q = p -> 1
                                          [] full /\ q = Head(grown).prompt -> 0
                                          [] OTHER -> counts[q]]
        /\ Used(p) /\ Select(m)
    BY DEF Store
  <1>2. e \in Entry /\ e.prompt = p /\ e.count = 1
    <2>1. 0 \in 0 .. TTL /\ 1 \in 1 .. CountBound
      BY CacheAssumption
    <2>2. QED
      BY <2>1 DEF Entry
  <1>3. /\ Ordered(left, counts, usedBefore) /\ p \notin Keys(left)
        /\ Len(left) <= Len(cache) /\ Len(left) \in Nat /\ Len(cache) \in Nat
    BY OthersAreOrdered DEF CacheInv, Others
  <1>4. MaxSize \in Nat \ {0} /\ Len(cache) <= MaxSize
        /\ counts \in [Prompts -> 0 .. CountBound]
    BY CacheAssumption DEF CacheInv
  <1>5. stored[e.prompt] = e.count
        /\ \A i \in DOMAIN left : stored[left[i].prompt] = counts[left[i].prompt]
    <2>1. ASSUME NEW i \in DOMAIN left
          PROVE  left[i].prompt \in Prompts \ {p}
      <3>1. left[i] \in Entry
        BY <1>3 DEF Ordered
      <3>2. QED
        BY <1>3, <3>1, EntryType DEF Keys
    <2>2. QED
      BY <1>2, <1>4, <2>1
  <1>6. usedBefore' = {pair \in usedBefore : pair[1] # e.prompt}
                          \cup ((Prompts \ {e.prompt}) \X {e.prompt})
    BY <1>1, <1>2 DEF Used
  <1>7. e.prompt \notin Keys(left)
    BY <1>2, <1>3
  <1> HIDE DEF e, left, stored
  <1>8. Ordered(grown, stored, usedBefore') /\ Len(grown) = Len(left) + 1
    BY <1>2, <1>3, <1>5, <1>6, <1>7, GrownIsOrdered
  <1>9. /\ grown \in Seq(Entry) /\ Len(grown) \in Nat /\ Len(grown) <= MaxSize + 1
        /\ DOMAIN grown = 1 .. Len(grown) /\ grown[Len(grown)] = e
    <2>1. left \in Seq(Entry)
      BY <1>3 DEF Ordered
    <2>2. QED
      BY <1>2, <1>3, <1>4, <1>8, <2>1
  <1> HIDE DEF grown
  <1>10. /\ Ordered(cache', counts', usedBefore')
         /\ Len(cache') <= MaxSize
    <2>1. CASE ~full
      <3>1. cache' = grown
        BY <1>1, <2>1
      <3>2. \A i \in DOMAIN grown : counts'[grown[i].prompt] = stored[grown[i].prompt]
        <4>1. ASSUME NEW i \in DOMAIN grown PROVE grown[i].prompt \in Prompts
          BY <1>9, EntryType
        <4>2. \A q \in Prompts : counts'[q] = stored[q]
          BY <1>1, <1>4, <2>1 DEF stored
        <4>3. QED
          BY <4>1, <4>2
      <3>3. Part(grown, grown)
        BY <1>9, WholeIsPart
      <3>4. Ordered(grown, counts', usedBefore')
        BY <1>8, <3>2, <3>3, PartIsOrdered
      <3>5. QED
        BY <1>4, <1>9, <2>1, <3>1, <3>4
    <2>2. CASE full
      <3> DEFINE rest == Tail(grown)
      <3>1. cache' = rest /\ 1 \in 1 .. Len(grown) /\ Len(grown) > 1
        BY <1>1, <1>4, <1>9, <2>2
      <3>2. /\ Part(rest, grown) /\ Len(rest) = Len(grown) - 1
            /\ \A i \in DOMAIN rest : rest[i] = grown[i + 1] /\ i + 1 \in DOMAIN grown /\ i + 1 # 1
            /\ Head(grown) = grown[1]
        <4>1. /\ Part(SubSeq(grown, 2, Len(grown)), grown)
              /\ rest = SubSeq(grown, 2, Len(grown))
              /\ Len(SubSeq(grown, 2, Len(grown))) = Len(grown) - 1
          <5>1. 1 + 1 = 2
            OBVIOUS
          <5>2. QED
            BY <1>9, <3>1, <5>1, EndIsPart
        <4>2. /\ \A i \in DOMAIN rest : rest[i] = grown[i + 1] /\ i + 1 \in DOMAIN grown /\ i + 1 # 1
              /\ Head(grown) = grown[1]
          BY <1>9, <3>1
        <4>3. QED
          BY <4>1, <4>2
      <3> HIDE DEF rest
      <3>3. \A i \in DOMAIN rest : rest[i].prompt \in Prompts /\ rest[i].prompt # Head(grown).prompt
        <4>1. ASSUME NEW i \in DOMAIN rest
              PROVE  rest[i].prompt \in Prompts /\ rest[i].prompt # grown[1].prompt
          <5>1. grown[i + 1] \in Entry /\ 1 \in DOMAIN grown
            BY <1>9, <3>1, <3>2
          <5>2. grown[i + 1].prompt # grown[1].prompt
            BY <1>8, <3>2, <5>1 DEF Ordered
          <5>3. QED
            BY <3>2, <5>1, <5>2, EntryType
        <4>2. QED
          BY <3>2, <4>1
      <3>4. \A i \in DOMAIN rest : counts'[rest[i].prompt] = stored[rest[i].prompt]
        BY <1>1, <1>4, <3>3 DEF stored
      <3>5. Ordered(rest, counts', usedBefore')
        BY <1>8, <3>2, <3>4, PartIsOrdered
      <3>6. QED
        BY <1>4, <1>9, <3>1, <3>2, <3>5
    <2>3. QED
      BY <2>1, <2>2
  <1>11. counts' \in [Prompts -> 0 .. CountBound]
    <2>1. 0 \in 0 .. CountBound /\ 1 \in 0 .. CountBound
      BY CacheAssumption
    <2>2. QED
      BY <1>1, <1>4, <2>1
  <1>12. usedBefore' \in SUBSET (Prompts \X Prompts)
    BY <1>1, UsedType
  <1>13. SelectionsInv'
    BY <1>1, SelectStep
  <1>14. QED
    BY <1>10, <1>11, <1>12, <1>13 DEF CacheInv

-------------------------------------------------------------------------------
(* The requests                                                            *)

\* A request under way, with its prompt.
UnderWay == [at : {"embedding", "dispatching", "generating"}, prompt : Prompts,
             model : Models \cup {NoModel}, embedded : BOOLEAN]

LEMMA RequestGoesOn ==
    ASSUME RequestsInv, NEW r \in Requests, NEW new \in UnderWay,
           request' = [request EXCEPT ![r] = new]
    PROVE  RequestsInv'
  BY DEF RequestsInv, RequestsHavePrompts, At, UnderWay

\* A request that moves on keeps its prompt, one that returns gives it up.
LEMMA RequestMoves ==
    ASSUME RequestsInv, NEW r \in Requests, ~At(r, "idle"),
           NEW place \in {"embedding", "dispatching", "generating"},
           NEW m \in Models \cup {NoModel}, NEW embedded \in BOOLEAN,
           Becomes(r, place, m, embedded)
    PROVE  RequestsInv'
  <1> DEFINE one == [request[r] EXCEPT !.at = place]
             two == [one EXCEPT !.model = m]
             three == [two EXCEPT !.embedded = embedded]
  <1>1. request[r] \in [at : {"idle", "embedding", "dispatching", "generating"},
                        prompt : Prompts, model : Models \cup {NoModel}, embedded : BOOLEAN]
    BY DEF RequestsInv, RequestsHavePrompts
  <1>2. request' = [request EXCEPT ![r] = three]
    BY DEF Becomes, RequestsInv
  <1>3. one \in UnderWay
    BY <1>1 DEF UnderWay
  <1> HIDE DEF one
  <1>4. two \in UnderWay
    BY <1>3 DEF UnderWay
  <1> HIDE DEF two
  <1>5. three \in UnderWay
    BY <1>4 DEF UnderWay
  <1> HIDE DEF three
  <1>6. QED
    BY <1>2, <1>5, RequestGoesOn

LEMMA RequestReturns ==
    ASSUME RequestsInv, NEW r \in Requests, Return(r)
    PROVE  RequestsInv'
  BY DEF RequestsInv, RequestsHavePrompts, Return, Idle, At

\* A step that leaves the cache, or the selections, alone keeps what is known of them.
LEMMA CacheStays ==
    ASSUME CacheInv, UNCHANGED <<cache, counts, usedBefore>>
    PROVE  CacheInv'
  BY DEF CacheInv

LEMMA SelectionsStay ==
    ASSUME SelectionsInv, UNCHANGED <<recent, frequency>>
    PROVE  SelectionsInv'
  BY DEF SelectionsInv, FrequencyMatches

LEMMA RequestsStay ==
    ASSUME RequestsInv, UNCHANGED request
    PROVE  RequestsInv'
  BY DEF RequestsInv, RequestsHavePrompts, At

LEMMA LookupStep ==
    ASSUME IInv, NEW r \in Requests, Lookup(r)
    PROVE  IInv'
  <1> DEFINE p == request[r].prompt
  <1>1. ~At(r, "idle") /\ p \in Prompts
    BY DEF Lookup, At, IInv, RequestsInv, RequestsHavePrompts
  <1>2. PICK embedded \in {TRUE} \cup {"embed_fails" \notin Events} :
          \/ Hit(p) /\ Becomes(r, "generating", Of(p).model, FALSE)
          \/ \E q \in Prompts : SimilarHit(p, q) /\ Becomes(r, "generating", Of(q).model, FALSE)
          \/ Expire(p) /\ Becomes(r, "dispatching", NoModel, embedded)
    BY DEF Lookup
  <1>3. embedded \in BOOLEAN
    OBVIOUS
  <1> HIDE DEF p
  <1>4. CASE Hit(p) /\ Becomes(r, "generating", Of(p).model, FALSE)
    <2>1. CacheInv' /\ Of(p).model \in Models
      BY <1>1, <1>4, HitStep DEF IInv
    <2>2. SelectionsInv'
      BY <1>4, SelectionsStay DEF Hit, IInv
    <2>3. RequestsInv'
      BY <1>1, <1>4, <2>1, RequestMoves DEF IInv
    <2>4. QED
      BY <2>1, <2>2, <2>3 DEF IInv
  <1>5. CASE \E q \in Prompts : SimilarHit(p, q) /\ Becomes(r, "generating", Of(q).model, FALSE)
    <2>1. PICK q \in Prompts : SimilarHit(p, q) /\ Becomes(r, "generating", Of(q).model, FALSE)
      BY <1>5
    <2>2. CacheInv' /\ Of(q).model \in Models
      BY <1>1, <2>1, SimilarHitStep DEF IInv
    <2>3. SelectionsInv'
      BY <2>1, SelectionsStay DEF SimilarHit, IInv
    <2>4. RequestsInv'
      BY <1>1, <2>1, <2>2, RequestMoves DEF IInv
    <2>5. QED
      BY <2>2, <2>3, <2>4 DEF IInv
  <1>6. CASE Expire(p) /\ Becomes(r, "dispatching", NoModel, embedded)
    <2>1. CacheInv'
      BY <1>1, <1>6, ExpireStep DEF IInv
    <2>2. SelectionsInv'
      BY <1>6, SelectionsStay DEF Expire, IInv
    <2>3. RequestsInv'
      BY <1>1, <1>3, <1>6, RequestMoves DEF IInv
    <2>4. QED
      BY <2>1, <2>2, <2>3 DEF IInv
  <1>7. QED
    BY <1>2, <1>4, <1>5, <1>6

LEMMA DispatchStep ==
    ASSUME IInv, NEW r \in Requests, NEW m \in Models, Dispatch(r, m)
    PROVE  IInv'
  <1>1. /\ ~At(r, "idle") /\ request[r].prompt \in Prompts /\ request[r].embedded \in BOOLEAN
        /\ Store(request[r].prompt, m, request[r].embedded)
        /\ Becomes(r, "generating", m, FALSE)
    BY DEF Dispatch, At, IInv, RequestsInv, RequestsHavePrompts
  <1>2. CacheInv' /\ SelectionsInv'
    BY <1>1, StoreStep DEF IInv
  <1>3. RequestsInv'
    BY <1>1, RequestMoves DEF IInv
  <1>4. QED
    BY <1>2, <1>3 DEF IInv

LEMMA LogDecisionStep ==
    ASSUME IInv, NEW r \in Requests, NEW m \in Models, LogDecision(r, m)
    PROVE  IInv'
  <1>1. request[r].prompt \in Prompts /\ Store(request[r].prompt, m, FALSE) /\ Return(r)
    BY DEF LogDecision, At, IInv, RequestsInv, RequestsHavePrompts
  <1>2. CacheInv' /\ SelectionsInv'
    BY <1>1, StoreStep DEF IInv
  <1>3. RequestsInv'
    BY <1>1, RequestReturns DEF IInv
  <1>4. QED
    BY <1>2, <1>3 DEF IInv

\* The steps of a request that do not touch the cache.
LEMMA OtherRequestSteps ==
    ASSUME IInv, NEW r \in Requests,
           \/ \E p \in Prompts : Begin(r, p) \/ \E m \in Models : BeginOverride(r, p, m)
           \/ \E m \in Models : DispatchFails(r, m)
           \/ GiveUp(r)
    PROVE  IInv'
  <1>1. UNCHANGED <<cache, counts, recent, frequency, usedBefore>>
    BY DEF Begin, BeginOverride, DispatchFails, GiveUp
  <1>2. CacheInv' /\ SelectionsInv'
    BY <1>1, CacheStays, SelectionsStay DEF IInv
  <1>3. RequestsInv'
    <2>1. CASE \E p \in Prompts : Begin(r, p)
      <3>1. PICK p \in Prompts :
                request' = [request EXCEPT ![r] = [Idle EXCEPT !.at = "embedding", !.prompt = p]]
        BY <2>1 DEF Begin
      <3>2. [Idle EXCEPT !.at = "embedding", !.prompt = p] \in UnderWay
        BY DEF Idle, UnderWay
      <3>3. QED
        BY <3>1, <3>2, RequestGoesOn DEF IInv
    <2>2. CASE \E p \in Prompts, m \in Models : BeginOverride(r, p, m)
      <3>1. PICK p \in Prompts, m \in Models :
                request' = [request EXCEPT ![r] = [Idle EXCEPT !.at = "generating",
                                                               !.prompt = p, !.model = m]]
        BY <2>2 DEF BeginOverride
      <3>2. [Idle EXCEPT !.at = "generating", !.prompt = p, !.model = m] \in UnderWay
        BY DEF Idle, UnderWay
      <3>3. QED
        BY <3>1, <3>2, RequestGoesOn DEF IInv
    <2>3. CASE \E m \in Models : DispatchFails(r, m)
      <3>1. PICK m \in Models : At(r, "dispatching") /\ Becomes(r, "generating", m, FALSE)
        BY <2>3 DEF DispatchFails
      <3>2. ~At(r, "idle")
        BY <3>1 DEF At
      <3>3. QED
        BY <3>1, <3>2, RequestMoves DEF IInv
    <2>4. CASE GiveUp(r)
      BY <2>4, RequestReturns DEF GiveUp, IInv
    <2>5. QED
      BY <2>1, <2>2, <2>3, <2>4
  <1>4. QED
    BY <1>2, <1>3 DEF IInv

-------------------------------------------------------------------------------
(* The administrator and the clock                                         *)

\* Entries that leave the cache otherwise leave their counts, and every other entry.
LEMMA CacheShrinks ==
    ASSUME CacheInv, Part(cache', cache), Len(cache') <= Len(cache),
           UNCHANGED <<counts, usedBefore>>
    PROVE  CacheInv'
  <1>1. Ordered(cache, counts, usedBefore)
    BY DEF CacheInv
  <1>2. Ordered(cache', counts, usedBefore)
    BY <1>1, PartIsOrdered
  <1>3. Len(cache') \in Nat /\ Len(cache) \in Nat
    BY <1>1, <1>2 DEF Ordered
  <1>4. QED
    BY <1>2, <1>3, CacheAssumption DEF CacheInv

LEMMA ClearSelectedStep ==
    ASSUME CacheInv, NEW m, NEW age, ClearSelected(m, age)
    PROVE  CacheInv'
  <1> DEFINE kept == {i \in DOMAIN cache : (m # NoModel /\ cache[i].model # m) \/ cache[i].age < age}
             n == Cardinality(kept)
  <1>1. PICK at \in [1 .. n -> kept] :
          /\ \A i, j \in DOMAIN at : i < j => at[i] < at[j]
          /\ cache' = [i \in DOMAIN at |-> cache[at[i]]]
    BY DEF ClearSelected
  <1>2. cache \in Seq(Entry) /\ DOMAIN cache = 1 .. Len(cache) /\ Len(cache) \in Nat
    BY DEF CacheInv, Ordered
  <1>3. kept \in SUBSET (1 .. Len(cache))
    BY <1>2
  <1>4. n \in Nat /\ n <= Len(cache)
    <2>1. ASSUME NEW size \in Nat
          PROVE  IsFiniteSet(1 .. size) /\ Cardinality(1 .. size) = size
      BY FS_Interval
    <2> HIDE DEF kept
    <2>2. IsFiniteSet(kept) /\ Cardinality(kept) <= Len(cache)
      <3>1. kept \in SUBSET (1 .. Len(cache)) /\ Len(cache) \in Nat
        BY <1>2, <1>3
      <3>2. IsFiniteSet(kept) /\ Cardinality(kept) <= Cardinality(1 .. Len(cache))
        BY <2>1, <3>1, FS_Subset
      <3>3. QED
        BY <2>1, <3>1, <3>2
    <2>3. QED
      BY <2>2, FS_CardinalityType
  <1>5. kept \subseteq DOMAIN cache
    OBVIOUS
  <1> HIDE DEF kept, n
  <1>6. cache' \in Seq(Entry) /\ DOMAIN cache' = 1 .. n /\ Len(cache') = n
    BY <1>1, <1>2, <1>4, <1>5
  <1>7. Part(cache', cache)
    <2>1. at \in [DOMAIN cache' -> DOMAIN cache]
      BY <1>1, <1>5, <1>6
    <2>2. QED
      BY <1>1, <1>6, <2>1 DEF Part
  <1>8. QED
    BY <1>4, <1>6, <1>7, CacheShrinks DEF ClearSelected

LEMMA TickStep ==
    ASSUME CacheInv, Tick
    PROVE  CacheInv'
  <1>1. cache \in Seq(Entry) /\ DOMAIN cache = 1 .. Len(cache) /\ Len(cache) \in Nat
    BY DEF CacheInv, Ordered
  <1>2. cache' = [i \in DOMAIN cache |-> [cache[i] EXCEPT !.age = IF @ < TTL THEN @ + 1 ELSE @]]
        /\ UNCHANGED <<counts, usedBefore>>
    BY DEF Tick
  <1>3. ASSUME NEW i \in DOMAIN cache
        PROVE  /\ cache'[i] \in Entry
               /\ cache'[i].prompt = cache[i].prompt /\ cache'[i].count = cache[i].count
    <2>1. cache[i] \in Entry
      BY <1>1
    <2>2. cache'[i] = [cache[i] EXCEPT !.age = IF @ < TTL THEN @ + 1 ELSE @]
      BY <1>2
    <2>3. QED
      BY <2>1, <2>2, CacheAssumption DEF Entry
  <1>4. cache' \in Seq(Entry) /\ DOMAIN cache' = DOMAIN cache /\ Len(cache') = Len(cache)
    BY <1>1, <1>2, <1>3
  <1>5. Ordered(cache', counts, usedBefore)
    BY <1>3, <1>4 DEF CacheInv, Ordered
  <1>6. QED
    BY <1>2, <1>4, <1>5 DEF CacheInv

LEMMA AdminStep ==
    ASSUME IInv, Admin
    PROVE  IInv'
  <1>1. RequestsInv'
    BY RequestsStay DEF IInv, Admin, Clear, EvictOldest, ClearSelected, Explain
  <1>2. CASE Clear
    <2>1. cache' = <<>> /\ recent' = <<>> /\ frequency' = [m \in Models |-> 0]
          /\ UNCHANGED <<counts, usedBefore>>
      BY <1>2 DEF Clear
    <2>2. CacheInv'
      <3>1. Ordered(<<>>, counts, usedBefore) /\ Len(<<>>) = 0
        BY DEF Ordered
      <3>2. QED
        BY <2>1, <3>1, CacheAssumption DEF IInv, CacheInv
    <2>3. SelectionsInv'
      <3>1. \A m \in Models : {i \in DOMAIN recent' : recent'[i] = m} = {}
        BY <2>1
      <3>2. QED
        BY <2>1, <3>1, FS_EmptySet, CacheAssumption DEF SelectionsInv, FrequencyMatches
    <2>4. QED
      BY <1>1, <2>2, <2>3 DEF IInv
  <1>3. CASE \E n \in 1 .. Len(cache) : EvictOldest(n)
    <2>1. PICK n \in 1 .. Len(cache) : EvictOldest(n)
      BY <1>3
    <2>2. cache \in Seq(Entry)
      BY DEF IInv, CacheInv, Ordered
    <2>3. Part(cache', cache) /\ Len(cache') = Len(cache) - n /\ Len(cache) \in Nat
      BY <2>1, <2>2, EndIsPart DEF EvictOldest
    <2>4. CacheInv'
      BY <2>1, <2>3, CacheShrinks DEF EvictOldest, IInv
    <2>5. QED
      BY <1>1, <2>1, <2>4, SelectionsStay DEF IInv, EvictOldest
  <1>4. CASE \E m \in Models \cup {NoModel}, age \in 0 .. TTL : ClearSelected(m, age)
    <2>1. CacheInv'
      BY <1>4, ClearSelectedStep DEF IInv
    <2>2. QED
      BY <1>1, <1>4, <2>1, SelectionsStay DEF IInv, ClearSelected
  <1>5. CASE \E p \in Prompts : Explain(p)
    <2>1. CacheInv'
      BY <1>5, HitStep, ExpireStep DEF IInv, Explain
    <2>2. SelectionsInv'
      BY <1>5, SelectionsStay DEF IInv, Explain, Hit, Expire
    <2>3. QED
      BY <1>1, <2>1, <2>2 DEF IInv
  <1>6. QED
    BY <1>2, <1>3, <1>4, <1>5 DEF Admin

-------------------------------------------------------------------------------
(* The theorems                                                            *)

LEMMA Initially ==
    Init => IInv
  <1> SUFFICES ASSUME Init PROVE IInv
    OBVIOUS
  <1>1. CacheInv
    <2>1. Ordered(<<>>, counts, usedBefore) /\ Len(<<>>) = 0
      BY DEF Ordered
    <2>2. QED
      BY <2>1, CacheAssumption DEF Init, CacheInv
  <1>2. SelectionsInv
    <2>1. \A m \in Models : {i \in DOMAIN recent : recent[i] = m} = {}
      BY DEF Init
    <2>2. QED
      BY <2>1, FS_EmptySet, CacheAssumption DEF Init, SelectionsInv, FrequencyMatches
  <1>3. RequestsInv
    BY DEF Init, RequestsInv, RequestsHavePrompts, Idle, At
  <1>4. QED
    BY <1>1, <1>2, <1>3 DEF IInv

LEMMA Steps ==
    IInv /\ [Next]_vars => IInv'
  <1> SUFFICES ASSUME IInv, [Next]_vars PROVE IInv'
    OBVIOUS
  <1>1. CASE \E r \in Requests : Lookup(r)
    BY <1>1, LookupStep
  <1>2. CASE \E r \in Requests, m \in Models : Dispatch(r, m)
    BY <1>2, DispatchStep
  <1>3. CASE \E r \in Requests, m \in Models : LogDecision(r, m)
    BY <1>3, LogDecisionStep
  <1>4. CASE \E r \in Requests :
               \/ \E p \in Prompts : Begin(r, p) \/ \E m \in Models : BeginOverride(r, p, m)
               \/ \E m \in Models : DispatchFails(r, m)
               \/ GiveUp(r)
    BY <1>4, OtherRequestSteps
  <1>5. CASE Admin
    BY <1>5, AdminStep
  <1>6. CASE Tick
    <2>1. CacheInv'
      BY <1>6, TickStep DEF IInv
    <2>2. SelectionsInv' /\ RequestsInv'
      BY <1>6, SelectionsStay, RequestsStay DEF IInv, Tick
    <2>3. QED
      BY <2>1, <2>2 DEF IInv
  <1>7. CASE UNCHANGED vars
    BY <1>7, CacheStays, SelectionsStay, RequestsStay DEF vars, IInv
  <1>8. QED
    BY <1>1, <1>2, <1>3, <1>4, <1>5, <1>6, <1>7 DEF Next

\* The cache is in the order of uses with the counts beside it, the selections are
\* counted, and every request under way has a prompt: the invariant behind the others.
THEOREM InductiveInvariant == Spec => []IInv
  BY Initially, Steps, PTL DEF Spec

\* The cache never exceeds max_size nor holds a prompt twice, and recent_selections
\* never exceeds max_recent, with any number of requests at once.
THEOREM TypeCorrect == Spec => []TypeOK
  <1>1. IInv => TypeOK
    BY DEF IInv, CacheInv, Ordered, SelectionsInv, RequestsInv, TypeOK
  <1>2. QED
    BY <1>1, InductiveInvariant, PTL

\* _model_frequency counts exactly what recent_selections remembers, for any limit,
\* so that the decrement that stops at zero never has to.
THEOREM FrequencyAlwaysMatches == Spec => []FrequencyMatches
  <1>1. IInv => FrequencyMatches
    BY DEF IInv, SelectionsInv
  <1>2. QED
    BY <1>1, InductiveInvariant, PTL

\* The access count of an entry and the one kept beside the cache agree, whatever hits,
\* decisions, expiries, evictions and clearings come between.
THEOREM CountsAlwaysAgree == Spec => []CountsAgree
  <1>1. IInv => CountsAgree
    BY DEF IInv, CacheInv, Ordered, CountsAgree
  <1>2. QED
    BY <1>1, InductiveInvariant, PTL

\* The cache is in the order of last uses, for any size and any requests: the first
\* entry, which an eviction takes, is the least recently used.
THEOREM AlwaysLeastRecentlyUsedFirst == Spec => []LeastRecentlyUsedFirst
  <1>1. IInv => LeastRecentlyUsedFirst
    BY DEF IInv, CacheInv, Ordered, LeastRecentlyUsedFirst
  <1>2. QED
    BY <1>1, InductiveInvariant, PTL
===============================================================================
