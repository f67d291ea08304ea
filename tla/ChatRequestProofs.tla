--------------------------- MODULE ChatRequestProofs ---------------------------
(***************************************************************************)
(* The cache of answers, under any number of concurrent requests, with any *)
(* interleaving of administrators, clean-ups, restarts and cancellations.  *)
(* That no answer outlives its time needs a local clock that is not behind *)
(* UTC; the rest holds for any.                                            *)
(***************************************************************************)
EXTENDS ChatRequest, FiniteSetTheorems, TLAPS

OneEntryPerKey ==
    \A entry, other \in responses : entry.key = other.key => entry = other

\* What was saved, and may still be served, is in the database.
SavedAnswersHaveRows ==
    \A entry \in responses : entry.saved /\ entry.born < TTL =>
        \E row \in rows : /\ row.key = RowKey(entry.key)
                          /\ row.text = entry.text
                          /\ row.age = entry.born

\* The inductive invariant.
CacheInv ==
    /\ responses \subseteq Entries
    /\ rows \subseteq Rows
    /\ OneEntryPerKey
    /\ AnswersAreTheModels
    /\ UTCShift <= 0 => \A entry \in responses : entry.born <= entry.age
    /\ \A row \in rows : row.born = row.age
    /\ SavedAnswersHaveRows

Inv == CacheInv /\ req \in [Requests -> ReqType]

USE DEF OneEntryPerKey

\* What is stored with a row comes back with the same key, unless it is absent.
LEMMA RowKeyFacts ==
    ASSUME NEW key \in Keys \cup RowKeys
    PROVE  /\ RowKey(key) \in RowKeys
           /\ RowKey(key).model = key.model
           /\ RowKey(key).prompt = key.prompt
           /\ RowKey(RowKey(key)) = RowKey(key)
           /\ key.params = "given" => RowKey(key) = key
           /\ key.params = "absent" => RowKey(key) = key
           /\ key.params \in {"given", "none", "absent"}
  BY ResponseCacheAssumption DEF RowKey, RowKeys, Keys

\* A row has the key that it was stored under.
LEMMA RowsKeepTheirKeys ==
    ASSUME NEW key \in RowKeys
    PROVE  RowKey(key) = key
  BY RowKeyFacts DEF RowKeys

\* Ages only grow, and no further than their cap.
LEMMA AgeFacts ==
    ASSUME NEW n \in Int, NEW k \in Int, n <= k
    PROVE  /\ AtMost(n + 1, TTL) \in Int
           /\ AtMost(n + 1, TTL) <= AtMost(k + 1, TTL)
           /\ n \in 0 .. TTL => AtMost(n + 1, TTL) \in 0 .. TTL
           /\ AtMost(n + 1, TTL) < TTL => n < TTL /\ AtMost(n + 1, TTL) = n + 1
  BY ResponseCacheAssumption DEF AtMost

\* Forgetting answers, all, some or those of a model, keeps the rest as it was.
LEMMA Forgetting ==
    ASSUME CacheInv, responses' \subseteq responses, rows' = rows
    PROVE  CacheInv'
  BY DEF CacheInv, AnswersAreTheModels, SavedAnswersHaveRows

\* The clean-up deletes no row that an answer in memory still needs.
LEMMA CleaningUp ==
    ASSUME CacheInv, DeleteExpiredEntries
    PROVE  CacheInv'
<1>1. rows' \subseteq rows /\ responses' = responses
  BY DEF DeleteExpiredEntries
<1>2. SavedAnswersHaveRows'
  <2> SUFFICES ASSUME NEW entry \in responses, entry.saved, entry.born < TTL
               PROVE  \E row \in rows' : /\ row.key = RowKey(entry.key)
                                         /\ row.text = entry.text
                                         /\ row.age = entry.born
    BY <1>1 DEF SavedAnswersHaveRows
  <2>1. PICK row \in rows : /\ row.key = RowKey(entry.key)
                            /\ row.text = entry.text
                            /\ row.age = entry.born
    BY DEF CacheInv, SavedAnswersHaveRows
  <2>2. row \in rows'
    BY <2>1 DEF DeleteExpiredEntries
  <2>. QED  BY <2>1, <2>2
<1>. QED  BY <1>1, <1>2 DEF CacheInv, AnswersAreTheModels

\* What is restored is as old as its row says, and its row is there.
LEMMA Restoring ==
    ASSUME CacheInv, LoadPopular, rows' = rows
    PROVE  CacheInv'
<1>1. PICK chosen \in SUBSET Restorable :
          OnePerKey(chosen) /\ responses' = {Restored(row) : row \in chosen}
  BY DEF LoadPopular
<1>2. rows' = rows
  OBVIOUS
<1>3. ASSUME NEW row \in chosen
      PROVE  /\ row \in rows
             /\ row \in Rows
             /\ RowKey(row.key) = row.key
             /\ Restored(row) \in Entries
             /\ row.text = TextOf(row.key)
             /\ row.born = row.age
             /\ UTCShift <= 0 => row.born <= Restored(row).age
  <2>1. row \in rows /\ row \in Rows /\ row.text = TextOf(row.key) /\ row.born = row.age
    BY <1>1 DEF Restorable, CacheInv, AnswersAreTheModels
  <2>2. RowKey(row.key) = row.key
    BY <2>1, RowsKeepTheirKeys DEF Rows
  <2>3. Restored(row) \in Entries
    BY <2>1, ResponseCacheAssumption DEF Restored, Rows, Entries
  <2>4. UTCShift <= 0 => row.born <= Restored(row).age
    BY <2>1, ResponseCacheAssumption DEF Restored, Rows
  <2>. QED  BY <2>1, <2>2, <2>3, <2>4
<1>4. responses' \subseteq Entries /\ OneEntryPerKey'
  <2>1. responses' \subseteq Entries
    BY <1>1, <1>3
  <2>2. \A row, other \in chosen :
            Restored(row).key = Restored(other).key => Restored(row) = Restored(other)
    BY <1>1 DEF OnePerKey, Restored
  <2>. QED  BY <1>1, <2>1, <2>2
<1>5. AnswersAreTheModels'
  BY <1>1, <1>2, <1>3 DEF Restored, CacheInv, AnswersAreTheModels
<1>6. UTCShift <= 0 => \A entry \in responses' : entry.born <= entry.age
  BY <1>1, <1>3 DEF Restored
<1>7. SavedAnswersHaveRows'
  <2> SUFFICES ASSUME NEW row \in chosen, row.born < TTL
               PROVE  \E r \in rows : r.key = RowKey(row.key) /\ r.text = row.text
                                      /\ r.age = row.born
    BY <1>1, <1>2 DEF SavedAnswersHaveRows, Restored
  <2>. QED  BY <1>3
<1>. QED  BY <1>2, <1>4, <1>5, <1>6, <1>7 DEF CacheInv

\* Time passes for an answer and for its row alike.
LEMMA Aging ==
    ASSUME CacheInv, Tick
    PROVE  CacheInv'
<1> DEFINE Older(entry) ==
        [entry EXCEPT !.age = AtMost(@ + 1, TTL), !.born = AtMost(@ + 1, TTL)]
<1> DEFINE OlderRow(row) ==
        [row EXCEPT !.age = AtMost(@ + 1, TTL), !.born = AtMost(@ + 1, TTL),
                    !.created = AtMost(@ + 1, MaxAge)]
<1>1. responses' = {Older(entry) : entry \in responses}
  BY DEF Tick
<1>2. rows' = {OlderRow(row) : row \in rows}
  BY DEF Tick
<1>3. ASSUME NEW entry \in responses
      PROVE  /\ Older(entry) \in Entries
             /\ Older(entry).key = entry.key
             /\ Older(entry).text = entry.text
             /\ Older(entry).saved = entry.saved
             /\ UTCShift <= 0 => Older(entry).born <= Older(entry).age
             /\ Older(entry).born < TTL =>
                    entry.born < TTL /\ Older(entry).born = entry.born + 1
  <2>1. entry \in Entries /\ (UTCShift <= 0 => entry.born <= entry.age)
    BY DEF CacheInv
  <2>2. /\ AtMost(entry.age + 1, TTL) \in Int
        /\ AtMost(entry.born + 1, TTL) \in 0 .. TTL
        /\ UTCShift <= 0 => AtMost(entry.born + 1, TTL) <= AtMost(entry.age + 1, TTL)
        /\ AtMost(entry.born + 1, TTL) < TTL =>
               entry.born < TTL /\ AtMost(entry.born + 1, TTL) = entry.born + 1
    BY <2>1, AgeFacts DEF Entries
  <2>3. /\ Older(entry).age = AtMost(entry.age + 1, TTL)
        /\ Older(entry).born = AtMost(entry.born + 1, TTL)
        /\ Older(entry).key = entry.key
        /\ Older(entry).text = entry.text
        /\ Older(entry).saved = entry.saved
    BY <2>1 DEF Entries
  <2>4. Older(entry) \in Entries
    BY <2>1, <2>2 DEF Entries
  <2>. QED  BY <2>2, <2>3, <2>4
<1>4. ASSUME NEW row \in rows
      PROVE  /\ OlderRow(row) \in Rows
             /\ OlderRow(row).key = row.key
             /\ OlderRow(row).text = row.text
             /\ OlderRow(row).age = AtMost(row.age + 1, TTL)
             /\ OlderRow(row).born = OlderRow(row).age
  <2>1. row \in Rows /\ row.born = row.age
    BY DEF CacheInv
  <2>2. AtMost(row.age + 1, TTL) \in 0 .. TTL
    BY <2>1, AgeFacts DEF Rows
  <2>3. AtMost(row.created + 1, MaxAge) \in 0 .. MaxAge
    BY <2>1, ResponseCacheAssumption DEF Rows, AtMost
  <2>4. /\ OlderRow(row).key = row.key
        /\ OlderRow(row).text = row.text
        /\ OlderRow(row).age = AtMost(row.age + 1, TTL)
        /\ OlderRow(row).born = AtMost(row.born + 1, TTL)
    BY <2>1 DEF Rows
  <2>5. OlderRow(row) \in Rows
    BY <2>1, <2>2, <2>3 DEF Rows
  <2>. QED  BY <2>1, <2>4, <2>5
<1> HIDE DEF Older, OlderRow
<1>5. responses' \subseteq Entries /\ rows' \subseteq Rows
  BY <1>1, <1>2, <1>3, <1>4
<1>6. OneEntryPerKey'
  BY <1>1, <1>3 DEF CacheInv
<1>7. AnswersAreTheModels'
  <2>1. \A entry \in responses : Older(entry).text = TextOf(Older(entry).key)
    BY <1>3 DEF CacheInv, AnswersAreTheModels
  <2>2. \A row \in rows : OlderRow(row).text = TextOf(OlderRow(row).key)
    BY <1>4 DEF CacheInv, AnswersAreTheModels
  <2>. QED  BY <1>1, <1>2, <2>1, <2>2 DEF AnswersAreTheModels
<1>8. /\ UTCShift <= 0 => \A entry \in responses' : entry.born <= entry.age
      /\ \A row \in rows' : row.born = row.age
  BY <1>1, <1>2, <1>3, <1>4
<1>9. SavedAnswersHaveRows'
  <2> SUFFICES ASSUME NEW entry \in responses,
                      Older(entry).saved, Older(entry).born < TTL
               PROVE  \E row \in rows' : /\ row.key = RowKey(Older(entry).key)
                                         /\ row.text = Older(entry).text
                                         /\ row.age = Older(entry).born
    BY <1>1 DEF SavedAnswersHaveRows
  <2>1. entry.saved /\ entry.born < TTL /\ Older(entry).born = entry.born + 1
    BY <1>3
  <2>2. PICK row \in rows : /\ row.key = RowKey(entry.key)
                            /\ row.text = entry.text
                            /\ row.age = entry.born
    BY <2>1 DEF CacheInv, SavedAnswersHaveRows
  <2>3. AtMost(entry.born + 1, TTL) = entry.born + 1
    BY <2>1, ResponseCacheAssumption DEF AtMost, CacheInv, Entries
  <2>4. /\ OlderRow(row) \in rows'
        /\ OlderRow(row).key = RowKey(Older(entry).key)
        /\ OlderRow(row).text = Older(entry).text
        /\ OlderRow(row).age = Older(entry).born
    BY <1>2, <1>3, <1>4, <2>1, <2>2, <2>3
  <2>. QED  BY <2>4
<1>. QED  BY <1>5, <1>6, <1>7, <1>8, <1>9 DEF CacheInv

\* A save replaces the row of its key, or adds one, and leaves the others alone.
LEMMA Saving ==
    ASSUME CacheInv, NEW key \in Keys, SaveResponseEntry(key, TextOf(key))
    PROVE  /\ rows' \subseteq Rows
           /\ \A row \in rows' : row.text = TextOf(row.key) /\ row.born = row.age
           /\ \E row \in rows' : /\ row.key = RowKey(key)
                                 /\ row.text = TextOf(key)
                                 /\ row.age = 0
           /\ \A row \in rows :
                  row \in rows' \/ (key.params # "none" /\ row.key = RowKey(key))
<1> DEFINE existing == ExistingRows(key)
           added == IF existing = {} THEN {NewRow(key, TextOf(key))}
                    ELSE {UpdatedRow(row, TextOf(key)) : row \in existing}
<1>1. rows' = (rows \ existing) \cup added
  BY DEF SaveResponseEntry
<1>2. TextOf(key) \in Texts /\ TextOf(RowKey(key)) = TextOf(key) /\ RowKey(key) \in RowKeys
  BY RowKeyFacts DEF TextOf, Texts, Keys
<1>3. ASSUME NEW row \in added
      PROVE  /\ row \in Rows
             /\ row.key = RowKey(key)
             /\ row.text = TextOf(key)
             /\ row.age = 0
             /\ row.born = 0
  <2>1. CASE existing = {}
    BY <1>2, <2>1, ResponseCacheAssumption DEF NewRow, Rows
  <2>2. CASE existing # {}
    <3>1. PICK old \in existing : row = UpdatedRow(old, TextOf(key))
      BY <2>2
    <3>2. old \in Rows /\ old.key = RowKey(key)
      BY DEF ExistingRows, CacheInv
    <3>3. /\ row.key = old.key
          /\ row.text = TextOf(key)
          /\ row.age = 0
          /\ row.born = 0
      BY <3>1, <3>2 DEF UpdatedRow, Rows
    <3>4. row \in Rows
      <4>1. TextOf(key) \in Texts /\ 0 \in 0 .. TTL
        BY <1>2, ResponseCacheAssumption
      <4> HIDE DEF existing, added
      <4>2. [old EXCEPT !.text = TextOf(key), !.age = 0, !.born = 0] \in Rows
        BY <3>2, <4>1 DEF Rows
      <4>. QED  BY <3>1, <4>2 DEF UpdatedRow
    <3>. QED  BY <3>2, <3>3, <3>4
  <2>. QED  BY <2>1, <2>2
<1>4. added # {}
  OBVIOUS
<1> HIDE DEF added
<1>5. \A row \in rows : row \in Rows /\ row.text = TextOf(row.key) /\ row.born = row.age
  BY DEF CacheInv, AnswersAreTheModels
<1>6. \A row \in existing : key.params # "none" /\ row.key = RowKey(key)
  BY DEF ExistingRows
<1> HIDE DEF existing
<1>7. \E row \in rows' : row.key = RowKey(key) /\ row.text = TextOf(key) /\ row.age = 0
  BY <1>1, <1>3, <1>4
<1>. QED  BY <1>1, <1>2, <1>3, <1>5, <1>6, <1>7

\* An answer that is stored under the model it came from keeps the invariant.
LEMMA Storing ==
    ASSUME CacheInv, NEW key \in Keys, SetResponse(key, TextOf(key))
    PROVE  CacheInv'
<1>1. PICK saved \in BOOLEAN, kept \in WithRoomForOne(responses \ Cached(key)) :
          /\ responses' = kept \cup {NewEntry(key, TextOf(key), saved)}
          /\ IF saved THEN SaveResponseEntry(key, TextOf(key)) ELSE rows' = rows
  BY DEF SetResponse
<1> DEFINE new == NewEntry(key, TextOf(key), saved)
<1>2. kept \subseteq responses /\ \A entry \in kept : entry.key # key
  BY DEF WithRoomForOne, Cached
<1>3. /\ new \in Entries
      /\ new.key = key /\ new.text = TextOf(key) /\ new.saved = saved
      /\ new.age = 0 /\ new.born = 0
  BY ResponseCacheAssumption DEF NewEntry, Entries, TextOf, Texts, Keys
<1> HIDE DEF new
<1>4. responses' = kept \cup {new}
  BY <1>1 DEF new
<1>5. /\ rows' \subseteq Rows
      /\ \A row \in rows' : row.text = TextOf(row.key) /\ row.born = row.age
      /\ saved => \E row \in rows' : /\ row.key = RowKey(key)
                                     /\ row.text = TextOf(key)
                                     /\ row.age = 0
      /\ \A row \in rows : row \in rows' \/ (key.params # "none" /\ row.key = RowKey(key))
  <2>1. CASE saved
    BY <1>1, <2>1, Saving
  <2>2. CASE ~saved
    BY <1>1, <2>2 DEF CacheInv, AnswersAreTheModels
  <2>. QED  BY <2>1, <2>2
<1>6. responses' \subseteq Entries /\ OneEntryPerKey'
  BY <1>2, <1>3, <1>4 DEF CacheInv
<1>7. AnswersAreTheModels'
  BY <1>2, <1>3, <1>4, <1>5 DEF CacheInv, AnswersAreTheModels
<1>8. UTCShift <= 0 => \A entry \in responses' : entry.born <= entry.age
  BY <1>2, <1>3, <1>4 DEF CacheInv
<1>9. SavedAnswersHaveRows'
  <2> SUFFICES ASSUME NEW entry \in responses', entry.saved, entry.born < TTL
               PROVE  \E row \in rows' : /\ row.key = RowKey(entry.key)
                                         /\ row.text = entry.text
                                         /\ row.age = entry.born
    BY DEF SavedAnswersHaveRows
  <2>1. CASE entry = new
    BY <1>3, <1>5, <2>1
  <2>2. CASE entry \in kept
    <3>1. PICK row \in rows : /\ row.key = RowKey(entry.key)
                              /\ row.text = entry.text
                              /\ row.age = entry.born
      BY <1>2, <2>2 DEF CacheInv, SavedAnswersHaveRows
    <3>2. entry.key \in Keys \cup RowKeys /\ entry.key # key
      BY <1>2, <2>2 DEF CacheInv, Entries
    <3>3. key.params # "none" => RowKey(entry.key) # RowKey(key)
      <4>1. key.params # "none" => key.params = "given"
        BY ResponseCacheAssumption DEF Keys
      <4>. QED  BY <3>2, <4>1 DEF RowKey, RowKeys, Keys
    <3>. QED  BY <1>5, <3>1, <3>3
  <2>. QED  BY <1>4, <2>1, <2>2
<1>. QED  BY <1>5, <1>6, <1>7, <1>8, <1>9 DEF CacheInv

\* The next model to try is one of the list.
LEMMA TryingNext ==
    ASSUME req \in [Requests -> ReqType], NEW r \in Requests, req[r] # Ended, NextTry(r)
    PROVE  req' \in [Requests -> ReqType]
<1>1. CASE req' = [req EXCEPT ![r] = Ended]
  BY <1>1 DEF ReqType
<1>2. CASE \E m \in req[r].left :
               req' = [req EXCEPT ![r].pc = "load", ![r].model = m,
                                  ![r].left = @ \ {m}, ![r].own = FALSE]
  <2>1. PICK m \in req[r].left :
            req' = [req EXCEPT ![r].pc = "load", ![r].model = m,
                               ![r].left = @ \ {m}, ![r].own = FALSE]
    BY <1>2
  <2>. QED  BY <2>1 DEF ReqType
<1>. QED  BY <1>1, <1>2 DEF NextTry, Ends

\* What a step of a request, or of anybody else, does to requests and cache.
LEMMA InvStep == Inv /\ [Next]_vars => Inv'
<1> SUFFICES ASSUME Inv, [Next]_vars
             PROVE  Inv'
  OBVIOUS
<1> USE DEF Inv
<1>0. ASSUME UNCHANGED cacheVars
      PROVE  CacheInv'
  BY <1>0, Forgetting DEF cacheVars
<1>1. ASSUME NEW r \in Requests, NEW key \in Keys, CacheHit(r, key)
      PROVE  Inv'
  BY <1>0, <1>1 DEF CacheHit, Ends, ReqType
<1>2. ASSUME NEW r \in Requests, NEW key \in Keys, CacheMiss(r, key)
      PROVE  Inv'
  <2>1. CacheInv'
    BY <1>2, Forgetting DEF CacheMiss, Expired
  <2>2. req' \in [Requests -> ReqType]
    <3>1. PICK others \in Fallbacks(key) : Begin(r, key, others, "load")
      BY <1>2 DEF CacheMiss
    <3>2. others \in SUBSET Models /\ key.model \in Models /\ 0 \in 0 .. MaxToolCalls
      BY ChatAssumption DEF Fallbacks, Keys
    <3>. QED  BY <3>1, <3>2 DEF Begin, ReqType
  <2>. QED  BY <2>1, <2>2
<1>3. ASSUME NEW r \in Requests, NEW key \in Keys, BeginStream(r, key)
      PROVE  Inv'
  <2>1. key.model \in Models /\ 0 \in 0 .. MaxToolCalls
    BY ChatAssumption DEF Keys
  <2>2. req' \in [Requests -> ReqType]
    BY <1>3, <2>1 DEF BeginStream, Begin, ReqType
  <2>. QED  BY <1>0, <1>3, <2>2 DEF BeginStream
<1>4. ASSUME NEW r \in Requests, Loads(r)
      PROVE  Inv'
  <2>1. At(r, "load") \in BOOLEAN /\ AfterLoad(r) \in {"generate", "stream"}
    BY DEF At, AfterLoad
  <2>2. PICK own \in BOOLEAN, pc \in {"generate", "stream"} :
            req' = [req EXCEPT ![r].pc = pc, ![r].own = own]
    BY <1>4, <2>1 DEF Loads
  <2>3. req' \in [Requests -> ReqType]
    <3>1. req[r] \in ReqType /\ req[r] # Ended
      BY <1>4 DEF Loads, Ended
    <3>2. [req[r] EXCEPT !.pc = pc, !.own = own] \in ReqType
      <4>1. CASE own = TRUE
        BY <3>1, <4>1 DEF ReqType
      <4>2. CASE own = FALSE
        BY <3>1, <4>2 DEF ReqType
      <4>. QED  BY <4>1, <4>2
    <3>. QED  BY <2>2, <3>2
  <2>. QED  BY <1>0, <1>4, <2>3 DEF Loads
<1>5. ASSUME NEW r \in Requests, FindsLoaded(r)
      PROVE  Inv'
  <2>1. AfterLoad(r) \in {"generate", "stream"}
    BY DEF AfterLoad
  <2>2. req' \in [Requests -> ReqType]
    BY <1>5, <2>1 DEF FindsLoaded, ReqType, Ended
  <2>. QED  BY <1>0, <1>5, <2>2 DEF FindsLoaded
<1>6. ASSUME NEW r \in Requests, LoadFails(r)
      PROVE  Inv'
  BY <1>0, <1>6, TryingNext DEF LoadFails, At, Ended
<1>7. ASSUME NEW r \in Requests, StreamLoadFails(r)
      PROVE  Inv'
  BY <1>0, <1>7 DEF StreamLoadFails, Ends, ReqType
<1>8. ASSUME NEW r \in Requests, GenerationFails(r)
      PROVE  Inv'
  <2>1. req' \in [Requests -> ReqType]
    <3>1. CASE NextTry(r)
      BY <1>8, <3>1, TryingNext DEF GenerationFails, At, Ended
    <3>2. CASE req' = [req EXCEPT ![r].pc = "unload"]
      BY <1>8, <3>2 DEF GenerationFails, ReqType, At, Ended
    <3>. QED  BY <1>8, <3>1, <3>2 DEF GenerationFails
  <2>. QED  BY <1>0, <1>8, <2>1 DEF GenerationFails
<1>9. ASSUME NEW r \in Requests, UnloadReturns(r)
      PROVE  Inv'
  BY <1>0, <1>9, TryingNext DEF UnloadReturns, At, Ended
<1>10. ASSUME NEW r \in Requests, RunTools(r)
       PROVE  Inv'
  <2>1. req[r].rounds + 1 \in 0 .. MaxToolCalls
    BY <1>10, ChatAssumption DEF RunTools, ReqType, Ended
  <2>2. req' \in [Requests -> ReqType]
    BY <1>10, <2>1 DEF RunTools, ReqType, Ended
  <2>. QED  BY <1>0, <1>10, <2>2 DEF RunTools
<1>11. ASSUME NEW r \in Requests, ToolsFail(r)
       PROVE  Inv'
  BY <1>0, <1>11 DEF ToolsFail, Ends, ReqType
<1>12. ASSUME NEW r \in Requests, Answer(r)
       PROVE  Inv'
  <2>1. req[r].key \in Keys /\ req[r].model \in Models
    BY <1>12 DEF Answer, ReqType, Ended
  <2>2. /\ AnsweredKey(r) \in Keys
        /\ TextOf(AnsweredKey(r)) = [by |-> req[r].model, prompt |-> req[r].key.prompt]
    BY <2>1 DEF AnsweredKey, Keys, TextOf
  <2>3. CacheInv'
    BY <1>12, <2>2, Storing DEF Answer
  <2>. QED  BY <1>12, <2>3 DEF Answer, Ends, ReqType
<1>13. ASSUME NEW r \in Requests, StreamEnds(r)
       PROVE  Inv'
  BY <1>0, <1>13 DEF StreamEnds, Ends, ReqType
<1>14. ASSUME NEW r \in Requests, Cancel(r)
       PROVE  Inv'
  BY <1>0, <1>14 DEF Cancel, Ends, ReqType
<1>15. ASSUME Administer
       PROVE  Inv'
  <2>1. responses' \subseteq responses /\ rows' = rows /\ req' = req
    BY <1>15 DEF Administer, Clear, EvictOldest, InvalidateResponse
  <2>. QED  BY <2>1, Forgetting
<1>16. ASSUME CleanUp
       PROVE  Inv'
  BY <1>16, CleaningUp DEF CleanUp
<1>17. ASSUME TimePasses
       PROVE  Inv'
  BY <1>17, Aging DEF TimePasses
<1>18. ASSUME Restart
       PROVE  Inv'
  <2>1. CASE LoadPopular
    BY <1>18, <2>1, Restoring DEF Restart, LoadFromPersistence, ReqType
  <2>2. CASE responses' = {}
    BY <1>18, <2>2, Forgetting DEF Restart, LoadFromPersistence, ReqType
  <2>. QED  BY <1>18, <2>1, <2>2 DEF Restart, LoadFromPersistence
<1>19. ASSUME UNCHANGED vars
       PROVE  Inv'
  BY <1>0, <1>19 DEF vars, cacheVars
<1>. QED  BY <1>1, <1>2, <1>3, <1>4, <1>5, <1>6, <1>7, <1>8, <1>9, <1>10, <1>11, <1>12,
             <1>13, <1>14, <1>15, <1>16, <1>17, <1>18, <1>19 DEF Next, Proceed

\* The invariant holds from the start.
LEMMA InvInit == Init => Inv
  BY DEF Init, ResponseCacheInit, Inv, CacheInv, AnswersAreTheModels,
         SavedAnswersHaveRows, ReqType

\* The invariant holds for ever.
LEMMA InvAlways == Spec => []Inv
  BY InvInit, InvStep, PTL DEF Spec

\* The answer kept for a model is that model's own, whichever requests fell back
\* to which models, and however often the router was restarted.
THEOREM AnswersAlwaysTheModels == Spec => []AnswersAreTheModels
<1>1. Inv => AnswersAreTheModels
  BY DEF Inv, CacheInv
<1>. QED  BY <1>1, InvAlways, PTL

\* What was saved, and may still be served, is in the database as it is, and a restart can
\* restore it unless its row was first added as long ago as rows are kept.
THEOREM SavedAnswersAlwaysPersisted == Spec => []SavedAnswersArePersisted
<1>1. Inv => SavedAnswersArePersisted
  <2>1. ASSUME Inv, NEW entry \in responses, entry.saved, entry.born < TTL
        PROVE  \E row \in rows : Holds(row, entry) /\ (row \in Restorable \/ row.created >= MaxAge)
    <3>1. PICK row \in rows : /\ row.key = RowKey(entry.key)
                              /\ row.text = entry.text
                              /\ row.age = entry.born
      BY <2>1, Zenon DEF Inv, CacheInv, SavedAnswersHaveRows
    <3>2. row.created \in 0 .. MaxAge
      BY <2>1 DEF Inv, CacheInv, Rows
    <3>3. row \in Restorable \/ row.created >= MaxAge
      BY <2>1, <3>1, <3>2, ResponseCacheAssumption DEF Restorable
    <3>. QED  BY <3>1, <3>3 DEF Holds
  <2>. QED  BY <2>1, Zenon DEF SavedAnswersArePersisted
<1>. QED  BY <1>1, InvAlways, PTL

\* Where the local clock is not behind UTC, no answer outlives its time to live.
THEOREM AlwaysServedWithinTTL ==
    ASSUME UTCShift <= 0
    PROVE  Spec => []ServedWithinTTL
<1>1. Inv => ServedWithinTTL
  BY ResponseCacheAssumption DEF Inv, CacheInv, ServedWithinTTL, Fresh, Entries
<1>. QED  BY <1>1, InvAlways, PTL

-------------------------------------------------------------------------------
(* The types.  Beyond Inv one must know that there are finitely many rows, *)
(* or restoring could not count them, and that a load is for an estimate   *)
(* that the ledger may hold.                                               *)

FewAnswers ==
    /\ IsFiniteSet(rows)
    /\ IsFiniteSet(responses)
    /\ Cardinality(responses) <= MaxSize

CallsAreReal ==
    /\ call \in [Requests -> VRAM!Calls \cup {VRAM!NoCall}]
    /\ \A r \in Requests : call[r].op = "load" => call[r].estimate \in Estimates
    /\ \A r \in Requests :
           call[r] # VRAM!NoCall => /\ req[r].pc \in {"load", "stream_load", "unload"}
                                    /\ call[r].model = req[r].model

LedgerInv == ledger \in VRAM!Dict /\ pinned \in Models \cup {NoModel}

\* The inductive invariant of the types.
TInv == Inv /\ FewAnswers /\ CallsAreReal /\ LedgerInv

\* Mapping a finite set makes it no larger.
LEMMA Mapping ==
    ASSUME NEW S, IsFiniteSet(S), NEW f, f = [x \in S |-> f[x]]
    PROVE  /\ IsFiniteSet({f[x] : x \in S})
           /\ Cardinality({f[x] : x \in S}) <= Cardinality(S)
<1> DEFINE T == {f[x] : x \in S}
<1>1. f \in Surjection(S, T)
  BY DEF Surjection
<1> HIDE DEF T
<1>2. IsFiniteSet(T) /\ Cardinality(T) <= Cardinality(S)
  BY <1>1, FS_Surjection
<1>. QED  BY <1>2 DEF T

\* With fewer answers, and no other rows, there are still few enough.
LEMMA FewerAnswers ==
    ASSUME FewAnswers, responses' \subseteq responses, rows' \subseteq rows
    PROVE  FewAnswers'
<1>1. IsFiniteSet(rows') /\ IsFiniteSet(responses')
  BY FS_Subset DEF FewAnswers
<1>2. Cardinality(responses') <= Cardinality(responses)
  BY FS_Subset DEF FewAnswers
<1>3. Cardinality(responses') \in Nat /\ Cardinality(responses) \in Nat /\ MaxSize \in Nat
  BY <1>1, FS_CardinalityType, ResponseCacheAssumption DEF FewAnswers
<1>. QED  BY <1>1, <1>2, <1>3 DEF FewAnswers

\* Time passing makes neither answers nor rows more numerous.
LEMMA AgingKeepsFew ==
    ASSUME FewAnswers, Tick
    PROVE  FewAnswers'
<1> DEFINE OlderEntry == [entry \in responses |->
               [entry EXCEPT !.age = AtMost(@ + 1, TTL), !.born = AtMost(@ + 1, TTL)]]
           OlderRow == [row \in rows |->
               [row EXCEPT !.age = AtMost(@ + 1, TTL), !.born = AtMost(@ + 1, TTL),
                           !.created = AtMost(@ + 1, MaxAge)]]
<1>1. /\ responses' = {OlderEntry[entry] : entry \in responses}
      /\ rows' = {OlderRow[row] : row \in rows}
  BY DEF Tick
<1>2. /\ OlderEntry = [entry \in responses |-> OlderEntry[entry]]
      /\ OlderRow = [row \in rows |-> OlderRow[row]]
  OBVIOUS
<1> HIDE DEF OlderEntry, OlderRow
<1>3. IsFiniteSet(rows')
  BY <1>1, <1>2, Mapping DEF FewAnswers
<1>4. IsFiniteSet(responses') /\ Cardinality(responses') <= Cardinality(responses)
  BY <1>1, <1>2, Mapping DEF FewAnswers
<1>5. Cardinality(responses') \in Nat /\ Cardinality(responses) \in Nat /\ MaxSize \in Nat
  BY <1>4, FS_CardinalityType, ResponseCacheAssumption DEF FewAnswers
<1>. QED  BY <1>3, <1>4, <1>5 DEF FewAnswers

\* No more answers are restored than there is room for.
LEMMA RestoringKeepsFew ==
    ASSUME FewAnswers, LoadPopular, rows' = rows
    PROVE  FewAnswers'
<1>1. PICK chosen \in SUBSET Restorable :
          /\ Cardinality(chosen) =
                 AtMost(Cardinality({row.key : row \in Restorable}), MaxSize)
          /\ responses' = {Restored(row) : row \in chosen}
  BY DEF LoadPopular
<1>2. IsFiniteSet(Restorable) /\ IsFiniteSet(chosen)
  BY <1>1, FS_Subset DEF FewAnswers, Restorable
<1>3. Cardinality({row.key : row \in Restorable}) \in Nat
  <2> DEFINE KeyOf == [row \in Restorable |-> row.key]
  <2>1. /\ KeyOf = [row \in Restorable |-> KeyOf[row]]
        /\ {row.key : row \in Restorable} = {KeyOf[row] : row \in Restorable}
    OBVIOUS
  <2> HIDE DEF KeyOf
  <2>2. IsFiniteSet({KeyOf[row] : row \in Restorable})
    BY <1>2, <2>1, Mapping
  <2>. QED  BY <2>1, <2>2, FS_CardinalityType
<1>4. Cardinality(chosen) \in Nat /\ Cardinality(chosen) <= MaxSize
  BY <1>1, <1>3, ResponseCacheAssumption DEF AtMost
<1>5. IsFiniteSet(responses') /\ Cardinality(responses') <= Cardinality(chosen)
  <2> DEFINE Back == [row \in chosen |-> Restored(row)]
  <2>1. /\ Back = [row \in chosen |-> Back[row]]
        /\ responses' = {Back[row] : row \in chosen}
    BY <1>1
  <2> HIDE DEF Back
  <2>. QED  BY <1>2, <2>1, Mapping
<1>6. Cardinality(responses') \in Nat /\ MaxSize \in Nat
  BY <1>5, FS_CardinalityType, ResponseCacheAssumption
<1>. QED  BY <1>4, <1>5, <1>6 DEF FewAnswers

\* A new answer has room: it replaces the one of its key, or the oldest leaves.
LEMMA StoringKeepsFew ==
    ASSUME FewAnswers, NEW key, NEW text, SetResponse(key, text)
    PROVE  FewAnswers'
<1> DEFINE others == responses \ Cached(key)
<1>1. PICK saved \in BOOLEAN, kept \in WithRoomForOne(others) :
          /\ responses' = kept \cup {NewEntry(key, text, saved)}
          /\ IF saved THEN SaveResponseEntry(key, text) ELSE rows' = rows
  BY DEF SetResponse
<1>2. /\ IsFiniteSet(others)
      /\ Cardinality(others) \in Nat
      /\ Cardinality(others) <= MaxSize
      /\ MaxSize \in Nat
  <2>1. IsFiniteSet(others) /\ Cardinality(others) <= Cardinality(responses)
    BY FS_Subset DEF FewAnswers
  <2> HIDE DEF others
  <2>. QED  BY <2>1, FS_CardinalityType, ResponseCacheAssumption DEF FewAnswers
<1> HIDE DEF others
<1>3. IsFiniteSet(kept) /\ Cardinality(kept) \in Nat /\ Cardinality(kept) < MaxSize
  <2>1. CASE Cardinality(others) < MaxSize
    BY <1>1, <1>2, <2>1 DEF WithRoomForOne
  <2>2. CASE ~ (Cardinality(others) < MaxSize)
    <3>1. PICK oldest \in others : kept = others \ {oldest}
      BY <1>1, <2>2 DEF WithRoomForOne
    <3>2. IsFiniteSet(kept) /\ Cardinality(kept) = Cardinality(others) - 1
      BY <1>2, <3>1, FS_RemoveElement
    <3>. QED  BY <1>2, <3>2, FS_CardinalityType
  <2>. QED  BY <2>1, <2>2
<1>4. IsFiniteSet(responses') /\ Cardinality(responses') <= MaxSize
  <2> DEFINE new == NewEntry(key, text, saved)
  <2> HIDE DEF new
  <2>1. responses' = kept \cup {new}
    BY <1>1 DEF new
  <2>2. /\ IsFiniteSet(kept \cup {new})
        /\ \/ Cardinality(kept \cup {new}) = Cardinality(kept)
           \/ Cardinality(kept \cup {new}) = Cardinality(kept) + 1
    BY <1>3, FS_AddElement
  <2>. QED  BY <1>2, <1>3, <2>1, <2>2
<1>5. IsFiniteSet(rows')
  <2>1. CASE saved
    <3> DEFINE existing == ExistingRows(key)
               added == IF existing = {} THEN {NewRow(key, text)}
                                         ELSE {UpdatedRow(row, text) : row \in existing}
    <3>1. rows' = (rows \ existing) \cup added
      BY <1>1, <2>1 DEF SaveResponseEntry
    <3>2. existing \subseteq rows
      BY DEF ExistingRows
    <3>3. IsFiniteSet(existing) /\ IsFiniteSet(rows \ existing)
      <4> HIDE DEF existing
      <4>. QED  BY <3>2, FS_Subset DEF FewAnswers
    <3>4. IsFiniteSet(added)
      <4> DEFINE Updated == [row \in existing |-> UpdatedRow(row, text)]
      <4>1. /\ Updated = [row \in existing |-> Updated[row]]
            /\ {UpdatedRow(row, text) : row \in existing} = {Updated[row] : row \in existing}
        OBVIOUS
      <4> HIDE DEF Updated, existing
      <4>2. IsFiniteSet({Updated[row] : row \in existing})
        BY <3>3, <4>1, Mapping
      <4>3. IsFiniteSet({NewRow(key, text)})
        BY FS_Singleton
      <4>. QED  BY <4>1, <4>2, <4>3
    <3> HIDE DEF existing, added
    <3>. QED  BY <3>1, <3>3, <3>4, FS_Union
  <2>2. CASE ~saved
    BY <1>1, <2>2 DEF FewAnswers
  <2>. QED  BY <2>1, <2>2
<1>. QED  BY <1>4, <1>5 DEF FewAnswers

\* The ledger's dictionaries stay dictionaries: entries go, or one more comes.
LEMMA LedgerTypes ==
    ASSUME NEW d \in VRAM!Dict
    PROVE  /\ \A gone : VRAM!Without(d, gone) \in VRAM!Dict
           /\ \A m \in Models, estimate \in Estimates :
                  VRAM!Enter(d, m, estimate) \in VRAM!Dict
<1>1. DOMAIN d \in SUBSET Models /\ d \in [DOMAIN d -> Estimates]
  BY DEF VRAM!Dict
<1>2. ASSUME NEW gone
      PROVE  VRAM!Without(d, gone) \in VRAM!Dict
  <2>1. VRAM!Without(d, gone) = [m \in DOMAIN d \ gone |-> d[m]]
    BY DEF VRAM!Without, VRAM!Restrict
  <2>2. VRAM!Without(d, gone) \in [DOMAIN d \ gone -> Estimates]
    BY <1>1, <2>1
  <2>. QED  BY <1>1, <2>2 DEF VRAM!Dict
<1>3. ASSUME NEW m \in Models, NEW estimate \in Estimates
      PROVE  VRAM!Enter(d, m, estimate) \in VRAM!Dict
  <2>1. VRAM!Enter(d, m, estimate) \in [DOMAIN d \cup {m} -> Estimates]
    BY <1>1 DEF VRAM!Enter, VRAM!Merge
  <2>. QED  BY <1>1, <2>1 DEF VRAM!Dict
<1>. QED  BY <1>2, <1>3

\* The process starts with nothing loaded, or with the pinned model.
LEMMA StartedTypes ==
    ASSUME NEW start \in Started
    PROVE  start.ledger \in VRAM!Dict /\ start.pinned \in Models \cup {NoModel}
<1>1. VRAM!EmptyDict \in VRAM!Dict
  <2>1. VRAM!EmptyDict \in [{} -> Estimates]
    BY DEF VRAM!EmptyDict
  <2>. QED  BY <2>1 DEF VRAM!Dict
<1>2. \A m \in Models : EstimateOf[m] \in Estimates
  BY DEF Estimates
<1>3. CASE start = [ledger |-> VRAM!EmptyDict, pinned |-> NoModel]
  BY <1>1, <1>3
<1>4. CASE \E m \in Models :
              start = [ledger |-> VRAM!Enter(VRAM!EmptyDict, m, EstimateOf[m]), pinned |-> m]
  BY <1>1, <1>2, <1>4, LedgerTypes
<1>. QED  BY <1>3, <1>4 DEF Started

\* A request that has no call may be anywhere; the others are as they were.
LEMMA CallEnds ==
    ASSUME CallsAreReal, req \in [Requests -> ReqType], NEW r \in Requests,
           call' = [call EXCEPT ![r] = VRAM!NoCall],
           \A other \in Requests \ {r} : req'[other] = req[other]
    PROVE  CallsAreReal'
  BY DEF CallsAreReal, VRAM!NoCall

\* A new call is for the model that its request is at.
LEMMA CallBegins ==
    ASSUME CallsAreReal, req \in [Requests -> ReqType], NEW r \in Requests,
           NEW new \in {LoadCall(req'[r].model), UnloadCall(req'[r].model)},
           call' = [call EXCEPT ![r] = new],
           req'[r].model \in Models,
           req'[r].pc \in {"load", "stream_load", "unload"},
           \A other \in Requests \ {r} : req'[other] = req[other]
    PROVE  CallsAreReal'
<1>1. EstimateOf[req'[r].model] \in Estimates
  BY DEF Estimates
<1>2. /\ new \in VRAM!Calls
      /\ new.op = "load" => new.estimate \in Estimates
      /\ new.model = req'[r].model
  <2>1. CASE new = LoadCall(req'[r].model)
    BY <1>1, <2>1 DEF LoadCall, VRAM!Calls
  <2>2. CASE new = UnloadCall(req'[r].model)
    BY <2>2 DEF UnloadCall, VRAM!Calls
  <2>. QED  BY <2>1, <2>2
<1>. QED  BY <1>2 DEF CallsAreReal

\* A request without a call changes nothing of the others' calls.
LEMMA NoCallInvolved ==
    ASSUME CallsAreReal, NEW r \in Requests,
           call[r] = VRAM!NoCall, call' = call,
           \A other \in Requests \ {r} : req'[other] = req[other]
    PROVE  CallsAreReal'
  BY DEF CallsAreReal, VRAM!NoCall

\* The next model to try is loaded, or there is none left.
LEMMA NextTryCalls ==
    ASSUME CallsAreReal, req \in [Requests -> ReqType], NEW r \in Requests,
           req[r] # Ended, NextTry(r)
    PROVE  CallsAreReal'
<1>1. CASE Ends(r) /\ call' = [call EXCEPT ![r] = VRAM!NoCall]
  BY <1>1, CallEnds DEF Ends
<1>2. CASE \E m \in req[r].left :
               /\ req' = [req EXCEPT ![r].pc = "load", ![r].model = m,
                                     ![r].left = @ \ {m}, ![r].own = FALSE]
               /\ call' = [call EXCEPT ![r] = LoadCall(m)]
  <2>1. PICK m \in req[r].left :
            /\ req' = [req EXCEPT ![r].pc = "load", ![r].model = m,
                                  ![r].left = @ \ {m}, ![r].own = FALSE]
            /\ call' = [call EXCEPT ![r] = LoadCall(m)]
    BY <1>2
  <2>2. m \in Models
    BY DEF ReqType
  <2>3. req'[r].model = m /\ req'[r].pc = "load"
    BY <2>1 DEF ReqType
  <2>4. \A other \in Requests \ {r} : req'[other] = req[other]
    BY <2>1
  <2>. QED  BY <2>1, <2>2, <2>3, <2>4, CallBegins
<1>. QED  BY <1>1, <1>2 DEF NextTry

\* What a call does to the ledger leaves it a ledger.
LEMMA LedgerSteps ==
    ASSUME LedgerInv, CallsAreReal, NEW r \in Requests
    PROVE  /\ \A victims : VRAM!Load(r, victims) => LedgerInv'
           /\ \A gone : VRAM!Interrupt(r, gone) => LedgerInv'
           /\ VRAM!Unload(r) => LedgerInv'
           /\ VRAM!NoEffect(r) => LedgerInv'
<1>1. ASSUME NEW victims, VRAM!Load(r, victims)
      PROVE  LedgerInv'
  <2>1. call[r].model \in Models /\ call[r].estimate \in Estimates
    BY <1>1 DEF VRAM!Load, CallsAreReal, VRAM!Calls, VRAM!NoCall
  <2>2. VRAM!Without(ledger, victims) \in VRAM!Dict
    BY LedgerTypes DEF LedgerInv
  <2>3. ledger' \in VRAM!Dict
    BY <1>1, <2>1, <2>2, LedgerTypes DEF VRAM!Load
  <2>4. pinned' \in Models \cup {NoModel}
    BY <1>1, <2>1 DEF VRAM!Load, LedgerInv
  <2>. QED  BY <2>3, <2>4 DEF LedgerInv
<1>2. ASSUME NEW gone, VRAM!Interrupt(r, gone)
      PROVE  LedgerInv'
  BY <1>2, LedgerTypes DEF VRAM!Interrupt, LedgerInv
<1>3. ASSUME VRAM!Unload(r)
      PROVE  LedgerInv'
  BY <1>3, LedgerTypes DEF VRAM!Unload, LedgerInv
<1>4. ASSUME VRAM!NoEffect(r)
      PROVE  LedgerInv'
  BY <1>4 DEF VRAM!NoEffect, LedgerInv
<1>. QED  BY <1>1, <1>2, <1>3, <1>4

\* Every step keeps the types of the ledger and of the calls, and few answers.
LEMMA TInvStep == TInv /\ [Next]_vars => TInv'
<1> SUFFICES ASSUME TInv, [Next]_vars
             PROVE  TInv'
  OBVIOUS
<1>0. /\ Inv' /\ req \in [Requests -> ReqType]
      /\ FewAnswers /\ CallsAreReal /\ LedgerInv
      /\ \A r \in Requests : req[r] = Ended => call[r] = VRAM!NoCall
  BY InvStep DEF TInv, Inv, CallsAreReal, Ended
<1>1. ASSUME UNCHANGED cacheVars
      PROVE  FewAnswers'
  BY <1>0, <1>1, FewerAnswers DEF cacheVars
<1>2. ASSUME UNCHANGED <<ledger, pinned>>
      PROVE  LedgerInv'
  BY <1>0, <1>2 DEF LedgerInv
<1>3. ASSUME UNCHANGED <<req, vramVars>>
      PROVE  LedgerInv' /\ CallsAreReal'
  BY <1>0, <1>3 DEF LedgerInv, CallsAreReal, vramVars
<1>4. ASSUME NEW r \in Requests, NEW key \in Keys, CacheHit(r, key)
      PROVE  TInv'
  <2>1. CallsAreReal'
    BY <1>0, <1>4, NoCallInvolved DEF CacheHit, Ends, vramVars
  <2>. QED  BY <1>0, <1>1, <1>2, <1>4, <2>1 DEF CacheHit, vramVars, TInv
<1>5. ASSUME NEW r \in Requests, NEW key \in Keys, CacheMiss(r, key)
      PROVE  TInv'
  <2>1. FewAnswers'
    BY <1>0, <1>5, FewerAnswers DEF CacheMiss
  <2>2. PICK others : Begin(r, key, others, "load")
    BY <1>5 DEF CacheMiss
  <2>3. key.model \in Models
    BY DEF Keys
  <2>4. CallsAreReal'
    BY <1>0, <1>5, <2>2, <2>3, CallBegins DEF CacheMiss, Begin, Calls
  <2>. QED  BY <1>0, <1>2, <1>5, <2>1, <2>4 DEF CacheMiss, Calls, TInv
<1>6. ASSUME NEW r \in Requests, NEW key \in Keys, BeginStream(r, key)
      PROVE  TInv'
  <2>1. key.model \in Models
    BY DEF Keys
  <2>2. CallsAreReal'
    BY <1>0, <1>6, <2>1, CallBegins DEF BeginStream, Begin, Calls
  <2>. QED  BY <1>0, <1>1, <1>2, <1>6, <2>2 DEF BeginStream, Calls, TInv
<1>7. ASSUME NEW r \in Requests, Loads(r)
      PROVE  TInv'
  <2>1. PICK victims : VRAM!Load(r, victims)
    BY <1>7 DEF Loads
  <2>2. CallsAreReal'
    BY <1>0, <1>7, <2>1, CallEnds DEF Loads, VRAM!Load, VRAM!Ends
  <2>3. LedgerInv'
    BY <1>0, <2>1, LedgerSteps
  <2>. QED  BY <1>0, <1>1, <1>7, <2>2, <2>3 DEF Loads, TInv
<1>8. ASSUME NEW r \in Requests, FindsLoaded(r)
      PROVE  TInv'
  <2>1. CallsAreReal'
    BY <1>0, <1>8, CallEnds DEF FindsLoaded, VRAM!NoEffect, VRAM!Ends
  <2>2. LedgerInv'
    BY <1>0, <1>8, LedgerSteps DEF FindsLoaded
  <2>. QED  BY <1>0, <1>1, <1>8, <2>1, <2>2 DEF FindsLoaded, TInv
<1>9. ASSUME NEW r \in Requests, LoadFails(r)
      PROVE  TInv'
  <2>1. CallsAreReal'
    BY <1>0, <1>9, NextTryCalls DEF LoadFails, At, Ended
  <2>. QED  BY <1>0, <1>1, <1>2, <1>9, <2>1 DEF LoadFails, TInv
<1>10. ASSUME NEW r \in Requests, StreamLoadFails(r)
       PROVE  TInv'
  <2>1. CallsAreReal'
    BY <1>0, <1>10, CallEnds DEF StreamLoadFails, VRAM!NoEffect, VRAM!Ends, Ends
  <2>2. LedgerInv'
    BY <1>0, <1>10, LedgerSteps DEF StreamLoadFails
  <2>. QED  BY <1>0, <1>1, <1>10, <2>1, <2>2 DEF StreamLoadFails, TInv
<1>11. ASSUME NEW r \in Requests, GenerationFails(r)
       PROVE  TInv'
  <2>0. req[r] # Ended
    BY <1>11 DEF GenerationFails, At, Ended
  <2>1. CASE req' = [req EXCEPT ![r].pc = "unload"] /\ Calls(r, UnloadCall(req[r].model))
    <3>1. req'[r].pc = "unload" /\ req'[r].model = req[r].model /\ req[r].model \in Models
      BY <1>0, <2>0, <2>1 DEF ReqType
    <3>2. CallsAreReal'
      BY <1>0, <2>1, <3>1, CallBegins DEF Calls
    <3>. QED  BY <1>0, <1>1, <1>2, <1>11, <2>1, <3>2 DEF GenerationFails, Calls, TInv
  <2>2. CASE NextTry(r) /\ UNCHANGED <<ledger, pinned>>
    <3>1. CallsAreReal'
      BY <1>0, <2>0, <2>2, NextTryCalls
    <3>. QED  BY <1>0, <1>1, <1>2, <1>11, <2>2, <3>1 DEF GenerationFails, TInv
  <2>. QED  BY <1>11, <2>1, <2>2 DEF GenerationFails
<1>12. ASSUME NEW r \in Requests, UnloadReturns(r)
       PROVE  TInv'
  <2>1. CallsAreReal'
    BY <1>0, <1>12, NextTryCalls DEF UnloadReturns, At, Ended
  <2>2. LedgerInv'
    BY <1>0, <1>12, LedgerTypes DEF UnloadReturns, LedgerInv
  <2>. QED  BY <1>0, <1>1, <1>12, <2>1, <2>2 DEF UnloadReturns, TInv
<1>13. ASSUME NEW r \in Requests, RunTools(r)
       PROVE  TInv'
  <2>1. call[r] = VRAM!NoCall
    BY <1>0, <1>13 DEF RunTools, CallsAreReal
  <2>2. CallsAreReal'
    BY <1>0, <1>13, <2>1, NoCallInvolved DEF RunTools, vramVars
  <2>. QED  BY <1>0, <1>1, <1>2, <1>13, <2>2 DEF RunTools, vramVars, TInv
<1>14. ASSUME NEW r \in Requests, ToolsFail(r)
       PROVE  TInv'
  <2>1. call[r] = VRAM!NoCall
    BY <1>0, <1>14 DEF ToolsFail, At, CallsAreReal
  <2>2. CallsAreReal'
    BY <1>0, <1>14, <2>1, NoCallInvolved DEF ToolsFail, Ends, vramVars
  <2>. QED  BY <1>0, <1>1, <1>2, <1>14, <2>2 DEF ToolsFail, vramVars, TInv
<1>15. ASSUME NEW r \in Requests, Answer(r)
       PROVE  TInv'
  <2>1. call[r] = VRAM!NoCall
    BY <1>0, <1>15 DEF Answer, CallsAreReal
  <2>2. CallsAreReal'
    BY <1>0, <1>15, <2>1, NoCallInvolved DEF Answer, Ends, vramVars
  <2>3. FewAnswers'
    BY <1>0, <1>15, StoringKeepsFew DEF Answer
  <2>. QED  BY <1>0, <1>2, <1>15, <2>2, <2>3 DEF Answer, vramVars, TInv
<1>16. ASSUME NEW r \in Requests, StreamEnds(r)
       PROVE  TInv'
  <2>1. call[r] = VRAM!NoCall
    BY <1>0, <1>16 DEF StreamEnds, At, CallsAreReal
  <2>2. CallsAreReal'
    BY <1>0, <1>16, <2>1, NoCallInvolved DEF StreamEnds, Ends, vramVars
  <2>. QED  BY <1>0, <1>1, <1>2, <1>16, <2>2 DEF StreamEnds, vramVars, TInv
<1>17. ASSUME NEW r \in Requests, Cancel(r)
       PROVE  TInv'
  <2>0. \A other \in Requests \ {r} : req'[other] = req[other]
    BY <1>0, <1>17 DEF Cancel, Ends
  <2>1. ASSUME call' = [call EXCEPT ![r] = VRAM!NoCall]
        PROVE  CallsAreReal'
    BY <1>0, <2>0, <2>1, CallEnds
  <2>2. ASSUME NEW gone, VRAM!Interrupt(r, gone)
        PROVE  CallsAreReal' /\ LedgerInv'
    <3>1. LedgerInv'
      BY <1>0, <2>2, LedgerSteps
    <3>. QED  BY <2>1, <2>2, <3>1 DEF VRAM!Interrupt, VRAM!Ends
  <2>3. ASSUME VRAM!Unload(r)
        PROVE  CallsAreReal' /\ LedgerInv'
    <3>1. LedgerInv'
      BY <1>0, <2>3, LedgerSteps
    <3>. QED  BY <2>1, <2>3, <3>1 DEF VRAM!Unload, VRAM!Ends
  <2>4. ASSUME VRAM!NoEffect(r)
        PROVE  CallsAreReal' /\ LedgerInv'
    <3>1. LedgerInv'
      BY <1>0, <2>4, LedgerSteps
    <3>. QED  BY <2>1, <2>4, <3>1 DEF VRAM!NoEffect, VRAM!Ends
  <2>5. CallsAreReal' /\ LedgerInv'
    <3>1. ASSUME call[r] = VRAM!NoCall, UNCHANGED vramVars
          PROVE  CallsAreReal' /\ LedgerInv'
      BY <1>0, <1>2, <2>0, <3>1, NoCallInvolved DEF vramVars
    <3>. QED  BY <1>17, <2>2, <2>3, <2>4, <3>1 DEF Cancel
  <2>. QED  BY <1>0, <1>1, <1>17, <2>5 DEF Cancel, TInv
<1>18. ASSUME Administer
       PROVE  TInv'
  <2>1. responses' \subseteq responses /\ rows' = rows
    BY <1>18 DEF Administer, Clear, EvictOldest, InvalidateResponse
  <2>2. FewAnswers'
    BY <1>0, <2>1, FewerAnswers
  <2>. QED  BY <1>0, <1>3, <1>18, <2>2 DEF Administer, TInv
<1>19. ASSUME CleanUp
       PROVE  TInv'
  <2>1. FewAnswers'
    BY <1>0, <1>19, FewerAnswers DEF CleanUp, DeleteExpiredEntries
  <2>. QED  BY <1>0, <1>3, <1>19, <2>1 DEF CleanUp, TInv
<1>20. ASSUME TimePasses
       PROVE  TInv'
  BY <1>0, <1>3, <1>20, AgingKeepsFew DEF TimePasses, TInv
<1>21. ASSUME Restart
       PROVE  TInv'
  <2>1. FewAnswers'
    <3>1. CASE LoadPopular
      BY <1>0, <1>21, <3>1, RestoringKeepsFew DEF Restart, LoadFromPersistence
    <3>2. CASE responses' = {}
      BY <1>0, <1>21, <3>2, FewerAnswers DEF Restart, LoadFromPersistence
    <3>. QED  BY <1>21, <3>1, <3>2 DEF Restart, LoadFromPersistence
  <2>2. CallsAreReal'
    BY <1>21 DEF Restart, CallsAreReal, VRAM!NoCall
  <2>3. LedgerInv'
    BY <1>21, StartedTypes DEF Restart, LedgerInv
  <2>. QED  BY <1>0, <2>1, <2>2, <2>3 DEF TInv
<1>22. ASSUME UNCHANGED vars
       PROVE  TInv'
  BY <1>0, <1>1, <1>3, <1>22 DEF vars, cacheVars, vramVars, TInv
<1>. QED  BY <1>4, <1>5, <1>6, <1>7, <1>8, <1>9, <1>10, <1>11, <1>12, <1>13, <1>14, <1>15,
             <1>16, <1>17, <1>18, <1>19, <1>20, <1>21, <1>22 DEF Next, Proceed

\* The cache of answers stays within its size with one answer for each key, the
\* ledger is one of real models and estimates, and a call that is under way is
\* for the model that its request is trying.
THEOREM TypeCorrect == Spec => []TypeOK
<1>1. Init => TInv
  <2> SUFFICES ASSUME Init
               PROVE  TInv
    OBVIOUS
  <2>1. Inv
    BY InvInit
  <2>2. FewAnswers
    BY FS_EmptySet, ResponseCacheAssumption DEF Init, ResponseCacheInit, FewAnswers
  <2>3. CallsAreReal
    BY DEF Init, CallsAreReal, VRAM!NoCall
  <2>4. LedgerInv
    BY StartedTypes DEF Init, LedgerInv
  <2>. QED  BY <2>1, <2>2, <2>3, <2>4 DEF TInv
<1>2. TInv => TypeOK
  BY DEF TInv, Inv, CacheInv, FewAnswers, CallsAreReal, LedgerInv, TypeOK,
         ResponseCacheTypeOK
<1>. QED  BY <1>1, <1>2, TInvStep, PTL DEF Spec
===============================================================================
