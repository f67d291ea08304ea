---------------------------- MODULE ResponseCache ----------------------------
(***************************************************************************)
(* The answers that SemanticCache (router/router.py) keeps in memory, and  *)
(* the table response_cache (router/persistent_cache.py) from which they   *)
(* are restored when the router starts.                                    *)
(*                                                                         *)
(* No operation suspends between its first read and its last write: each   *)
(* is one step, and ChatRequest interleaves them.  Times are ages in       *)
(* ticks, capped where the code stops telling them apart.  The order of    *)
(* use is left open, so an eviction may take any older entry: after a      *)
(* restart the order is that of the access counts anyway.                  *)
(***************************************************************************)
EXTENDS Integers, FiniteSets

CONSTANTS
    Models,
    Prompts,    \* prompts, told apart by their hashes
    Params,     \* the generation parameters a request may come with
    MaxSize,    \* response_max_size
    TTL,        \* response_ttl
    MaxAge,     \* max_age_days
    UTCShift    \* how many ticks the local clock is behind UTC

ASSUME ResponseCacheAssumption ==
    /\ Params \subseteq {"given", "none"}
    /\ MaxSize \in Nat \ {0}
    /\ TTL \in Nat \ {0}
    /\ MaxAge \in Nat
    /\ UTCShift \in Int

VARIABLES
    responses,   \* response_cache: at most one entry for each key
    rows         \* the table response_cache

Keys == [model : Models, prompt : Prompts, params : Params]

(***************************************************************************)
(* The parameters (("seed", 1), ...) come back from the database as they   *)
(* were.  The empty tuple does not: it is stored as NULL, and such a row   *)
(* has a key of two components instead of three.                           *)
(***************************************************************************)
RowKey(key) == [key EXCEPT !.params = IF @ = "none" THEN "absent" ELSE @]

RowKeys == {RowKey(key) : key \in Keys}

Texts == [by : Models, prompt : Prompts]

\* Who generated an answer, and to what.
TextOf(key) == [by |-> key.model, prompt |-> key.prompt]

\* age is what the time stamp says; born, the time since the answer was
\* generated, and saved, whether it reached the database, are history.
Entries == [key : Keys \cup RowKeys, text : Texts, age : Int, born : 0 .. TTL,
            saved : BOOLEAN]

Rows == [key : RowKeys, text : Texts, age : 0 .. TTL, born : 0 .. TTL,
         created : 0 .. MaxAge]

AtMost(n, bound) == IF n < bound THEN n ELSE bound

Fresh(entry) == entry.age < TTL

Cached(key) == {entry \in responses : entry.key = key}

Hit(key) == \E entry \in Cached(key) : Fresh(entry)

\* A lookup deletes what is too old.
Expired(key) == {entry \in Cached(key) : ~Fresh(entry)}

(***************************************************************************)
(* set_response, and save_response_entry after it.                         *)
(***************************************************************************)
NewEntry(key, text, saved) ==
    [key |-> key, text |-> text, age |-> 0, born |-> 0, saved |-> saved]

\* Mutant of UpdatedRow: the time of the last access is not refreshed.
TextUpdated(row, text) == [row EXCEPT !.text = text, !.born = 0]

UpdatedRow(row, text) == [row EXCEPT !.text = text, !.age = 0, !.born = 0]

NewRow(key, text) ==
    [key |-> RowKey(key), text |-> text, age |-> 0, born |-> 0, created |-> 0]

\* Comparing with NULL finds nothing: without parameters every save adds a row.
ExistingRows(key) ==
    {row \in rows : key.params # "none" /\ row.key = RowKey(key)}

SaveResponseEntry(key, text) ==
    LET existing == ExistingRows(key)
    IN  rows' = (rows \ existing) \cup
                (IF existing = {} THEN {NewRow(key, text)}
                                  ELSE {UpdatedRow(row, text) : row \in existing})

\* Mutant of WithRoomForOne: the size is compared before the new entry is in.
WithRoomForNone(others) ==
    IF Cardinality(others) <= MaxSize THEN {others}
    ELSE {others \ {oldest} : oldest \in others}

WithRoomForOne(others) ==
    IF Cardinality(others) < MaxSize THEN {others}
    ELSE {others \ {oldest} : oldest \in others}

\* A database that fails is logged, and the answer is cached all the same.
SetResponse(key, text) ==
    \E saved \in BOOLEAN, kept \in WithRoomForOne(responses \ Cached(key)) :
        /\ responses' = kept \cup {NewEntry(key, text, saved)}
        /\ IF saved THEN SaveResponseEntry(key, text) ELSE rows' = rows

(***************************************************************************)
(* Administrators and the clean-up of the database.  None of the former    *)
(* touches the rows.                                                       *)
(***************************************************************************)
InvalidateResponse(model) ==
    /\ responses' = {entry \in responses : entry.key.model # model}
    /\ UNCHANGED rows

Clear ==
    /\ responses' = {}
    /\ UNCHANGED rows

\* Any number of entries, the oldest ones; or those of some age.
EvictOldest ==
    /\ \E kept \in SUBSET responses : responses' = kept
    /\ UNCHANGED rows

DeleteExpiredEntries ==
    /\ rows' = {row \in rows : row.age < TTL}
    /\ UNCHANGED responses

(***************************************************************************)
(* load_from_persistence: the most popular rows that are neither expired   *)
(* nor too old, one for each key.                                          *)
(***************************************************************************)
Restorable == {row \in rows : row.age < TTL /\ row.created < MaxAge}

\* Mutant of Restored: the restored answer counts as new.
RestoredAsNew(row) ==
    [key |-> row.key, text |-> row.text, age |-> 0, born |-> row.born, saved |-> TRUE]

\* The database returns UTC without saying so, and timestamp() reads local time.
Restored(row) ==
    [key |-> row.key, text |-> row.text, age |-> row.age - UTCShift,
     born |-> row.born, saved |-> TRUE]

OnePerKey(chosen) ==
    \A row, other \in chosen : row.key = other.key => row = other

LoadPopular ==
    \E chosen \in SUBSET Restorable :
        /\ OnePerKey(chosen)
        /\ Cardinality(chosen) =
               AtMost(Cardinality({row.key : row \in Restorable}), MaxSize)
        /\ responses' = {Restored(row) : row \in chosen}

\* If the database fails the router starts with nothing cached.
LoadFromPersistence ==
    /\ LoadPopular \/ responses' = {}
    /\ UNCHANGED rows

Tick ==
    /\ responses' = {[entry EXCEPT !.age = AtMost(@ + 1, TTL), !.born = AtMost(@ + 1, TTL)]
                        : entry \in responses}
    /\ rows' = {[row EXCEPT !.age = AtMost(@ + 1, TTL), !.born = AtMost(@ + 1, TTL),
                            !.created = AtMost(@ + 1, MaxAge)] : row \in rows}

ResponseCacheInit == responses = {} /\ rows = {}

ResponseCacheTypeOK ==
    /\ responses \subseteq Entries
    /\ \A entry, other \in responses : entry.key = other.key => entry = other
    /\ Cardinality(responses) <= MaxSize
    /\ rows \subseteq Rows

(***************************************************************************)
(* The answer kept for a model and a prompt was generated by that model    *)
(* from that prompt: not by the model that was first chosen, when another  *)
(* one answered in its place (router/api/chat.py).                         *)
(***************************************************************************)
AnswersAreTheModels ==
    \A stored \in responses \cup rows : stored.text = TextOf(stored.key)

(***************************************************************************)
(* No answer is served whose generation is longer ago than the time to     *)
(* live, even if the router was restarted in between: CHANGELOG.md:447     *)
(* says that the persistent cache respects the TTL of the one in memory.   *)
(***************************************************************************)
ServedWithinTTL == \A entry \in responses : Fresh(entry) => entry.born < TTL

\* The row holds the answer, with its text and its time.
Holds(row, entry) ==
    /\ row.key = RowKey(entry.key)
    /\ row.text = entry.text
    /\ row.age = entry.born

(***************************************************************************)
(* An answer that may still be served, and whose save succeeded, is in the *)
(* database with its text and its time, whatever overwrites, expires or    *)
(* cleans the rows; and a restart can restore it, except from a row that   *)
(* was first added MaxAge ago.  A save over a row does not make it newer.  *)
(***************************************************************************)
SavedAnswersArePersisted ==
    \A entry \in responses : entry.saved /\ entry.born < TTL =>
        \E row \in rows : /\ Holds(row, entry)
                          /\ row \in Restorable \/ row.created >= MaxAge

(***************************************************************************)
(* "Routing decisions, LLM responses, and embeddings now survive restarts  *)
(* via SQLite database" (CHANGELOG.md:445): a restart can restore every    *)
(* answer that was saved and may still be served.  The code does not: it   *)
(* keeps the created_at of a row that it updates, and restores no row      *)
(* whose created_at is MaxAge ago, however young the answer in it.         *)
(***************************************************************************)
RestartRestores ==
    \A entry \in responses : entry.saved /\ entry.born < TTL =>
        \E row \in Restorable : Holds(row, entry)
===============================================================================
