----------------------------- MODULE ProviderFile -----------------------------
(***************************************************************************)
(* The downloads of provider.db: download_provider_db of                   *)
(* router/lifecycle.py, run by the background task and by retries of the   *)
(* dead letter queue.  All of them write one temporary file, each in a     *)
(* thread of its own; the event loop verifies it and moves it into place.  *)
(*                                                                         *)
(* A file is its head and its tail, each of which comes from a response or *)
(* is missing.  Threads keep writing to the file they have opened, wherever*)
(* it has been moved to.                                                   *)
(***************************************************************************)
EXTENDS Integers

CONSTANTS
    Downloads,   \* the callers of download_provider_db
    Builds,      \* the responses that are databases
    Garbage      \* the responses that are not: error pages, part of a database

VARIABLES
    installed,   \* the file at provider_db_path
    temporary,   \* the file at provider_db_path with .tmp
    download     \* download[d]: where d is, its response, the file it has opened, and
                 \* whether its caller has left it

vars == <<installed, temporary, download>>

Nothing == "nothing"

NoFile == [head |-> "no file", tail |-> "no file"]
Empty == [head |-> Nothing, tail |-> Nothing]

Whole(f) == f.head \in Builds /\ f.tail = f.head

Idle == [at |-> "idle", body |-> Nothing, file |-> Nothing, left |-> FALSE]

Init ==
    /\ installed = NoFile
    /\ temporary = NoFile
    /\ download = [d \in Downloads |-> Idle]

At(d, place) == download[d].at = place

\* Between the verification and the move the event loop does nothing else.
LoopIsFree == \A d \in Downloads : ~At(d, "moving")

\* Those who have opened the temporary file find it at the path instead.
Renamed(path) ==
    [d \in Downloads |->
        CASE download[d].file = "temporary" -> [download[d] EXCEPT !.file = path]
          [] download[d].file = path        -> [download[d] EXCEPT !.file = "unlinked"]
          [] OTHER                          -> download[d]]

\* The answer is awaited.
Begin(d) ==
    /\ At(d, "idle") /\ LoopIsFree
    /\ download' = [download EXCEPT ![d].at = "fetching"]
    /\ UNCHANGED <<installed, temporary>>

Fetch(d, body) ==
    /\ At(d, "fetching") /\ LoopIsFree
    /\ download' = [download EXCEPT ![d].at = "opening", ![d].body = body]
    /\ UNCHANGED <<installed, temporary>>

\* open(temp_path, "wb") in a thread: the file is made, or loses its contents.
Open(d) ==
    /\ At(d, "opening")
    /\ download' = [download EXCEPT ![d].at = "writing", ![d].file = "temporary"]
    /\ temporary' = Empty
    /\ UNCHANGED installed

WriteTo(f, path, d, part) ==
    IF download[d].file = path THEN [f EXCEPT ![part] = download[d].body] ELSE f

Write(d, place, part, next) ==
    /\ At(d, place)
    /\ temporary' = WriteTo(temporary, "temporary", d, part)
    /\ installed' = WriteTo(installed, "installed", d, part)
    /\ download' = [download EXCEPT ![d].at = next]

WriteHead(d) == Write(d, "writing", "head", "half")
WriteTail(d) == Write(d, "half", "tail", "written")

\* SQLite compares the length of the file with what its head says, and to count the
\* rows reads the head, but not all of the tail.
Passes(f) == f.head \in Builds /\ f.tail # Nothing

Verify(d) ==
    /\ At(d, "written") /\ LoopIsFree /\ ~download[d].left
    /\ Passes(temporary)
    /\ download' = [download EXCEPT ![d].at = "moving"]
    /\ UNCHANGED <<installed, temporary>>

Move(d) ==
    /\ At(d, "moving")
    /\ installed' = temporary
    /\ temporary' = NoFile
    /\ download' = [Renamed("installed") EXCEPT ![d] = Idle]

\* The request timeout of an administrator, which is no Exception: nothing is cleaned
\* up, and a thread that has been started goes on.
Cancel(d) ==
    /\ ~At(d, "idle") /\ ~download[d].left /\ LoopIsFree
    /\ download' = [download EXCEPT ![d] = IF At(d, "fetching") THEN Idle
                                           ELSE [@ EXCEPT !.left = TRUE]]
    /\ UNCHANGED <<installed, temporary>>

\* The thread ends, or fails, for nobody.
ThreadEnds(d) ==
    /\ download[d].left
    /\ download' = [download EXCEPT ![d] = Idle]
    /\ UNCHANGED <<installed, temporary>>

\* No answer, no space, or the verification fails: the temporary file, whoever
\* wrote it, is removed.
Fail(d) ==
    /\ ~At(d, "idle") /\ ~download[d].left
    /\ LoopIsFree \/ At(d, "moving")
    /\ temporary' = NoFile
    /\ download' = [Renamed("unlinked") EXCEPT ![d] = Idle]
    /\ UNCHANGED installed

\* The process ends; its files stay as they are.
Crash ==
    /\ download' = [d \in Downloads |-> Idle]
    /\ UNCHANGED <<installed, temporary>>

Next ==
    \/ \E d \in Downloads :
           \/ Begin(d) \/ Open(d) \/ WriteHead(d) \/ WriteTail(d)
           \/ Verify(d) \/ Move(d) \/ Fail(d) \/ Cancel(d) \/ ThreadEnds(d)
           \/ \E body \in Builds \cup Garbage : Fetch(d, body)
    \/ Crash

Spec == Init /\ [][Next]_vars

\* "Performs atomic write via a temporary file and validates the SQLite database
\* before replacing the existing file": provider.db is missing or one whole build.
InstalledIsWhole == installed = NoFile \/ Whole(installed)
===============================================================================
