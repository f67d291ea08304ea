----------------------------- MODULE RateLimiter -----------------------------
(***************************************************************************)
(* router/state.py: rate_limit_request, the limit per client address.      *)
(*                                                                         *)
(* The function awaits nothing but the free lock, so a request is one      *)
(* step.  A client's list of time stamps is only filtered, extended and    *)
(* measured, so it is a set, whose stamps are told apart by an id.  A time *)
(* stamp is its age in ticks, up to Window: from there on the code treats  *)
(* all ages alike.  Admin and chat requests share one list per client and  *)
(* differ only in the limit they compare its length with; no endpoint asks *)
(* for the third, general limit.                                           *)
(***************************************************************************)
EXTENDS Integers, FiniteSets

CONSTANTS
    Clients,           \* client addresses
    AdminLimit,        \* rate_limit_admin_requests_per_minute
    ChatLimit,         \* rate_limit_chat_requests_per_minute
    Window,            \* 60 seconds, in ticks
    CleanupThreshold   \* 1000: a list is cleaned only beyond this length

ASSUME LimiterAssumption ==
    /\ AdminLimit \in Nat
    /\ ChatLimit \in Nat
    /\ Window \in Nat \ {0}
    /\ CleanupThreshold \in Nat

VARIABLES
    stamps,   \* rate_limiter[client]
    served    \* history: the stamps of the requests let through in the window

limiterVars == <<stamps, served>>

Kinds == {"admin", "chat"}

Limit(kind) == IF kind = "admin" THEN AdminLimit ELSE ChatLimit

\* kind is history: the list holds the times alone.
Stamps == [id : Nat, age : 0 .. Window, kind : Kinds]

LimiterInit == /\ stamps = [client \in Clients |-> {}]
               /\ served = [client \in Clients |-> {}]

-------------------------------------------------------------------------------
Recent(stamp) == stamp.age < Window

\* Mutant of Cleaned: the whole list is dropped.
CleanedOut(list) == IF Cardinality(list) > CleanupThreshold THEN {} ELSE list

\* Mutant of Cleaned: no list is ever cleaned.
NeverCleaned(list) == list

\* "Only clean up when list gets too large to reduce overhead"
Cleaned(list) ==
    IF Cardinality(list) > CleanupThreshold THEN {stamp \in list : Recent(stamp)} ELSE list

FreeId(list) == CHOOSE id \in 0 .. Cardinality(list) : \A stamp \in list : stamp.id # id

Now(client, kind) ==
    [id |-> FreeId(stamps[client] \cup served[client]), age |-> 0, kind |-> kind]

\* Mutant of LetThrough: one request beyond the limit.
LetThroughOneMore(client, kind) ==
    LET list == Cleaned(stamps[client])
    IN  /\ Cardinality(list) <= Limit(kind)
        /\ stamps' = [stamps EXCEPT ![client] = list \cup {Now(client, kind)}]
        /\ served' = [served EXCEPT ![client] = @ \cup {Now(client, kind)}]

LetThrough(client, kind) ==
    LET list == Cleaned(stamps[client])
    IN  /\ Cardinality(list) < Limit(kind)
        /\ stamps' = [stamps EXCEPT ![client] = list \cup {Now(client, kind)}]
        /\ served' = [served EXCEPT ![client] = @ \cup {Now(client, kind)}]

\* 429: nothing is recorded, but a cleaning stays.
Reject(client, kind) ==
    /\ LET list == Cleaned(stamps[client])
       IN  /\ Cardinality(list) >= Limit(kind)
           /\ stamps' = [stamps EXCEPT ![client] = list]
    /\ UNCHANGED served

Aged(stamp) == [stamp EXCEPT !.age = IF Recent(stamp) THEN @ + 1 ELSE @]

LimiterTick ==
    /\ stamps' = [client \in Clients |-> {Aged(stamp) : stamp \in stamps[client]}]
    /\ served' = [client \in Clients |->
                     {stamp \in {Aged(s) : s \in served[client]} : Recent(stamp)}]

Request(client) == \E kind \in Kinds : LetThrough(client, kind) \/ Reject(client, kind)

LimiterNext == LimiterTick \/ \E client \in Clients : Request(client)

LimiterSpec == LimiterInit /\ [][LimiterNext]_limiterVars

\* Time passes.
LimiterFairSpec == LimiterSpec /\ WF_limiterVars(LimiterTick)

-------------------------------------------------------------------------------
(* Properties                                                              *)

\* The state is what the code keeps, and no list is longer than the higher limit.
LimiterTypeOK ==
    /\ stamps \in [Clients -> SUBSET Stamps]
    /\ served \in [Clients -> SUBSET Stamps]
    /\ \A client \in Clients :
           /\ \A stamp, other \in stamps[client] : stamp.id = other.id => stamp = other
           /\ \E kind \in Kinds : Cardinality(stamps[client]) <= Limit(kind)

OfKind(client, kind) == {stamp \in served[client] : stamp.kind = kind}

\* Within any 60 seconds a client is served at most as many requests of a kind
\* as that kind's limit: no cleaning forgets a request that still counts, and no
\* request of the other kind makes room for one.
LimitsHold ==
    \A client \in Clients, kind \in Kinds : Cardinality(OfKind(client, kind)) <= Limit(kind)

Blocked(client, kind) == Cardinality(Cleaned(stamps[client])) >= Limit(kind)

\* A client that is refused is served again later, if the limit is longer than
\* a list has to be for cleaning.
RefusalEnds ==
    \A client \in Clients, kind \in Kinds :
        Limit(kind) > CleanupThreshold =>
            (Blocked(client, kind) ~> ~Blocked(client, kind))

===============================================================================
