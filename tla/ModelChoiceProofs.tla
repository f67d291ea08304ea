-------------------------- MODULE ModelChoiceProofs ---------------------------
(***************************************************************************)
(* What the choice of a model promises.  Of the lists of models it is made *)
(* from (ModelLists), for any models, any number of calls and any times to *)
(* live; and of the choice itself (Scoring, Dispatch), for any models with *)
(* any names, any prompts and data, any settings and any number of         *)
(* requests.                                                               *)
(***************************************************************************)
EXTENDS ModelLists, Dispatch, FiniteSetTheorems, WellFoundedInduction, TLAPS

-------------------------------------------------------------------------------
(* The lists of models                                                     *)

\* An answer, and the list of the client, is younger than the call that brought it: if
\* nothing has changed since before that call, it is what the backend has.
AnswersAreCurrent ==
    \A a \in Askers :
        asker[a].at = "answered" /\ asker[a].since < OldAge /\ quiet > asker[a].since
        => asker[a].answer = listed

ClientIsCurrent == client.age < OldAge /\ quiet > client.age => client.models = listed

\* A list kept above the client may have been as old as the client's list when it came.
AboveIsCurrent(list) ==
    list.models # {} /\ list.age < OldAge /\ quiet >= list.age + ClientTTL
    => list.models = listed

ListsInv ==
    /\ TypeOK
    /\ AnswersAreCurrent
    /\ ClientIsCurrent
    /\ AboveIsCurrent(app)
    /\ AboveIsCurrent(engine)

-------------------------------------------------------------------------------
(* Times                                                                   *)

\* No time to live is longer than OldAge, which is positive and below Settled.
LEMMA Times ==
    /\ {ClientTTL, AppTTL, EngineTTL, OldAge, Settled} \subseteq Nat \ {0}
    /\ ClientTTL <= OldAge /\ AppTTL <= OldAge /\ EngineTTL <= OldAge
    /\ OldAge < Settled
  BY ListsAssumption DEF OldAge, Settled, Longest

\* Nothing is a list that may be kept.
LEMMA NothingIsKept == Nothing \in Kept /\ Idle.since < OldAge
  BY Times DEF Nothing, Kept, Lists, Idle

\* A list with a known age may be kept.
LEMMA StampedIsKept ==
    ASSUME NEW models \in Lists, NEW since \in 0 .. OldAge
    PROVE  /\ Stamped(models, since) \in Kept
           /\ Stamped(models, since).models = models
           /\ Stamped(models, since).age = since
  BY DEF Stamped, Kept

\* The engine's list, dropped or not, may be kept and is current if it was.
LEMMA DroppedIsCurrent ==
    ASSUME ListsInv, NEW for
    PROVE  Dropped(for) \in Kept /\ AboveIsCurrent(Dropped(for))
  BY NothingIsKept, Times DEF ListsInv, TypeOK, Dropped, AboveIsCurrent, Nothing

\* What is kept stays current while it ages.
LEMMA OlderIsCurrent ==
    ASSUME NEW list \in Kept
    PROVE  /\ Older(list) \in Kept
           /\ Older(list).models = list.models
           /\ Older(list).age < OldAge => Older(list).age = list.age + 1
  BY Times DEF Older, OneMore, Kept

\* Delivering a list that may be kept leaves both lists well typed and current, if
\* nothing else changes and the list is current or fits its receiver.
LEMMA DeliverKeeps ==
    ASSUME ListsInv, NEW for, NEW list \in Kept, Deliver(for, list),
           listed' = listed, quiet' = 0 \/ (quiet' = quiet /\ AboveIsCurrent(list))
    PROVE  /\ app' \in Kept /\ (AboveIsCurrent(app))'
           /\ engine' \in Kept /\ (AboveIsCurrent(engine))'
  <1>0. Dropped(for) \in Kept /\ AboveIsCurrent(Dropped(for))
    BY DroppedIsCurrent
  <1>1. app' \in Kept /\ engine' \in Kept
    BY <1>0 DEF Deliver, ListsInv, TypeOK
  <1>2. CASE quiet' = 0
    BY <1>1, <1>2, Times DEF AboveIsCurrent, Kept
  <1>3. CASE quiet' = quiet /\ AboveIsCurrent(list)
    <2>1. app' \in {app, list}
      BY DEF Deliver
    <2>2. engine' \in {list, Dropped(for)}
      BY DEF Deliver
    <2> QED
      BY <1>0, <1>1, <1>3, <2>1, <2>2 DEF AboveIsCurrent, ListsInv
  <1> QED
    BY <1>2, <1>3
-------------------------------------------------------------------------------
(* Calls                                                                   *)

\* A call that ends leaves the other answers as they are.
LEMMA ReturnKeeps ==
    ASSUME ListsInv, NEW a \in Askers, Return(a), listed' = listed,
           quiet' = quiet \/ quiet' = 0
    PROVE  AnswersAreCurrent' /\ asker' \in [Askers -> [at : {"idle", "asking", "answered"},
                                     for : Callers, since : 0 .. OldAge, answer : Lists]]
  <1>1. Idle \in [at : {"idle", "asking", "answered"}, for : Callers,
                  since : 0 .. OldAge, answer : Lists]
    BY Times DEF Idle, Callers, Lists
  <1>2. \A b \in Askers : asker'[b] = IF b = a THEN Idle ELSE asker[b]
    BY DEF Return, ListsInv, TypeOK
  <1>3. asker' \in [Askers -> [at : {"idle", "asking", "answered"},
                               for : Callers, since : 0 .. OldAge, answer : Lists]]
    BY <1>1 DEF Return, ListsInv, TypeOK
  <1>4. AnswersAreCurrent'
    <2> SUFFICES ASSUME NEW b \in Askers, asker'[b].at = "answered",
                        asker'[b].since < OldAge, quiet' > asker'[b].since
                 PROVE  asker'[b].answer = listed'
      BY DEF AnswersAreCurrent
    <2>1. b # a /\ asker'[b] = asker[b]
      BY <1>2 DEF Idle
    <2>2. quiet' = quiet
      BY <1>3, Times
    <2> QED
      BY <2>1, <2>2 DEF ListsInv, AnswersAreCurrent
  <1> QED
    BY <1>3, <1>4

\* Every step from a state of ListsInv leads to one.
LEMMA StepKeepsListsInv == ListsInv /\ [Next]_vars => ListsInv'
  <1> SUFFICES ASSUME ListsInv, [Next]_vars
               PROVE  ListsInv'
    OBVIOUS
  <1> USE DEF ListsInv
  <1>1. ASSUME NEW for \in Callers, AskYoungClient(for)
        PROVE  ListsInv'
    <2> DEFINE list == Stamped(client.models, 0)
    <2>1. list \in Kept /\ list.models = client.models /\ list.age = 0
      BY Times, StampedIsKept DEF TypeOK, Kept
    <2>2. AboveIsCurrent(list)
      BY <1>1, <2>1, Times DEF AskYoungClient, ClientServes, ClientIsCurrent, AboveIsCurrent, TypeOK, Kept
    <2>3. /\ app' \in Kept /\ (AboveIsCurrent(app))'
          /\ engine' \in Kept /\ (AboveIsCurrent(engine))'
      <3> HIDE DEF list
      <3> QED
        BY <1>1, <2>1, <2>2, DeliverKeeps DEF AskYoungClient, list
    <2>4. TypeOK'
      BY <1>1, <2>3 DEF AskYoungClient, TypeOK
    <2>5. AnswersAreCurrent' /\ ClientIsCurrent'
      BY <1>1 DEF AskYoungClient, AnswersAreCurrent, ClientIsCurrent
    <2> QED
      BY <2>3, <2>4, <2>5
  <1>2. ASSUME NEW for \in Callers, NEW a \in Askers, Ask(a, for)
        PROVE  ListsInv'
    <2>1. engine' \in Kept /\ (AboveIsCurrent(engine))'
      BY <1>2, DroppedIsCurrent DEF Ask, AboveIsCurrent
    <2>2. TypeOK'
      BY <1>2, <2>1, Times DEF Ask, TypeOK, Idle, Lists
    <2>3. AnswersAreCurrent'
      BY <1>2 DEF Ask, AnswersAreCurrent, TypeOK, Idle
    <2>4. ClientIsCurrent' /\ (AboveIsCurrent(app))'
      BY <1>2 DEF Ask, ClientIsCurrent, AboveIsCurrent
    <2> QED
      BY <2>1, <2>2, <2>3, <2>4
  <1>3. ASSUME NEW a \in Askers, Answer(a)
        PROVE  ListsInv'
    <2>1. TypeOK'
      BY <1>3 DEF Answer, TypeOK, Lists
    <2>2. AnswersAreCurrent'
      BY <1>3 DEF Answer, AnswersAreCurrent, TypeOK
    <2>3. ClientIsCurrent' /\ (AboveIsCurrent(app))' /\ (AboveIsCurrent(engine))'
      BY <1>3 DEF Answer, ClientIsCurrent, AboveIsCurrent
    <2> QED
      BY <2>1, <2>2, <2>3
  <1>4. ASSUME NEW a \in Askers, Receive(a)
        PROVE  ListsInv'
    <2> DEFINE list == Stamped(asker[a].answer, asker[a].since)
    <2>1. list \in Kept /\ list.models = asker[a].answer /\ list.age = asker[a].since
      BY StampedIsKept DEF TypeOK
    <2>2. list.age < OldAge /\ quiet > list.age => list.models = listed
      BY <1>4, <2>1 DEF Receive, AnswersAreCurrent
    <2> HIDE DEF list
    <2>3. /\ client' = list /\ Deliver(asker[a].for, list) /\ Return(a)
          /\ listed' = listed /\ quiet' = quiet
      BY <1>4 DEF Receive, list
    <2>4. AboveIsCurrent(list)
      BY <2>1, <2>2, Times DEF AboveIsCurrent, TypeOK, Kept
    <2>5. /\ app' \in Kept /\ (AboveIsCurrent(app))'
          /\ engine' \in Kept /\ (AboveIsCurrent(engine))'
      BY <2>1, <2>3, <2>4, DeliverKeeps
    <2>6. ClientIsCurrent'
      BY <2>2, <2>3 DEF ClientIsCurrent
    <2>7. AnswersAreCurrent' /\ TypeOK'
      BY <2>1, <2>3, <2>5, ReturnKeeps DEF TypeOK
    <2> QED
      BY <2>5, <2>6, <2>7
  <1>5. ASSUME NEW a \in Askers, HTTPError(a)
        PROVE  ListsInv'
    <2> DEFINE list == Stamped(client.models, asker[a].since)
    <2>1. list \in Kept
      BY StampedIsKept DEF TypeOK, Kept
    <2> HIDE DEF list
    <2>2. /\ client' = client /\ Deliver(asker[a].for, list) /\ Return(a)
          /\ listed' = listed /\ quiet' = 0
      BY <1>5 DEF HTTPError, list
    <2>3. quiet' = 0 \/ (quiet' = quiet /\ AboveIsCurrent(list))
      BY <2>2
    <2>4. /\ app' \in Kept /\ (AboveIsCurrent(app))'
          /\ engine' \in Kept /\ (AboveIsCurrent(engine))'
      BY <2>1, <2>2, <2>3, DeliverKeeps, Zenon
    <2>5. quiet' \in 0 .. Settled
      BY <2>2, Times
    <2>6. AnswersAreCurrent' /\ TypeOK'
      BY <2>2, <2>4, <2>5, ReturnKeeps DEF TypeOK
    <2>7. ClientIsCurrent'
      BY <2>2 DEF ClientIsCurrent, TypeOK, Kept
    <2> QED
      BY <2>4, <2>6, <2>7
  <1>6. ASSUME NEW a \in Askers, Raises(a)
        PROVE  ListsInv'
    <2>1. /\ client' = client /\ Deliver(asker[a].for, Nothing) /\ Return(a)
          /\ listed' = listed /\ quiet' = quiet
      BY <1>6 DEF Raises
    <2>2. AboveIsCurrent(Nothing)
      BY DEF AboveIsCurrent, Nothing
    <2>3. /\ app' \in Kept /\ (AboveIsCurrent(app))'
          /\ engine' \in Kept /\ (AboveIsCurrent(engine))'
      BY <2>1, <2>2, NothingIsKept, DeliverKeeps
    <2>4. AnswersAreCurrent' /\ TypeOK'
      BY <2>1, <2>3, ReturnKeeps DEF TypeOK
    <2>5. ClientIsCurrent'
      BY <2>1 DEF ClientIsCurrent
    <2> QED
      BY <2>3, <2>4, <2>5
  <1>7. ASSUME NEW a \in Askers, TimesOut(a)
        PROVE  ListsInv'
    <2> DEFINE list == Stamped({}, asker[a].since)
    <2>1. list \in Kept /\ list.models = {}
      BY StampedIsKept DEF TypeOK, Lists
    <2> HIDE DEF list
    <2>2. /\ app' = list /\ Return(a)
          /\ listed' = listed /\ quiet' = quiet /\ client' = client /\ engine' = engine
      BY <1>7 DEF TimesOut, list
    <2>3. AnswersAreCurrent' /\ TypeOK'
      BY <2>1, <2>2, ReturnKeeps DEF TypeOK
    <2>4. ClientIsCurrent' /\ (AboveIsCurrent(app))' /\ (AboveIsCurrent(engine))'
      BY <2>1, <2>2 DEF ClientIsCurrent, AboveIsCurrent
    <2> QED
      BY <2>3, <2>4
  <1>8. ASSUME NEW a \in Askers, Cancel(a)
        PROVE  ListsInv'
    <2>1. /\ Return(a) /\ listed' = listed /\ quiet' = quiet
          /\ client' = client /\ app' = app /\ engine' = engine
      BY <1>8 DEF Cancel
    <2>2. AnswersAreCurrent' /\ TypeOK'
      BY <2>1, ReturnKeeps DEF TypeOK
    <2>3. ClientIsCurrent' /\ (AboveIsCurrent(app))' /\ (AboveIsCurrent(engine))'
      BY <2>1 DEF ClientIsCurrent, AboveIsCurrent
    <2> QED
      BY <2>2, <2>3
  <1>9. ASSUME NEW models \in Inventories, ModelsChange(models)
        PROVE  ListsInv'
    <2>1. TypeOK'
      BY <1>9, Times DEF ModelsChange, TypeOK
    <2>2. AnswersAreCurrent' /\ ClientIsCurrent'
      BY <1>9, Times DEF ModelsChange, TypeOK, Kept, AnswersAreCurrent, ClientIsCurrent
    <2>3. app.age >= 0 /\ engine.age >= 0 /\ ~(0 >= app.age + ClientTTL)
          /\ ~(0 >= engine.age + ClientTTL)
      BY Times DEF TypeOK, Kept
    <2>4. (AboveIsCurrent(app))' /\ (AboveIsCurrent(engine))'
      BY <1>9, <2>3 DEF ModelsChange, AboveIsCurrent
    <2> QED
      BY <2>1, <2>2, <2>4
  <1>10. CASE Tick
    <2>1. quiet' \in 0 .. Settled /\ quiet' <= quiet + 1 /\ listed' = listed
      BY <1>10, Times DEF Tick, OneMore, TypeOK
    <2>2. \A list \in {client, app, engine} :
              /\ Older(list) \in Kept /\ Older(list).models = list.models
              /\ Older(list).age < OldAge => Older(list).age = list.age + 1
      BY OlderIsCurrent DEF TypeOK
    <2>3. client' = Older(client) /\ app' = Older(app) /\ engine' = Older(engine)
      BY <1>10 DEF Tick
    <2>4. ClientIsCurrent'
      BY <2>1, <2>2, <2>3, Times DEF ClientIsCurrent, TypeOK, Kept
    <2>5. (AboveIsCurrent(app))' /\ (AboveIsCurrent(engine))'
      BY <2>1, <2>2, <2>3, Times DEF AboveIsCurrent, TypeOK, Kept
    <2>6. \A a \in Askers :
              /\ asker'[a] \in [at : {"idle", "asking", "answered"}, for : Callers,
                                since : 0 .. OldAge, answer : Lists]
              /\ asker'[a].at = asker[a].at
              /\ asker[a].at # "idle" =>
                   /\ asker'[a].answer = asker[a].answer
                   /\ asker'[a].since < OldAge => asker'[a].since = asker[a].since + 1
      BY <1>10, Times DEF Tick, TypeOK, OneMore, Idle, Callers, Lists
    <2>7. AnswersAreCurrent'
      BY <2>1, <2>6, Times DEF AnswersAreCurrent, TypeOK
    <2>8. TypeOK'
      BY <1>10, <2>1, <2>2, <2>3, <2>6 DEF Tick, TypeOK
    <2> QED
      BY <2>4, <2>5, <2>7, <2>8
  <1>11. CASE Restart
    <2>1. TypeOK'
      BY <1>11, NothingIsKept, Times DEF Restart, TypeOK, Idle, Callers, Lists
    <2>2. AnswersAreCurrent'
      BY <1>11 DEF Restart, AnswersAreCurrent, Idle
    <2>3. ClientIsCurrent' /\ (AboveIsCurrent(app))' /\ (AboveIsCurrent(engine))'
      BY <1>11, Times DEF Restart, ClientIsCurrent, AboveIsCurrent, Nothing
    <2> QED
      BY <2>1, <2>2, <2>3
  <1>12. CASE UNCHANGED vars
    BY <1>12 DEF vars, TypeOK, AnswersAreCurrent, ClientIsCurrent, AboveIsCurrent
  <1> QED
    BY <1>1, <1>2, <1>3, <1>4, <1>5, <1>6, <1>7, <1>8, <1>9, <1>10, <1>11, <1>12 DEF Next

-------------------------------------------------------------------------------
(* Theorems                                                                *)

\* An answer and a kept list are what the backend has unless something changed after
\* the call for them began, or after the list below them was fetched.
THEOREM ListsInvariant == Spec => []ListsInv
  <1>1. Init => ListsInv
    BY NothingIsKept, Times DEF Init, ListsInv, TypeOK, AnswersAreCurrent, ClientIsCurrent,
       AboveIsCurrent, Nothing, Idle, Callers, Lists
  <1> QED
    BY <1>1, StepKeepsListsInv, PTL DEF Spec

\* Every list kept is one the backend may have had, of an age within its bounds.
THEOREM ListsTypeCorrect == Spec => []TypeOK
  <1>1. ListsInv => TypeOK
    BY DEF ListsInv
  <1> QED
    BY <1>1, ListsInvariant, PTL

\* All three caches catch up with the backend within their time to live and that of the
\* client's, for any number of calls of any length, answered in any order.
THEOREM ListsAlwaysCatchUp == Spec => []ListsCatchUp
  <1>1. ListsInv => ListsCatchUp
    BY Times DEF ListsInv, TypeOK, Kept, ClientIsCurrent, AboveIsCurrent, ListsCatchUp,
       ClientServes, AppServes, EngineServes
  <1> QED
    BY <1>1, ListsInvariant, PTL

-------------------------------------------------------------------------------
(* Firsts and largest                                                      *)

\* Of finitely many, one has the largest value.
LEMMA HasLargest ==
    ASSUME NEW S, IsFiniteSet(S), S # {}, NEW f \in [S -> Int]
    PROVE  \E m \in S : \A n \in S : f[n] <= f[m]
  <1> DEFINE Above(m) == {n \in S : f[n] > f[m]}
             aboves == {Above(m) : m \in S}
  <1>1. IsWellFoundedOn(StrictSubsetOrdering(S), FiniteSubsetsOf(S))
    BY FS_StrictSubsetOrderingWellFounded
  <1>2. aboves \subseteq FiniteSubsetsOf(S) /\ aboves # {}
    <2>1. \A T \in SUBSET S : T \in FiniteSubsetsOf(S)
      BY FS_Subset DEF FiniteSubsetsOf
    <2>2. \A m \in S : Above(m) \in SUBSET S
      OBVIOUS
    <2> HIDE DEF Above
    <2>. QED  BY <2>1, <2>2
  <1>3. \E x \in aboves : \A y \in aboves : <<y, x>> \notin StrictSubsetOrdering(S)
    <2> HIDE DEF aboves
    <2>. QED  BY <1>1, <1>2, WFMin
  <1>4. PICK m \in S : \A n \in S : <<Above(n), Above(m)>> \notin StrictSubsetOrdering(S)
    BY <1>3
  <1>5. ASSUME NEW n \in S, f[n] > f[m]
        PROVE  FALSE
    <2>1. Above(n) \subseteq Above(m) /\ n \in Above(m) /\ n \notin Above(n)
      BY <1>5
    <2>2. <<Above(n), Above(m)>> \in StrictSubsetOrdering(S)
      BY <2>1 DEF StrictSubsetOrdering
    <2>. QED  BY <2>2, <1>4
  <1>. QED  BY <1>5

\* The first member of a list in S: it is one, and none before it is.
LEMMA FirstIsFirst ==
    ASSUME NEW T, NEW list \in Seq(T), NEW S, S \cap Range(list) # {}
    PROVE  \E i \in DOMAIN list :
               /\ FirstOf(list, S) = list[i] /\ list[i] \in S
               /\ \A j \in DOMAIN list : list[j] \in S => i <= j
  <1> DEFINE places == {i \in DOMAIN list : list[i] \in S}
             below == [i \in places |-> -i]
  <1>1. places # {} /\ places \subseteq 1 .. Len(list) /\ Len(list) \in Nat
    BY DEF Range
  <1>2. IsFiniteSet(places)
    BY <1>1, FS_Interval, FS_Subset
  <1>3. below \in [places -> Int]
    BY <1>1
  <1>4. PICK i \in places : \A j \in places : below[j] <= below[i]
    <2> HIDE DEF places, below
    <2>. QED  BY <1>1, <1>2, <1>3, HasLargest
  <1>5. \A j \in places : i <= j
    BY <1>1, <1>4
  <1>6. \E k \in DOMAIN list : list[k] \in S /\ \A j \in DOMAIN list : list[j] \in S => k <= j
    BY <1>5
  <1>. QED  BY <1>6 DEF FirstOf

\* The model listed first is one of those in question.
LEMMA FirstIsOne ==
    ASSUME NEW S \in SUBSET Models, S # {}
    PROVE  First(S) \in S
  <1>1. Listed \in Seq(Models) /\ S \cap Range(Listed) # {}
    BY ScoringAssumption
  <1>. QED  BY <1>1, FirstIsFirst DEF First

\* One that others are taken from, but not it, stays the first.
LEMMA FirstStays ==
    ASSUME NEW S \in SUBSET Models, NEW P \in SUBSET S, First(S) \in P
    PROVE  First(P) = First(S)
  <1>0. Listed \in Seq(Models) /\ S \cap Range(Listed) # {} /\ P \cap Range(Listed) # {}
    BY ScoringAssumption
  <1>1. PICK i \in DOMAIN Listed :
            /\ First(S) = Listed[i] /\ Listed[i] \in S
            /\ \A j \in DOMAIN Listed : Listed[j] \in S => i <= j
    BY <1>0, FirstIsFirst DEF First
  <1>2. PICK k \in DOMAIN Listed :
            /\ First(P) = Listed[k] /\ Listed[k] \in P
            /\ \A j \in DOMAIN Listed : Listed[j] \in P => k <= j
    BY <1>0, FirstIsFirst DEF First
  <1>3. i <= k /\ k <= i /\ i \in Int /\ k \in Int
    BY <1>0, <1>1, <1>2
  <1>. QED  BY <1>1, <1>2, <1>3

\* There are finitely many models.
LEMMA FiniteModels == IsFiniteSet(Models)
  <1>1. Listed \in Seq(Models) /\ Range(Listed) = Models
    BY ScoringAssumption
  <1>2. IsFiniteSet(1 .. Len(Listed))
    BY <1>1, FS_Interval
  <1>3. Listed \in Surjection(1 .. Len(Listed), Models)
    BY <1>1 DEF Range, Surjection
  <1>. QED  BY <1>2, <1>3, FS_Surjection

-------------------------------------------------------------------------------
(* What the scores are made of                                             *)

Analysed == [weight : [Categories -> Nat], complexity : Nat, task : Range(Tasks) \cup {NoTask}]

ProfileRow == [reasoning : Nat, coding : Nat, time : Nat, days : Nat]
BenchmarkScores ==
    [reasoning_score : Nat, coding_score : Nat, general_score : Nat, elo_rating : Nat]

Known == [profile : [Models -> ProfileRow], benchmarkOf : [Models -> Models \cup {NoModel}],
          benchmark : [Models -> BenchmarkScores], feedback : [Models -> Int],
          frequency : [Models -> Nat]]

\* The four tasks.
LEMMA TasksAre ==
    /\ Tasks \in Seq({"reasoning", "coding", "creativity", "factual"})
    /\ Range(Tasks) = {"reasoning", "coding", "creativity", "factual"}
    /\ Range(Tasks) \subseteq Categories /\ NoTask \notin Range(Tasks)
  BY DEF Tasks, Range, Categories, NoTask

\* The task that dominates is one of the four, if any does.
LEMMA DominantIsTask ==
    ASSUME NEW weight \in [Categories -> Nat]
    PROVE  DominantTask(weight) \in Range(Tasks) \cup {NoTask}
  <1> DEFINE top == {t \in Range(Tasks) : weight[t] > 50
                                          /\ \A u \in Range(Tasks) : weight[u] <= weight[t]}
  <1>1. CASE top = {}
    BY <1>1 DEF DominantTask
  <1>2. CASE top # {}
    <2>1. top \cap Range(Tasks) # {} /\ DominantTask(weight) = FirstOf(Tasks, top)
      BY <1>2 DEF DominantTask
    <2>2. FirstOf(Tasks, top) \in top
      <3> HIDE DEF top
      <3>. QED  BY <2>1, TasksAre, FirstIsFirst
    <2>. QED  BY <2>1, <2>2
  <1>. QED  BY <1>1, <1>2

\* What a text counts, with or without a request, is well formed.
LEMMA AnalysesAreAnalysed ==
    ASSUME NEW t \in Texts, NEW asks \in Asks
    PROVE  Analyses[t][asks] \in Analysed
  <1> DEFINE p == Prompts[t]
  <1>0. /\ p \in [reasoning : Nat, coding : Nat, creativity : Nat, factual : Nat,
                 code : BOOLEAN, length : Nat, questions : Nat, newlines : Nat,
                 complexity : Nat, requirements : Nat]
        /\ asks \in [image : BOOLEAN, tools : BOOLEAN, json : BOOLEAN]
    BY DispatchAssumption
  <1> HIDE DEF p
  <1>1. CodingHits(p, asks) \in Nat
    BY <1>0 DEF CodingHits
  <1>2. Hits(p, asks) \in [Range(Tasks) -> Nat]
    BY <1>0, <1>1, TasksAre DEF Hits
  <1>3. Complexity(p, asks) \in Nat
    BY <1>0, <1>1 DEF Complexity, AtMost
  <1>4. Weights(p, asks) \in [Categories -> Nat]
    BY <1>2, TasksAre DEF Weights, Categories
  <1>5. DominantTask(Weights(p, asks)) \in Range(Tasks) \cup {NoTask}
    BY <1>4, DominantIsTask
  <1>6. AnalyzePrompt(p, asks) \in Analysed
    BY <1>3, <1>4, <1>5 DEF AnalyzePrompt, Analysed
  <1>7. Analyses[t][asks] = AnalyzePrompt(p, asks)
    BY DEF Analyses, p
  <1>. QED  BY <1>6, <1>7

\* The eight words for sizes come with one each.
LEMMA SizeWordsTyped ==
    /\ Len(SizeWords) = 8
    /\ \A i \in DOMAIN SizeWords : SizeWords[i].size \in Nat
    /\ SizeWords \in Seq({SizeWords[1], SizeWords[2], SizeWords[3], SizeWords[4],
                         SizeWords[5], SizeWords[6], SizeWords[7], SizeWords[8]})
  <1>1. Len(SizeWords) = 8 /\ DOMAIN SizeWords = 1 .. 8
    BY DEF SizeWords
  <1>2. \A i \in 1 .. 8 : SizeWords[i].size \in Nat
    BY DEF SizeWords
  <1>3. SizeWords \in Seq({SizeWords[1], SizeWords[2], SizeWords[3], SizeWords[4],
                          SizeWords[5], SizeWords[6], SizeWords[7], SizeWords[8]})
    BY DEF SizeWords
  <1>. QED  BY <1>1, <1>2, <1>3

\* Sizes are numbers, and 0 where they are unknown.
LEMMA SizesAreNumbers == ExtractParameterCount \in [Models -> Nat]
  <1>1. ASSUME NEW m \in Models
        PROVE  ExtractParameterCount[m] \in Nat
    <2> DEFINE worded == {w \in Range(SizeWords) : w.word \in Name[m].words}
    <2>1. Name[m].size \in Nat /\ Name[m].tag \in Nat
      BY ScoringAssumption
    <2>3. ASSUME worded # {}
          PROVE  FirstOf(SizeWords, worded).size \in Nat
      <3>1. worded \cap Range(SizeWords) # {}
        BY <2>3
      <3>2. PICK i \in DOMAIN SizeWords : FirstOf(SizeWords, worded) = SizeWords[i]
        <4> HIDE DEF worded
        <4>. QED  BY <3>1, SizeWordsTyped, FirstIsFirst
      <3>. QED  BY <3>2, SizeWordsTyped
    <2>. QED  BY <2>1, <2>3 DEF ExtractParameterCount, Unknown
  <1>. QED  BY <1>1 DEF ExtractParameterCount

\* What names promise is a number.
LEMMA AffinityIsNumber == Affinity \in [Models -> [Categories -> Nat]]
  BY DEF Affinity

\* The first row of some is one of theirs.
LEMMA FirstRowIsOne ==
    ASSUME NEW S \in SUBSET Models, S # {}
    PROVE  FirstRow(S) \in S
  <1>1. RowOrder \in Seq(Models) /\ S \cap Range(RowOrder) # {}
    BY ScoringAssumption
  <1>. QED  BY <1>1, FirstIsFirst DEF FirstRow

\* A model takes the row of a benchmarked one, or none.
LEMMA BenchmarkForOne ==
    ASSUME NEW m \in Models, NEW S \in SUBSET Models
    PROVE  BenchmarkFor(m, S) \in S \cup {NoModel}
  <1> DEFINE found == {b \in S : Kinship[m][b] > 0 \/ <<m, b>> \in SamePrefix}
             likeness == [b \in found |->
                             IF b = FirstRow(found) /\ Kinship[m][b] = 0 THEN 50 ELSE Kinship[m][b]]
             best == {b \in found : \A c \in found : likeness[c] <= likeness[b]}
  <1>1. CASE found = {}
    BY <1>1 DEF BenchmarkFor
  <1>2. CASE found # {}
    <2>1. IsFiniteSet(found)
      BY FiniteModels, FS_Subset
    <2>2. likeness \in [found -> Int]
      BY ScoringAssumption
    <2>3. \E b \in found : \A c \in found : likeness[c] <= likeness[b]
      <3> HIDE DEF found, likeness
      <3>. QED  BY <1>2, <2>1, <2>2, HasLargest
    <2>4. best # {} /\ best \in SUBSET Models
      BY <2>3
    <2>5. FirstRow(best) \in best
      <3> HIDE DEF best
      <3>. QED  BY <2>4, FirstRowIsOne
    <2>6. BenchmarkFor(m, S) = FirstRow(best)
      <3>1. best = {b \in found : \A c \in found :
                      (IF c = FirstRow(found) /\ Kinship[m][c] = 0 THEN 50 ELSE Kinship[m][c])
                      <= (IF b = FirstRow(found) /\ Kinship[m][b] = 0 THEN 50 ELSE Kinship[m][b])}
        OBVIOUS
      <3>. QED  BY <1>2, <3>1 DEF BenchmarkFor
    <2>. QED  BY <2>5, <2>6
  <1>. QED  BY <1>1, <1>2

\* Feedback is a number.
LEMMA FeedbackIsNumber ==
    ASSUME feedback \in [Models -> -100 .. 100]
    PROVE  feedback \in [Models -> Int]
  OBVIOUS

\* What the state says of the models is well formed.
LEMMA KnowledgeIsKnown ==
    ASSUME feedback \in [Models -> -100 .. 100], recent \in Seq(Models),
           NEW names \in SUBSET Models, NEW withProfile, NEW withBenchmark
    PROVE  Knowledge(names, withProfile, withBenchmark) \in Known
  <1>1. ASSUME NEW m \in Models
        PROVE  Frequency(m) \in Nat
    <2> DEFINE chosen == {i \in DOMAIN recent : recent[i] = m}
    <2>1. CASE recent = <<>>
      BY <2>1 DEF Frequency
    <2>2. CASE recent # <<>>
      <3>1. Len(recent) \in Nat /\ Len(recent) > 0 /\ DOMAIN recent = 1 .. Len(recent)
        BY <2>2
      <3>2. Cardinality(chosen) \in Nat
        <4>1. IsFiniteSet(DOMAIN recent) /\ chosen \in SUBSET DOMAIN recent
          BY <3>1, FS_Interval
        <4> HIDE DEF chosen
        <4>. QED  BY <4>1, FS_Subset, FS_CardinalityType
      <3>3. Frequency(m) = (100 * Cardinality(chosen)) \div Len(recent)
        BY <2>2 DEF Frequency
      <3>4. \A n, d \in Nat : d > 0 => n \div d \in Nat
        OBVIOUS
      <3>5. 100 * Cardinality(chosen) \in Nat
        BY <3>2
      <3>. QED  BY <3>1, <3>3, <3>4, <3>5
    <2>. QED  BY <2>1, <2>2
  <1>2. [m \in Models |-> BenchmarkFor(m, names \cap withBenchmark)]
            \in [Models -> Models \cup {NoModel}]
    BY BenchmarkForOne
  <1>3. [m \in Models |-> IF m \in withProfile THEN Profile[m] ELSE NoProfile]
            \in [Models -> ProfileRow]
    BY DispatchAssumption DEF NoProfile, ProfileRow
  <1>4. BenchmarkRow \in [Models -> BenchmarkScores] /\ feedback \in [Models -> Int]
    <2>1. BenchmarkRow \in [Models -> BenchmarkScores]
      BY DispatchAssumption DEF BenchmarkScores
    <2>. QED  BY <2>1, FeedbackIsNumber
  <1>5. [m \in Models |-> Frequency(m)] \in [Models -> Nat]
    BY <1>1
  <1>. QED  BY <1>2, <1>3, <1>4, <1>5 DEF Knowledge, Known

-------------------------------------------------------------------------------
(* Scores                                                                  *)

\* Products and quotients grow with what they are made of.
LEMMA ProductsGrow ==
    ASSUME NEW x \in Nat, NEW y \in Nat, NEW z \in Nat, NEW w \in Nat, x <= y, z <= w
    PROVE  x * z \in Nat /\ y * w \in Nat /\ x * z <= y * w
  <1>1. x * z \in Nat /\ y * w \in Nat /\ x * w \in Nat
    OBVIOUS
  <1>2. x * z <= x * w
    <2>1. PICK d \in Nat : w = z + d
      <3>1. w - z \in Nat /\ w = z + (w - z)
        OBVIOUS
      <3>. QED  BY <3>1
    <2>2. x * w = x * z + x * d /\ x * d \in Nat
      BY <2>1
    <2>. QED  BY <1>1, <2>2
  <1>3. x * w <= y * w
    <2>1. PICK d \in Nat : y = x + d
      <3>1. y - x \in Nat /\ y = x + (y - x)
        OBVIOUS
      <3>. QED  BY <3>1
    <2>2. y * w = x * w + d * w /\ d * w \in Nat
      BY <2>1
    <2>. QED  BY <1>1, <2>2
  <1>. QED  BY <1>1, <1>2, <1>3

\* The weights of quality and speed, in tenths.
LEMMA WeightsAre == QualityWeight \in 5 .. 15 /\ SpeedWeight \in 0 .. 10
  BY ScoringAssumption DEF QualityWeight, SpeedWeight

\* Signals are no less than nothing.
LEMMA SignalsAreNumbers ==
    ASSUME NEW c \in Categories, NEW row \in BenchmarkScores, NEW profile \in ProfileRow
    PROVE  /\ BenchmarkSignal(c, row) \in Nat
           /\ EloSignal(row) \in Nat
           /\ ProfileSignal(c, profile) \in Nat
  <1>1. BenchmarkSignal(c, row) \in Nat
    BY DEF BenchmarkSignal, BenchmarkScores
  <1>2. EloSignal(row) \in Nat
    BY DEF EloSignal, BenchmarkScores, AtLeast, AtMost
  <1>3. ProfileSignal(c, profile) \in Nat
    BY DEF ProfileSignal, ProfileRow
  <1>. QED  BY <1>1, <1>2, <1>3

\* Nothing known gives no signal.
LEMMA NothingIsNoSignal ==
    ASSUME NEW c \in Categories
    PROVE  /\ BenchmarkSignal(c, NoBenchmark) = 0 /\ EloSignal(NoBenchmark) = 0
           /\ ProfileSignal(c, NoProfile) = 0
           /\ NoBenchmark \in BenchmarkScores /\ NoProfile \in ProfileRow
  <1>1. BenchmarkSignal(c, NoBenchmark) = 0
    BY DEF BenchmarkSignal, NoBenchmark
  <1>2. EloSignal(NoBenchmark) = 0
    BY DEF EloSignal, NoBenchmark
  <1>3. ProfileSignal(c, NoProfile) = 0
    BY DEF ProfileSignal, NoProfile
  <1>. QED  BY <1>1, <1>2, <1>3 DEF NoBenchmark, NoProfile, BenchmarkScores, ProfileRow

\* The weighted sum of signals is no less than nothing, and grows with each of them.
LEMMA CombinedGrows ==
    ASSUME NEW b1 \in Nat, NEW e1 \in Nat, NEW p1 \in Nat, NEW b2 \in Nat, NEW e2 \in Nat,
           NEW p2 \in Nat, NEW affinity \in Nat, b1 <= b2, e1 <= e2, p1 <= p2
    PROVE  /\ Combined(b1, e1, p1, affinity) \in Nat
           /\ Combined(b2, e2, p2, affinity) \in Nat
           /\ Combined(b1, e1, p1, affinity) <= Combined(b2, e2, p2, affinity)
  <1> DEFINE sum1 == 15 * b1 + 10 * e1 + 4 * affinity + 8 * p1
             sum2 == 15 * b2 + 10 * e2 + 4 * affinity + 8 * p2
  <1>1. sum1 \in Nat /\ sum2 \in Nat /\ sum1 <= sum2
    OBVIOUS
  <1>2. QualityWeight \in Nat
    BY WeightsAre
  <1>3. /\ sum1 * QualityWeight \in Nat /\ sum2 * QualityWeight \in Nat
        /\ sum1 * QualityWeight <= sum2 * QualityWeight
    <2> HIDE DEF sum1, sum2
    <2>. QED  BY <1>1, <1>2, ProductsGrow
  <1>4. \A x, y \in Nat : x <= y => x \div 10 \in Nat /\ y \div 10 \in Nat /\ x \div 10 <= y \div 10
    OBVIOUS
  <1>. QED  BY <1>3, <1>4 DEF Combined

\* More score, and data rather than none, never cost a boost.
LEMMA BoostGrows ==
    ASSUME NEW c, NEW m, NEW a, NEW s1 \in Nat, NEW s2 \in Nat, s1 <= s2,
           NEW d1 \in BOOLEAN, NEW d2 \in BOOLEAN, d1 => d2
    PROVE  /\ Boost(c, a, m, s1, d1) \in Nat /\ Boost(c, a, m, s2, d2) \in Nat
           /\ Boost(c, a, m, s1, d1) <= Boost(c, a, m, s2, d2)
  BY DEF Boost

\* What a category adds is no less than nothing, and grows with the signals.
LEMMA PartGrows ==
    ASSUME NEW c \in Categories, NEW m \in Models, NEW a \in Analysed,
           NEW r1 \in BenchmarkScores, NEW r2 \in BenchmarkScores,
           NEW p1 \in ProfileRow, NEW p2 \in ProfileRow,
           BenchmarkSignal(c, r1) <= BenchmarkSignal(c, r2), EloSignal(r1) <= EloSignal(r2),
           ProfileSignal(c, p1) <= ProfileSignal(c, p2)
    PROVE  /\ Part(c, m, a, r1, p1) \in Nat /\ Part(c, m, a, r2, p2) \in Nat
           /\ Part(c, m, a, r1, p1) <= Part(c, m, a, r2, p2)
  <1> DEFINE b1 == BenchmarkSignal(c, r1)
             e1 == EloSignal(r1)
             o1 == ProfileSignal(c, p1)
             b2 == BenchmarkSignal(c, r2)
             e2 == EloSignal(r2)
             o2 == ProfileSignal(c, p2)
             s1 == Combined(b1, e1, o1, Affinity[m][c])
             s2 == Combined(b2, e2, o2, Affinity[m][c])
             d1 == b1 + e1 + o1 > 0
             d2 == b2 + e2 + o2 > 0
             f1 == Boost(c, a, m, s1, d1)
             f2 == Boost(c, a, m, s2, d2)
             w == AtLeast(a.weight[c], 1)
  <1>1. {b1, e1, o1, b2, e2, o2} \subseteq Nat /\ b1 <= b2 /\ e1 <= e2 /\ o1 <= o2
    BY SignalsAreNumbers
  <1>2. Affinity[m][c] \in Nat
    BY AffinityIsNumber
  <1>3. w \in Nat
    BY DEF Analysed, AtLeast
  <1>4. Part(c, m, a, r1, p1) = s1 * f1 * w /\ Part(c, m, a, r2, p2) = s2 * f2 * w
    BY DEF Part
  <1> HIDE DEF b1, e1, o1, b2, e2, o2, w
  <1>5. s1 \in Nat /\ s2 \in Nat /\ s1 <= s2
    BY <1>1, <1>2, CombinedGrows
  <1>6. d1 \in BOOLEAN /\ d2 \in BOOLEAN /\ (d1 => d2)
    BY <1>1
  <1> HIDE DEF s1, s2, d1, d2
  <1>7. f1 \in Nat /\ f2 \in Nat /\ f1 <= f2
    BY <1>5, <1>6, BoostGrows
  <1> HIDE DEF f1, f2
  <1>8. s1 * f1 \in Nat /\ s2 * f2 \in Nat /\ s1 * f1 <= s2 * f2
    BY <1>5, <1>7, ProductsGrow
  <1>9. s1 * f1 * w \in Nat /\ s2 * f2 * w \in Nat /\ s1 * f1 * w <= s2 * f2 * w
    BY <1>8, <1>3, ProductsGrow
  <1>. QED  BY <1>4, <1>9

\* The benchmark a model takes is a row.
LEMMA BenchmarkIsRow ==
    ASSUME NEW m \in Models, NEW k \in Known
    PROVE  Benchmark(m, k) \in BenchmarkScores /\ k.profile[m] \in ProfileRow
  <1>1. NoBenchmark \in BenchmarkScores
    BY DEF NoBenchmark, BenchmarkScores
  <1>2. k.benchmarkOf[m] \in Models \cup {NoModel} /\ k.profile[m] \in ProfileRow
        /\ k.benchmark \in [Models -> BenchmarkScores]
    BY DEF Known
  <1>. QED  BY <1>1, <1>2 DEF Benchmark

\* The base score is no less than nothing, and grows with the signals.
LEMMA BaseScoreGrows ==
    ASSUME NEW m \in Models, NEW a \in Analysed, NEW k \in Known, NEW l \in Known,
           EloSignal(Benchmark(m, k)) <= EloSignal(Benchmark(m, l)),
           \A c \in Categories :
               /\ BenchmarkSignal(c, Benchmark(m, k)) <= BenchmarkSignal(c, Benchmark(m, l))
               /\ ProfileSignal(c, k.profile[m]) <= ProfileSignal(c, l.profile[m])
    PROVE  BaseScore(m, a, k) \in Nat /\ BaseScore(m, a, l) \in Nat
           /\ BaseScore(m, a, k) <= BaseScore(m, a, l)
  <1> DEFINE P(c) == Part(c, m, a, Benchmark(m, k), k.profile[m])
             Q(c) == Part(c, m, a, Benchmark(m, l), l.profile[m])
  <1>1. ASSUME NEW c \in Categories
        PROVE  P(c) \in Nat /\ Q(c) \in Nat /\ P(c) <= Q(c)
    BY BenchmarkIsRow, PartGrows
  <1>2. {"reasoning", "coding", "creativity", "factual", "vision", "tools"} \subseteq Categories
    BY TasksAre DEF Categories
  <1>3. /\ BaseScore(m, a, k) = (P("reasoning") + P("coding") + P("creativity") + P("factual")
                                 + P("vision") + P("tools")) \div 20
        /\ BaseScore(m, a, l) = (Q("reasoning") + Q("coding") + Q("creativity") + Q("factual")
                                 + Q("vision") + Q("tools")) \div 20
    BY DEF BaseScore
  <1>4. \A x, y \in Nat : x <= y => x \div 20 \in Nat /\ y \div 20 \in Nat /\ x \div 20 <= y \div 20
    OBVIOUS
  <1>5. /\ P("reasoning") \in Nat /\ P("coding") \in Nat /\ P("creativity") \in Nat
        /\ P("factual") \in Nat /\ P("vision") \in Nat /\ P("tools") \in Nat
        /\ Q("reasoning") \in Nat /\ Q("coding") \in Nat /\ Q("creativity") \in Nat
        /\ Q("factual") \in Nat /\ Q("vision") \in Nat /\ Q("tools") \in Nat
        /\ P("reasoning") <= Q("reasoning") /\ P("coding") <= Q("coding")
        /\ P("creativity") <= Q("creativity") /\ P("factual") <= Q("factual")
        /\ P("vision") <= Q("vision") /\ P("tools") <= Q("tools")
    BY <1>1, <1>2
  <1> HIDE DEF P, Q
  <1>. QED  BY <1>3, <1>4, <1>5

\* The bonus for a size, the reduction for being too small, the others.
LEMMA SizeBonusIsInt ==
    ASSUME NEW m \in Models, NEW a \in Analysed
    PROVE  SizeBonus(m, a) \in Int
  <1>1. ExtractParameterCount[m] \in Nat /\ a.complexity \in Nat
    BY SizesAreNumbers DEF Analysed
  <1>2. QualityWeight \in Int /\ SpeedWeight \in Int
    BY WeightsAre
  <1>4. \A s \in Nat : SizeScore(s) \in Int
    BY <1>2 DEF SizeScore, BySize
  <1> DEFINE size == ExtractParameterCount[m]
             complexity == a.complexity
  <1>5. SizeBonus(m, a) =
            IF size = Unknown THEN 0
            ELSE IF complexity >= 50
                 THEN SizeScore(size) + QualityWeight
                        * IF size < 40 THEN -3000 ELSE BySize(size, 3000, 2000, 1000)
            ELSE IF complexity >= 30
                 THEN SizeScore(size) + QualityWeight
                        * IF size < 40 THEN -2000 ELSE BySize(size, 2000, 1200, 400)
            ELSE IF complexity < 15
                 THEN SpeedWeight * (IF size <= 40 THEN 1500 ELSE IF size <= 70 THEN 800
                                     ELSE IF size >= 140 THEN -1000 ELSE 0)
            ELSE 0
    BY DEF SizeBonus
  <1> HIDE DEF size, complexity
  <1>. QED  BY <1>1, <1>2, <1>4, <1>5 DEF size, complexity, BySize

LEMMA TooSmallIsNumber ==
    ASSUME NEW m \in Models, NEW a \in Analysed
    PROVE  TooSmall(m, a) \in Nat
  <1>1. ExtractParameterCount[m] \in Nat
    BY SizesAreNumbers
  <1>2. MinSize(a.task, ComplexityBucket(a)) \in Nat
    BY DEF MinSize
  <1>. QED  BY <1>1, <1>2 DEF TooSmall, AtLeast

LEMMA SpeedBonusIs ==
    ASSUME NEW m \in Models, NEW a \in Analysed, NEW k \in Known
    PROVE  /\ SpeedBonus(m, a, k) \in 0 .. 400 * SpeedWeight
           /\ k.profile[m] = NoProfile => SpeedBonus(m, a, k) = 0
  <1> DEFINE time == k.profile[m].time
             left == 10000 - AtMost(time, 8000)
  <1>1. time \in Nat
    BY DEF Known, ProfileRow
  <1>2. left \in 0 .. 10000
    <2> HIDE DEF time
    <2>. QED  BY <1>1 DEF AtMost
  <1>3. SpeedWeight \in Nat /\ 400 * SpeedWeight \in Nat
    BY WeightsAre
  <1>4. left * 4 * SpeedWeight \in Nat /\ left * 4 * SpeedWeight <= 40000 * SpeedWeight
    <2> HIDE DEF left
    <2>1. left * 4 \in Nat /\ left * 4 <= 40000
      BY <1>2
    <2>. QED  BY <2>1, <1>3, ProductsGrow
  <1>5. (left * 4 * SpeedWeight) \div 100 \in 0 .. 400 * SpeedWeight
    <2> DEFINE x == left * 4 * SpeedWeight
    <2>1. 40000 * SpeedWeight = 100 * (400 * SpeedWeight)
      BY <1>3
    <2>2. \A n, b \in Nat : n <= 100 * b => n \div 100 \in 0 .. b
      OBVIOUS
    <2>3. x \in Nat /\ x <= 100 * (400 * SpeedWeight)
      BY <1>4, <2>1
    <2> HIDE DEF x
    <2>4. x \div 100 \in 0 .. 400 * SpeedWeight
      BY <2>2, <2>3, <1>3
    <2>. QED  BY <2>4 DEF x
  <1>6. SpeedBonus(m, a, k) \in {0, (left * 4 * SpeedWeight) \div 100}
    BY DEF SpeedBonus
  <1>7. k.profile[m] = NoProfile => SpeedBonus(m, a, k) = 0
    BY DEF SpeedBonus, NoProfile
  <1>. QED  BY <1>3, <1>5, <1>6, <1>7

LEMMA NewnessBonusIs ==
    ASSUME NEW m \in Models, NEW k \in Known
    PROVE  /\ NewnessBonus(m, k) \in 0 .. 500
           /\ k.profile[m] = NoProfile => NewnessBonus(m, k) = 0
  <1>1. k.profile[m].days \in Nat
    BY DEF Known, ProfileRow
  <1>2. Newness(k.profile[m].days) \in {0, 50, 80, 100}
    BY <1>1 DEF Newness
  <1>3. NewnessBonus(m, k) \in 0 .. 500
    BY <1>2 DEF NewnessBonus
  <1>4. k.profile[m] = NoProfile => NewnessBonus(m, k) = 0
    BY DEF NewnessBonus, Newness, NoProfile
  <1>. QED  BY <1>3, <1>4

\* Scores are numbers.
LEMMA ScoresAreNumbers ==
    ASSUME NEW m \in Models, NEW a \in Analysed, NEW k \in Known
    PROVE  /\ BaseScore(m, a, k) \in Nat
           /\ Diversified(BaseScore(m, a, k), k.frequency[m]) \in Int
           /\ Bonus(m, a, k) \in Int
           /\ TotalScore(m, a, k) \in Int
  <1>1. BaseScore(m, a, k) \in Nat
    <2>1. /\ EloSignal(Benchmark(m, k)) \in Nat
          /\ \A c \in Categories : /\ BenchmarkSignal(c, Benchmark(m, k)) \in Nat
                                   /\ ProfileSignal(c, k.profile[m]) \in Nat
      BY BenchmarkIsRow, SignalsAreNumbers, TasksAre
    <2>2. \A n \in Nat : n <= n
      OBVIOUS
    <2>. QED  BY <2>1, <2>2, BaseScoreGrows
  <1>2. k.frequency[m] \in Nat /\ k.feedback[m] \in Int
    BY DEF Known
  <1>3. ASSUME NEW base \in Nat, NEW frequency \in Nat
        PROVE  Diversified(base, frequency) \in Int
    <2>1. \A x \in Int : x \div 5 \in Int /\ x \div 100 \in Int
      OBVIOUS
    <2>2. AtLeast(30, 100 - ((frequency - 50) * 7) \div 5) \in Int
      BY <2>1 DEF AtLeast
    <2>3. \A x \in Int : base * (x - (100 - x)) \in Int
      OBVIOUS
    <2>. QED  BY <2>1, <2>2, <2>3 DEF Diversified
  <1>4. Diversified(BaseScore(m, a, k), k.frequency[m]) \in Int
    BY <1>1, <1>2, <1>3
  <1>5. Bonus(m, a, k) \in Int
    <2>1. SizeBonus(m, a) \in Int /\ TooSmall(m, a) \in Int
      BY SizeBonusIsInt, TooSmallIsNumber
    <2>2. SpeedBonus(m, a, k) \in Int /\ NewnessBonus(m, k) \in Int
      BY SpeedBonusIs, NewnessBonusIs
    <2>3. QualityWeight \in Int
      BY WeightsAre
    <2>. QED  BY <2>1, <2>2, <2>3, <1>2 DEF Bonus
  <1>. QED  BY <1>1, <1>4, <1>5 DEF TotalScore

-------------------------------------------------------------------------------
(* The choice                                                              *)

\* What is left for a modality: some of the models, all of which support it if any does.
LEMMA ModelsForModalityAre ==
    ASSUME NEW names \in SUBSET Models, NEW modality, names # {}
    PROVE  /\ ModelsForModality(names, modality) \in SUBSET names
           /\ ModelsForModality(names, modality) # {}
           /\ (\E m \in names : Supports(m, modality))
              => \A m \in ModelsForModality(names, modality) : Supports(m, modality)
  BY DEF ModelsForModality

\* The candidates are some of these.
LEMMA CandidatesAre ==
    ASSUME NEW names \in SUBSET Models, NEW modality, NEW a \in Analysed, names # {}
    PROVE  /\ Candidates(names, a, modality) \in SUBSET ModelsForModality(names, modality)
           /\ Candidates(names, a, modality) \in SUBSET Models
           /\ Candidates(names, a, modality) # {}
  <1> DEFINE able == ModelsForModality(names, modality)
  <1>1. able \in SUBSET names /\ able # {}
    BY ModelsForModalityAre
  <1>2. CASE a.task = NoTask
    BY <1>1, <1>2 DEF Candidates
  <1>3. CASE a.task # NoTask
    <2> DEFINE promise == [m \in able |-> Affinity[m][a.task]]
    <2>1. a.task \in Categories
      BY <1>3, TasksAre DEF Analysed
    <2>2. promise \in [able -> Nat]
      BY <1>1, <2>1, AffinityIsNumber
    <2>3. IsFiniteSet(able)
      <3> HIDE DEF able
      <3>. QED  BY <1>1, FiniteModels, FS_Subset
    <2>4. \E m \in able : \A n \in able : promise[n] <= promise[m]
      <3>1. promise \in [able -> Int]
        BY <2>2
      <3> HIDE DEF promise, able
      <3>. QED  BY <1>1, <2>3, <3>1, HasLargest
    <2>5. Promising(able, a.task) # {} /\ Promising(able, a.task) \in SUBSET able
      <3>1. PICK m \in able : \A n \in able : promise[n] <= promise[m]
        BY <2>4
      <3>2. ASSUME NEW n \in able
            PROVE  100 * Affinity[m][a.task] >= 85 * Affinity[n][a.task]
        <4>1. promise[n] <= promise[m] /\ promise[n] \in Nat /\ promise[m] \in Nat
          BY <2>2, <3>1
        <4>2. promise[n] = Affinity[n][a.task] /\ promise[m] = Affinity[m][a.task]
          OBVIOUS
        <4> HIDE DEF promise, able
        <4>3. \A x, y \in Nat : x <= y => 100 * y >= 85 * x
          OBVIOUS
        <4>. QED  BY <4>1, <4>2, <4>3
      <3>. QED  BY <3>2 DEF Promising
    <2>6. Candidates(names, a, modality) = Promising(able, a.task)
      BY <1>3 DEF Candidates
    <2>. QED  BY <1>1, <2>5, <2>6
  <1>. QED  BY <1>2, <1>3

\* The models with the highest score.
Best(names, a, modality, k) ==
    {m \in Candidates(names, a, modality) :
        \A n \in Candidates(names, a, modality) : TotalScore(n, a, k) <= TotalScore(m, a, k)}

\* The choice is a candidate with the highest score, and the first such.
LEMMA ChoiceIsBest ==
    ASSUME NEW names \in SUBSET Models, NEW modality, NEW a \in Analysed, NEW k \in Known,
           names # {}
    PROVE  /\ Choice(names, a, modality, k) = First(Best(names, a, modality, k))
           /\ Choice(names, a, modality, k) \in Best(names, a, modality, k)
           /\ Best(names, a, modality, k) \in SUBSET Models
  <1> DEFINE able == Candidates(names, a, modality)
             score == [m \in able |-> TotalScore(m, a, k)]
             best == {m \in able : \A n \in able : score[n] <= score[m]}
  <1>1. able \in SUBSET Models /\ able # {}
    BY CandidatesAre
  <1>2. score \in [able -> Int]
    BY <1>1, ScoresAreNumbers
  <1>3. IsFiniteSet(able)
    <2> HIDE DEF able
    <2>. QED  BY <1>1, FiniteModels, FS_Subset
  <1>4. \E m \in able : \A n \in able : score[n] <= score[m]
    <2> HIDE DEF able, score
    <2>. QED  BY <1>1, <1>2, <1>3, HasLargest
  <1>5. best # {} /\ best \in SUBSET Models
    BY <1>1, <1>4
  <1>6. best = Best(names, a, modality, k)
    BY DEF Best
  <1> DEFINE rows == {[model |-> m, total |-> TotalScore(m, a, k)] : m \in able}
             scores == {s.total : s \in rows}
             top == Max(scores)
             first == {s.model : s \in {s \in rows : s.total = top}}
  <1>0. /\ scores = {TotalScore(m, a, k) : m \in able}
        /\ first = {m \in able : TotalScore(m, a, k) = top}
    <2> HIDE DEF able, top
    <2>1. ASSUME NEW m \in able
          PROVE  \E row \in rows : row.model = m /\ row.total = TotalScore(m, a, k)
      <3> WITNESS [model |-> m, total |-> TotalScore(m, a, k)] \in rows
      <3>. QED  OBVIOUS
    <2>2. \A row \in rows : row.model \in able /\ row.total = TotalScore(row.model, a, k)
      OBVIOUS
    <2> HIDE DEF rows
    <2>3. scores = {TotalScore(m, a, k) : m \in able}
      BY <2>1, <2>2
    <2>4. first = {m \in able : TotalScore(m, a, k) = top}
      BY <2>1, <2>2
    <2>. QED  BY <2>3, <2>4
  <1>7. top \in scores /\ \A y \in scores : top >= y
    <2>1. \E x \in scores : \A y \in scores : x >= y
      <3>1. PICK m \in able : \A n \in able : score[n] <= score[m]
        BY <1>4
      <3>2. \A n \in able : TotalScore(n, a, k) \in Int
                             /\ TotalScore(n, a, k) <= TotalScore(m, a, k)
        BY <1>2, <3>1
      <3> HIDE DEF able, rows, scores
      <3>. QED  BY <1>0, <3>1, <3>2
    <2> HIDE DEF scores
    <2>. QED  BY <2>1 DEF Max
  <1>8. best = {m \in able : TotalScore(m, a, k) = top}
    <2>1. \A m \in able : TotalScore(m, a, k) \in Int
      BY <1>2
    <2>2. PICK t \in able : TotalScore(t, a, k) = top
      BY <1>0, <1>7
    <2>3. \A n \in able : TotalScore(n, a, k) <= top
      BY <1>0, <1>7, <2>1, <2>2
    <2> HIDE DEF able, top, scores, rows, first
    <2>4. \A m \in able : score[m] = TotalScore(m, a, k)
      OBVIOUS
    <2> HIDE DEF score
    <2>5. ASSUME NEW m \in able
          PROVE  (\A n \in able : score[n] <= score[m]) <=> TotalScore(m, a, k) = top
      BY <2>1, <2>2, <2>3, <2>4
    <2>. QED  BY <2>5
  <1>9. Choice(names, a, modality, k) = First(best)
    BY <1>0, <1>8 DEF Choice
  <1> HIDE DEF best
  <1>. QED  BY <1>5, <1>6, <1>9, FirstIsOne

\* Names that are left by the filter.
LEMMA FilteredAre ==
    ASSUME NEW names \in SUBSET Models
    PROVE  FilterModelInfos(names) \in SUBSET Models
  BY DEF FilterModelInfos

\* What keywords choose, with data or without, is one of the models.
LEMMA KeywordDispatchChooses ==
    ASSUME NEW names \in SUBSET Models, names # {}, NEW t \in Texts, NEW made \in Asks,
           NEW modality, NEW withProfile, NEW withBenchmark,
           feedback \in [Models -> -100 .. 100], recent \in Seq(Models)
    PROVE  LET m == KeywordDispatch(names, t, made, modality, withProfile, withBenchmark)
           IN  /\ m \in names
               /\ ((withProfile # {} \/ withBenchmark # {}) /\ \E n \in names : Supports(n, modality))
                  => Supports(m, modality)
  <1> DEFINE m == KeywordDispatch(names, t, made, modality, withProfile, withBenchmark)
             a == Analyses[t][made]
             k == Knowledge(names, withProfile, withBenchmark)
  <1>1. CASE withProfile = {} /\ withBenchmark = {}
    BY <1>1, FirstIsOne DEF KeywordDispatch
  <1>2. CASE withProfile # {} \/ withBenchmark # {}
    <2>1. a \in Analysed
      BY AnalysesAreAnalysed
    <2>2. k \in Known
      BY KnowledgeIsKnown
    <2>3. m = Choice(names, a, modality, k)
      BY <1>2 DEF KeywordDispatch
    <2> HIDE DEF a, k, m
    <2>4. m \in Candidates(names, a, modality)
      BY <2>1, <2>2, <2>3, ChoiceIsBest DEF Best
    <2>5. m \in ModelsForModality(names, modality)
      BY <2>1, <2>4, CandidatesAre
    <2>6. m \in names /\ ((\E n \in names : Supports(n, modality)) => Supports(m, modality))
      BY <2>5, ModelsForModalityAre
    <2>. QED  BY <2>6 DEF m
  <1>. QED  BY <1>1, <1>2

-------------------------------------------------------------------------------
(* The cache of analyses                                                   *)

AnalysisRow == [text : Texts, asks : Asks]

\* At most one analysis for each text.
OneEach(list) == list \in Seq(AnalysisRow)
                 /\ \A i, j \in DOMAIN list : list[i].text = list[j].text => i = j

\* Without its first, and without the one at any place, a list has one less.
LEMMA TailIsOneEach ==
    ASSUME NEW list, OneEach(list), list # <<>>
    PROVE  OneEach(Tail(list)) /\ Len(Tail(list)) = Len(list) - 1
  <1>1. /\ Tail(list) \in Seq(AnalysisRow) /\ Len(Tail(list)) = Len(list) - 1
        /\ Len(list) \in Nat /\ Len(list) > 0
        /\ \A i \in 1 .. Len(list) - 1 : Tail(list)[i] = list[i + 1]
    BY DEF OneEach
  <1>2. ASSUME NEW i \in DOMAIN Tail(list), NEW j \in DOMAIN Tail(list),
               Tail(list)[i].text = Tail(list)[j].text
        PROVE  i = j
    <2>1. i \in 1 .. Len(list) - 1 /\ j \in 1 .. Len(list) - 1
      BY <1>1
    <2>2. list[i + 1].text = list[j + 1].text /\ i + 1 \in DOMAIN list /\ j + 1 \in DOMAIN list
      BY <1>1, <1>2, <2>1 DEF OneEach
    <2>. QED  BY <2>1, <2>2 DEF OneEach
  <1>. QED  BY <1>1, <1>2 DEF OneEach

LEMMA RemovedIsOneEach ==
    ASSUME NEW list, OneEach(list), NEW k \in DOMAIN list
    PROVE  /\ OneEach(RemoveAt(list, k)) /\ Len(RemoveAt(list, k)) = Len(list) - 1
           /\ \A i \in DOMAIN RemoveAt(list, k) : RemoveAt(list, k)[i].text # list[k].text
  <1> DEFINE front == SubSeq(list, 1, k - 1)
             rest == SubSeq(list, k + 1, Len(list))
             left == RemoveAt(list, k)
             at(i) == IF i < k THEN i ELSE i + 1
  <1>1. k \in 1 .. Len(list) /\ Len(list) \in Nat /\ list \in Seq(AnalysisRow)
    BY DEF OneEach
  <1>2. /\ front \in Seq(AnalysisRow) /\ Len(front) = k - 1
        /\ \A i \in 1 .. k - 1 : front[i] = list[i]
    BY <1>1
  <1>3. /\ rest \in Seq(AnalysisRow) /\ Len(rest) = Len(list) - k
        /\ \A i \in 1 .. Len(list) - k : rest[i] = list[k + i]
    BY <1>1
  <1>4. left = front \o rest
    BY DEF RemoveAt
  <1> HIDE DEF front, rest, left
  <1>5. left \in Seq(AnalysisRow) /\ Len(left) = Len(list) - 1
    BY <1>1, <1>2, <1>3, <1>4
  <1>6. ASSUME NEW i \in 1 .. Len(list) - 1
        PROVE  left[i] = list[at(i)] /\ at(i) \in DOMAIN list /\ at(i) # k
    <2>1. CASE i < k
      BY <1>1, <1>2, <1>3, <1>4, <2>1
    <2>2. CASE ~(i < k)
      <3>1. (front \o rest)[i] = rest[i - (k - 1)]
        BY <1>1, <1>2, <1>3, <2>2
      <3>2. i - (k - 1) \in 1 .. Len(list) - k /\ k + (i - (k - 1)) = i + 1
        BY <1>1, <2>2
      <3>3. rest[i - (k - 1)] = list[i + 1]
        BY <1>3, <3>2
      <3>. QED  BY <1>1, <1>4, <2>2, <3>1, <3>3
    <2>. QED  BY <2>1, <2>2
  <1>7. \A i, j \in 1 .. Len(list) - 1 : at(i) = at(j) => i = j
    BY <1>1
  <1> HIDE DEF at
  <1>8. DOMAIN left = 1 .. Len(list) - 1
    BY <1>5
  <1>9. OneEach(left)
    BY <1>5, <1>6, <1>7, <1>8 DEF OneEach
  <1>10. \A i \in DOMAIN left : left[i].text # list[k].text
    BY <1>6, <1>8 DEF OneEach
  <1>. QED  BY <1>5, <1>9, <1>10 DEF left

\* With an analysis of another text there is one more.
LEMMA AppendedIsOneEach ==
    ASSUME NEW list, OneEach(list), NEW e \in AnalysisRow,
           \A i \in DOMAIN list : list[i].text # e.text
    PROVE  OneEach(Append(list, e)) /\ Len(Append(list, e)) = Len(list) + 1
  <1>1. /\ list \in Seq(AnalysisRow) /\ Len(list) \in Nat
        /\ Append(list, e) \in Seq(AnalysisRow) /\ Len(Append(list, e)) = Len(list) + 1
        /\ \A i \in 1 .. Len(list) : Append(list, e)[i] = list[i]
        /\ Append(list, e)[Len(list) + 1] = e
    BY DEF OneEach
  <1>2. ASSUME NEW i \in DOMAIN Append(list, e), NEW j \in DOMAIN Append(list, e),
               Append(list, e)[i].text = Append(list, e)[j].text
        PROVE  i = j
    <2>1. i \in 1 .. Len(list) + 1 /\ j \in 1 .. Len(list) + 1 /\ DOMAIN list = 1 .. Len(list)
      BY <1>1
    <2>2. CASE i \in DOMAIN list /\ j \in DOMAIN list
      BY <1>1, <1>2, <2>1, <2>2 DEF OneEach
    <2>3. CASE i \notin DOMAIN list
      BY <1>1, <1>2, <2>1, <2>3
    <2>4. CASE j \notin DOMAIN list
      BY <1>1, <1>2, <2>1, <2>4
    <2>. QED  BY <2>2, <2>3, <2>4
  <1>. QED  BY <1>1, <1>2 DEF OneEach

\* A text is analysed for a request that may be made.
LEMMA AnalysedForAsked ==
    ASSUME OneEach(analysed), NEW t \in Texts, NEW asks \in Asks
    PROVE  AnalysedFor(t, asks) \in SUBSET Asks
  <1>1. ASSUME NEW i \in DOMAIN analysed
        PROVE  analysed[i].asks \in Asks
    <2>1. analysed[i] \in AnalysisRow
      BY DEF OneEach
    <2>. QED  BY <2>1 DEF AnalysisRow
  <1>. QED  BY <1>1 DEF AnalysedFor, Cached

\* Analysing a text keeps at most one analysis of each, and no more than there may be.
LEMMA AnalyseKeeps ==
    ASSUME OneEach(analysed), Len(analysed) <= MaxAnalyses, NEW t \in Texts, NEW made \in Asks,
           Analyse(t, made)
    PROVE  OneEach(analysed') /\ Len(analysed') <= MaxAnalyses
  <1> DEFINE others == OtherAnalyses(t)
             row == [text |-> t, asks |-> made]
             grown == Append(others, row)
  <1>1. /\ OneEach(others) /\ Len(others) \in Nat /\ Len(others) <= Len(analysed)
        /\ \A i \in DOMAIN others : others[i].text # t
    <2>1. CASE Cached(t) = {}
      <3>1. others = analysed
        BY <2>1 DEF OtherAnalyses
      <3>2. \A i \in DOMAIN analysed : analysed[i].text # t
        BY <2>1 DEF Cached
      <3>. QED  BY <3>1, <3>2 DEF OneEach
    <2>2. CASE Cached(t) # {}
      <3> DEFINE k == CHOOSE i \in Cached(t) : TRUE
      <3>1. others = RemoveAt(analysed, k)
        BY <2>2 DEF OtherAnalyses
      <3>2. k \in DOMAIN analysed /\ analysed[k].text = t
        BY <2>2 DEF Cached
      <3> HIDE DEF k, others
      <3>3. /\ OneEach(others) /\ Len(others) = Len(analysed) - 1
            /\ \A i \in DOMAIN others : others[i].text # t
        BY <3>1, <3>2, RemovedIsOneEach
      <3>4. Len(others) \in Nat /\ Len(analysed) \in Nat
        BY <3>3 DEF OneEach
      <3>. QED  BY <3>3, <3>4
    <2>. QED  BY <2>1, <2>2
  <1>2. row \in AnalysisRow /\ row.text = t
    BY DEF AnalysisRow
  <1> HIDE DEF others, row
  <1>3. OneEach(grown) /\ Len(grown) = Len(others) + 1
    BY <1>1, <1>2, AppendedIsOneEach
  <1>4. MaxAnalyses \in Nat \ {0} /\ Len(analysed) \in Nat
    BY DispatchAssumption DEF OneEach
  <1>5. analysed' = IF Len(grown) > MaxAnalyses THEN Tail(grown) ELSE grown
    BY DEF Analyse, others, row
  <1>6. CASE Len(grown) > MaxAnalyses
    <2>1. grown # <<>>
      <3> HIDE DEF grown
      <3>. QED  BY <1>1, <1>3 DEF OneEach
    <2>2. OneEach(Tail(grown)) /\ Len(Tail(grown)) = Len(grown) - 1
      <3> HIDE DEF grown
      <3>. QED  BY <1>3, <2>1, TailIsOneEach
    <2>. QED  BY <1>1, <1>3, <1>4, <1>5, <1>6, <2>2
  <1>7. CASE ~(Len(grown) > MaxAnalyses)
    <2> HIDE DEF grown
    <2>. QED  BY <1>1, <1>3, <1>4, <1>5, <1>7
  <1>. QED  BY <1>6, <1>7

\* A decision keeps the list of selections, and its length within its limit.
LEMMA DecideKeeps ==
    ASSUME recent \in Seq(Models), Len(recent) <= MaxRecent, NEW m \in Models, Decide(m)
    PROVE  recent' \in Seq(Models) /\ Len(recent') <= MaxRecent
  <1>1. MaxRecent \in Nat \ {0} /\ Len(recent) \in Nat
    BY DispatchAssumption
  <1>2. CASE Len(recent) < MaxRecent
    BY <1>1, <1>2 DEF Decide
  <1>3. CASE ~(Len(recent) < MaxRecent)
    <2>1. recent # <<>>
      BY <1>1, <1>3
    <2>2. Tail(recent) \in Seq(Models) /\ Len(Tail(recent)) = Len(recent) - 1
      BY <2>1
    <2>3. recent' = Append(Tail(recent), m)
      BY <1>3 DEF Decide
    <2>. QED  BY <1>1, <2>2, <2>3
  <1>. QED  BY <1>2, <1>3

-------------------------------------------------------------------------------
(* The invariant                                                           *)

RequestRow == [at : Places, text : Texts, asks : Asks, model : Models \cup {NoModel},
               names : SUBSET Models, profiled : SUBSET Models, benchmarked : SUBSET Models,
               via : Ways]

\* What keywords have chosen supports what was asked for, if any model offered does.
Capable(q) ==
    (\E m \in q.names : Supports(m, FromChatRequest(q.asks)))
    => Supports(q.model, FromChatRequest(q.asks))

\* A request has what its place needs, and is answered as soon as keywords have chosen.
GoodRequest(q) ==
    /\ q \in RequestRow
    /\ q.at \in {"asking", "scoring"} => q.names # {}
    /\ q.at = "answering" => q.model \in Models
    /\ q.via = "keyword" => q.at = "answering" /\ Capable(q)

RequestsAreGood ==
    /\ request \in [Requests -> RequestRow]
    /\ \A r \in Requests : GoodRequest(request[r])

DataAreModels ==
    /\ dispatcher \in BOOLEAN
    /\ profiled \in SUBSET Models
    /\ benchmarked \in SUBSET Models
    /\ feedback \in [Models -> -100 .. 100]

ListsAreKept ==
    /\ recent \in Seq(Models) /\ Len(recent) <= MaxRecent
    /\ OneEach(analysed) /\ Len(analysed) <= MaxAnalyses

RoutingInv == DataAreModels /\ ListsAreKept /\ RequestsAreGood

\* It implies what the runs check.
LEMMA RoutingInvImplies == RoutingInv => DispatchTypeOK /\ CapableIfAny
  <1> SUFFICES ASSUME RoutingInv
               PROVE  DispatchTypeOK /\ CapableIfAny
    OBVIOUS
  <1>1. DispatchTypeOK
    <2>1. /\ dispatcher \in BOOLEAN /\ profiled \subseteq Models /\ benchmarked \subseteq Models
          /\ feedback \in [Models -> -100 .. 100]
      BY Zenon DEF RoutingInv, DataAreModels
    <2>2. /\ recent \in Seq(Models) /\ Len(recent) <= MaxRecent
          /\ analysed \in Seq([text : Texts, asks : Asks]) /\ Len(analysed) <= MaxAnalyses
          /\ \A i, j \in DOMAIN analysed : analysed[i].text = analysed[j].text => i = j
      BY Zenon DEF RoutingInv, ListsAreKept, OneEach, AnalysisRow
    <2>3. /\ request \in [Requests -> RequestRow]
          /\ \A r \in Requests :
                /\ At(r, "asking") \/ At(r, "scoring") => request[r].names # {}
                /\ At(r, "answering") => request[r].model \in Models
      BY DEF RoutingInv, RequestsAreGood, GoodRequest, At
    <2>. QED  BY <2>1, <2>2, <2>3, Zenon DEF DispatchTypeOK, RequestRow
  <1>2. CapableIfAny
    BY Zenon DEF RoutingInv, RequestsAreGood, GoodRequest, CapableIfAny, Capable
  <1>. QED  BY <1>1, <1>2

\* A request that is made good leaves all of them good.
LEMMA OneRequestChanges ==
    ASSUME RequestsAreGood, NEW r \in Requests, NEW q, GoodRequest(q),
           request' = [request EXCEPT ![r] = q]
    PROVE  RequestsAreGood'
  <1>1. request' \in [Requests -> RequestRow]
    BY DEF RequestsAreGood, GoodRequest
  <1>2. \A s \in Requests : request'[s] = IF s = r THEN q ELSE request[s]
    BY DEF RequestsAreGood
  <1>3. \A s \in Requests : GoodRequest(request'[s])
    BY <1>2 DEF RequestsAreGood
  <1>. QED  BY <1>1, <1>3 DEF RequestsAreGood

\* An unrouted request is good.
LEMMA UnroutedIsGood == GoodRequest(Unrouted) /\ Unrouted.names = {} /\ Unrouted.at = "idle"
  <1>1. (CHOOSE t \in Texts : TRUE) \in Texts /\ NoRequest \in Asks
    BY DispatchAssumption
  <1>. QED  BY <1>1 DEF GoodRequest, Unrouted, RequestRow, Places, Ways

\* So is one for which a model has been chosen, by keywords if it is capable.
LEMMA ChosenIsGood ==
    ASSUME RequestsAreGood, NEW r \in Requests, NEW m \in Models, NEW via \in Ways,
           via = "keyword" =>
               ((\E n \in request[r].names : Supports(n, FromChatRequest(request[r].asks)))
                => Supports(m, FromChatRequest(request[r].asks))),
           Chosen(r, m, via)
    PROVE  RequestsAreGood'
  <1> DEFINE before == IF via = "keyword" THEN request[r] ELSE Unrouted
             q == [before EXCEPT !.at = "answering", !.model = m, !.via = via,
                                 !.text = Unrouted.text, !.profiled = {}, !.benchmarked = {}]
  <1>1. before \in RequestRow /\ Unrouted.text \in Texts
    BY UnroutedIsGood DEF RequestsAreGood, GoodRequest, RequestRow
  <1>2. via = "keyword" => before = request[r]
    OBVIOUS
  <1>3. request' = [request EXCEPT ![r] = q]
    BY DEF Chosen
  <1> HIDE DEF before
  <1>4. q \in RequestRow
    BY <1>1 DEF RequestRow, Places
  <1>5. q.at = "answering" /\ q.model = m /\ q.via = via /\ q.names = before.names
        /\ q.asks = before.asks
    BY <1>1 DEF RequestRow
  <1> HIDE DEF q
  <1>6. GoodRequest(q)
    BY <1>2, <1>4, <1>5 DEF GoodRequest, Capable
  <1>. QED  BY <1>3, <1>6, OneRequestChanges

\* Nothing changes but the requests.
OnlyRequests == UNCHANGED <<dispatcher, data, recent, analysed>>

LEMMA OnlyRequestsKeeps ==
    ASSUME RoutingInv, OnlyRequests, RequestsAreGood'
    PROVE  RoutingInv'
  <1>1. DataAreModels'
    BY DEF RoutingInv, DataAreModels, OnlyRequests, data
  <1>2. ListsAreKept'
    BY DEF RoutingInv, ListsAreKept, OneEach, OnlyRequests
  <1>. QED  BY <1>1, <1>2 DEF RoutingInv

\* A decision by keywords keeps both lists, and its model is one of the names, capable if
\* it goes by data.
LEMMA KeywordDecisionKeeps ==
    ASSUME RoutingInv, NEW names \in SUBSET Models, names # {}, NEW t \in Texts,
           NEW made \in Asks, NEW modality, NEW withProfile, NEW withBenchmark, NEW m,
           m = KeywordDispatch(names, t, made, modality, withProfile, withBenchmark),
           KeywordDecision(m, t, made, withProfile, withBenchmark)
    PROVE  /\ ListsAreKept'
           /\ m \in names
           /\ ((withProfile # {} \/ withBenchmark # {}) /\ \E n \in names : Supports(n, modality))
              => Supports(m, modality)
  <1>1. /\ OneEach(analysed) /\ Len(analysed) <= MaxAnalyses
        /\ recent \in Seq(Models) /\ Len(recent) <= MaxRecent
        /\ feedback \in [Models -> -100 .. 100]
    BY Zenon DEF RoutingInv, ListsAreKept, DataAreModels
  <1>3. /\ m \in names
        /\ ((withProfile # {} \/ withBenchmark # {}) /\ \E n \in names : Supports(n, modality))
           => Supports(m, modality)
    BY <1>1, KeywordDispatchChooses, Zenon
  <1>4. recent' \in Seq(Models) /\ Len(recent') <= MaxRecent
    <2>1. m \in Models /\ Decide(m)
      BY <1>3, Zenon DEF KeywordDecision
    <2>. QED  BY <1>1, <2>1, DecideKeeps
  <1>5. OneEach(analysed') /\ Len(analysed') <= MaxAnalyses
    <2>1. CASE withProfile = {} /\ withBenchmark = {}
      <3>1. analysed' = analysed
        BY <2>1, Zenon DEF KeywordDecision
      <3>. QED  BY <1>1, <3>1, Zenon
    <2>2. CASE ~(withProfile = {} /\ withBenchmark = {})
      <3>1. Analyse(t, made)
        BY <2>2, Zenon DEF KeywordDecision
      <3>. QED  BY <1>1, <3>1, AnalyseKeeps
    <2>. QED  BY <2>1, <2>2
  <1>6. ListsAreKept'
    <2>1. OneEach(analysed)' = OneEach(analysed')
      BY Zenon DEF OneEach
    <2>. QED  BY <1>4, <1>5, <2>1, Zenon DEF ListsAreKept
  <1>. QED  BY <1>3, <1>6, Zenon

LEMMA BeginKeeps ==
    ASSUME RoutingInv, NEW r \in Requests, Begin(r)
    PROVE  RoutingInv'
  <1>0. RequestsAreGood /\ OnlyRequests
    BY DEF RoutingInv, Begin, OnlyRequests
  <1>1. ASSUME NEW t \in Texts, NEW asks \in Asks,
               request' = [request EXCEPT ![r] = [Unrouted EXCEPT !.at = "listing",
                                                                  !.text = t, !.asks = asks]]
        PROVE  RequestsAreGood'
    <2> DEFINE q == [Unrouted EXCEPT !.at = "listing", !.text = t, !.asks = asks]
    <2>1. GoodRequest(q)
      BY UnroutedIsGood DEF GoodRequest, Unrouted, RequestRow, Places, Ways
    <2>. QED  BY <1>0, <1>1, <2>1, OneRequestChanges
  <1>2. ASSUME NEW m \in Models, Chosen(r, m, "cache")
        PROVE  RequestsAreGood'
    BY <1>0, <1>2, ChosenIsGood DEF Ways
  <1>3. RequestsAreGood'
    BY <1>1, <1>2 DEF Begin
  <1>. QED  BY <1>0, <1>3, OnlyRequestsKeeps

\* What is read is about models.
LEMMA SeenAreModels ==
    ASSUME RoutingInv, NEW names, NEW seen \in Seen(names)
    PROVE  seen.profiled \in SUBSET Models /\ seen.benchmarked \in SUBSET Models
  <1>1. profiled \in SUBSET Models /\ benchmarked \in SUBSET Models
    BY Zenon DEF RoutingInv, DataAreModels
  <1>. QED  BY <1>1 DEF Seen

LEMMA ListKeeps ==
    ASSUME RoutingInv, NEW r \in Requests, List(r)
    PROVE  RoutingInv'
  <1>0. RequestsAreGood /\ OnlyRequests
    BY DEF RoutingInv, List, OnlyRequests
  <1>1. CASE Chosen(r, First(Models), "first")
    <2>1. First(Models) \in Models
      BY ScoringAssumption, FirstIsOne DEF Range
    <2>. QED  BY <1>0, <1>1, <2>1, ChosenIsGood, OnlyRequestsKeeps DEF Ways
  <1>2. ASSUME NEW up \in Running, NEW names, names = FilterModelInfos(up), names # {},
               NEW seen \in Seen(names),
               request' = [request EXCEPT ![r] =
                              [@ EXCEPT !.at = IF dispatcher THEN "asking" ELSE "scoring",
                                        !.names = names, !.profiled = seen.profiled,
                                        !.benchmarked = seen.benchmarked]]
        PROVE  RoutingInv'
    <2> DEFINE q == [request[r] EXCEPT !.at = IF dispatcher THEN "asking" ELSE "scoring",
                                       !.names = names, !.profiled = seen.profiled,
                                       !.benchmarked = seen.benchmarked]
    <2>1. request' = [request EXCEPT ![r] = q]
      BY <1>0, <1>2
    <2>2. GoodRequest(request[r]) /\ request[r].at = "listing"
      BY <1>0 DEF RequestsAreGood, List, At
    <2>3. request[r].via # "keyword"
      BY <2>2 DEF GoodRequest
    <2>4. /\ names \in SUBSET Models
          /\ seen.profiled \in SUBSET Models /\ seen.benchmarked \in SUBSET Models
      BY <1>2, DispatchAssumption, FilteredAre, SeenAreModels
    <2>5. GoodRequest(q)
      BY <1>2, <2>2, <2>3, <2>4 DEF GoodRequest, RequestRow, Places
    <2> HIDE DEF q
    <2>. QED  BY <1>0, <2>1, <2>5, OneRequestChanges, OnlyRequestsKeeps
  <1>. QED  BY <1>1, <1>2 DEF List

LEMMA LLMDispatchKeeps ==
    ASSUME RoutingInv, NEW r \in Requests, NEW m \in Models, LLMDispatch(r, m)
    PROVE  RoutingInv'
  <1>1. RequestsAreGood'
    <2>1. RequestsAreGood /\ Chosen(r, m, "llm")
      BY Zenon DEF RoutingInv, LLMDispatch
    <2>. QED  BY <2>1, ChosenIsGood DEF Ways
  <1>2. ListsAreKept'
    <2>1. recent' \in Seq(Models) /\ Len(recent') <= MaxRecent
      BY DecideKeeps DEF RoutingInv, ListsAreKept, LLMDispatch
    <2>. QED  BY <2>1 DEF RoutingInv, ListsAreKept, LLMDispatch, OneEach
  <1>3. DataAreModels'
    BY DEF RoutingInv, DataAreModels, LLMDispatch, data
  <1>. QED  BY <1>1, <1>2, <1>3 DEF RoutingInv

LEMMA LLMDispatchFailsKeeps ==
    ASSUME RoutingInv, NEW r \in Requests, LLMDispatchFails(r)
    PROVE  RoutingInv'
  <1>0. RequestsAreGood /\ OnlyRequests
    BY DEF RoutingInv, LLMDispatchFails, OnlyRequests
  <1>1. PICK seen \in Seen(request[r].names) :
            request' = [request EXCEPT ![r] =
                           [@ EXCEPT !.at = "scoring", !.via = "fallback",
                                     !.profiled = seen.profiled,
                                     !.benchmarked = seen.benchmarked]]
    BY DEF LLMDispatchFails
  <1> DEFINE q == [request[r] EXCEPT !.at = "scoring", !.via = "fallback",
                                     !.profiled = seen.profiled,
                                     !.benchmarked = seen.benchmarked]
  <1>2. request' = [request EXCEPT ![r] = q]
    BY <1>0, <1>1
  <1>3. GoodRequest(request[r]) /\ request[r].at = "asking"
    BY <1>0 DEF RequestsAreGood, LLMDispatchFails, At
  <1>4. seen.profiled \in SUBSET Models /\ seen.benchmarked \in SUBSET Models
    BY SeenAreModels
  <1>5. GoodRequest(q)
    BY <1>3, <1>4 DEF GoodRequest, RequestRow, Places, Ways
  <1> HIDE DEF q
  <1>. QED  BY <1>0, <1>2, <1>5, OneRequestChanges, OnlyRequestsKeeps

LEMMA ScoreKeeps ==
    ASSUME RoutingInv, NEW r \in Requests, Score(r)
    PROVE  RoutingInv'
  <1> DEFINE q == request[r]
             asks == IF q.via = "fallback" THEN NoRequest ELSE q.asks
             way == IF q.profiled \cup q.benchmarked = {} THEN "first"
                    ELSE IF q.via = "fallback" THEN "fallback" ELSE "keyword"
  <1>0. PICK made \in AnalysedFor(q.text, asks) :
            \E m \in {KeywordDispatch(q.names, q.text, made, FromChatRequest(asks),
                                      q.profiled, q.benchmarked)} :
                 /\ KeywordDecision(m, q.text, made, q.profiled, q.benchmarked)
                 /\ Chosen(r, m, way)
    BY DEF Score
  <1>1. PICK m : /\ m = KeywordDispatch(q.names, q.text, made, FromChatRequest(asks),
                                        q.profiled, q.benchmarked)
                 /\ KeywordDecision(m, q.text, made, q.profiled, q.benchmarked)
                 /\ Chosen(r, m, way)
    BY <1>0
  <1>2. RequestsAreGood /\ GoodRequest(q) /\ q.at = "scoring"
    BY DEF RoutingInv, RequestsAreGood, Score, At
  <1>3. /\ q.names \in SUBSET Models /\ q.names # {} /\ q.text \in Texts /\ asks \in Asks
        /\ made \in Asks
    <2>1. /\ q.names \in SUBSET Models /\ q.names # {} /\ q.text \in Texts /\ asks \in Asks
      BY <1>2, DispatchAssumption DEF GoodRequest, RequestRow
    <2>2. OneEach(analysed)
      BY Zenon DEF RoutingInv, ListsAreKept
    <2>. QED  BY <1>0, <2>1, <2>2, AnalysedForAsked
  <1>4. way \in Ways /\ (way = "keyword" => asks = q.asks
                                            /\ (q.profiled # {} \/ q.benchmarked # {}))
    BY DEF Ways
  <1> HIDE DEF asks, way, q
  <1>5. /\ ListsAreKept'
        /\ m \in q.names
        /\ ((q.profiled # {} \/ q.benchmarked # {})
            /\ \E n \in q.names : Supports(n, FromChatRequest(asks)))
           => Supports(m, FromChatRequest(asks))
    <2> DEFINE names == q.names
               t == q.text
               asked == FromChatRequest(asks)
               withProfile == q.profiled
               withBenchmark == q.benchmarked
    <2>1. /\ m = KeywordDispatch(names, t, made, asked, withProfile, withBenchmark)
          /\ KeywordDecision(m, t, made, withProfile, withBenchmark)
          /\ names \in SUBSET Models /\ names # {} /\ t \in Texts /\ made \in Asks
      BY <1>1, <1>3
    <2> HIDE DEF names, t, asked, withProfile, withBenchmark
    <2>2. ListsAreKept'
      BY <2>1, KeywordDecisionKeeps, Zenon
    <2>3. m \in names
      BY <2>1, KeywordDecisionKeeps, SMTT(60)
    <2>4. ASSUME withProfile # {} \/ withBenchmark # {}, NEW n \in names, Supports(n, asked)
          PROVE  Supports(m, asked)
      BY <2>1, <2>4, KeywordDecisionKeeps, SMTT(60)
    <2>. QED  BY <2>2, <2>3, <2>4 DEF names, asked, withProfile, withBenchmark
  <1>6. m \in Models
    BY <1>3, <1>5
  <1>7. way = "keyword" =>
            ((\E n \in q.names : Supports(n, FromChatRequest(q.asks)))
             => Supports(m, FromChatRequest(q.asks)))
    BY <1>4, <1>5, Zenon
  <1>8. RequestsAreGood'
    BY <1>1, <1>2, <1>4, <1>6, <1>7, ChosenIsGood, Zenon DEF q
  <1>9. DataAreModels'
    BY DEF RoutingInv, DataAreModels, Score, data
  <1>. QED  BY <1>5, <1>8, <1>9 DEF RoutingInv

LEMMA ServeKeeps ==
    ASSUME RoutingInv, NEW r \in Requests, NEW m \in Models, Serve(r, m)
    PROVE  RoutingInv'
  <1>1. RequestsAreGood'
    <2>1. RequestsAreGood /\ request' = [request EXCEPT ![r] = Unrouted]
      BY Zenon DEF RoutingInv, Serve
    <2>. QED  BY <2>1, UnroutedIsGood, OneRequestChanges
  <1>2. ListsAreKept'
    <2>1. recent' \in Seq(Models) /\ Len(recent') <= MaxRecent
      BY DecideKeeps DEF RoutingInv, ListsAreKept, Serve
    <2>. QED  BY <2>1 DEF RoutingInv, ListsAreKept, Serve, OneEach
  <1>3. DataAreModels'
    BY DEF RoutingInv, DataAreModels, Serve, data
  <1>. QED  BY <1>1, <1>2, <1>3 DEF RoutingInv

LEMMA GiveUpKeeps ==
    ASSUME RoutingInv, NEW r \in Requests, GiveUp(r)
    PROVE  RoutingInv'
  <1>1. RequestsAreGood /\ request' = [request EXCEPT ![r] = Unrouted] /\ OnlyRequests
    BY Zenon DEF RoutingInv, GiveUp, OnlyRequests
  <1>. QED  BY <1>1, UnroutedIsGood, OneRequestChanges, OnlyRequestsKeeps

LEMMA ExplainKeeps ==
    ASSUME RoutingInv, NEW t \in Texts, Explain(t)
    PROVE  RoutingInv'
  <1> DEFINE names == Offered
  <1>0. PICK seen \in Seen(names), made \in AnalysedFor(t, NoRequest) :
            \E m \in {KeywordDispatch(names, t, made, "text", seen.profiled, seen.benchmarked)} :
                KeywordDecision(m, t, made, seen.profiled, seen.benchmarked)
    BY DEF Explain
  <1>1. PICK m : /\ m = KeywordDispatch(names, t, made, "text", seen.profiled, seen.benchmarked)
                 /\ KeywordDecision(m, t, made, seen.profiled, seen.benchmarked)
    BY <1>0
  <1>2. /\ names \in SUBSET Models /\ names # {} /\ made \in Asks
    <2>1. names \in SUBSET Models /\ names # {} /\ NoRequest \in Asks
      BY FilteredAre, DispatchAssumption DEF Explain, Offered
    <2>2. OneEach(analysed)
      BY Zenon DEF RoutingInv, ListsAreKept
    <2> HIDE DEF names
    <2>. QED  BY <1>0, <2>1, <2>2, AnalysedForAsked
  <1> DEFINE withProfile == seen.profiled
             withBenchmark == seen.benchmarked
  <1>3. /\ m = KeywordDispatch(names, t, made, "text", withProfile, withBenchmark)
        /\ KeywordDecision(m, t, made, withProfile, withBenchmark)
    BY <1>1
  <1> HIDE DEF names, withProfile, withBenchmark
  <1>4. ListsAreKept'
    BY <1>2, <1>3, KeywordDecisionKeeps, Zenon
  <1>5. DataAreModels'
    BY DEF RoutingInv, DataAreModels, Explain, data
  <1>6. RequestsAreGood'
    BY DEF RoutingInv, RequestsAreGood, Explain
  <1>. QED  BY <1>4, <1>5, <1>6 DEF RoutingInv

\* Data arrives.
LEMMA DataKeep ==
    ASSUME RoutingInv, NEW m \in Models,
           NewProfile(m) \/ NewBenchmark(m) \/ \E score \in {0, 100} : Rate(m, score)
    PROVE  RoutingInv'
  <1>1. DataAreModels'
    <2>1. CASE NewProfile(m)
      BY <2>1 DEF RoutingInv, DataAreModels, NewProfile
    <2>2. CASE NewBenchmark(m)
      BY <2>2 DEF RoutingInv, DataAreModels, NewBenchmark
    <2>3. ASSUME NEW score \in {0, 100}, Rate(m, score)
          PROVE  DataAreModels'
      BY <2>3 DEF RoutingInv, DataAreModels, Rate
    <2>. QED  BY <2>1, <2>2, <2>3
  <1>2. UNCHANGED <<recent, analysed, request>>
    BY DEF NewProfile, NewBenchmark, Rate
  <1>3. ListsAreKept'
    BY <1>2 DEF RoutingInv, ListsAreKept, OneEach
  <1>4. RequestsAreGood'
    BY <1>2 DEF RoutingInv, RequestsAreGood
  <1>. QED  BY <1>1, <1>3, <1>4 DEF RoutingInv

\* Initially the state is as it should be.
LEMMA RoutingStarts == DispatchInit => RoutingInv
  <1> SUFFICES ASSUME DispatchInit
               PROVE  RoutingInv
    OBVIOUS
  <1>1. DataAreModels
    BY DEF DispatchInit, DataAreModels
  <1>2. ListsAreKept
    BY DispatchAssumption DEF DispatchInit, ListsAreKept, OneEach
  <1>3. RequestsAreGood
    BY UnroutedIsGood DEF DispatchInit, RequestsAreGood, GoodRequest
  <1>. QED  BY <1>1, <1>2, <1>3 DEF RoutingInv

\* Every step leaves it so.
LEMMA RoutingStays == RoutingInv /\ [DispatchNext]_dispatchVars => RoutingInv'
  <1> SUFFICES ASSUME RoutingInv, [DispatchNext]_dispatchVars
               PROVE  RoutingInv'
    OBVIOUS
  <1>1. ASSUME NEW r \in Requests, Begin(r)
        PROVE  RoutingInv'
    BY <1>1, BeginKeeps
  <1>2. ASSUME NEW r \in Requests, List(r)
        PROVE  RoutingInv'
    BY <1>2, ListKeeps
  <1>3. ASSUME NEW r \in Requests, LLMDispatchFails(r)
        PROVE  RoutingInv'
    BY <1>3, LLMDispatchFailsKeeps
  <1>4. ASSUME NEW r \in Requests, Score(r)
        PROVE  RoutingInv'
    BY <1>4, ScoreKeeps
  <1>5. ASSUME NEW r \in Requests, GiveUp(r)
        PROVE  RoutingInv'
    BY <1>5, GiveUpKeeps
  <1>6. ASSUME NEW r \in Requests, NEW m \in Models, LLMDispatch(r, m) \/ Serve(r, m)
        PROVE  RoutingInv'
    BY <1>6, LLMDispatchKeeps, ServeKeeps
  <1>7. ASSUME NEW t \in Texts, Explain(t)
        PROVE  RoutingInv'
    BY <1>7, ExplainKeeps
  <1>8. ASSUME NEW m \in Models,
               NewProfile(m) \/ NewBenchmark(m) \/ \E score \in {0, 100} : Rate(m, score)
        PROVE  RoutingInv'
    BY <1>8, DataKeep
  <1>9. CASE UNCHANGED dispatchVars
    <2>1. DataAreModels'
      BY <1>9 DEF RoutingInv, DataAreModels, dispatchVars
    <2>2. ListsAreKept'
      BY <1>9 DEF RoutingInv, ListsAreKept, OneEach, dispatchVars
    <2>3. RequestsAreGood'
      BY <1>9 DEF RoutingInv, RequestsAreGood, dispatchVars
    <2>. QED  BY <2>1, <2>2, <2>3 DEF RoutingInv
  <1>. QED
    BY <1>1, <1>2, <1>3, <1>4, <1>5, <1>6, <1>7, <1>8, <1>9, Zenon DEF DispatchNext

\* The routing of requests keeps the invariant.
THEOREM RoutingInvariant == DispatchSpec => []RoutingInv
  BY RoutingStarts, RoutingStays, PTL DEF DispatchSpec

\* The state is of its types, within its limits, and has a model for every request that is
\* answered.
THEOREM RoutingTypeCorrect == DispatchSpec => []DispatchTypeOK
  BY RoutingInvariant, RoutingInvImplies, PTL

\* What keywords choose from data supports what was asked for, if a model offered does,
\* whatever the models, the prompts, the data and the decisions before.
THEOREM AlwaysCapableIfAny == DispatchSpec => []CapableIfAny
  BY RoutingInvariant, RoutingInvImplies, PTL

-------------------------------------------------------------------------------
(* Small models and large tasks                                            *)

\* A weight keeps the order of numbers.
LEMMA WeightKeepsOrder ==
    ASSUME NEW w \in Nat, NEW x \in Int, NEW y \in Int, x <= y
    PROVE  w * x \in Int /\ w * y \in Int /\ w * x <= w * y
  <1>1. PICK d \in Nat : y = x + d
    <2>1. y - x \in Nat /\ y = x + (y - x)
      OBVIOUS
    <2>. QED  BY <2>1
  <1>2. w * y = w * x + w * d /\ w * d \in Nat /\ w * x \in Int
    BY <1>1
  <1>. QED  BY <1>2

\* More parameters are scored no worse.
LEMMA SizeScoreGrows ==
    ASSUME NEW s \in Nat, NEW l \in Nat, s <= l
    PROVE  SizeScore(s) \in Int /\ SizeScore(l) \in Int /\ SizeScore(s) <= SizeScore(l)
  <1>1. QualityWeight \in Nat
    BY WeightsAre
  <1>2. /\ BySize(s, 1500, 1000, 500) \in Nat /\ BySize(l, 1500, 1000, 500) \in Nat
        /\ BySize(s, 1500, 1000, 500) <= BySize(l, 1500, 1000, 500)
    BY DEF BySize
  <1> DEFINE x == QualityWeight * BySize(s, 1500, 1000, 500)
             y == QualityWeight * BySize(l, 1500, 1000, 500)
  <1>3. x \in Nat /\ y \in Nat /\ x <= y
    BY <1>1, <1>2, ProductsGrow
  <1>4. /\ SizeScore(s) = IF s < 30 THEN IF QualityPreference >= 5 THEN -10000 ELSE -2500 ELSE x
        /\ SizeScore(l) = IF l < 30 THEN IF QualityPreference >= 5 THEN -10000 ELSE -2500 ELSE y
    BY DEF SizeScore
  <1> HIDE DEF x, y
  <1>. QED  BY <1>3, <1>4

\* For a prompt that is not simple a larger model has no smaller bonus for its size.
LEMMA SizeBonusGrows ==
    ASSUME NEW m \in Models, NEW c \in Models, NEW a \in Analysed, a.complexity >= 15,
           ExtractParameterCount[m] # Unknown, ExtractParameterCount[c] # Unknown,
           ExtractParameterCount[m] <= ExtractParameterCount[c]
    PROVE  SizeBonus(m, a) <= SizeBonus(c, a)
  <1> DEFINE s == ExtractParameterCount[m]
             l == ExtractParameterCount[c]
             Hard(size) == IF size < 40 THEN -3000 ELSE BySize(size, 3000, 2000, 1000)
             Fair(size) == IF size < 40 THEN -2000 ELSE BySize(size, 2000, 1200, 400)
             Size(size) == IF a.complexity >= 50 THEN SizeScore(size) + QualityWeight * Hard(size)
                           ELSE IF a.complexity >= 30
                                THEN SizeScore(size) + QualityWeight * Fair(size)
                           ELSE 0
  <1>1. s \in Nat /\ l \in Nat /\ s <= l
    BY SizesAreNumbers
  <1>2. a.complexity \in Nat
    BY DEF Analysed
  <1>3. SizeBonus(m, a) = Size(s) /\ SizeBonus(c, a) = Size(l)
    BY <1>2 DEF SizeBonus
  <1> HIDE DEF s, l
  <1>4. Hard(s) \in Int /\ Hard(l) \in Int /\ Hard(s) <= Hard(l)
    BY <1>1 DEF BySize
  <1>5. Fair(s) \in Int /\ Fair(l) \in Int /\ Fair(s) <= Fair(l)
    BY <1>1 DEF BySize
  <1>6. SizeScore(s) \in Int /\ SizeScore(l) \in Int /\ SizeScore(s) <= SizeScore(l)
    BY <1>1, SizeScoreGrows
  <1> HIDE DEF Hard, Fair
  <1> DEFINE hs == QualityWeight * Hard(s)
             hl == QualityWeight * Hard(l)
             fs == QualityWeight * Fair(s)
             fl == QualityWeight * Fair(l)
  <1>7. /\ hs \in Int /\ hl \in Int /\ hs <= hl
        /\ fs \in Int /\ fl \in Int /\ fs <= fl
    <2>1. QualityWeight \in Nat
      BY WeightsAre
    <2>. QED  BY <2>1, <1>4, <1>5, WeightKeepsOrder
  <1>8. /\ Size(s) = IF a.complexity >= 50 THEN SizeScore(s) + hs
                     ELSE IF a.complexity >= 30 THEN SizeScore(s) + fs ELSE 0
        /\ Size(l) = IF a.complexity >= 50 THEN SizeScore(l) + hl
                     ELSE IF a.complexity >= 30 THEN SizeScore(l) + fl ELSE 0
    OBVIOUS
  <1> HIDE DEF hs, hl, fs, fl, Size
  <1>. QED  BY <1>2, <1>3, <1>6, <1>7, <1>8

\* The score but for what speed, age and having a benchmark are worth: at most 6500.
Worth(m, a, k) == Diversified(BaseScore(m, a, k), k.frequency[m]) + 200 * k.feedback[m]
                  + SizeBonus(m, a) - 10000 * TooSmall(m, a)

LEMMA RestIsSmall ==
    ASSUME NEW m \in Models, NEW a \in Analysed, NEW k \in Known
    PROVE  /\ Worth(m, a, k) \in Int
           /\ Worth(m, a, k) <= TotalScore(m, a, k)
           /\ TotalScore(m, a, k) <= Worth(m, a, k) + 6500
  <1> DEFINE base == Diversified(BaseScore(m, a, k), k.frequency[m])
             liked == 200 * k.feedback[m]
             taken == IF k.benchmarkOf[m] # NoModel THEN 300 * QualityWeight ELSE 0
             size == SizeBonus(m, a)
             small == TooSmall(m, a)
             speed == SpeedBonus(m, a, k)
             new == NewnessBonus(m, k)
  <1>1. TotalScore(m, a, k) = base + (liked + taken + size - 10000 * small + speed + new)
    BY DEF TotalScore, Bonus
  <1>2. base \in Int /\ size \in Int /\ small \in Int
    BY ScoresAreNumbers, SizeBonusIsInt, TooSmallIsNumber
  <1>3. liked \in Int
    BY DEF Known
  <1>4. QualityPreference \in 0 .. 10 /\ QualityWeight = QualityPreference + 5
        /\ SpeedWeight = 10 - QualityPreference
    BY ScoringAssumption DEF QualityWeight, SpeedWeight
  <1>5. new \in 0 .. 500 /\ speed \in 0 .. 400 * SpeedWeight
    BY NewnessBonusIs, SpeedBonusIs
  <1>6. taken \in {0, 300 * QualityWeight}
    OBVIOUS
  <1> HIDE DEF base, liked, taken, size, small, speed, new
  <1>7. 300 * QualityWeight = 1500 + 300 * QualityPreference
        /\ 400 * SpeedWeight = 4000 - 400 * QualityPreference
    BY <1>4
  <1>8. taken \in Int /\ taken >= 0 /\ taken <= 1500 + 300 * QualityPreference
    BY <1>4, <1>6, <1>7
  <1>9. speed \in Int /\ speed >= 0 /\ speed <= 4000 - 400 * QualityPreference
    BY <1>4, <1>5, <1>7
  <1> DEFINE rest == taken + speed + new
             worth == base + liked + size - 10000 * small
  <1>10. rest \in 0 .. 6500 /\ TotalScore(m, a, k) = worth + rest /\ worth \in Int
    BY <1>1, <1>2, <1>3, <1>4, <1>5, <1>8, <1>9
  <1>11. worth = Worth(m, a, k)
    BY DEF Worth, base, liked, size, small
  <1> DEFINE total == TotalScore(m, a, k)
  <1> HIDE DEF rest, worth, total
  <1>12. worth <= total /\ total <= worth + 6500
    BY <1>10 DEF total
  <1>. QED  BY <1>10, <1>11, <1>12 DEF total

\* What scores no less than a model that is large enough and rated no worse, and is too small
\* itself, leads it in its base score.
LEMMA SmallLeads ==
    ASSUME NEW m \in Models, NEW c \in Models, NEW a \in Analysed, NEW k \in Known,
           TotalScore(c, a, k) <= TotalScore(m, a, k),
           TooSmall(m, a) > 0, ExtractParameterCount[c] # Unknown, TooSmall(c, a) = 0,
           k.feedback[c] >= k.feedback[m]
    PROVE  Diversified(BaseScore(m, a, k), k.frequency[m])
           - Diversified(BaseScore(c, a, k), k.frequency[c]) >= 10000 * (TooSmall(m, a) - 1)
  <1>2. SizeBonus(m, a) <= SizeBonus(c, a)
    <2> DEFINE min == MinSize(a.task, ComplexityBucket(a))
               s == ExtractParameterCount[m]
               l == ExtractParameterCount[c]
    <2>1. min \in Nat /\ (min > 0 => a.complexity >= 20) /\ a.complexity \in Nat
      BY DEF MinSize, ComplexityBucket, Analysed
    <2>2. s \in Nat /\ l \in Nat
      BY SizesAreNumbers
    <2>3. /\ TooSmall(m, a) = IF s = Unknown THEN 0 ELSE AtLeast(min - s, 0)
          /\ TooSmall(c, a) = IF l = Unknown THEN 0 ELSE AtLeast(min - l, 0)
      BY DEF TooSmall
    <2>4. l # Unknown
      OBVIOUS
    <2> HIDE DEF min, s, l
    <2>5. s # Unknown /\ s < min /\ min <= l
      BY <2>1, <2>2, <2>3, <2>4 DEF AtLeast
    <2>6. a.complexity >= 15 /\ s <= l
      BY <2>1, <2>2, <2>5
    <2>. QED  BY <2>4, <2>5, <2>6, SizeBonusGrows DEF s, l
  <1>3. /\ Worth(m, a, k) \in Int /\ Worth(c, a, k) \in Int
        /\ Worth(c, a, k) <= TotalScore(c, a, k)
        /\ TotalScore(m, a, k) <= Worth(m, a, k) + 6500
    BY RestIsSmall
  <1>4. TotalScore(m, a, k) \in Int /\ TotalScore(c, a, k) \in Int
    BY ScoresAreNumbers
  <1> DEFINE D == Diversified(BaseScore(m, a, k), k.frequency[m])
             E == Diversified(BaseScore(c, a, k), k.frequency[c])
             small == TooSmall(m, a)
             liked == k.feedback[m]
             rated == k.feedback[c]
             size == SizeBonus(m, a)
             large == SizeBonus(c, a)
             worth == Worth(m, a, k)
             other == Worth(c, a, k)
  <1>5. /\ worth = D + 200 * liked + size - 10000 * small
        /\ other = E + 200 * rated + large - 10000 * 0
        /\ size <= large /\ liked <= rated
    BY <1>2 DEF Worth
  <1>6. D \in Int /\ E \in Int /\ size \in Int /\ large \in Int /\ small \in Int
    BY ScoresAreNumbers, SizeBonusIsInt, TooSmallIsNumber
  <1>7. liked \in Int /\ rated \in Int
    BY DEF Known
  <1>8. worth \in Int /\ other \in Int /\ other <= worth + 6500
    BY <1>3, <1>4
  <1> HIDE DEF D, E, small, liked, rated, size, large, worth, other
  <1>9. D - E >= 10000 * (small - 1)
    BY <1>5, <1>6, <1>7, <1>8
  <1>. QED  BY <1>9 DEF D, E, small

\* What the filter leaves of no names is nothing.
LEMMA NoCandidates ==
    ASSUME NEW modality, NEW a
    PROVE  Candidates({}, a, modality) = {}
  BY DEF Candidates, ModelsForModality, Promising

\* A choice by what the state says now is well defined.
LEMMA KnownNowIsKnown ==
    ASSUME RoutingInv
    PROVE  KnownNow \in Known /\ Offered \in SUBSET Models
  <1>1. Offered \in SUBSET Models
    BY FilteredAre DEF Offered
  <1>2. feedback \in [Models -> -100 .. 100] /\ recent \in Seq(Models)
    BY Zenon DEF RoutingInv, DataAreModels, ListsAreKept
  <1>. QED  BY <1>1, <1>2, KnowledgeIsKnown, Zenon DEF KnownNow

\* A model too small for the task is chosen over one that is large enough only with a lead
\* in its base score of what the size is worth, but for one point.
THEOREM SmallAlwaysNeedsALead == DispatchSpec => []SmallNeedsALead
  <1>1. RoutingInv => SmallNeedsALead
    <2> SUFFICES ASSUME RoutingInv, NEW k, k = KnownNow, NEW t \in Texts,
                        NEW c \in Candidates(Offered, Analyses[t][NoRequest], "text"),
                        TooSmall(TextChoice(t, k), Analyses[t][NoRequest]) > 0,
                        ExtractParameterCount[c] # Unknown,
                        TooSmall(c, Analyses[t][NoRequest]) = 0,
                        k.feedback[c] >= k.feedback[TextChoice(t, k)]
                 PROVE  Diversified(BaseScore(TextChoice(t, k), Analyses[t][NoRequest], k),
                                    k.frequency[TextChoice(t, k)])
                        - Diversified(BaseScore(c, Analyses[t][NoRequest], k), k.frequency[c])
                        >= 10000 * (TooSmall(TextChoice(t, k), Analyses[t][NoRequest]) - 1)
      BY DEF SmallNeedsALead
    <2> DEFINE a == Analyses[t][NoRequest]
               m == TextChoice(t, k)
    <2>1. a \in Analysed
      BY AnalysesAreAnalysed, DispatchAssumption
    <2>2. k \in Known /\ Offered \in SUBSET Models
      BY KnownNowIsKnown
    <2>3. m = Choice(Offered, a, "text", k)
      BY DEF TextChoice
    <2>4. Offered # {}
      BY NoCandidates
    <2> HIDE DEF a, m
    <2>5. /\ c \in Candidates(Offered, a, "text")
          /\ TooSmall(m, a) > 0 /\ TooSmall(c, a) = 0 /\ k.feedback[c] >= k.feedback[m]
      BY DEF a, m
    <2>6. m \in Models /\ c \in Models /\ TotalScore(c, a, k) <= TotalScore(m, a, k)
      BY <2>1, <2>2, <2>3, <2>4, <2>5, ChoiceIsBest, CandidatesAre DEF Best
    <2>7. Diversified(BaseScore(m, a, k), k.frequency[m])
          - Diversified(BaseScore(c, a, k), k.frequency[c]) >= 10000 * (TooSmall(m, a) - 1)
      BY <2>1, <2>2, <2>5, <2>6, SmallLeads
    <2>. QED  BY <2>7 DEF a, m
  <1>. QED  BY <1>1, RoutingInvariant, PTL

-------------------------------------------------------------------------------
(* New data                                                                *)

\* l says more of m than k does, nothing worse, and nothing else of the others named.
Better(k, l, m, names) ==
    /\ k \in Known /\ l \in Known /\ m \in Models
    /\ k.benchmark = l.benchmark /\ k.frequency = l.frequency /\ k.frequency[m] <= 85
    /\ k.profile[m] \in {NoProfile, l.profile[m]}
    /\ k.benchmarkOf[m] \in {NoModel, l.benchmarkOf[m]}
    /\ k.feedback[m] <= l.feedback[m]
    /\ \A n \in names \ {m} : /\ k.profile[n] = l.profile[n]
                              /\ k.benchmarkOf[n] = l.benchmarkOf[n]
                              /\ k.feedback[n] = l.feedback[n]

\* The others score what they scored.
LEMMA OthersScoreTheSame ==
    ASSUME NEW m, NEW names \in SUBSET Models, NEW k, NEW l, Better(k, l, m, names),
           NEW a, NEW n \in names \ {m}
    PROVE  TotalScore(n, a, k) = TotalScore(n, a, l)
  <1>1. /\ k.benchmark = l.benchmark /\ k.frequency = l.frequency
        /\ k.profile[n] = l.profile[n] /\ k.benchmarkOf[n] = l.benchmarkOf[n]
        /\ k.feedback[n] = l.feedback[n]
    BY Zenon DEF Better
  <1>2. Benchmark(n, k) = Benchmark(n, l)
    BY <1>1, Zenon DEF Benchmark
  <1>3. BaseScore(n, a, k) = BaseScore(n, a, l)
    BY <1>1, <1>2, Zenon DEF BaseScore
  <1>4. SpeedBonus(n, a, k) = SpeedBonus(n, a, l) /\ NewnessBonus(n, k) = NewnessBonus(n, l)
    BY <1>1 DEF SpeedBonus, NewnessBonus
  <1>5. Bonus(n, a, k) = Bonus(n, a, l)
    BY <1>1, <1>4 DEF Bonus
  <1>. QED  BY <1>1, <1>3, <1>5, Zenon DEF TotalScore

\* More base score is more with the reduction for being chosen often, up to six times of seven.
LEMMA DiversifiedGrows ==
    ASSUME NEW b \in Nat, NEW d \in Nat, b <= d, NEW f \in Nat, f <= 85
    PROVE  /\ Diversified(b, f) \in Int /\ Diversified(d, f) \in Int
           /\ Diversified(b, f) <= Diversified(d, f)
  <1>1. CASE f > 50
    <2> DEFINE x == ((f - 50) * 7) \div 5
               multiplier == AtLeast(30, 100 - x)
               factor == multiplier - (100 - multiplier)
    <2>1. x \in 1 .. 49
      BY <1>1
    <2>2. factor \in Nat
      <3> HIDE DEF x
      <3>. QED  BY <2>1 DEF AtLeast
    <2>3. Diversified(b, f) = (b * factor) \div 100 /\ Diversified(d, f) = (d * factor) \div 100
      BY <1>1 DEF Diversified
    <2> HIDE DEF x, multiplier, factor
    <2>4. b * factor \in Nat /\ d * factor \in Nat /\ b * factor <= d * factor
      BY <2>2, ProductsGrow
    <2>5. \A u, v \in Nat : u <= v => u \div 100 \in Nat /\ v \div 100 \in Nat
                                      /\ u \div 100 <= v \div 100
      OBVIOUS
    <2>. QED  BY <2>3, <2>4, <2>5
  <1>2. CASE ~(f > 50)
    BY <1>2 DEF Diversified
  <1>. QED  BY <1>1, <1>2

\* The model scores no less than it did.
LEMMA GainerScoresMore ==
    ASSUME NEW m, NEW names \in SUBSET Models, NEW k, NEW l, Better(k, l, m, names),
           NEW a \in Analysed
    PROVE  TotalScore(m, a, k) <= TotalScore(m, a, l)
  <1>1. /\ k \in Known /\ l \in Known /\ m \in Models
        /\ k.benchmark = l.benchmark /\ k.frequency = l.frequency /\ k.frequency[m] <= 85
        /\ k.profile[m] \in {NoProfile, l.profile[m]}
        /\ k.benchmarkOf[m] \in {NoModel, l.benchmarkOf[m]}
        /\ k.feedback[m] <= l.feedback[m]
    BY Zenon DEF Better
  <1> DEFINE row == Benchmark(m, k)
             new == Benchmark(m, l)
  <1>2. row \in {NoBenchmark, new} /\ row \in BenchmarkScores /\ new \in BenchmarkScores
    BY <1>1, BenchmarkIsRow DEF Benchmark
  <1>3. l.profile[m] \in ProfileRow
    BY <1>1, BenchmarkIsRow
  <1> HIDE DEF row, new
  <1>4. ASSUME NEW c \in Categories
        PROVE  /\ BenchmarkSignal(c, row) <= BenchmarkSignal(c, new)
               /\ EloSignal(row) <= EloSignal(new)
               /\ ProfileSignal(c, k.profile[m]) <= ProfileSignal(c, l.profile[m])
    <2>1. /\ BenchmarkSignal(c, new) \in Nat /\ EloSignal(new) \in Nat
          /\ ProfileSignal(c, l.profile[m]) \in Nat
      BY <1>2, <1>3, SignalsAreNumbers
    <2>2. \A x \in Nat : x <= x /\ 0 <= x
      OBVIOUS
    <2>3. /\ BenchmarkSignal(c, row) \in {0, BenchmarkSignal(c, new)}
          /\ EloSignal(row) \in {0, EloSignal(new)}
      BY <1>2, NothingIsNoSignal
    <2>4. ProfileSignal(c, k.profile[m]) \in {0, ProfileSignal(c, l.profile[m])}
      BY <1>1, NothingIsNoSignal
    <2>. QED  BY <2>1, <2>2, <2>3, <2>4
  <1>5. /\ BaseScore(m, a, k) \in Nat /\ BaseScore(m, a, l) \in Nat
        /\ BaseScore(m, a, k) <= BaseScore(m, a, l)
    <2>1. "coding" \in Categories
      BY TasksAre
    <2>. QED  BY <1>1, <1>4, <2>1, BaseScoreGrows DEF row, new
  <1> DEFINE D == Diversified(BaseScore(m, a, k), k.frequency[m])
             E == Diversified(BaseScore(m, a, l), l.frequency[m])
  <1>6. D \in Int /\ E \in Int /\ D <= E
    <2>1. k.frequency[m] \in Nat
      BY <1>1 DEF Known
    <2>. QED  BY <1>1, <1>5, <2>1, DiversifiedGrows
  <1> DEFINE taken == IF k.benchmarkOf[m] # NoModel THEN 300 * QualityWeight ELSE 0
             takes == IF l.benchmarkOf[m] # NoModel THEN 300 * QualityWeight ELSE 0
  <1>7. taken \in Int /\ takes \in Int /\ taken <= takes
    <2>1. QualityWeight \in Nat /\ 300 * QualityWeight \in Nat
      BY WeightsAre
    <2>. QED  BY <1>1, <2>1
  <1> DEFINE liked == 200 * k.feedback[m]
             likes == 200 * l.feedback[m]
  <1>8. liked \in Int /\ likes \in Int /\ liked <= likes
    <2>1. k.feedback[m] \in Int /\ l.feedback[m] \in Int
      BY <1>1 DEF Known
    <2>. QED  BY <1>1, <2>1
  <1> DEFINE speed == SpeedBonus(m, a, k)
             speeds == SpeedBonus(m, a, l)
  <1>9. speed \in Int /\ speeds \in Int /\ speed <= speeds
    <2>1. 400 * SpeedWeight \in Nat
      BY WeightsAre
    <2>2. speed \in 0 .. 400 * SpeedWeight /\ speeds \in 0 .. 400 * SpeedWeight
      BY <1>1, SpeedBonusIs
    <2>3. CASE k.profile[m] = NoProfile
      <3>1. speed = 0
        BY <1>1, <2>3, SpeedBonusIs
      <3> HIDE DEF speed, speeds
      <3>. QED  BY <2>1, <2>2, <3>1
    <2>4. CASE k.profile[m] = l.profile[m]
      <3>1. speed = speeds
        BY <2>4 DEF SpeedBonus
      <3> HIDE DEF speed, speeds
      <3>. QED  BY <2>1, <2>2, <3>1
    <2>. QED  BY <1>1, <2>3, <2>4
  <1> DEFINE newness == NewnessBonus(m, k)
             newer == NewnessBonus(m, l)
  <1>10. newness \in Int /\ newer \in Int /\ newness <= newer
    <2>1. newness \in 0 .. 500 /\ newer \in 0 .. 500
      BY <1>1, NewnessBonusIs
    <2>2. CASE k.profile[m] = NoProfile
      <3>1. newness = 0
        BY <1>1, <2>2, NewnessBonusIs
      <3> HIDE DEF newness, newer
      <3>. QED  BY <2>1, <3>1
    <2>3. CASE k.profile[m] = l.profile[m]
      <3>1. newness = newer
        BY <2>3, Zenon DEF NewnessBonus
      <3> HIDE DEF newness, newer
      <3>. QED  BY <2>1, <3>1
    <2>. QED  BY <1>1, <2>2, <2>3
  <1> DEFINE size == SizeBonus(m, a)
             small == 10000 * TooSmall(m, a)
  <1>11. size \in Int /\ small \in Int
    <2>1. TooSmall(m, a) \in Int /\ size \in Int
      BY <1>1, SizeBonusIsInt, TooSmallIsNumber
    <2>. QED  BY <2>1
  <1>12. /\ TotalScore(m, a, k) = D + (liked + taken + size - small + speed + newness)
         /\ TotalScore(m, a, l) = E + (likes + takes + size - small + speeds + newer)
    BY DEF TotalScore, Bonus
  <1> HIDE DEF D, E, taken, takes, liked, likes, speed, speeds, newness, newer, size, small
  <1>. QED  BY <1>6, <1>7, <1>8, <1>9, <1>10, <1>11, <1>12

\* A model that is chosen is chosen still when more is known of it.
LEMMA GainerStaysChosen ==
    ASSUME NEW names \in SUBSET Models, names # {}, NEW modality, NEW a \in Analysed,
           NEW m, NEW k, NEW l, Better(k, l, m, names), Choice(names, a, modality, k) = m
    PROVE  Choice(names, a, modality, l) = m
  <1> DEFINE able == Candidates(names, a, modality)
             best == Best(names, a, modality, k)
             after == Best(names, a, modality, l)
  <1>1. k \in Known /\ l \in Known /\ m \in Models
    BY Zenon DEF Better
  <1>2. /\ able \in SUBSET names
    BY CandidatesAre, ModelsForModalityAre
  <1>3. /\ m = First(best) /\ m \in best /\ best \in SUBSET Models
        /\ Choice(names, a, modality, l) = First(after) /\ after \in SUBSET Models
    BY <1>1, ChoiceIsBest
  <1>4. \A n \in able : TotalScore(n, a, k) \in Int /\ TotalScore(n, a, l) \in Int
    BY <1>1, <1>2, ScoresAreNumbers
  <1>5. \A n \in able \ {m} : TotalScore(n, a, k) = TotalScore(n, a, l)
    BY <1>2, OthersScoreTheSame
  <1>6. TotalScore(m, a, k) <= TotalScore(m, a, l)
    BY GainerScoresMore
  <1> DEFINE old == [n \in able |-> TotalScore(n, a, k)]
             new == [n \in able |-> TotalScore(n, a, l)]
  <1>7. /\ best = {n \in able : \A x \in able : old[x] <= old[n]}
        /\ after = {n \in able : \A x \in able : new[x] <= new[n]}
    BY DEF Best
  <1>8. /\ old \in [able -> Int] /\ new \in [able -> Int] /\ m \in able
        /\ (\A n \in able \ {m} : old[n] = new[n]) /\ old[m] <= new[m]
    BY <1>3, <1>4, <1>5, <1>6, <1>7
  <1> HIDE DEF able, best, after, old, new
  <1>9. m \in after
    <2>1. \A x \in able : old[x] <= old[m]
      BY <1>3, <1>7
    <2>2. \A x \in able : new[x] <= new[m]
      BY <1>8, <2>1
    <2>. QED  BY <1>7, <1>8, <2>2
  <1>10. after \in SUBSET best
    <2> SUFFICES ASSUME NEW x \in after, x # m
                 PROVE  x \in best
      BY <1>3
    <2>1. x \in able /\ new[m] <= new[x] /\ \A n \in able : old[n] <= old[m]
      BY <1>3, <1>7, <1>8
    <2>2. \A n \in able : old[n] <= old[x]
      BY <1>8, <2>1
    <2>. QED  BY <1>7, <2>1, <2>2
  <1>. QED  BY <1>3, <1>9, <1>10, FirstStays

\* Data and selections do not change in one step.
LEMMA DataOrSelections ==
    ASSUME DispatchNext, data' # data
    PROVE  recent' = recent
  <1>1. ASSUME NEW r \in Requests,
               Begin(r) \/ List(r) \/ LLMDispatchFails(r) \/ Score(r) \/ GiveUp(r)
        PROVE  data' = data
    BY <1>1 DEF Begin, List, LLMDispatchFails, Score, GiveUp, data
  <1>2. ASSUME NEW r \in Requests, NEW m \in Models, LLMDispatch(r, m) \/ Serve(r, m)
        PROVE  data' = data
    BY <1>2 DEF LLMDispatch, Serve, data
  <1>3. ASSUME NEW t \in Texts, Explain(t)
        PROVE  data' = data
    BY <1>3 DEF Explain, data
  <1>4. ASSUME NEW m \in Models,
               NewProfile(m) \/ NewBenchmark(m) \/ \E score \in {0, 100} : Rate(m, score)
        PROVE  recent' = recent
    BY <1>4 DEF NewProfile, NewBenchmark, Rate
  <1>. QED  BY <1>1, <1>2, <1>3, <1>4, Zenon DEF DispatchNext

\* What a gain makes known is better.
LEMMA GainIsBetter ==
    ASSUME RoutingInv, RoutingInv', DispatchNext, NEW m \in Models, Gains(m),
           Frequency(m) <= 85
    PROVE  Better(KnownNow, KnownNow', m, Offered)
  <1> DEFINE k == KnownNow
             l == KnownNow'
  <1>1. /\ data' # data /\ feedback'[m] >= feedback[m]
        /\ profiled \subseteq profiled' /\ profiled' \subseteq profiled \cup {m}
        /\ \A n \in Models \ {m} : feedback'[n] = feedback[n]
        /\ k.benchmarkOf[m] \in {NoModel, l.benchmarkOf[m]}
        /\ \A n \in Offered \ {m} : k.benchmarkOf[n] = l.benchmarkOf[n]
    BY DEF Gains
  <1>2. recent' = recent
    BY <1>1, DataOrSelections
  <1>3. k \in Known /\ Offered \in SUBSET Models
    BY KnownNowIsKnown
  <1>4. /\ k = [profile |-> [n \in Models |-> IF n \in profiled THEN Profile[n] ELSE NoProfile],
                benchmarkOf |-> [n \in Models |-> BenchmarkFor(n, Offered \cap benchmarked)],
                benchmark |-> BenchmarkRow, feedback |-> feedback,
                frequency |-> [n \in Models |-> Frequency(n)]]
        /\ l = [profile |-> [n \in Models |-> IF n \in profiled' THEN Profile[n] ELSE NoProfile],
                benchmarkOf |-> [n \in Models |-> BenchmarkFor(n, Offered \cap benchmarked')],
                benchmark |-> BenchmarkRow, feedback |-> feedback',
                frequency |-> [n \in Models |-> Frequency(n)]]
    BY <1>2 DEF KnownNow, Knowledge, Frequency, Offered, FilterModelInfos
  <1>5. l \in Known
    <2>1. [n \in Models |-> IF n \in profiled' THEN Profile[n] ELSE NoProfile]
              \in [Models -> ProfileRow]
      BY DispatchAssumption DEF NoProfile, ProfileRow
    <2>2. [n \in Models |-> BenchmarkFor(n, Offered \cap benchmarked')]
              \in [Models -> Models \cup {NoModel}]
      BY <1>3, BenchmarkForOne
    <2>3. BenchmarkRow \in [Models -> BenchmarkScores]
      BY DispatchAssumption DEF BenchmarkScores
    <2>4. feedback' \in [Models -> Int]
      <3>1. feedback' \in [Models -> -100 .. 100]
        BY Zenon DEF RoutingInv, DataAreModels
      <3>. QED  BY <3>1
    <2>5. [n \in Models |-> Frequency(n)] \in [Models -> Nat]
      BY <1>3, <1>4 DEF Known
    <2>. QED  BY <1>4, <2>1, <2>2, <2>3, <2>4, <2>5 DEF Known
  <1>6. /\ k.benchmark = l.benchmark /\ k.frequency = l.frequency
        /\ k.frequency[m] <= 85
    BY <1>4
  <1>7. k.feedback[m] <= l.feedback[m] /\ \A n \in Models \ {m} : k.feedback[n] = l.feedback[n]
    <2>1. k.feedback = feedback /\ l.feedback = feedback'
      BY <1>4
    <2>2. feedback[m] \in Int /\ feedback'[m] \in Int
      BY <1>3, <1>5, <2>1 DEF Known
    <2>. QED  BY <1>1, <2>1, <2>2
  <1>8. /\ k.profile[m] \in {NoProfile, l.profile[m]}
        /\ \A n \in Models \ {m} : k.profile[n] = l.profile[n]
    <2>1. \A n \in Models :
              /\ k.profile[n] = IF n \in profiled THEN Profile[n] ELSE NoProfile
              /\ l.profile[n] = IF n \in profiled' THEN Profile[n] ELSE NoProfile
      BY <1>4
    <2> HIDE DEF k, l
    <2>. QED  BY <1>1, <2>1
  <1> HIDE DEF k, l
  <1>9. Better(k, l, m, Offered)
    BY <1>1, <1>3, <1>5, <1>6, <1>7, <1>8 DEF Better
  <1>. QED  BY <1>9 DEF k, l

\* Where models are scored, because something is known already, new data, a profile, a
\* benchmark or better feedback, never makes a prompt lose the model it is about, if that
\* has not been chosen more than six times out of seven.
THEOREM NewDataNeverDemotesIt == DispatchSpec => NewDataNeverDemotes
  <1> DEFINE Stays == \A m \in Models :
                 /\ Gains(m)
                 /\ HasData
                 /\ \A r \in Requests : At(r, "idle")
                 /\ Frequency(m) <= 85
                 => \A before \in {KnownNow}, after \in {KnownNow'}, t \in Texts :
                        TextChoice(t, before) = m => TextChoice(t, after) = m
  <1>1. RoutingInv /\ RoutingInv' /\ [DispatchNext]_dispatchVars => [Stays]_dispatchVars
    <2> SUFFICES ASSUME RoutingInv, RoutingInv', DispatchNext, NEW m \in Models,
                        Gains(m), Frequency(m) <= 85, NEW t \in Texts,
                        TextChoice(t, KnownNow) = m
                 PROVE  TextChoice(t, KnownNow') = m
      OBVIOUS
    <2> DEFINE k == KnownNow
               l == KnownNow'
               a == Analyses[t][NoRequest]
    <2>1. Better(k, l, m, Offered)
      BY GainIsBetter
    <2>2. a \in Analysed /\ Offered \in SUBSET Models
      BY AnalysesAreAnalysed, KnownNowIsKnown, DispatchAssumption
    <2>3. Choice(Offered, a, "text", k) = m
      BY DEF TextChoice
    <2>4. TextChoice(t, KnownNow') = Choice(Offered, a, "text", l)
      BY DEF TextChoice
    <2> HIDE DEF a, k, l
    <2>5. CASE Offered # {}
      BY <2>1, <2>2, <2>3, <2>4, <2>5, GainerStaysChosen
    <2>6. CASE Offered = {}
      BY <2>3, <2>4, <2>6, NoCandidates DEF Choice
    <2>. QED  BY <2>5, <2>6
  <1>2. DispatchSpec => [][Stays]_dispatchVars
    BY <1>1, RoutingInvariant, PTL DEF DispatchSpec
  <1>. QED  BY <1>2 DEF NewDataNeverDemotes
===============================================================================
