------------------------- MODULE BackgroundSyncProofs -------------------------
(***************************************************************************)
(* The upkeep of the profiles, for any models, any number of calls at the  *)
(* same time and any settings: what a measurement found is never lost, and *)
(* no call profiles more models at once than it has slots.                 *)
(***************************************************************************)
EXTENDS BackgroundSync, FiniteSetTheorems, TLAPS

Row == [exists : BOOLEAN, active : BOOLEAN, measured : BOOLEAN]

Phases == {"none", "todo", "running", "done"}

Calls == [op : {"none", "refresh", "profile", "reprofile"},
          at : {"idle", "fetching", "listing", "profiling"}]

\* The part of the type invariant that says nothing of profiles and of work.
Plain ==
    /\ listed \in Inventories
    /\ {settled, syncDue} \subseteq BOOLEAN
    /\ client \in [models : Lists, young : BOOLEAN]
    /\ engine \in Lists
    /\ call \in [Callers -> Calls]
    /\ stage \in {"refresh", "sync", "profile", "asleep"}

\* There may be any number of models, but only finitely many are being profiled.
Slots ==
    \A c \in Callers :
        /\ IsFiniteSet(With(c, "running"))
        /\ Cardinality(With(c, "running")) <= ParallelCount

WorkOK == work \in [Callers -> [Models -> Phases]] /\ Slots

IInv == Plain /\ profiles \in [Models -> Row] /\ WorkOK

-------------------------------------------------------------------------------
(* Profiles                                                                *)

\* What a step may make of the profiles: rows change their availability, a row is
\* saved, or nothing happens to them.
ProfilesStep ==
    \/ profiles' = profiles
    \/ \E names : \E cleanup \in BOOLEAN : profiles' = Availability(names, cleanup)
    \/ \E m \in Models, measured \in BOOLEAN :
           profiles' = [profiles EXCEPT ![m] = Saved(m, measured)]
    \/ \E marked : profiles' = [m \in Models |->
           IF m \in marked THEN [profiles[m] EXCEPT !.active = TRUE] ELSE profiles[m]]

\* Missing models are to be marked, or they are not.
LEMMA CleanupsAre == \A c : Cleanups(c) \subseteq BOOLEAN
  BY SyncAssumption DEF Cleanups

\* Whatever calls overlap, no action does anything else to the profiles.
LEMMA ProfilesChange == [Next]_vars => ProfilesStep
  <1> SUFFICES ASSUME [Next]_vars
               PROVE  ProfilesStep
    OBVIOUS
  <1>1. ASSUME NEW c \in Callers, Step(c)
        PROVE  ProfilesStep
    <2>1. CASE RefreshFromCache(c)
      BY <2>1, CleanupsAre DEF RefreshFromCache, Refresh, ProfilesStep
    <2>2. CASE RefreshLists(c) \/ ListingFails(c)
      BY <2>2 DEF RefreshLists, ListingFails, ProfilesStep
    <2>3. ASSUME NEW names \in Lists,
                 \/ RefreshListed(c, names)
                 \/ NothingToProfile(c, names)
                 \/ ProfilingBegins(c, names)
                 \/ DatabaseFails(c, names)
          PROVE  ProfilesStep
      BY <2>3, CleanupsAre DEF RefreshListed, Refresh, NothingToProfile, ProfilingBegins,
         DatabaseFails, ProfilesStep
    <2>4. ASSUME NEW m \in Models, StartModel(c, m) \/ SaveFails(c, m) \/ ModelFails(c, m)
          PROVE  ProfilesStep
      BY <2>4 DEF StartModel, SaveFails, ModelFails, ProfilesStep
    <2>5. CASE Finish(c)
      BY <2>5 DEF Finish, ProfilesStep
    <2> QED
      BY <1>1, <2>1, <2>2, <2>3, <2>4, <2>5 DEF Step
  <1>2. ASSUME NEW c \in Callers, Cancel(c)
        PROVE  ProfilesStep
    BY <1>2 DEF Cancel, ProfilesStep
  <1>3. ASSUME NEW c \in Callers, NEW op, Ask(c, op)
        PROVE  ProfilesStep
    BY <1>3 DEF Ask, ProfilesStep
  <1>4. ASSUME NEW m \in Models, Saves(m)
        PROVE  ProfilesStep
    BY <1>4 DEF Saves, SaveProfile, ProfilesStep
  <1>5. CASE LoopStep
    BY <1>5 DEF LoopStep, LoopSkipsRefresh, LoopSkipsSync, LoopSyncs, LoopSyncFails, LastSyncUnknown,
       LoopProfiles, LoopWakes, GoTo, ProfilesStep
  <1>6. ASSUME NEW models \in Inventories, ModelsChange(models)
        PROVE  ProfilesStep
    BY <1>6 DEF ModelsChange, ProfilesStep
  <1>7. CASE ClientListAges \/ EngineListAges \/ DayPasses \/ Restart \/ Settle
    BY <1>7 DEF ClientListAges, EngineListAges, DayPasses, Restart, Settle, ProfilesStep
  <1>8. CASE UNCHANGED vars
    BY <1>8 DEF vars, ProfilesStep
  <1> QED
    BY <1>1, <1>2, <1>3, <1>4, <1>5, <1>6, <1>7, <1>8 DEF Next

\* A row that changes its availability stays a row, with the measurement it had.
LEMMA MarkedRow ==
    ASSUME NEW row \in Row, NEW active \in BOOLEAN
    PROVE  /\ [row EXCEPT !.active = active] \in Row
           /\ [row EXCEPT !.active = active].measured = row.measured
  BY DEF Row

\* So profiles stay profiles, and no measurement is lost.
LEMMA ProfilesKept ==
    ASSUME profiles \in [Models -> Row], ProfilesStep
    PROVE  /\ profiles' \in [Models -> Row]
           /\ \A m \in Models : profiles[m].measured => profiles'[m].measured
  <1>1. CASE profiles' = profiles
    BY <1>1
  <1>2. ASSUME NEW names, NEW cleanup \in BOOLEAN, profiles' = Availability(names, cleanup)
        PROVE  /\ profiles' \in [Models -> Row]
               /\ \A m \in Models : profiles[m].measured => profiles'[m].measured
    <2>1. \A m \in Models :
              profiles'[m] \in {profiles[m], [profiles[m] EXCEPT !.active = TRUE],
                                [profiles[m] EXCEPT !.active = FALSE]}
      BY <1>2 DEF Availability
    <2>2. \A m \in Models : profiles'[m] \in Row /\ profiles'[m].measured = profiles[m].measured
      BY <2>1, MarkedRow
    <2>3. profiles' = [m \in Models |-> profiles'[m]]
      BY <1>2 DEF Availability
    <2> QED
      BY <2>2, <2>3
  <1>3. ASSUME NEW m \in Models, NEW measured \in BOOLEAN,
               profiles' = [profiles EXCEPT ![m] = Saved(m, measured)]
        PROVE  /\ profiles' \in [Models -> Row]
               /\ \A n \in Models : profiles[n].measured => profiles'[n].measured
    <2>1. Saved(m, measured) \in Row /\ (profiles[m].measured => Saved(m, measured).measured)
      BY DEF Saved, Row
    <2>2. \A n \in Models : profiles'[n] = IF n = m THEN Saved(m, measured) ELSE profiles[n]
      BY <1>3
    <2> QED
      BY <1>3, <2>1, <2>2
  <1>4. ASSUME NEW marked,
               profiles' = [m \in Models |->
                   IF m \in marked THEN [profiles[m] EXCEPT !.active = TRUE] ELSE profiles[m]]
        PROVE  /\ profiles' \in [Models -> Row]
               /\ \A m \in Models : profiles[m].measured => profiles'[m].measured
    <2>1. \A m \in Models :
              profiles'[m] \in {profiles[m], [profiles[m] EXCEPT !.active = TRUE]}
      BY <1>4
    <2>2. \A m \in Models : profiles'[m] \in Row /\ profiles'[m].measured = profiles[m].measured
      BY <2>1, MarkedRow
    <2>3. profiles' = [m \in Models |-> profiles'[m]]
      BY <1>4
    <2> QED
      BY <2>2, <2>3
  <1> QED
    BY <1>1, <1>2, <1>3, <1>4 DEF ProfilesStep

-------------------------------------------------------------------------------
(* Work                                                                    *)

\* Work is left alone, laid down, taken up, or goes on with one model, for which there
\* was a slot if it begins.
WorkStep ==
    \/ work' = work
    \/ work' = [c \in Callers |-> NoWork]
    \/ \E c \in Callers : work' = [work EXCEPT ![c] = NoWork]
    \/ \E c \in Callers : \E names :
           work' = [work EXCEPT ![c] =
                       [m \in Models |-> IF m \in names THEN "todo" ELSE "none"]]
    \/ \E c \in Callers, m \in Models, phase \in Phases :
           /\ work' = [work EXCEPT ![c][m] = phase]
           /\ phase = "running" => Cardinality(With(c, "running")) < ParallelCount

\* No action does anything else to the work.
LEMMA WorkChange == [Next]_vars => WorkStep
  <1> SUFFICES ASSUME [Next]_vars
               PROVE  WorkStep
    OBVIOUS
  <1>1. ASSUME NEW c \in Callers, Step(c)
        PROVE  WorkStep
    <2>1. CASE RefreshFromCache(c)
      BY <2>1 DEF RefreshFromCache, Refresh, Return, WorkStep
    <2>2. CASE RefreshLists(c) \/ ListingFails(c)
      BY <2>2 DEF RefreshLists, ListingFails, Return, WorkStep
    <2>3. ASSUME NEW names \in Lists,
                 \/ RefreshListed(c, names)
                 \/ NothingToProfile(c, names)
                 \/ ProfilingBegins(c, names)
                 \/ DatabaseFails(c, names)
          PROVE  WorkStep
      BY <2>3 DEF RefreshListed, Refresh, Return, NothingToProfile, ProfilingBegins,
         DatabaseFails, WorkStep
    <2>4. ASSUME NEW m \in Models, StartModel(c, m)
          PROVE  WorkStep
      <3>1. "running" \in Phases
        BY DEF Phases
      <3> QED
        BY <2>4, <3>1 DEF StartModel, Advance, WorkStep
    <2>5. ASSUME NEW m \in Models, SaveFails(c, m) \/ ModelFails(c, m)
          PROVE  WorkStep
      <3>1. PICK phase \in {Done(c), "none"} : work' = [work EXCEPT ![c][m] = phase]
        BY <2>5 DEF SaveFails, ModelFails, Advance
      <3>2. phase \in Phases /\ phase # "running"
        BY <3>1 DEF Done, Phases
      <3> QED
        BY <3>1, <3>2 DEF WorkStep
    <2>6. CASE Finish(c)
      BY <2>6 DEF Finish, Return, WorkStep
    <2> QED
      BY <1>1, <2>1, <2>2, <2>3, <2>4, <2>5, <2>6 DEF Step
  <1>2. ASSUME NEW c \in Callers, Cancel(c)
        PROVE  WorkStep
    BY <1>2 DEF Cancel, Return, WorkStep
  <1>3. ASSUME NEW c \in Callers, NEW op, Ask(c, op)
        PROVE  WorkStep
    BY <1>3 DEF Ask, WorkStep
  <1>4. ASSUME NEW m \in Models, Saves(m)
        PROVE  WorkStep
    <2>1. PICK c \in Callers : work' = [work EXCEPT ![c][m] = Done(c)]
      BY <1>4 DEF Saves, SaveProfile, Advance
    <2>2. Done(c) \in Phases /\ Done(c) # "running"
      BY DEF Done, Phases
    <2> QED
      BY <2>1, <2>2 DEF WorkStep
  <1>5. CASE LoopStep
    BY <1>5 DEF LoopStep, LoopSkipsRefresh, LoopSkipsSync, LoopSyncs, LoopSyncFails, LastSyncUnknown,
       LoopProfiles, LoopWakes, GoTo, WorkStep
  <1>6. ASSUME NEW models \in Inventories, ModelsChange(models)
        PROVE  WorkStep
    BY <1>6 DEF ModelsChange, WorkStep
  <1>7. CASE ClientListAges \/ EngineListAges \/ DayPasses \/ Restart \/ Settle
    BY <1>7 DEF ClientListAges, EngineListAges, DayPasses, Restart, Settle, WorkStep
  <1>8. CASE UNCHANGED vars
    BY <1>8 DEF vars, WorkStep
  <1> QED
    BY <1>1, <1>2, <1>3, <1>4, <1>5, <1>6, <1>7, <1>8 DEF Next

\* A call without a model in a phase has nothing to count.
LEMMA NoneRunning ==
    /\ IsFiniteSet({}) /\ Cardinality({}) <= ParallelCount
  BY FS_EmptySet, SyncAssumption

\* So no call ever profiles more models at once than it has slots.
LEMMA WorkKept ==
    ASSUME WorkOK, WorkStep
    PROVE  WorkOK'
  <1>1. CASE work' = work
    BY <1>1 DEF WorkOK, Slots, With
  <1>2. ASSUME work' = [c \in Callers |-> NoWork]
        PROVE  WorkOK'
    <2>1. work' \in [Callers -> [Models -> Phases]]
      BY <1>2 DEF NoWork, Phases
    <2>2. \A c \in Callers : With(c, "running")' = {}
      BY <1>2 DEF With, NoWork
    <2> QED
      BY <2>1, <2>2, NoneRunning DEF WorkOK, Slots
  <1>3. ASSUME NEW c \in Callers, NEW given \in [Models -> {"todo", "none"}],
               work' = [work EXCEPT ![c] = given]
        PROVE  WorkOK'
    <2>1. work' \in [Callers -> [Models -> Phases]]
      BY <1>3 DEF WorkOK, Phases
    <2>2. \A d \in Callers : With(d, "running")' = IF d = c THEN {} ELSE With(d, "running")
      BY <1>3 DEF With, WorkOK
    <2> QED
      BY <2>1, <2>2, NoneRunning DEF WorkOK, Slots
  <1>4. ASSUME NEW c \in Callers, NEW m \in Models, NEW phase \in Phases,
               work' = [work EXCEPT ![c][m] = phase],
               phase = "running" => Cardinality(With(c, "running")) < ParallelCount
        PROVE  WorkOK'
    <2>1. work' \in [Callers -> [Models -> Phases]]
      BY <1>4 DEF WorkOK
    <2>2. \A d \in Callers \ {c} : With(d, "running")' = With(d, "running")
      BY <1>4 DEF With, WorkOK
    <2>3. With(c, "running")' \subseteq With(c, "running") \cup {m}
      BY <1>4 DEF With, WorkOK
    <2>4. /\ IsFiniteSet(With(c, "running"))
          /\ Cardinality(With(c, "running")) <= ParallelCount
          /\ Cardinality(With(c, "running")) \in Nat
      BY FS_CardinalityType DEF WorkOK, Slots
    <2>5. CASE phase = "running"
      <3>1. /\ IsFiniteSet(With(c, "running") \cup {m})
            /\ Cardinality(With(c, "running") \cup {m}) <= Cardinality(With(c, "running")) + 1
        <4> DEFINE now == With(c, "running")
        <4>1. IsFiniteSet(now) /\ Cardinality(now) \in Nat
          BY <2>4
        <4> HIDE DEF now
        <4>2. /\ IsFiniteSet(now \cup {m})
              /\ Cardinality(now \cup {m})
                   = IF m \in now THEN Cardinality(now) ELSE Cardinality(now) + 1
          BY <4>1, FS_AddElement
        <4>3. IsFiniteSet(now \cup {m}) /\ Cardinality(now \cup {m}) <= Cardinality(now) + 1
          BY <4>1, <4>2
        <4> QED
          BY <4>3 DEF now
      <3>2. /\ IsFiniteSet(With(c, "running")')
            /\ Cardinality(With(c, "running")')
                 <= Cardinality(With(c, "running") \cup {m})
            /\ Cardinality(With(c, "running")') \in Nat
            /\ Cardinality(With(c, "running") \cup {m}) \in Nat
        BY <2>3, <3>1, FS_Subset, FS_CardinalityType
      <3>3. Cardinality(With(c, "running")') <= ParallelCount
        BY <1>4, <2>4, <2>5, <3>1, <3>2, SyncAssumption
      <3> QED
        BY <2>1, <2>2, <3>2, <3>3 DEF WorkOK, Slots
    <2>6. CASE phase # "running"
      <3>1. With(c, "running")' \subseteq With(c, "running")
        BY <1>4, <2>6 DEF With, WorkOK
      <3>2. /\ IsFiniteSet(With(c, "running")')
            /\ Cardinality(With(c, "running")') <= Cardinality(With(c, "running"))
            /\ Cardinality(With(c, "running")') \in Nat
        BY <2>4, <3>1, FS_Subset, FS_CardinalityType
      <3>3. Cardinality(With(c, "running")') <= ParallelCount
        BY <2>4, <3>2, SyncAssumption
      <3> QED
        BY <2>1, <2>2, <3>2, <3>3 DEF WorkOK, Slots
    <2> QED
      BY <2>5, <2>6
  <1>5. NoWork \in [Models -> {"todo", "none"}]
    BY DEF NoWork
  <1>6. \A names : [m \in Models |-> IF m \in names THEN "todo" ELSE "none"]
                       \in [Models -> {"todo", "none"}]
    OBVIOUS
  <1> QED
    BY <1>1, <1>2, <1>3, <1>4, <1>5, <1>6 DEF WorkStep

-------------------------------------------------------------------------------
(* Everything else                                                         *)

\* A call that returns is idle, and the background task is at some stage.
LEMMA ReturnIsPlain ==
    ASSUME Plain, NEW c \in Callers, Return(c)
    PROVE  call' \in [Callers -> Calls] /\ stage' \in {"refresh", "sync", "profile", "asleep"}
  <1>1. call' \in [Callers -> Calls]
    BY DEF Plain, Return, Idle, Calls
  <1>2. stage' \in {"refresh", "sync", "profile", "asleep"}
    BY DEF Plain, Return, StageAfter
  <1> QED
    BY <1>1, <1>2

\* A refresh ends, or goes on to the profiling of what is new.
LEMMA RefreshIsPlain ==
    ASSUME Plain, NEW c \in Callers, NEW names, Refresh(c, names)
    PROVE  call' \in [Callers -> Calls] /\ stage' \in {"refresh", "sync", "profile", "asleep"}
  <1>1. CASE Return(c)
    BY <1>1, ReturnIsPlain
  <1>2. CASE call' = [call EXCEPT ![c] = [op |-> "refresh", at |-> "listing"]] /\ UNCHANGED stage
    BY <1>2 DEF Plain, Calls
  <1> QED
    BY <1>1, <1>2 DEF Refresh

\* The client keeps a list the backend may have had.
LEMMA ListingIsPlain ==
    ASSUME Plain, NEW names, ListModels(names)
    PROVE  client' \in [models : Lists, young : BOOLEAN]
  <1>1. listed \in Lists /\ TRUE \in BOOLEAN
    BY DEF Plain, Lists
  <1>2. [models |-> listed, young |-> TRUE] \in [models : Lists, young : BOOLEAN]
    BY <1>1
  <1>3. client' \in {client, [models |-> listed, young |-> TRUE]}
    BY DEF ListModels
  <1> QED
    BY <1>2, <1>3 DEF Plain

\* Every step keeps what Plain says.
LEMMA PlainKept == Plain /\ [Next]_vars => Plain'
  <1> SUFFICES ASSUME Plain, [Next]_vars
               PROVE  Plain'
    OBVIOUS
  <1>1. ASSUME NEW c \in Callers, Step(c)
        PROVE  Plain'
    <2>1. CASE RefreshFromCache(c)
      BY <2>1, RefreshIsPlain DEF RefreshFromCache, Plain
    <2>2. CASE RefreshLists(c)
      BY <2>2 DEF RefreshLists, Plain, Calls
    <2>3. CASE ListingFails(c)
      BY <2>3, ReturnIsPlain DEF ListingFails, Plain
    <2>4. ASSUME NEW names \in Lists, RefreshListed(c, names)
          PROVE  Plain'
      BY <2>4, RefreshIsPlain, ListingIsPlain DEF RefreshListed, Plain
    <2>5. ASSUME NEW names \in Lists, NothingToProfile(c, names)
          PROVE  Plain'
      BY <2>5, ReturnIsPlain, ListingIsPlain DEF NothingToProfile, Plain
    <2>6. ASSUME NEW names \in Lists, ProfilingBegins(c, names)
          PROVE  Plain'
      <3>1. call' \in [Callers -> Calls]
        BY <2>6 DEF ProfilingBegins, Plain, Calls
      <3> QED
        BY <2>6, <3>1, ListingIsPlain DEF ProfilingBegins, Plain
    <2>7. ASSUME NEW names \in Lists, DatabaseFails(c, names)
          PROVE  Plain'
      BY <2>7, ReturnIsPlain, ListingIsPlain DEF DatabaseFails, Plain
    <2>8. ASSUME NEW m \in Models, StartModel(c, m) \/ SaveFails(c, m) \/ ModelFails(c, m)
          PROVE  Plain'
      BY <2>8 DEF StartModel, SaveFails, ModelFails, Plain
    <2>9. CASE Finish(c)
      BY <2>9, ReturnIsPlain DEF Finish, Plain
    <2> QED
      BY <1>1, <2>1, <2>2, <2>3, <2>4, <2>5, <2>6, <2>7, <2>8, <2>9 DEF Step
  <1>2. ASSUME NEW c \in Callers, Cancel(c)
        PROVE  Plain'
    BY <1>2, ReturnIsPlain DEF Cancel, Plain
  <1>3. ASSUME NEW c \in Callers, NEW op \in {"profile", "reprofile"}, Ask(c, op)
        PROVE  Plain'
    BY <1>3 DEF Ask, Plain, Calls
  <1>4. ASSUME NEW m \in Models, Saves(m)
        PROVE  Plain'
    BY <1>4 DEF Saves, SaveProfile, Plain
  <1>5. CASE LoopStep
    <2>1. CASE LoopProfiles
      BY <2>1 DEF LoopProfiles, Plain, Calls, Callers
    <2>2. CASE ~LoopProfiles
      BY <1>5, <2>2 DEF LoopStep, LoopSkipsRefresh, LoopSkipsSync, LoopSyncs, LoopSyncFails, LastSyncUnknown,
         LoopWakes, GoTo, Plain
    <2> QED
      BY <2>1, <2>2
  <1>6. ASSUME NEW models \in Inventories, ModelsChange(models)
        PROVE  Plain'
    BY <1>6 DEF ModelsChange, Plain
  <1>7. CASE ClientListAges
    BY <1>7 DEF ClientListAges, Plain
  <1>8. CASE EngineListAges \/ DayPasses \/ Settle
    BY <1>8 DEF EngineListAges, DayPasses, Settle, Plain, Lists
  <1>9. CASE Restart
    BY <1>9 DEF Restart, Plain, NeverListed, Idle, Calls, Lists
  <1>10. CASE UNCHANGED vars
    BY <1>10 DEF vars, Plain
  <1> QED
    BY <1>1, <1>2, <1>3, <1>4, <1>5, <1>6, <1>7, <1>8, <1>9, <1>10 DEF Next

-------------------------------------------------------------------------------
(* Theorems                                                                *)

\* Types, and finitely many models being profiled, at most one per slot and call.
THEOREM InductiveInvariant == Spec => []IInv
  <1>1. Init => IInv
    <2> SUFFICES ASSUME Init PROVE IInv
      OBVIOUS
    <2>1. Plain
      BY DEF Init, Plain, NeverListed, Idle, Calls, Lists
    <2>2. profiles \in [Models -> Row]
      BY DEF Init, NoProfile, Row
    <2>3. work \in [Callers -> [Models -> Phases]]
      BY DEF Init, NoWork, Phases
    <2>4. \A c \in Callers : With(c, "running") = {}
      BY DEF Init, With, NoWork
    <2> QED
      BY <2>1, <2>2, <2>3, <2>4, NoneRunning DEF IInv, WorkOK, Slots
  <1>2. IInv /\ [Next]_vars => IInv'
    BY PlainKept, ProfilesChange, ProfilesKept, WorkChange, WorkKept DEF IInv
  <1> QED
    BY <1>1, <1>2, PTL DEF Spec

\* Whatever overlaps, fails, is cancelled or restarted, the state is well typed, and no
\* call profiles more than profile_parallel_count models at a time.
THEOREM TypeCorrect == Spec => []TypeOK
  <1>1. IInv => TypeOK
    BY DEF IInv, Plain, WorkOK, Slots, TypeOK, Row, Phases, Calls
  <1> QED
    BY <1>1, InductiveInvariant, PTL

\* No order of profilings, reprofilings and refreshes, of any number of calls, loses a
\* measured VRAM requirement.
THEOREM MeasurementsAlwaysKept == Spec => MeasurementsAreKept
  <1>1. IInv /\ [Next]_vars
            => [\A m \in Models : profiles[m].measured => profiles'[m].measured]_vars
    BY ProfilesChange, ProfilesKept DEF IInv
  <1> QED
    BY <1>1, InductiveInvariant, PTL DEF Spec, MeasurementsAreKept
===============================================================================
