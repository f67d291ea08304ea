-------------------------- MODULE VRAMManagerProofs --------------------------
(***************************************************************************)
(* Proofs about VRAMManager, for every set of models and tasks, every      *)
(* budget, and every combination of faults.                                *)
(***************************************************************************)
EXTENDS VRAMManager, FiniteSetTheorems, TLAPS

-------------------------------------------------------------------------------
(* Dictionaries of loaded models, and the VRAM they occupy.                *)

\* A dictionary is a function from some of the models to estimates.
LEMMA DictIntro ==
    ASSUME NEW S \in SUBSET Models, NEW f \in [S -> Estimates]
    PROVE  f \in Dict /\ DOMAIN f = S
  BY DEF Dict

\* A dictionary is a function from its models to estimates.
LEMMA DictElim ==
    ASSUME NEW d \in Dict
    PROVE  DOMAIN d \in SUBSET Models /\ d \in [DOMAIN d -> Estimates]
  BY DEF Dict

\* The dictionary of __init__ tracks nothing.
LEMMA EmptyDictType == EmptyDict \in Dict /\ DOMAIN EmptyDict = {}
  BY DEF Dict, EmptyDict

\* What deleting entries leaves, spelled out.
LEMMA WithoutIsRest ==
    ASSUME NEW d, NEW gone
    PROVE  Without(d, gone) = [m \in DOMAIN d \ gone |-> d[m]]
  BY DEF Without, Restrict

\* Deleting entries leaves a dictionary, with the other entries as they were.
LEMMA WithoutType ==
    ASSUME NEW d \in Dict, NEW gone
    PROVE  /\ Without(d, gone) \in Dict
           /\ DOMAIN Without(d, gone) = DOMAIN d \ gone
           /\ \A m \in DOMAIN d \ gone : Without(d, gone)[m] = d[m]
  <1>1. Without(d, gone) \in [DOMAIN d \ gone -> Estimates]
    BY DictElim DEF Without, Restrict
  <1>2. \A m \in DOMAIN d \ gone : Without(d, gone)[m] = d[m]
    BY DEF Without, Restrict
  <1>3. DOMAIN d \ gone \in SUBSET Models
    BY DictElim
  <1>4. QED
    BY <1>1, <1>2, <1>3, DictIntro

\* An update leaves a dictionary: the entries of d, and those that d lacks.
LEMMA MergeType ==
    ASSUME NEW d \in Dict, NEW other \in Dict
    PROVE  /\ Merge(d, other) \in Dict
           /\ DOMAIN Merge(d, other) = DOMAIN d \cup DOMAIN other
           /\ \A m \in DOMAIN d : Merge(d, other)[m] = d[m]
           /\ \A m \in DOMAIN other \ DOMAIN d : Merge(d, other)[m] = other[m]
  <1>1. Merge(d, other) \in [DOMAIN d \cup DOMAIN other -> Estimates]
    BY DictElim DEF Merge
  <1>2. /\ \A m \in DOMAIN d : Merge(d, other)[m] = d[m]
        /\ \A m \in DOMAIN other \ DOMAIN d : Merge(d, other)[m] = other[m]
    BY DEF Merge
  <1>3. DOMAIN d \cup DOMAIN other \in SUBSET Models
    BY DictElim
  <1>4. QED
    BY <1>1, <1>2, <1>3, DictIntro

\* Entering a model leaves a dictionary that tracks it.
LEMMA EnterType ==
    ASSUME NEW d \in Dict, NEW m \in Models, NEW e \in Estimates
    PROVE  /\ Enter(d, m, e) \in Dict
           /\ DOMAIN Enter(d, m, e) = DOMAIN d \cup {m}
           /\ \A o \in DOMAIN d : Enter(d, m, e)[o] = d[o]
           /\ m \notin DOMAIN d => Enter(d, m, e)[m] = e
  <1> DEFINE entry == [o \in {m} |-> e]
  <1>1. entry \in [{m} -> Estimates]
    OBVIOUS
  <1>2. entry \in Dict /\ DOMAIN entry = {m}
    BY <1>1, DictIntro, {m} \in SUBSET Models
  <1>3. entry[m] = e
    OBVIOUS
  <1> HIDE DEF entry
  <1>4. QED
    BY <1>2, <1>3, MergeType DEF Enter, entry

-------------------------------------------------------------------------------
(* The VRAM that a dictionary occupies.                                    *)

\* Where the units are finite, the allocation is a number.
LEMMA AllocatedType ==
    ASSUME NEW d, IsFiniteSet(Units(d))
    PROVE  Allocated(d) \in Nat /\ Available(d) \in Nat
  <1>1. Allocated(d) \in Nat
    BY FS_CardinalityType DEF Allocated
  <1>2. QED
    BY <1>1, BudgetAssumption DEF Available, EffectiveBudget

\* What is removed occupies no more VRAM.
LEMMA WithoutShrinks ==
    ASSUME NEW d \in Dict, NEW gone, IsFiniteSet(Units(d))
    PROVE  /\ IsFiniteSet(Units(Without(d, gone)))
           /\ Allocated(Without(d, gone)) <= Allocated(d)
  <1>1. ASSUME NEW p \in Units(Without(d, gone))
        PROVE  p \in Units(d)
    <2>1. PICK m \in DOMAIN Without(d, gone) : p \in {m} \X (1 .. Without(d, gone)[m])
      BY DEF Units
    <2>2. m \in DOMAIN d /\ Without(d, gone)[m] = d[m]
      BY WithoutType
    <2>3. QED
      BY <2>1, <2>2 DEF Units
  <1>2. QED
    BY <1>1, FS_Subset DEF Allocated

\* A model that is entered occupies the units of its estimate and no other.
LEMMA EnterAdds ==
    ASSUME NEW d \in Dict, IsFiniteSet(Units(d)),
           NEW m \in Models, m \notin DOMAIN d, NEW e \in Estimates
    PROVE  /\ IsFiniteSet(Units(Enter(d, m, e)))
           /\ Allocated(Enter(d, m, e)) = Allocated(d) + e
  <1> DEFINE new == {m} \X (1 .. e)
  <1>1. e \in Nat
    BY BudgetAssumption
  <1>2. Units(Enter(d, m, e)) = Units(d) \cup new
    <2> DEFINE dd == Enter(d, m, e)
    <2>1. /\ DOMAIN dd = DOMAIN d \cup {m}
          /\ \A o \in DOMAIN d : dd[o] = d[o]
          /\ dd[m] = e
      BY EnterType
    <2> HIDE DEF dd
    <2>2. ASSUME NEW p \in Units(dd)
          PROVE  p \in Units(d) \cup new
      <3>1. PICK o \in DOMAIN dd : p \in {o} \X (1 .. dd[o])
        BY DEF Units
      <3>2. CASE o = m
        BY <2>1, <3>1, <3>2
      <3>3. CASE o # m
        BY <2>1, <3>1, <3>3 DEF Units
      <3>4. QED
        BY <3>2, <3>3
    <2>3. ASSUME NEW p \in Units(d)
          PROVE  p \in Units(dd)
      <3>1. PICK o \in DOMAIN d : p \in {o} \X (1 .. d[o])
        BY DEF Units
      <3>2. QED
        BY <2>1, <3>1 DEF Units
    <2>4. new \subseteq Units(dd)
      BY <2>1 DEF Units
    <2>5. QED
      BY <2>2, <2>3, <2>4 DEF dd
  <1>3. IsFiniteSet(new) /\ Cardinality(new) = e
    <2>1. IsFiniteSet({m}) /\ Cardinality({m}) = 1
      BY FS_Singleton
    <2>2. IsFiniteSet(1 .. e) /\ Cardinality(1 .. e) = e
      BY <1>1, FS_Interval
    <2>3. /\ IsFiniteSet({m} \X (1 .. e))
          /\ Cardinality({m} \X (1 .. e)) = Cardinality({m}) * Cardinality(1 .. e)
      BY <2>1, <2>2, FS_Product
    <2>4. QED
      BY <2>1, <2>2, <2>3, <1>1
  <1>4. Units(d) \cap new = {}
    BY DEF Units
  <1>5. Cardinality({}) = 0
    BY FS_EmptySet
  <1> HIDE DEF new
  <1>6. Cardinality(Units(d)) \in Nat
    BY FS_CardinalityType
  <1>7. QED
    BY <1>1, <1>2, <1>3, <1>4, <1>5, <1>6, FS_Union DEF Allocated

\* A model that can be loaded keeps the dictionary within the capacity.
LEMMA LoadableFits ==
    ASSUME NEW d \in Dict, IsFiniteSet(Units(d)), Allocated(d) <= Capacity,
           NEW m \in Models, m \notin DOMAIN d, NEW e \in Estimates, CanLoad(d, e)
    PROVE  /\ IsFiniteSet(Units(Enter(d, m, e)))
           /\ Allocated(Enter(d, m, e)) <= Capacity
  <1>1. Allocated(d) \in Nat
    BY FS_CardinalityType DEF Allocated
  <1>2. QED
    BY <1>1, EnterAdds, BudgetAssumption
       DEF CanLoad, Available, Capacity, EffectiveBudget

\* Nothing loaded fits any budget.
LEMMA EmptyDictFits == IsFiniteSet(Units(EmptyDict)) /\ Allocated(EmptyDict) <= Capacity
  <1>1. Units(EmptyDict) = {}
    BY DEF Units, EmptyDict
  <1>2. QED
    BY <1>1, FS_EmptySet, BudgetAssumption DEF Allocated, Capacity, EffectiveBudget
-------------------------------------------------------------------------------
(* The manager keeps to its budget.                                        *)

(***************************************************************************)
(* BudgetRespected is not inductive: while a call waits for the backend    *)
(* one must know that nobody else changes the ledger (HoldersHold), that   *)
(* the model being loaded still fits (LoadReady), and that a snapshot to   *)
(* be restored both fits and covers what is left (SnapshotCovers).         *)
(***************************************************************************)
HoldersHold ==
    \A t \in Tasks : pc[t] \in {"evicting", "loading", "unloading"} => lockHolder = t

CallsAreReal ==
    \A t \in Tasks : pc[t] # "idle" =>
        /\ call[t].model \in Models
        /\ call[t].op = "load" => call[t].estimate \in Estimates
        /\ pc[t] \in {"evicting", "loading"} => call[t].op = "load"

Fits(d) == IsFiniteSet(Units(d)) /\ Allocated(d) <= Capacity

SubDict(d, whole) == /\ DOMAIN d \subseteq DOMAIN whole
                     /\ \A m \in DOMAIN d : d[m] = whole[m]

SnapshotCovers ==
    \A t \in Tasks : pc[t] \in {"evicting", "loading"} => SubDict(loaded, work.snapshot)

VictimIsTracked ==
    \A t \in Tasks : pc[t] = "evicting" => work.victim \in DOMAIN loaded \ {pinned}

LoadReady ==
    \A t \in Tasks :
        /\ pc[t] \in {"evicting", "loading"} => call[t].model \notin DOMAIN work.snapshot
        /\ pc[t] = "loading" => CanLoad(loaded, call[t].estimate)

UnloadReady ==
    \A t \in Tasks : pc[t] = "unloading" => call[t].model # pinned

IInv ==
    /\ TypeOK
    /\ HoldersHold
    /\ CallsAreReal
    /\ Fits(loaded)
    /\ Fits(work.snapshot)
    /\ SnapshotCovers
    /\ VictimIsTracked
    /\ LoadReady
    /\ UnloadReady
    /\ PinnedStaysTracked

-------------------------------------------------------------------------------
(* Facts about the helpers                                                 *)

\* Restoring a snapshot gives back exactly the snapshot.
LEMMA RestoredIsSnapshot ==
    ASSUME NEW d \in Dict, NEW snapshot \in Dict, SubDict(d, snapshot)
    PROVE  Restored(d, snapshot) = snapshot
  <1> DEFINE r == Merge(d, snapshot)
  <1>1. /\ r \in Dict
        /\ DOMAIN r = DOMAIN d \cup DOMAIN snapshot
        /\ \A m \in DOMAIN d : r[m] = d[m]
        /\ \A m \in DOMAIN snapshot \ DOMAIN d : r[m] = snapshot[m]
    BY MergeType
  <1> HIDE DEF r
  <1>2. /\ DOMAIN r = DOMAIN snapshot
        /\ \A m \in DOMAIN snapshot : r[m] = snapshot[m]
    BY <1>1 DEF SubDict
  <1>3. r \in [DOMAIN snapshot -> Estimates] /\ snapshot \in [DOMAIN snapshot -> Estimates]
    BY <1>1, <1>2, DictElim
  <1>4. r = snapshot
    BY <1>2, <1>3
  <1>5. QED
    BY <1>4 DEF Restored, r

\* What is left of a part of a dictionary is a part of it still.
LEMMA SubDictWithout ==
    ASSUME NEW d \in Dict, NEW whole \in Dict, SubDict(d, whole), NEW gone
    PROVE  SubDict(Without(d, gone), whole)
  <1>1. /\ DOMAIN Without(d, gone) = DOMAIN d \ gone
        /\ \A m \in DOMAIN d \ gone : Without(d, gone)[m] = d[m]
    BY WithoutType
  <1>2. QED
    BY <1>1 DEF SubDict

\* The locals of no call are well typed.
LEMMA NoWorkType ==
    /\ NoWork \in [snapshot : Dict, needed : Nat, freed : Nat,
                   victim : Models \cup {NoModel}]
    /\ NoWork.snapshot = EmptyDict
  BY EmptyDictType DEF NoWork

\* __init__ establishes the invariant.
LEMMA InitIInv == Init => IInv
  <1> SUFFICES ASSUME Init PROVE IInv
    OBVIOUS
  <1>1. TypeOK
    BY EmptyDictType, NoWorkType DEF Init, TypeOK, NoCall
  <1>2. Fits(loaded) /\ Fits(work.snapshot)
    BY EmptyDictFits, NoWorkType DEF Init, Fits
  <1>3. QED
    BY <1>1, <1>2 DEF Init, IInv, HoldersHold, CallsAreReal, SnapshotCovers,
       VictimIsTracked, LoadReady, UnloadReady, PinnedStaysTracked

-------------------------------------------------------------------------------
(* The steps that leave every task at rest or where it was                 *)

AtBackend == {"evicting", "loading", "unloading"}

\* Only the holder of the lock waits for the backend.
LEMMA OthersAreNotAtBackend ==
    ASSUME IInv, NEW t \in Tasks, lockHolder \in {t, NoTask}
    PROVE  \A u \in Tasks : u # t => pc[u] \notin AtBackend
  BY ManagerAssumption DEF IInv, HoldersHold, AtBackend

\* A call that ends leaves nobody at the backend, so that only the ledger,
\* the pin and the types are to be looked at.
LEMMA ReturnKeepsIInv ==
    ASSUME IInv, NEW t \in Tasks, Return(t), lockHolder \in {t, NoTask},
           loaded' \in Dict, Fits(loaded)', pinned' \in Models \cup {NoModel},
           PinnedStaysTracked', waiters' \in Seq(Tasks), resident' \subseteq Models
    PROVE  IInv'
  <1>1. \A u \in Tasks : u # t => pc[u] \notin AtBackend
    BY OthersAreNotAtBackend
  <1>2. pc' = [pc EXCEPT ![t] = "idle"] /\ call' = [call EXCEPT ![t] = NoCall]
    BY DEF Return, Goto
  <1>3. \A u \in Tasks : /\ u # t => pc'[u] = pc[u] /\ call'[u] = call[u]
                         /\ u = t => pc'[u] = "idle"
    BY <1>2 DEF IInv, TypeOK
  <1>4. \A u \in Tasks : pc'[u] \notin AtBackend
    BY <1>1, <1>3 DEF AtBackend
  <1>5. TypeOK'
    <2>1. NoCall \in [op : {"none", "load", "unload"}, model : Models \cup {NoModel},
                      estimate : Estimates \cup {0}, pin : BOOLEAN]
      BY DEF NoCall
    <2>2. work' \in [snapshot : Dict, needed : Nat, freed : Nat,
                     victim : Models \cup {NoModel}]
      BY NoWorkType DEF Return
    <2>3. lockHolder' \in Tasks \cup {NoTask}
      BY DEF Return
    <2>4. QED
      BY <1>2, <2>1, <2>2, <2>3 DEF IInv, TypeOK
  <1>6. CallsAreReal'
    BY <1>3, <1>4 DEF IInv, CallsAreReal, AtBackend
  <1>7. Fits(work.snapshot)'
    BY NoWorkType, EmptyDictFits DEF Return, Fits
  <1>8. QED
    BY <1>4, <1>5, <1>6, <1>7 DEF IInv, HoldersHold, SnapshotCovers, VictimIsTracked,
       LoadReady, UnloadReady, AtBackend

\* A task that calls, or leaves the queue of the lock, touches no other state.
LEMMA QueueStepKeepsIInv ==
    ASSUME IInv, NEW t \in Tasks, pc[t] \notin AtBackend,
           NEW place \in {"idle", "waiting"}, Goto(t, place),
           NEW c \in [op : {"none", "load", "unload"}, model : Models \cup {NoModel},
                      estimate : Estimates \cup {0}, pin : BOOLEAN],
           call' = [call EXCEPT ![t] = c],
           place = "waiting" => c.model \in Models /\ (c.op = "load" => c.estimate \in Estimates),
           waiters' \in Seq(Tasks),
           UNCHANGED <<loaded, pinned, lockHolder, work, resident>>
    PROVE  IInv'
  <1>1. pc' = [pc EXCEPT ![t] = place]
    BY DEF Goto
  <1>2. \A u \in Tasks : /\ u # t => pc'[u] = pc[u] /\ call'[u] = call[u]
                         /\ u = t => pc'[u] = place /\ call'[u] = c
    BY <1>1 DEF IInv, TypeOK
  <1>3. \A u \in Tasks : pc'[u] \in AtBackend => u # t
    BY <1>2 DEF AtBackend
  <1>4. TypeOK'
    BY <1>1 DEF IInv, TypeOK
  <1>5. CallsAreReal'
    BY <1>2 DEF IInv, CallsAreReal
  <1>6. Fits(loaded)' /\ Fits(work.snapshot)'
    BY DEF IInv, Fits
  <1>7. HoldersHold'
    BY <1>2, <1>3 DEF IInv, HoldersHold, AtBackend
  <1>8. SnapshotCovers' /\ VictimIsTracked' /\ LoadReady' /\ UnloadReady'
    BY <1>2, <1>3 DEF IInv, SnapshotCovers, VictimIsTracked, LoadReady, UnloadReady,
       SubDict, AtBackend
  <1>9. QED
    BY <1>4, <1>5, <1>6, <1>7, <1>8 DEF IInv, PinnedStaysTracked

\* A new call only queues for the lock.
LEMMA RequestKeepsIInv ==
    ASSUME IInv, NEW t \in Tasks, Request(t)
    PROVE  IInv'
  <1>1. pc[t] \notin AtBackend
    BY DEF Request, RequestLoad, RequestUnload, At, AtBackend
  <1>2. PICK m \in Models :
           \/ \E estimate \in Estimates, pin \in BOOLEAN : RequestLoad(t, m, estimate, pin)
           \/ RequestUnload(t, m)
    BY DEF Request
  <1>3. ASSUME NEW estimate \in Estimates, NEW pin \in BOOLEAN,
               RequestLoad(t, m, estimate, pin)
        PROVE  IInv'
    <2> DEFINE c == [op |-> "load", model |-> m, estimate |-> estimate, pin |-> pin]
    <2>1. /\ c \in [op : {"none", "load", "unload"}, model : Models \cup {NoModel},
                    estimate : Estimates \cup {0}, pin : BOOLEAN]
          /\ c.model \in Models /\ (c.op = "load" => c.estimate \in Estimates)
      OBVIOUS
    <2>2. /\ Goto(t, "waiting")
          /\ call' = [call EXCEPT ![t] = c]
          /\ UNCHANGED <<loaded, pinned, lockHolder, work, resident>>
      BY <1>3 DEF RequestLoad
    <2>3. waiters' \in Seq(Tasks)
      BY <1>3 DEF RequestLoad, IInv, TypeOK
    <2> HIDE DEF c
    <2>4. QED
      BY <1>1, <2>1, <2>2, <2>3, QueueStepKeepsIInv
  <1>4. CASE RequestUnload(t, m)
    <2> DEFINE c == [op |-> "unload", model |-> m, estimate |-> 0, pin |-> FALSE]
    <2>1. /\ c \in [op : {"none", "load", "unload"}, model : Models \cup {NoModel},
                    estimate : Estimates \cup {0}, pin : BOOLEAN]
          /\ c.model \in Models /\ (c.op = "load" => c.estimate \in Estimates)
      OBVIOUS
    <2>2. /\ Goto(t, "waiting")
          /\ call' = [call EXCEPT ![t] = c]
          /\ UNCHANGED <<loaded, pinned, lockHolder, work, resident>>
      BY <1>4 DEF RequestUnload
    <2>3. waiters' \in Seq(Tasks)
      BY <1>4 DEF RequestUnload, IInv, TypeOK
    <2> HIDE DEF c
    <2>4. QED
      BY <1>1, <2>1, <2>2, <2>3, QueueStepKeepsIInv
  <1>5. QED
    BY <1>2, <1>3, <1>4

\* A task cancelled in the queue leaves the queue.
LEMMA CancelWaitingKeepsIInv ==
    ASSUME IInv, NEW t \in Tasks, CancelWaiting(t)
    PROVE  IInv'
  <1>1. pc[t] \notin AtBackend
    BY DEF CancelWaiting, At, AtBackend
  <1>2. waiters' \in Seq(Tasks)
    BY DEF CancelWaiting, RemoveAt, IInv, TypeOK
  <1>3. NoCall \in [op : {"none", "load", "unload"}, model : Models \cup {NoModel},
                    estimate : Estimates \cup {0}, pin : BOOLEAN]
    BY DEF NoCall
  <1>4. QED
    BY <1>1, <1>2, <1>3, QueueStepKeepsIInv DEF CancelWaiting

\* A new process starts from nothing, which the invariant allows.
LEMMA RestartKeepsIInv ==
    ASSUME IInv, Restart
    PROVE  IInv'
  <1>1. TypeOK'
    BY EmptyDictType, NoWorkType DEF Restart, IInv, TypeOK, NoCall
  <1>2. Fits(loaded)' /\ Fits(work.snapshot)'
    BY EmptyDictFits, NoWorkType DEF Restart, Fits
  <1>3. QED
    BY <1>1, <1>2 DEF Restart, IInv, HoldersHold, CallsAreReal, SnapshotCovers,
       VictimIsTracked, LoadReady, UnloadReady, PinnedStaysTracked

-------------------------------------------------------------------------------
(* load_model                                                              *)

\* What entering the lock tells of the task that enters.
LEMMA AcquireFacts ==
    ASSUME IInv, NEW t \in Tasks, Acquire(t)
    PROVE  /\ lockHolder = NoTask
           /\ pc[t] = "waiting"
           /\ call[t].model \in Models
           /\ call[t].op = "load" => call[t].estimate \in Estimates
           /\ waiters' \in Seq(Tasks)
           /\ \A u \in Tasks : pc[u] \notin AtBackend
  <1>1. waiters \in Seq(Tasks) /\ waiters # <<>> /\ waiters' = Tail(waiters)
    BY DEF Acquire, IInv, TypeOK
  <1>2. waiters' \in Seq(Tasks)
    BY <1>1
  <1>3. QED
    BY <1>2, ManagerAssumption DEF Acquire, At, IInv, CallsAreReal, HoldersHold, AtBackend

\* load_model, already loaded or rejected: nothing changes.
LEMMA LoadEndsAtOnceKeepsIInv ==
    ASSUME IInv, NEW t \in Tasks, LoadAlreadyTracked(t) \/ LoadRejected(t)
    PROVE  IInv'
  <1>1. /\ Acquire(t) /\ Return(t)
        /\ UNCHANGED <<loaded, pinned, resident>>
    BY DEF LoadAlreadyTracked, LoadRejected, BeginLoad
  <1>2. lockHolder \in {t, NoTask} /\ waiters' \in Seq(Tasks)
    BY <1>1, AcquireFacts
  <1>3. /\ loaded' \in Dict /\ Fits(loaded)' /\ pinned' \in Models \cup {NoModel}
        /\ PinnedStaysTracked' /\ resident' \subseteq Models
    BY <1>1 DEF IInv, TypeOK, Fits, PinnedStaysTracked
  <1>4. QED
    BY <1>1, <1>2, <1>3, ReturnKeepsIInv

\* A snapshot just taken covers what is tracked.
LEMMA SubDictRefl == ASSUME NEW d PROVE SubDict(d, d)
  BY DEF SubDict

\* load_model, enough VRAM: the lock holder awaits the backend.
LEMMA LoadFitsKeepsIInv ==
    ASSUME IInv, NEW t \in Tasks, LoadFits(t)
    PROVE  IInv'
  <1>1. /\ Acquire(t) /\ call[t].op = "load"
        /\ call[t].model \notin DOMAIN loaded
        /\ CanLoad(loaded, call[t].estimate)
        /\ pc' = [pc EXCEPT ![t] = "loading"]
        /\ lockHolder' = t
        /\ work' = [NoWork EXCEPT !.snapshot = loaded]
        /\ UNCHANGED <<loaded, pinned, call, resident>>
    BY DEF LoadFits, BeginLoad, Goto
  <1>2. /\ call[t].estimate \in Estimates
        /\ waiters' \in Seq(Tasks)
        /\ \A u \in Tasks : pc[u] \notin AtBackend
    BY <1>1, AcquireFacts
  <1>3. \A u \in Tasks : /\ u # t => pc'[u] = pc[u]
                         /\ u = t => pc'[u] = "loading"
    BY <1>1 DEF IInv, TypeOK
  <1>4. \A u \in Tasks : pc'[u] \in AtBackend => u = t
    BY <1>2, <1>3
  <1>5. /\ work' \in [snapshot : Dict, needed : Nat, freed : Nat,
                      victim : Models \cup {NoModel}]
        /\ work'.snapshot = loaded
    BY <1>1, NoWorkType DEF IInv, TypeOK
  <1>6. TypeOK'
    BY <1>1, <1>2, <1>5 DEF IInv, TypeOK
  <1>7. CallsAreReal'
    BY <1>1, <1>2, <1>3, <1>4, AcquireFacts DEF IInv, CallsAreReal, AtBackend
  <1>8. Fits(loaded)' /\ Fits(work.snapshot)'
    BY <1>1, <1>5 DEF IInv, Fits
  <1>9. HoldersHold' /\ SnapshotCovers' /\ VictimIsTracked' /\ LoadReady' /\ UnloadReady'
    BY <1>1, <1>3, <1>4, <1>5, SubDictRefl DEF HoldersHold, SnapshotCovers, SubDict,
       VictimIsTracked, LoadReady, UnloadReady, AtBackend
  <1>10. QED
    BY <1>1, <1>6, <1>7, <1>8, <1>9 DEF IInv, PinnedStaysTracked

\* load_model, too little VRAM: the first victim is tracked and not pinned.
LEMMA BeginEvictionKeepsIInv ==
    ASSUME IInv, NEW t \in Tasks, BeginEviction(t)
    PROVE  IInv'
  <1>1. /\ Acquire(t) /\ call[t].op = "load"
        /\ call[t].model \notin DOMAIN loaded
        /\ ~CanLoad(loaded, call[t].estimate)
        /\ pc' = [pc EXCEPT ![t] = "evicting"]
        /\ lockHolder' = t
        /\ UNCHANGED <<loaded, pinned, call, resident>>
    BY DEF BeginEviction, BeginLoad, Goto
  <1>2. PICK victim \in Largest(EvictionCandidates) :
           work' = [snapshot |-> loaded, needed |-> Needed(call[t].estimate),
                    freed |-> 0, victim |-> victim]
    BY DEF BeginEviction
  <1>3. victim \in DOMAIN loaded \ {pinned} /\ victim \in Models
    BY <1>2, DictElim DEF Largest, EvictionCandidates, IInv, TypeOK
  <1>4. /\ call[t].estimate \in Estimates
        /\ waiters' \in Seq(Tasks)
        /\ \A u \in Tasks : pc[u] \notin AtBackend
    BY <1>1, AcquireFacts
  <1>5. Needed(call[t].estimate) \in Nat
    <2>1. Available(loaded) \in Nat
      BY AllocatedType DEF IInv, Fits
    <2>2. call[t].estimate \in Nat
      BY <1>4, BudgetAssumption
    <2>3. QED
      BY <1>1, <2>1, <2>2 DEF Needed, CanLoad
  <1>6. \A u \in Tasks : /\ u # t => pc'[u] = pc[u]
                         /\ u = t => pc'[u] = "evicting"
    BY <1>1 DEF IInv, TypeOK
  <1>7. \A u \in Tasks : pc'[u] \in AtBackend => u = t
    BY <1>4, <1>6
  <1>8. /\ work' \in [snapshot : Dict, needed : Nat, freed : Nat,
                      victim : Models \cup {NoModel}]
        /\ work'.snapshot = loaded
        /\ work'.victim = victim
    BY <1>2, <1>3, <1>5 DEF IInv, TypeOK
  <1>9. TypeOK'
    BY <1>1, <1>4, <1>8 DEF IInv, TypeOK
  <1>10. CallsAreReal'
    BY <1>1, <1>4, <1>6, <1>7, AcquireFacts DEF IInv, CallsAreReal, AtBackend
  <1>11. Fits(loaded)' /\ Fits(work.snapshot)'
    BY <1>1, <1>8 DEF IInv, Fits
  <1>12. HoldersHold' /\ SnapshotCovers' /\ VictimIsTracked' /\ LoadReady' /\ UnloadReady'
    BY <1>1, <1>3, <1>6, <1>7, <1>8, SubDictRefl DEF HoldersHold, SnapshotCovers, SubDict,
       VictimIsTracked, LoadReady, UnloadReady, AtBackend
  <1>13. QED
    BY <1>1, <1>9, <1>10, <1>11, <1>12 DEF IInv, PinnedStaysTracked

\* What an eviction that comes back from the backend leaves.
LEMMA AfterEvictionFacts ==
    ASSUME IInv, NEW t \in Tasks, FinishEviction(t)
    PROVE  /\ pc[t] = "evicting"
           /\ lockHolder = t
           /\ \A u \in Tasks : u # t => pc[u] \notin AtBackend
           /\ call[t].model \in Models /\ call[t].estimate \in Estimates
           /\ call[t].op = "load"
           /\ call[t].model \notin DOMAIN work.snapshot
           /\ AfterEviction \in Dict
           /\ DOMAIN AfterEviction = DOMAIN loaded \ {work.victim}
           /\ Fits(AfterEviction)
           /\ SubDict(AfterEviction, work.snapshot)
           /\ pinned # NoModel => pinned \in DOMAIN AfterEviction
           /\ FreedNow \in Nat
           /\ resident' \subseteq Models
  <1>1. pc[t] = "evicting" /\ lockHolder = t
    BY DEF FinishEviction, At, IInv, HoldersHold
  <1>2. \A u \in Tasks : u # t => pc[u] \notin AtBackend
    BY <1>1, OthersAreNotAtBackend
  <1>3. /\ call[t].model \in Models /\ call[t].estimate \in Estimates
        /\ call[t].op = "load"
        /\ call[t].model \notin DOMAIN work.snapshot
    BY <1>1 DEF IInv, CallsAreReal, LoadReady
  <1>4. loaded \in Dict /\ work.snapshot \in Dict
    BY DEF IInv, TypeOK
  <1>5. AfterEviction \in Dict /\ DOMAIN AfterEviction = DOMAIN loaded \ {work.victim}
    BY <1>4, WithoutType DEF AfterEviction
  <1>6. Fits(AfterEviction)
    <2>1. IsFiniteSet(Units(loaded)) /\ Allocated(loaded) <= Capacity
      BY DEF IInv, Fits
    <2>2. /\ IsFiniteSet(Units(AfterEviction))
          /\ Allocated(AfterEviction) <= Allocated(loaded)
      BY <1>4, <2>1, WithoutShrinks DEF AfterEviction
    <2>3. /\ Allocated(AfterEviction) \in Nat /\ Allocated(loaded) \in Nat
          /\ Capacity \in Int
      BY <2>1, <2>2, AllocatedType, BudgetAssumption DEF Capacity, EffectiveBudget
    <2>4. QED
      BY <2>1, <2>2, <2>3 DEF Fits
  <1>7. SubDict(AfterEviction, work.snapshot)
    <2>1. SubDict(loaded, work.snapshot)
      BY <1>1 DEF IInv, SnapshotCovers
    <2>2. QED
      BY <1>4, <2>1, SubDictWithout DEF AfterEviction
  <1>8. work.victim \in DOMAIN loaded \ {pinned}
    BY <1>1 DEF IInv, VictimIsTracked
  <1>9. pinned # NoModel => pinned \in DOMAIN AfterEviction
    BY <1>5, <1>8 DEF IInv, PinnedStaysTracked
  <1>10. FreedNow \in Nat
    <2>1. loaded[work.victim] \in Nat
      BY <1>4, <1>8, DictElim, BudgetAssumption
    <2>2. work.freed \in Nat
      BY DEF IInv, TypeOK
    <2>3. QED
      BY <2>1, <2>2 DEF FreedNow
  <1>11. resident' \subseteq Models
    BY DEF FinishEviction, BackendUnload, IInv, TypeOK
  <1>12. QED
    BY <1>1, <1>2, <1>3, <1>5, <1>6, <1>7, <1>9, <1>10, <1>11

\* _free_vram: one victim less, and another that is not pinned.
LEMMA EvictNextKeepsIInv ==
    ASSUME IInv, NEW t \in Tasks, EvictNext(t)
    PROVE  IInv'
  <1>1. /\ FinishEviction(t)
        /\ loaded' = AfterEviction
        /\ UNCHANGED <<pinned, lockHolder, waiters, pc, call>>
    BY DEF EvictNext
  <1>2. PICK victim \in Largest(EvictionCandidates \ {work.victim}) :
           work' = [work EXCEPT !.freed = FreedNow, !.victim = victim]
    BY DEF EvictNext
  <1>3. /\ victim \in DOMAIN loaded \ {work.victim, pinned}
        /\ victim \in Models
    BY <1>2, DictElim DEF Largest, EvictionCandidates, IInv, TypeOK
  <1>4. /\ work' \in [snapshot : Dict, needed : Nat, freed : Nat,
                      victim : Models \cup {NoModel}]
        /\ work'.snapshot = work.snapshot
        /\ work'.victim = victim
    BY <1>1, <1>2, <1>3, AfterEvictionFacts DEF IInv, TypeOK
  <1>5. TypeOK'
    BY <1>1, <1>4, AfterEvictionFacts DEF IInv, TypeOK
  <1>6. Fits(loaded)' /\ Fits(work.snapshot)'
    BY <1>1, <1>4, AfterEvictionFacts DEF IInv, Fits
  <1>7. \A u \in Tasks : pc'[u] \in AtBackend => u = t /\ pc'[u] = "evicting"
    BY <1>1, AfterEvictionFacts
  <1>8. SnapshotCovers'
    BY <1>1, <1>4, AfterEvictionFacts DEF SnapshotCovers, SubDict
  <1>9. VictimIsTracked' /\ LoadReady' /\ UnloadReady'
    BY <1>1, <1>3, <1>4, <1>7, AfterEvictionFacts
       DEF VictimIsTracked, LoadReady, UnloadReady, AtBackend
  <1>10. HoldersHold' /\ CallsAreReal' /\ PinnedStaysTracked'
    BY <1>1, AfterEvictionFacts DEF IInv, HoldersHold, CallsAreReal, PinnedStaysTracked
  <1>11. QED
    BY <1>5, <1>6, <1>8, <1>9, <1>10 DEF IInv

\* Restoring the snapshot is safe because it was within the budget when the
\* load began, and still holds whatever is pinned.
LEMMA RestoreKeepsLedger ==
    ASSUME IInv, NEW t \in Tasks, pc[t] \in {"evicting", "loading"},
           NEW d \in Dict, SubDict(d, work.snapshot),
           pinned # NoModel => pinned \in DOMAIN d
    PROVE  /\ Restored(d, work.snapshot) = work.snapshot
           /\ work.snapshot \in Dict
           /\ Fits(work.snapshot)
           /\ pinned # NoModel => pinned \in DOMAIN work.snapshot
  BY RestoredIsSnapshot DEF IInv, TypeOK, SubDict

\* _free_vram raises: the snapshot is back, and it fits.
LEMMA EvictionFallsShortKeepsIInv ==
    ASSUME IInv, NEW t \in Tasks, EvictionFallsShort(t)
    PROVE  IInv'
  <1>1. /\ FinishEviction(t)
        /\ loaded' = Restored(AfterEviction, work.snapshot)
        /\ Return(t)
        /\ UNCHANGED <<pinned, waiters>>
    BY DEF EvictionFallsShort
  <1>2. /\ loaded' = work.snapshot /\ work.snapshot \in Dict /\ Fits(work.snapshot)
        /\ pinned # NoModel => pinned \in DOMAIN work.snapshot
    BY <1>1, AfterEvictionFacts, RestoreKeepsLedger
  <1>3. /\ loaded' \in Dict /\ Fits(loaded)' /\ PinnedStaysTracked'
    BY <1>1, <1>2 DEF Fits, PinnedStaysTracked
  <1>4. /\ pinned' \in Models \cup {NoModel} /\ waiters' \in Seq(Tasks)
        /\ resident' \subseteq Models /\ lockHolder \in {t, NoTask}
    BY <1>1, AfterEvictionFacts DEF IInv, TypeOK
  <1>5. QED
    BY <1>1, <1>3, <1>4, ReturnKeepsIInv

\* _free_vram returns: the model fits now, or the snapshot is back.
LEMMA EvictionSufficesKeepsIInv ==
    ASSUME IInv, NEW t \in Tasks, EvictionSuffices(t)
    PROVE  IInv'
  <1>1. FinishEviction(t) /\ UNCHANGED <<pinned, waiters>>
    BY DEF EvictionSuffices
  <1>2. CASE CanLoad(AfterEviction, call[t].estimate)
    <2>1. /\ loaded' = AfterEviction
          /\ pc' = [pc EXCEPT ![t] = "loading"]
          /\ work' = [work EXCEPT !.freed = FreedNow, !.victim = NoModel]
          /\ UNCHANGED <<lockHolder, call>>
      BY <1>2 DEF EvictionSuffices, Goto
    <2>2. \A u \in Tasks : /\ u # t => pc'[u] = pc[u]
                           /\ u = t => pc'[u] = "loading"
      BY <2>1 DEF IInv, TypeOK
    <2>3. \A u \in Tasks : pc'[u] \in AtBackend => u = t
      BY <1>1, <2>2, AfterEvictionFacts
    <2>4. /\ work' \in [snapshot : Dict, needed : Nat, freed : Nat,
                        victim : Models \cup {NoModel}]
          /\ work'.snapshot = work.snapshot
      BY <1>1, <2>1, AfterEvictionFacts DEF IInv, TypeOK
    <2>5. TypeOK'
      BY <1>1, <2>1, <2>4, AfterEvictionFacts DEF IInv, TypeOK
    <2>6. Fits(loaded)' /\ Fits(work.snapshot)'
      BY <1>1, <2>1, <2>4, AfterEvictionFacts DEF IInv, Fits
    <2>7. SnapshotCovers'
      BY <1>1, <2>1, <2>3, <2>4, AfterEvictionFacts DEF SnapshotCovers, SubDict, AtBackend
    <2>8. HoldersHold' /\ VictimIsTracked' /\ LoadReady' /\ UnloadReady'
      BY <1>1, <1>2, <2>1, <2>2, <2>3, <2>4, AfterEvictionFacts
         DEF HoldersHold, VictimIsTracked, LoadReady, UnloadReady, AtBackend
    <2>9. CallsAreReal'
      BY <1>1, <2>1, <2>2, AfterEvictionFacts DEF IInv, CallsAreReal
    <2>10. PinnedStaysTracked'
      BY <1>1, <2>1, AfterEvictionFacts DEF PinnedStaysTracked
    <2>11. QED
      BY <2>5, <2>6, <2>7, <2>8, <2>9, <2>10 DEF IInv
  <1>3. CASE ~CanLoad(AfterEviction, call[t].estimate)
    <2>1. loaded' = Restored(AfterEviction, work.snapshot) /\ Return(t)
      BY <1>3 DEF EvictionSuffices
    <2>2. /\ loaded' = work.snapshot /\ work.snapshot \in Dict /\ Fits(work.snapshot)
          /\ pinned # NoModel => pinned \in DOMAIN work.snapshot
      BY <1>1, <2>1, AfterEvictionFacts, RestoreKeepsLedger
    <2>3. /\ loaded' \in Dict /\ Fits(loaded)' /\ PinnedStaysTracked'
      BY <1>1, <2>2 DEF Fits, PinnedStaysTracked
    <2>4. /\ pinned' \in Models \cup {NoModel} /\ waiters' \in Seq(Tasks)
          /\ resident' \subseteq Models /\ lockHolder \in {t, NoTask}
      BY <1>1, AfterEvictionFacts DEF IInv, TypeOK
    <2>5. QED
      BY <2>1, <2>3, <2>4, ReturnKeepsIInv
  <1>4. QED
    BY <1>2, <1>3

\* load_model succeeds: the model that fitted is entered.
LEMMA LoadDoneKeepsIInv ==
    ASSUME IInv, NEW t \in Tasks, LoadDone(t)
    PROVE  IInv'
  <1>1. /\ pc[t] = "loading"
        /\ loaded' = Enter(loaded, call[t].model, call[t].estimate)
        /\ pinned' = IF call[t].pin THEN call[t].model ELSE pinned
        /\ Return(t)
        /\ UNCHANGED waiters
    BY DEF LoadDone, At
  <1>2. /\ lockHolder = t
        /\ call[t].model \in Models /\ call[t].estimate \in Estimates
        /\ call[t].model \notin DOMAIN loaded
        /\ CanLoad(loaded, call[t].estimate)
    BY <1>1 DEF IInv, HoldersHold, CallsAreReal, LoadReady, SnapshotCovers, SubDict
  <1>3. loaded \in Dict /\ IsFiniteSet(Units(loaded)) /\ Allocated(loaded) <= Capacity
    BY DEF IInv, TypeOK, Fits
  <1>4. loaded' \in Dict /\ DOMAIN loaded' = DOMAIN loaded \cup {call[t].model}
    BY <1>1, <1>2, <1>3, EnterType
  <1>5. Fits(loaded)'
    BY <1>1, <1>2, <1>3, LoadableFits DEF Fits
  <1>6. PinnedStaysTracked'
    BY <1>1, <1>4 DEF IInv, PinnedStaysTracked
  <1>7. /\ pinned' \in Models \cup {NoModel}
        /\ waiters' \in Seq(Tasks)
        /\ resident' \subseteq Models
    BY <1>1, <1>2 DEF LoadDone, IInv, TypeOK
  <1>8. QED
    BY <1>1, <1>2, <1>4, <1>5, <1>6, <1>7, ReturnKeepsIInv

\* load_model fails: the snapshot is back, and it fits.
LEMMA LoadRaisesKeepsIInv ==
    ASSUME IInv, NEW t \in Tasks, LoadRaises(t)
    PROVE  IInv'
  <1>1. /\ pc[t] = "loading"
        /\ loaded' = Restored(loaded, work.snapshot)
        /\ Return(t)
        /\ UNCHANGED <<pinned, waiters, resident>>
    BY DEF LoadRaises, At
  <1>2. /\ loaded \in Dict /\ SubDict(loaded, work.snapshot)
        /\ pinned # NoModel => pinned \in DOMAIN loaded
    BY <1>1 DEF IInv, TypeOK, SnapshotCovers, PinnedStaysTracked
  <1>3. /\ loaded' = work.snapshot /\ work.snapshot \in Dict /\ Fits(work.snapshot)
        /\ pinned # NoModel => pinned \in DOMAIN work.snapshot
    BY <1>1, <1>2, RestoreKeepsLedger
  <1>4. /\ loaded' \in Dict /\ Fits(loaded)' /\ PinnedStaysTracked'
    BY <1>1, <1>3 DEF Fits, PinnedStaysTracked
  <1>5. /\ pinned' \in Models \cup {NoModel} /\ waiters' \in Seq(Tasks)
        /\ resident' \subseteq Models /\ lockHolder \in {t, NoTask}
    BY <1>1 DEF IInv, TypeOK, HoldersHold
  <1>6. QED
    BY <1>1, <1>4, <1>5, ReturnKeepsIInv

-------------------------------------------------------------------------------
(* unload_model and cancellation                                           *)

\* unload_model, not loaded or pinned: nothing changes.
LEMMA UnloadSkippedKeepsIInv ==
    ASSUME IInv, NEW t \in Tasks, UnloadSkipped(t)
    PROVE  IInv'
  <1>1. /\ Acquire(t) /\ Return(t)
        /\ UNCHANGED <<loaded, pinned, resident>>
    BY DEF UnloadSkipped, BeginUnload
  <1>2. lockHolder \in {t, NoTask} /\ waiters' \in Seq(Tasks)
    BY <1>1, AcquireFacts
  <1>3. /\ loaded' \in Dict /\ Fits(loaded)' /\ pinned' \in Models \cup {NoModel}
        /\ PinnedStaysTracked' /\ resident' \subseteq Models
    BY <1>1 DEF IInv, TypeOK, Fits, PinnedStaysTracked
  <1>4. QED
    BY <1>1, <1>2, <1>3, ReturnKeepsIInv

\* unload_model: the lock holder awaits the backend.
LEMMA UnloadStartsKeepsIInv ==
    ASSUME IInv, NEW t \in Tasks, UnloadStarts(t)
    PROVE  IInv'
  <1>1. /\ Acquire(t) /\ call[t].op = "unload"
        /\ call[t].model # pinned
        /\ pc' = [pc EXCEPT ![t] = "unloading"]
        /\ lockHolder' = t
        /\ UNCHANGED <<loaded, pinned, call, work, resident>>
    BY DEF UnloadStarts, BeginUnload, Unloadable, Goto
  <1>2. /\ waiters' \in Seq(Tasks)
        /\ \A u \in Tasks : pc[u] \notin AtBackend
    BY <1>1, AcquireFacts
  <1>3. \A u \in Tasks : /\ u # t => pc'[u] = pc[u]
                         /\ u = t => pc'[u] = "unloading"
    BY <1>1 DEF IInv, TypeOK
  <1>4. \A u \in Tasks : pc'[u] \in AtBackend => u = t
    BY <1>2, <1>3
  <1>5. TypeOK'
    BY <1>1, <1>2 DEF IInv, TypeOK
  <1>6. CallsAreReal'
    BY <1>1, <1>3, AcquireFacts DEF IInv, CallsAreReal
  <1>7. Fits(loaded)' /\ Fits(work.snapshot)'
    BY <1>1 DEF IInv, Fits
  <1>8. HoldersHold' /\ SnapshotCovers' /\ VictimIsTracked' /\ LoadReady' /\ UnloadReady'
    BY <1>1, <1>3, <1>4 DEF HoldersHold, SnapshotCovers, VictimIsTracked, LoadReady,
       UnloadReady, AtBackend
  <1>9. QED
    BY <1>1, <1>5, <1>6, <1>7, <1>8 DEF IInv, PinnedStaysTracked

\* unload_model: a model that is not pinned is forgotten.
LEMMA UnloadDoneKeepsIInv ==
    ASSUME IInv, NEW t \in Tasks, UnloadDone(t)
    PROVE  IInv'
  <1>1. /\ pc[t] = "unloading"
        /\ BackendUnload(call[t].model)
        /\ loaded' = Without(loaded, {call[t].model})
        /\ Return(t)
        /\ UNCHANGED <<pinned, waiters>>
    BY DEF UnloadDone, At
  <1>2. lockHolder = t /\ call[t].model # pinned
    BY <1>1 DEF IInv, HoldersHold, UnloadReady
  <1>3. loaded \in Dict /\ IsFiniteSet(Units(loaded)) /\ Allocated(loaded) <= Capacity
    BY DEF IInv, TypeOK, Fits
  <1>4. loaded' \in Dict /\ DOMAIN loaded' = DOMAIN loaded \ {call[t].model}
    BY <1>1, <1>3, WithoutType
  <1>5. Fits(loaded)'
    <2>1. IsFiniteSet(Units(loaded')) /\ Allocated(loaded') <= Allocated(loaded)
      BY <1>1, <1>3, WithoutShrinks
    <2>2. Allocated(loaded') \in Nat /\ Allocated(loaded) \in Nat /\ Capacity \in Int
      BY <1>3, <2>1, AllocatedType, BudgetAssumption DEF Capacity, EffectiveBudget
    <2>3. Allocated(loaded') <= Capacity
      BY <1>3, <2>1, <2>2
    <2>4. QED
      BY <2>1, <2>3 DEF Fits
  <1>6. PinnedStaysTracked'
    BY <1>1, <1>2, <1>4 DEF IInv, PinnedStaysTracked
  <1>7. /\ pinned' \in Models \cup {NoModel} /\ waiters' \in Seq(Tasks)
        /\ resident' \subseteq Models
    BY <1>1 DEF BackendUnload, IInv, TypeOK
  <1>8. QED
    BY <1>1, <1>2, <1>4, <1>5, <1>6, <1>7, ReturnKeepsIInv

\* Cancelled at the backend: what is tracked stays, as it is.
LEMMA CancelAtBackendKeepsIInv ==
    ASSUME IInv, NEW t \in Tasks, CancelAtBackend(t)
    PROVE  IInv'
  <1>1. /\ pc[t] \in AtBackend
        /\ Return(t)
        /\ UNCHANGED <<loaded, pinned, waiters>>
    BY DEF CancelAtBackend, AtBackend
  <1>2. lockHolder \in {t, NoTask} /\ call[t].model \in Models
    BY <1>1 DEF IInv, HoldersHold, CallsAreReal, AtBackend
  <1>3. resident' \subseteq Models
    BY <1>1, <1>2 DEF CancelAtBackend, At, AtBackend, IInv, TypeOK
  <1>4. /\ loaded' \in Dict /\ Fits(loaded)' /\ pinned' \in Models \cup {NoModel}
        /\ PinnedStaysTracked' /\ waiters' \in Seq(Tasks)
    BY <1>1 DEF IInv, TypeOK, Fits, PinnedStaysTracked
  <1>5. QED
    BY <1>1, <1>2, <1>3, <1>4, ReturnKeepsIInv

-------------------------------------------------------------------------------
(* The invariant and what follows from it                                  *)

\* Every step keeps the invariant.
LEMMA NextKeepsIInv == IInv /\ [Next]_vars => IInv'
  <1> SUFFICES ASSUME IInv, [Next]_vars PROVE IInv'
    OBVIOUS
  <1>1. ASSUME NEW t \in Tasks, Request(t) PROVE IInv'
    BY <1>1, RequestKeepsIInv
  <1>2. ASSUME NEW t \in Tasks, LoadStep(t) PROVE IInv'
    BY <1>2, LoadEndsAtOnceKeepsIInv, LoadFitsKeepsIInv, BeginEvictionKeepsIInv,
       EvictNextKeepsIInv, EvictionFallsShortKeepsIInv, EvictionSufficesKeepsIInv,
       LoadDoneKeepsIInv, LoadRaisesKeepsIInv DEF LoadStep
  <1>3. ASSUME NEW t \in Tasks, UnloadStep(t) PROVE IInv'
    BY <1>3, UnloadSkippedKeepsIInv, UnloadStartsKeepsIInv, UnloadDoneKeepsIInv
       DEF UnloadStep
  <1>4. ASSUME NEW t \in Tasks, Cancel(t) PROVE IInv'
    BY <1>4, CancelWaitingKeepsIInv, CancelAtBackendKeepsIInv DEF Cancel
  <1>5. CASE Restart
    BY <1>5, RestartKeepsIInv
  <1>6. CASE UNCHANGED vars
    BY <1>6 DEF vars, IInv, TypeOK, HoldersHold, CallsAreReal, Fits, SnapshotCovers,
       SubDict, VictimIsTracked, LoadReady, UnloadReady, PinnedStaysTracked
  <1>7. QED
    BY <1>1, <1>2, <1>3, <1>4, <1>5, <1>6 DEF Next

\* The inductive invariant holds of every behaviour, for every set of models
\* and tasks, every budget and every combination of faults.
THEOREM InductiveInvariant == Spec => []IInv
  <1>1. IInv /\ [Next]_vars => IInv'
    BY NextKeepsIInv
  <1>2. QED
    BY InitIInv, <1>1, PTL DEF Spec

\* The state of VRAMManager keeps its types.
THEOREM TypeCorrect == Spec => []TypeOK
  <1>1. IInv => TypeOK
    BY DEF IInv
  <1>2. QED
    BY <1>1, InductiveInvariant, PTL

\* load_model, _free_vram and unload_model never book more VRAM than the
\* effective budget, whatever fails, is cancelled or interleaves.
THEOREM BudgetIsRespected == Spec => []BudgetRespected
  <1>1. IInv => BudgetRespected
    BY DEF IInv, Fits, BudgetRespected
  <1>2. QED
    BY <1>1, InductiveInvariant, PTL

\* A pinned model is never dropped from the tracking.
THEOREM PinnedIsNeverDropped == Spec => []PinnedStaysTracked
  <1>1. IInv => PinnedStaysTracked
    BY DEF IInv
  <1>2. QED
    BY <1>1, InductiveInvariant, PTL

-------------------------------------------------------------------------------
(* VRAM that is occupied without being counted                             *)

\* What the tracking of a model may be lost by.
LostByFailure(m) ==
    \/ Unloading(m)
    \/ \E t \in Tasks : At(t, "loading") /\ call[t].model = m /\ Cancel(t)
    \/ Restart

\* Without drops what it is told to drop, and nothing else.
LEMMA WithoutDrops == ASSUME NEW d, NEW m PROVE DOMAIN Without(d, {m}) = DOMAIN d \ {m}
  BY DEF Without, Restrict

\* A restored snapshot adds to what is tracked.
LEMMA RestoredAdds ==
    ASSUME NEW d, NEW other PROVE DOMAIN d \subseteq DOMAIN Restored(d, other)
  BY DEF Merge, Restored

\* A model that is entered is tracked, and what was tracked stays so.
LEMMA EnterTracks ==
    ASSUME NEW d, NEW m, NEW estimate PROVE DOMAIN Enter(d, m, estimate) = DOMAIN d \cup {m}
  BY DEF Enter, Merge

\* If the tracking only grows and VRAM only shrinks, nothing becomes uncounted.
LEMMA NothingIsLost ==
    ASSUME NEW m, DOMAIN loaded \subseteq DOMAIN loaded', resident' \subseteq resident,
           ~Uncounted(m)
    PROVE  ~Uncounted(m)'
  BY DEF Uncounted

\* No step makes a model uncounted but those that LostByFailure names.
LEMMA StepLosesByFailure ==
    ASSUME [Next]_vars, NEW m \in Models, ~Uncounted(m), Uncounted(m)'
    PROVE  LostByFailure(m)
  <1>1. ASSUME NEW t \in Tasks, Request(t)
        PROVE  LostByFailure(m)
    BY <1>1, NothingIsLost DEF Request, RequestLoad, RequestUnload
  <1>2. ASSUME NEW t \in Tasks, LoadStep(t)
        PROVE  LostByFailure(m)
    <2>1. CASE LoadAlreadyTracked(t) \/ LoadFits(t) \/ LoadRejected(t) \/ BeginEviction(t)
      BY <2>1, NothingIsLost DEF LoadAlreadyTracked, LoadFits, LoadRejected, BeginEviction
    <2>2. CASE EvictNext(t) \/ EvictionFallsShort(t) \/ EvictionSuffices(t)
      <3>0. /\ FinishEviction(t)
            /\ loaded' \in {AfterEviction, Restored(AfterEviction, work.snapshot)}
        BY <2>2 DEF EvictNext, EvictionFallsShort, EvictionSuffices
      <3>1. FinishEviction(t) /\ DOMAIN loaded \ {work.victim} \subseteq DOMAIN loaded'
        <4>1. DOMAIN AfterEviction = DOMAIN loaded \ {work.victim}
          BY WithoutDrops DEF AfterEviction
        <4>2. DOMAIN AfterEviction \subseteq DOMAIN Restored(AfterEviction, work.snapshot)
          BY RestoredAdds
        <4> QED
          BY <3>0, <4>1, <4>2
      <3>2. At(t, "evicting") /\ resident' \subseteq resident
        BY <3>1 DEF FinishEviction, BackendUnload
      <3>3. m = work.victim
        BY <3>1, <3>2 DEF Uncounted
      <3> QED
        BY <3>2, <3>3 DEF LostByFailure, Unloading
    <2>3. CASE LoadDone(t)
      <3>1. DOMAIN loaded' = DOMAIN loaded \cup {call[t].model}
        BY <2>3, EnterTracks DEF LoadDone
      <3>2. resident' \subseteq resident \cup {call[t].model}
        BY <2>3 DEF LoadDone
      <3> QED
        BY <3>1, <3>2 DEF Uncounted
    <2>4. CASE LoadRaises(t)
      <3>1. loaded' = Restored(loaded, work.snapshot) /\ resident' = resident
        BY <2>4 DEF LoadRaises
      <3>2. DOMAIN loaded \subseteq DOMAIN loaded'
        BY <3>1, RestoredAdds
      <3> QED
        BY <3>1, <3>2, NothingIsLost
    <2> QED
      BY <1>2, <2>1, <2>2, <2>3, <2>4 DEF LoadStep
  <1>3. ASSUME NEW t \in Tasks, UnloadStep(t)
        PROVE  LostByFailure(m)
    <2>1. CASE UnloadSkipped(t) \/ UnloadStarts(t)
      BY <2>1, NothingIsLost DEF UnloadSkipped, UnloadStarts
    <2>2. CASE UnloadDone(t)
      <3>1. At(t, "unloading") /\ resident' \subseteq resident
        BY <2>2 DEF UnloadDone, BackendUnload
      <3>2. DOMAIN loaded' = DOMAIN loaded \ {call[t].model}
        BY <2>2, WithoutDrops DEF UnloadDone
      <3>3. call[t].model = m
        BY <3>1, <3>2 DEF Uncounted
      <3> QED
        BY <3>1, <3>3 DEF LostByFailure, Unloading
    <2> QED
      BY <1>3, <2>1, <2>2 DEF UnloadStep
  <1>4. ASSUME NEW t \in Tasks, Cancel(t)
        PROVE  LostByFailure(m)
    <2>1. CASE CancelWaiting(t)
      BY <2>1, NothingIsLost DEF CancelWaiting
    <2>2. CASE CancelAtBackend(t) /\ At(t, "loading")
      <3>1. loaded' = loaded /\ resident' \subseteq resident \cup {call[t].model}
        BY <2>2 DEF CancelAtBackend, At
      <3>2. call[t].model = m
        BY <3>1 DEF Uncounted
      <3> QED
        BY <1>4, <2>2, <3>2 DEF LostByFailure
    <2>3. CASE CancelAtBackend(t) /\ ~At(t, "loading")
      <3>1. loaded' = loaded /\ resident' \subseteq resident
        BY <2>3 DEF CancelAtBackend, At
      <3> QED
        BY <3>1, NothingIsLost
    <2> QED
      BY <1>4, <2>1, <2>2, <2>3 DEF Cancel
  <1>5. CASE Restart
    BY <1>5 DEF LostByFailure
  <1>6. CASE UNCHANGED vars
    BY <1>6, NothingIsLost DEF vars
  <1> QED
    BY <1>1, <1>2, <1>3, <1>4, <1>5, <1>6 DEF Next

\* Whatever is loaded, evicted and unloaded in which order, VRAM is occupied without
\* being counted only after an unload that failed, a cancelled load or a restart.
THEOREM TrackIsLostOnlyByFailure == Spec => LosesTrackOnlyByFailure
  <1>1. [Next]_vars => [\A m \in Models : ~Uncounted(m) /\ Uncounted(m)' =>
                           \/ Unloading(m)
                           \/ \E t \in Tasks : At(t, "loading") /\ call[t].model = m /\ Cancel(t)
                           \/ Restart]_vars
    BY StepLosesByFailure DEF LostByFailure
  <1> QED
    BY <1>1, PTL DEF Spec, LosesTrackOnlyByFailure
-------------------------------------------------------------------------------
(***************************************************************************)
(* VRAMManager implements VRAMLedger, and what _free_vram frees is what    *)
(* the load lacked, for every set of models and tasks, every budget and    *)
(* every combination of faults.                                            *)
(*                                                                         *)
(* The mapping keeps the ledger at the snapshot while a load is under way. *)
(* Beyond IInv one must know what an eviction has done so far: what it     *)
(* freed is what the snapshot occupies and loaded does not, and until now  *)
(* it was not enough (EvictionAccounts); hence, once it is enough, the     *)
(* last victim was needed (NoVictimTooMany).                               *)
(***************************************************************************)

Ledger == IF LoadUnderWay THEN work.snapshot ELSE loaded

IdleHasNoCall ==
    \A t \in Tasks : /\ pc[t] = "idle" => call[t] = NoCall
                     /\ pc[t] # "idle" => call[t].op \in {"load", "unload"}
                     /\ pc[t] = "unloading" => call[t].op = "unload"

EvictionAccounts ==
    \A t \in Tasks : pc[t] = "evicting" =>
        /\ work.needed = call[t].estimate - Available(work.snapshot)
        /\ work.freed + Allocated(loaded) = Allocated(work.snapshot)
        /\ ~CanLoad(loaded, call[t].estimate)

Victims == DOMAIN work.snapshot \ DOMAIN loaded

NoVictimTooMany ==
    \A t \in Tasks : pc[t] = "loading" =>
        (Victims # {} =>
            \E last \in Victims :
                ~CanLoad(Without(work.snapshot, Victims \ {last}), call[t].estimate))

RInv == IdleHasNoCall /\ EvictionAccounts /\ NoVictimTooMany

-------------------------------------------------------------------------------
(* The budget                                                              *)

\* The ledger computes with the arithmetic of the manager.
LEMMA SameBudget ==
    /\ Promise!EmptyDict = EmptyDict
    /\ Promise!NoCall = NoCall
    /\ \A d, gone : Promise!Without(d, gone) = Without(d, gone)
    /\ \A d, e : Promise!CanLoad(d, e) = CanLoad(d, e)
    /\ \A d, m, e : Promise!Enter(d, m, e) = Enter(d, m, e)
  <1>1. Promise!EmptyDict = EmptyDict
    BY DEF Promise!EmptyDict, EmptyDict
  <1>2. Promise!NoCall = NoCall
    BY DEF Promise!NoCall, NoCall
  <1>3. \A d, gone : Promise!Without(d, gone) = Without(d, gone)
    BY WithoutIsRest DEF Promise!Without, Promise!Restrict
  <1>4. \A d, e : Promise!CanLoad(d, e) = CanLoad(d, e)
    BY DEF Promise!CanLoad, CanLoad, Promise!Available, Available, Promise!Allocated,
       Allocated, Promise!Units, Units, Promise!EffectiveBudget, EffectiveBudget,
       Promise!Cardinality, Cardinality
  <1>5. \A d, m, e : Promise!Enter(d, m, e) = Enter(d, m, e)
    BY DEF Promise!Enter, Enter, Promise!Merge, Merge
  <1>6. QED
    BY <1>1, <1>2, <1>3, <1>4, <1>5

\* Within the capacity nothing is cut off at zero.
LEMMA AvailableIsTheRest ==
    ASSUME NEW d, Fits(d)
    PROVE  /\ Allocated(d) \in Nat
           /\ Capacity \in Nat
           /\ Available(d) = Capacity - Allocated(d)
  <1>1. Allocated(d) \in Nat /\ Allocated(d) <= Capacity
    BY AllocatedType DEF Fits
  <1>2. QED
    BY <1>1, BudgetAssumption DEF Available, Capacity, EffectiveBudget

\* A model that leaves gives back its estimate.
LEMMA WithoutOne ==
    ASSUME NEW d \in Dict, IsFiniteSet(Units(d)), NEW m \in DOMAIN d
    PROVE  Allocated(d) = Allocated(Without(d, {m})) + d[m]
  <1> DEFINE rest == Without(d, {m})
             back == Enter(rest, m, d[m])
  <1>1. m \in Models /\ d[m] \in Estimates /\ d \in [DOMAIN d -> Estimates]
    BY DictElim
  <1>2. /\ rest \in Dict /\ DOMAIN rest = DOMAIN d \ {m}
        /\ \A o \in DOMAIN rest : rest[o] = d[o]
    BY WithoutType
  <1>3. IsFiniteSet(Units(rest))
    BY WithoutShrinks
  <1> HIDE DEF rest
  <1>4. /\ back \in Dict /\ DOMAIN back = DOMAIN rest \cup {m}
        /\ \A o \in DOMAIN rest : back[o] = rest[o]
        /\ back[m] = d[m]
    BY <1>1, <1>2, EnterType
  <1>5. Allocated(back) = Allocated(rest) + d[m]
    BY <1>1, <1>2, <1>3, EnterAdds
  <1> HIDE DEF back
  <1>6. back \in [DOMAIN back -> Estimates]
    BY <1>4, DictElim
  <1>7. back = d
    BY <1>1, <1>2, <1>4, <1>6
  <1>8. QED
    BY <1>5, <1>7 DEF rest

\* A part of a dictionary is the dictionary without the rest.
LEMMA SubDictIsWithout ==
    ASSUME NEW d \in Dict, NEW whole \in Dict, SubDict(d, whole)
    PROVE  d = Without(whole, DOMAIN whole \ DOMAIN d)
  <1> DEFINE w == Without(whole, DOMAIN whole \ DOMAIN d)
  <1>1. /\ w \in Dict /\ DOMAIN w = DOMAIN d
        /\ \A m \in DOMAIN w : w[m] = whole[m]
    BY WithoutType DEF SubDict
  <1> HIDE DEF w
  <1>2. w \in [DOMAIN d -> Estimates] /\ d \in [DOMAIN d -> Estimates]
    BY <1>1, DictElim
  <1>3. \A m \in DOMAIN d : w[m] = d[m]
    BY <1>1 DEF SubDict
  <1>4. w = d
    BY <1>2, <1>3
  <1>5. QED
    BY <1>4 DEF w

\* After an eviction, freed is enough exactly when the model fits.
LEMMA EnoughIsCanLoad ==
    ASSUME IInv, RInv, NEW t \in Tasks, FinishEviction(t)
    PROVE  /\ FreedNow + Allocated(AfterEviction) = Allocated(work.snapshot)
           /\ FreedNow >= work.needed <=> CanLoad(AfterEviction, call[t].estimate)
  <1>1. /\ pc[t] = "evicting"
        /\ call[t].estimate \in Nat
        /\ Fits(AfterEviction)
        /\ FreedNow \in Nat
    BY AfterEvictionFacts, BudgetAssumption
  <1>2. /\ loaded \in Dict /\ work.victim \in DOMAIN loaded
        /\ Fits(loaded) /\ Fits(work.snapshot)
    BY <1>1 DEF IInv, TypeOK, VictimIsTracked
  <1>3. Allocated(loaded) = Allocated(AfterEviction) + loaded[work.victim]
    BY <1>2, WithoutOne DEF AfterEviction, Fits
  <1>4. /\ work.needed = call[t].estimate - Available(work.snapshot)
        /\ work.freed + Allocated(loaded) = Allocated(work.snapshot)
    BY <1>1 DEF RInv, EvictionAccounts
  <1>5. work.freed \in Nat /\ loaded[work.victim] \in Nat
    BY <1>2, DictElim, BudgetAssumption DEF IInv, TypeOK
  <1>6. /\ Allocated(loaded) \in Nat /\ Allocated(work.snapshot) \in Nat
        /\ Allocated(AfterEviction) \in Nat /\ Capacity \in Nat
        /\ Available(work.snapshot) = Capacity - Allocated(work.snapshot)
        /\ Available(AfterEviction) = Capacity - Allocated(AfterEviction)
    BY <1>1, <1>2, AvailableIsTheRest
  <1>7. FreedNow + Allocated(AfterEviction) = Allocated(work.snapshot)
    BY <1>3, <1>4, <1>5, <1>6 DEF FreedNow
  <1>8. QED
    BY <1>1, <1>4, <1>6, <1>7 DEF CanLoad

-------------------------------------------------------------------------------
(* The mapping                                                             *)

\* While a load is under way the ledger is its snapshot.
LEMMA LedgerAtLoad ==
    ASSUME IInv, NEW t \in Tasks, pc[t] \in {"evicting", "loading"}
    PROVE  Ledger = work.snapshot
  BY DEF IInv, HoldersHold, Ledger, LoadUnderWay

\* Otherwise it is what is tracked.
LEMMA LedgerAtRest ==
    ASSUME \A u \in Tasks : pc[u] \notin {"evicting", "loading"}
    PROVE  Ledger = loaded
  BY DEF Ledger, LoadUnderWay

\* A task alone at the backend, unloading, leaves the ledger at what is tracked.
LEMMA LedgerAtUnload ==
    ASSUME IInv, NEW t \in Tasks, pc[t] = "unloading"
    PROVE  Ledger = loaded
  <1>1. lockHolder = t
    BY DEF IInv, HoldersHold
  <1>2. \A u \in Tasks : pc[u] \notin {"evicting", "loading"}
    BY <1>1, OthersAreNotAtBackend DEF AtBackend
  <1>3. QED
    BY <1>2, LedgerAtRest

\* What a load has evicted so far is not pinned, and is all that is missing.
LEMMA VictimsOfLoad ==
    ASSUME IInv, NEW t \in Tasks, pc[t] \in {"evicting", "loading"}
    PROVE  /\ Victims \in SUBSET (DOMAIN work.snapshot \ {pinned})
           /\ loaded = Without(work.snapshot, Victims)
  <1>1. /\ loaded \in Dict /\ work.snapshot \in Dict
        /\ SubDict(loaded, work.snapshot)
        /\ pinned # NoModel => pinned \in DOMAIN loaded
    BY DEF IInv, TypeOK, SnapshotCovers, PinnedStaysTracked
  <1>2. NoModel \notin DOMAIN work.snapshot
    BY <1>1, DictElim, ManagerAssumption
  <1>3. Victims \in SUBSET (DOMAIN work.snapshot \ {pinned})
    BY <1>1, <1>2 DEF Victims
  <1>4. loaded = Without(work.snapshot, Victims)
    BY <1>1, SubDictIsWithout DEF Victims
  <1>5. QED
    BY <1>3, <1>4

\* A task that is not at the backend, and does not go there, moves no ledger.
LEMMA QueueStepKeepsLedger ==
    ASSUME IInv, NEW t \in Tasks, pc[t] \notin AtBackend,
           NEW place \in {"idle", "waiting"}, Goto(t, place),
           UNCHANGED <<loaded, lockHolder, work>>
    PROVE  Ledger' = Ledger
  <1>1. \A u \in Tasks : /\ u # t => pc'[u] = pc[u]
                         /\ u = t => pc'[u] = place
    BY DEF Goto, IInv, TypeOK
  <1>2. LoadUnderWay' <=> LoadUnderWay
    BY <1>1 DEF LoadUnderWay, AtBackend
  <1>3. QED
    BY <1>2 DEF Ledger

\* A call that ends leaves the ledger at what is tracked.
LEMMA ReturnFacts ==
    ASSUME IInv, RInv, NEW t \in Tasks, Return(t), lockHolder \in {t, NoTask}
    PROVE  RInv' /\ Ledger' = loaded' /\ call' = [call EXCEPT ![t] = NoCall]
  <1>1. \A u \in Tasks : u # t => pc[u] \notin AtBackend
    BY OthersAreNotAtBackend
  <1>2. pc' = [pc EXCEPT ![t] = "idle"] /\ call' = [call EXCEPT ![t] = NoCall]
    BY DEF Return, Goto
  <1>3. \A u \in Tasks : /\ u # t => pc'[u] = pc[u] /\ call'[u] = call[u]
                         /\ u = t => pc'[u] = "idle" /\ call'[u] = NoCall
    BY <1>2 DEF IInv, TypeOK
  <1>4. \A u \in Tasks : pc'[u] \notin AtBackend
    BY <1>1, <1>3 DEF AtBackend
  <1>5. Ledger' = loaded'
    BY <1>4 DEF Ledger, LoadUnderWay, AtBackend
  <1>6. IdleHasNoCall'
    BY <1>3 DEF RInv, IdleHasNoCall
  <1>7. QED
    BY <1>2, <1>4, <1>5, <1>6 DEF RInv, EvictionAccounts, NoVictimTooMany, AtBackend

-------------------------------------------------------------------------------
(* How the steps of the ledger are met                                     *)

Step == [Promise!Next]_(Promise!vars)

\* Nothing the ledger knows of changes: a stuttering step.
LEMMA Stutters ==
    ASSUME Ledger' = Ledger, UNCHANGED <<pinned, call>>
    PROVE  Step
  BY DEF Step, Promise!vars, Ledger

\* A call ends and the ledger is what it was.
LEMMA HasNoEffect ==
    ASSUME RInv, NEW t \in Tasks, pc[t] # "idle", Ledger' = Ledger, UNCHANGED pinned,
           call' = [call EXCEPT ![t] = NoCall]
    PROVE  Step
  <1>1. call[t] # NoCall
    BY DEF RInv, IdleHasNoCall, NoCall
  <1>2. Promise!NoEffect(t)
    BY <1>1, SameBudget DEF Promise!NoEffect, Promise!Ends, Ledger
  <1>3. QED
    BY <1>2 DEF Step, Promise!Next

-------------------------------------------------------------------------------
(* Every step of the manager is one of the ledger                          *)

\* A request is an invocation.
LEMMA RequestIsInvoke ==
    ASSUME IInv, RInv, NEW t \in Tasks, Request(t)
    PROVE  RInv' /\ Step
  <1>1. PICK c \in Promise!Calls :
           /\ pc[t] = "idle"
           /\ Goto(t, "waiting")
           /\ call' = [call EXCEPT ![t] = c]
           /\ UNCHANGED <<loaded, pinned, lockHolder, work, resident>>
    <2>1. PICK m \in Models :
             \/ \E estimate \in Estimates, pin \in BOOLEAN : RequestLoad(t, m, estimate, pin)
             \/ RequestUnload(t, m)
      BY DEF Request
    <2>2. CASE \E estimate \in Estimates, pin \in BOOLEAN : RequestLoad(t, m, estimate, pin)
      BY <2>2 DEF RequestLoad, At, Promise!Calls
    <2>3. CASE RequestUnload(t, m)
      BY <2>3 DEF RequestUnload, At, Promise!Calls
    <2>4. QED
      BY <2>1, <2>2, <2>3
  <1>2. c.op \in {"load", "unload"}
    BY DEF Promise!Calls
  <1>3. \A u \in Tasks : /\ u # t => pc'[u] = pc[u] /\ call'[u] = call[u]
                         /\ u = t => pc'[u] = "waiting" /\ call'[u] = c
    BY <1>1 DEF Goto, IInv, TypeOK
  <1>4. RInv'
    <2>1. IdleHasNoCall'
      BY <1>2, <1>3 DEF RInv, IdleHasNoCall
    <2>2. EvictionAccounts'
      BY <1>1, <1>3 DEF RInv, EvictionAccounts
    <2>3. NoVictimTooMany'
      BY <1>1, <1>3 DEF RInv, NoVictimTooMany, Victims
    <2>4. QED
      BY <2>1, <2>2, <2>3 DEF RInv
  <1>5. Ledger' = Ledger
    BY <1>1, QueueStepKeepsLedger DEF AtBackend
  <1>6. Promise!Invoke(t)
    <2>1. call[t] = Promise!NoCall
      BY <1>1, SameBudget DEF RInv, IdleHasNoCall
    <2>2. QED
      BY <1>1, <1>5, <2>1 DEF Promise!Invoke, Ledger
  <1>7. QED
    BY <1>4, <1>6 DEF Step, Promise!Next

\* A call cancelled in the queue has no effect.
LEMMA CancelWaitingHasNoEffect ==
    ASSUME IInv, RInv, NEW t \in Tasks, CancelWaiting(t)
    PROVE  RInv' /\ Step
  <1>1. /\ pc[t] = "waiting"
        /\ Goto(t, "idle")
        /\ call' = [call EXCEPT ![t] = NoCall]
        /\ UNCHANGED <<loaded, pinned, lockHolder, work, resident>>
    BY DEF CancelWaiting, At
  <1>2. \A u \in Tasks : /\ u # t => pc'[u] = pc[u] /\ call'[u] = call[u]
                         /\ u = t => pc'[u] = "idle" /\ call'[u] = NoCall
    BY <1>1 DEF Goto, IInv, TypeOK
  <1>3. RInv'
    <2>1. IdleHasNoCall'
      BY <1>2 DEF RInv, IdleHasNoCall
    <2>2. EvictionAccounts'
      BY <1>1, <1>2 DEF RInv, EvictionAccounts
    <2>3. NoVictimTooMany'
      BY <1>1, <1>2 DEF RInv, NoVictimTooMany, Victims
    <2>4. QED
      BY <2>1, <2>2, <2>3 DEF RInv
  <1>4. Ledger' = Ledger
    BY <1>1, QueueStepKeepsLedger DEF AtBackend
  <1>5. QED
    BY <1>1, <1>3, <1>4, HasNoEffect

\* A load that ends at once, or an unload that is skipped, has no effect.
LEMMA EndsAtOnceHasNoEffect ==
    ASSUME IInv, RInv, NEW t \in Tasks,
           LoadAlreadyTracked(t) \/ LoadRejected(t) \/ UnloadSkipped(t)
    PROVE  RInv' /\ Step
  <1>1. Acquire(t) /\ Return(t) /\ UNCHANGED <<loaded, pinned>>
    BY DEF LoadAlreadyTracked, LoadRejected, UnloadSkipped, BeginLoad, BeginUnload
  <1>2. /\ lockHolder \in {t, NoTask} /\ pc[t] # "idle"
        /\ \A u \in Tasks : pc[u] \notin {"evicting", "loading"}
    BY <1>1, AcquireFacts DEF AtBackend
  <1>3. Ledger = loaded
    BY <1>2, LedgerAtRest
  <1>4. RInv' /\ Ledger' = loaded' /\ call' = [call EXCEPT ![t] = NoCall]
    BY <1>1, <1>2, ReturnFacts
  <1>5. QED
    BY <1>1, <1>2, <1>3, <1>4, HasNoEffect

\* A load that fails puts the ledger back as it was.
LEMMA FailedLoadHasNoEffect ==
    ASSUME IInv, RInv, NEW t \in Tasks, EvictionFallsShort(t) \/ LoadRaises(t)
    PROVE  RInv' /\ Step
  <1>1. /\ pc[t] \in {"evicting", "loading"} /\ Return(t) /\ UNCHANGED pinned
        /\ lockHolder = t
    BY DEF EvictionFallsShort, FinishEviction, LoadRaises, At, IInv, HoldersHold
  <1>2. loaded' = work.snapshot
    <2>1. CASE EvictionFallsShort(t)
      BY <2>1, AfterEvictionFacts, RestoreKeepsLedger DEF EvictionFallsShort
    <2>2. CASE LoadRaises(t)
      BY <2>2, <1>1, RestoreKeepsLedger
         DEF LoadRaises, IInv, TypeOK, SnapshotCovers, PinnedStaysTracked
    <2>3. QED
      BY <2>1, <2>2
  <1>3. Ledger = work.snapshot
    BY <1>1, LedgerAtLoad
  <1>4. RInv' /\ Ledger' = loaded' /\ call' = [call EXCEPT ![t] = NoCall]
    BY <1>1, ReturnFacts
  <1>5. QED
    BY <1>1, <1>2, <1>3, <1>4, HasNoEffect

\* A load that succeeds acts in one step: its victims leave, its model enters.
LEMMA LoadDoneIsLoad ==
    ASSUME IInv, RInv, NEW t \in Tasks, LoadDone(t)
    PROVE  RInv' /\ Step
  <1>1. /\ pc[t] = "loading"
        /\ loaded' = Enter(loaded, call[t].model, call[t].estimate)
        /\ pinned' = IF call[t].pin THEN call[t].model ELSE pinned
        /\ Return(t)
    BY DEF LoadDone, At
  <1>2. /\ lockHolder = t
        /\ call[t].op = "load"
        /\ call[t].model \notin DOMAIN work.snapshot
        /\ CanLoad(loaded, call[t].estimate)
    BY <1>1 DEF IInv, HoldersHold, CallsAreReal, LoadReady
  <1>3. Ledger = work.snapshot
    BY <1>1, LedgerAtLoad
  <1>4. RInv' /\ Ledger' = loaded' /\ call' = [call EXCEPT ![t] = NoCall]
    BY <1>1, <1>2, ReturnFacts
  <1>5. /\ Victims \in SUBSET (DOMAIN Ledger \ {pinned})
        /\ loaded = Without(Ledger, Victims)
    BY <1>1, <1>3, VictimsOfLoad
  <1>6. Victims # {} =>
            \E last \in Victims : ~CanLoad(Without(Ledger, Victims \ {last}), call[t].estimate)
    BY <1>1, <1>3 DEF RInv, NoVictimTooMany
  <1>7. Promise!NoneTooMany(Victims, call[t].estimate)
    BY <1>6, SameBudget DEF Promise!NoneTooMany, Ledger
  <1>8. Promise!Load(t, Victims)
    BY <1>1, <1>2, <1>3, <1>4, <1>5, <1>7, SameBudget DEF Promise!Load, Promise!Ends, Ledger
  <1>9. QED
    BY <1>4, <1>5, <1>8 DEF Step, Promise!Next, Ledger

\* unload_model forgets its model.
LEMMA UnloadDoneIsUnload ==
    ASSUME IInv, RInv, NEW t \in Tasks, UnloadDone(t)
    PROVE  RInv' /\ Step
  <1>1. /\ pc[t] = "unloading"
        /\ loaded' = Without(loaded, {call[t].model})
        /\ Return(t)
        /\ UNCHANGED pinned
    BY DEF UnloadDone, At
  <1>2. lockHolder = t /\ call[t].model # pinned /\ call[t].op = "unload"
    BY <1>1 DEF IInv, HoldersHold, UnloadReady, RInv, IdleHasNoCall
  <1>3. Ledger = loaded
    BY <1>1, LedgerAtUnload
  <1>4. RInv' /\ Ledger' = loaded' /\ call' = [call EXCEPT ![t] = NoCall]
    BY <1>1, <1>2, ReturnFacts
  <1>5. Promise!Unload(t)
    BY <1>1, <1>2, <1>3, <1>4, SameBudget DEF Promise!Unload, Promise!Ends, Ledger
  <1>6. QED
    BY <1>4, <1>5 DEF Step, Promise!Next

\* Cancelled at the backend: a load may lose its victims, an unload does nothing.
LEMMA CancelAtBackendIsInterrupt ==
    ASSUME IInv, RInv, NEW t \in Tasks, CancelAtBackend(t)
    PROVE  RInv' /\ Step
  <1>1. /\ pc[t] \in AtBackend
        /\ "cancel" \in Faults
        /\ Return(t)
        /\ UNCHANGED <<loaded, pinned>>
    BY DEF CancelAtBackend, AtBackend
  <1>2. lockHolder = t
    BY <1>1 DEF IInv, HoldersHold, AtBackend
  <1>3. RInv' /\ Ledger' = loaded' /\ call' = [call EXCEPT ![t] = NoCall]
    BY <1>1, <1>2, ReturnFacts
  <1>4. CASE pc[t] \in {"evicting", "loading"}
    <2>1. call[t].op = "load"
      BY <1>4 DEF IInv, CallsAreReal
    <2>2. Ledger = work.snapshot
      BY <1>4, LedgerAtLoad
    <2>3. /\ Victims \in SUBSET (DOMAIN Ledger \ {pinned})
          /\ loaded = Without(Ledger, Victims)
      BY <1>4, <2>2, VictimsOfLoad
    <2>4. Promise!Interrupt(t, Victims)
      BY <1>1, <1>3, <2>1, <2>3, SameBudget DEF Promise!Interrupt, Promise!Ends, Ledger
    <2>5. QED
      BY <1>3, <2>3, <2>4 DEF Step, Promise!Next, Ledger
  <1>5. CASE pc[t] = "unloading"
    <2>1. Ledger = loaded
      BY <1>5, LedgerAtUnload
    <2>2. QED
      BY <1>1, <1>3, <1>5, <2>1, HasNoEffect
  <1>6. QED
    BY <1>1, <1>4, <1>5 DEF AtBackend

\* Entering the lock to unload changes nothing the ledger knows of.
LEMMA UnloadStartsStutters ==
    ASSUME IInv, RInv, NEW t \in Tasks, UnloadStarts(t)
    PROVE  RInv' /\ Step
  <1>1. /\ Acquire(t) /\ call[t].op = "unload"
        /\ pc' = [pc EXCEPT ![t] = "unloading"]
        /\ UNCHANGED <<loaded, pinned, call, work>>
    BY DEF UnloadStarts, BeginUnload, Goto
  <1>2. pc[t] = "waiting" /\ \A u \in Tasks : pc[u] \notin AtBackend
    BY <1>1, AcquireFacts
  <1>3. \A u \in Tasks : /\ u # t => pc'[u] = pc[u]
                         /\ u = t => pc'[u] = "unloading"
    BY <1>1 DEF IInv, TypeOK
  <1>4. \A u \in Tasks : pc'[u] \notin {"evicting", "loading"}
    BY <1>2, <1>3 DEF AtBackend
  <1>5. Ledger = loaded /\ Ledger' = loaded'
    BY <1>2, <1>4 DEF Ledger, LoadUnderWay, AtBackend
  <1>6. IdleHasNoCall'
    BY <1>1, <1>2, <1>3 DEF RInv, IdleHasNoCall
  <1>7. RInv'
    BY <1>4, <1>6 DEF RInv, EvictionAccounts, NoVictimTooMany
  <1>8. QED
    BY <1>1, <1>5, <1>7, Stutters

\* A load that fits, or begins to evict, keeps the ledger in its snapshot.
LEMMA LoadBeginsStutters ==
    ASSUME IInv, RInv, NEW t \in Tasks, LoadFits(t) \/ BeginEviction(t)
    PROVE  RInv' /\ Step
  <1>1. /\ Acquire(t) /\ call[t].op = "load"
        /\ lockHolder' = t
        /\ UNCHANGED <<loaded, pinned, call>>
    BY DEF LoadFits, BeginEviction, BeginLoad
  <1>2. pc[t] = "waiting" /\ \A u \in Tasks : pc[u] \notin AtBackend
    BY <1>1, AcquireFacts
  <1>3. /\ work'.snapshot = loaded
        /\ \A u \in Tasks : /\ u # t => pc'[u] = pc[u]
                            /\ u = t => pc'[u] \in {"evicting", "loading"}
        /\ pc'[t] = "evicting" => /\ work'.needed = Needed(call[t].estimate)
                                  /\ work'.freed = 0
                                  /\ ~CanLoad(loaded, call[t].estimate)
    <2>1. CASE LoadFits(t)
      BY <2>1 DEF LoadFits, Goto, NoWork, IInv, TypeOK
    <2>2. CASE BeginEviction(t)
      BY <2>2 DEF BeginEviction, Goto, IInv, TypeOK
    <2>3. QED
      BY <2>1, <2>2
  <1>4. Ledger = loaded /\ Ledger' = loaded
    BY <1>1, <1>2, <1>3 DEF Ledger, LoadUnderWay, AtBackend
  <1>5. IdleHasNoCall'
    BY <1>1, <1>2, <1>3 DEF RInv, IdleHasNoCall
  <1>6. EvictionAccounts'
    <2>1. Allocated(loaded) \in Nat
      BY AllocatedType DEF IInv, Fits
    <2>2. \A u \in Tasks : pc'[u] = "evicting" => u = t
      BY <1>2, <1>3 DEF AtBackend
    <2>3. QED
      BY <1>1, <1>3, <2>1, <2>2 DEF EvictionAccounts, Needed
  <1>7. NoVictimTooMany'
    BY <1>1, <1>3 DEF NoVictimTooMany, Victims
  <1>8. QED
    BY <1>1, <1>4, <1>5, <1>6, <1>7, Stutters DEF RInv

\* One victim more: what was freed so far was not enough.
LEMMA EvictNextStutters ==
    ASSUME IInv, RInv, NEW t \in Tasks, EvictNext(t)
    PROVE  RInv' /\ Step
  <1>1. /\ FinishEviction(t) /\ FreedNow < work.needed
        /\ loaded' = AfterEviction
        /\ UNCHANGED <<pinned, lockHolder, pc, call>>
    BY DEF EvictNext
  <1>2. /\ work'.snapshot = work.snapshot
        /\ work'.needed = work.needed
        /\ work'.freed = FreedNow
    BY DEF EvictNext, IInv, TypeOK
  <1>3. /\ pc[t] = "evicting"
        /\ \A u \in Tasks : u # t => pc[u] \notin AtBackend
        /\ FreedNow \in Nat
    BY <1>1, AfterEvictionFacts
  <1>4. work.needed \in Nat
    BY DEF IInv, TypeOK
  <1>5. /\ FreedNow + Allocated(AfterEviction) = Allocated(work.snapshot)
        /\ ~CanLoad(AfterEviction, call[t].estimate)
    BY <1>1, <1>3, <1>4, EnoughIsCanLoad
  <1>6. EvictionAccounts'
    BY <1>1, <1>2, <1>3, <1>5 DEF RInv, EvictionAccounts, AtBackend
  <1>7. IdleHasNoCall' /\ NoVictimTooMany'
    BY <1>1, <1>3 DEF RInv, IdleHasNoCall, NoVictimTooMany, AtBackend
  <1>8. Ledger' = Ledger
    BY <1>1, <1>2, <1>3 DEF Ledger, LoadUnderWay, IInv, HoldersHold
  <1>9. QED
    BY <1>1, <1>6, <1>7, <1>8, Stutters DEF RInv

\* Enough was freed, and the last victim was needed for that.
LEMMA EvictionSufficesStutters ==
    ASSUME IInv, RInv, NEW t \in Tasks, EvictionSuffices(t)
    PROVE  RInv' /\ Step /\ pc'[t] = "loading"
  <1>1. FinishEviction(t) /\ FreedNow >= work.needed /\ UNCHANGED pinned
    BY DEF EvictionSuffices
  <1>2. CanLoad(AfterEviction, call[t].estimate)
    BY <1>1, EnoughIsCanLoad
  <1>3. /\ loaded' = AfterEviction
        /\ pc' = [pc EXCEPT ![t] = "loading"]
        /\ work' = [work EXCEPT !.freed = FreedNow, !.victim = NoModel]
        /\ UNCHANGED <<lockHolder, call>>
    BY <1>2 DEF EvictionSuffices, Goto
  <1>4. /\ pc[t] = "evicting" /\ lockHolder = t
        /\ \A u \in Tasks : u # t => pc[u] \notin AtBackend
        /\ DOMAIN AfterEviction = DOMAIN loaded \ {work.victim}
    BY <1>1, AfterEvictionFacts
  <1>5. \A u \in Tasks : /\ u # t => pc'[u] = pc[u]
                         /\ u = t => pc'[u] = "loading"
    BY <1>3 DEF IInv, TypeOK
  <1>6. work'.snapshot = work.snapshot
    BY <1>3 DEF IInv, TypeOK
  <1>7. Ledger' = Ledger
    BY <1>3, <1>4, <1>5, <1>6 DEF Ledger, LoadUnderWay
  <1>8. IdleHasNoCall'
    BY <1>3, <1>4, <1>5 DEF RInv, IdleHasNoCall
  <1>9. EvictionAccounts'
    BY <1>4, <1>5 DEF EvictionAccounts, AtBackend
  <1>10. NoVictimTooMany'
    <2>1. /\ work.victim \in DOMAIN loaded
          /\ DOMAIN loaded \subseteq DOMAIN work.snapshot
      BY <1>4 DEF IInv, VictimIsTracked, SnapshotCovers, SubDict
    <2>2. /\ work.victim \in Victims'
          /\ Victims' \ {work.victim} = Victims
      BY <1>3, <1>4, <1>6, <2>1 DEF Victims
    <2>3. loaded = Without(work.snapshot, Victims)
      BY <1>4, VictimsOfLoad
    <2>4. ~CanLoad(loaded, call[t].estimate)
      BY <1>4 DEF RInv, EvictionAccounts
    <2>5. ~CanLoad(Without(work'.snapshot, Victims' \ {work.victim}), call'[t].estimate)
      BY <1>3, <1>6, <2>2, <2>3, <2>4
    <2>6. \A u \in Tasks : pc'[u] = "loading" => u = t
      BY <1>4, <1>5 DEF AtBackend
    <2>7. QED
      BY <2>2, <2>5, <2>6 DEF NoVictimTooMany
  <1>11. QED
    BY <1>1, <1>3, <1>5, <1>7, <1>8, <1>9, <1>10, Stutters DEF RInv

\* A new process: everything is lost.
LEMMA RestartIsReset ==
    ASSUME Restart
    PROVE  RInv' /\ Step
  <1>1. \A u \in Tasks : pc'[u] = "idle" /\ call'[u] = NoCall
    BY DEF Restart
  <1>2. Ledger' = loaded'
    BY <1>1 DEF Ledger, LoadUnderWay
  <1>3. Promise!Reset
    BY <1>2, SameBudget DEF Restart, Promise!Reset, Ledger
  <1>4. RInv'
    BY <1>1 DEF RInv, IdleHasNoCall, EvictionAccounts, NoVictimTooMany
  <1>5. QED
    BY <1>3, <1>4 DEF Step, Promise!Next

-------------------------------------------------------------------------------
(* The theorems                                                            *)

\* A new manager is a new ledger, and no eviction is under way.
LEMMA InitMaps == Init => RInv /\ Promise!Init
  <1> SUFFICES ASSUME Init PROVE RInv /\ Promise!Init
    OBVIOUS
  <1>1. \A t \in Tasks : pc[t] = "idle" /\ call[t] = NoCall
    BY DEF Init
  <1>2. Ledger = loaded
    BY <1>1, LedgerAtRest
  <1>3. Promise!Init
    BY <1>2, SameBudget DEF Init, Promise!Init, Ledger
  <1>4. QED
    BY <1>1, <1>3 DEF RInv, IdleHasNoCall, EvictionAccounts, NoVictimTooMany

\* Every step keeps RInv and is a step of the ledger, or a stutter.
LEMMA NextMaps == IInv /\ RInv /\ [Next]_vars => RInv' /\ Step
  <1> SUFFICES ASSUME IInv, RInv, [Next]_vars PROVE RInv' /\ Step
    OBVIOUS
  <1>1. ASSUME NEW t \in Tasks, Request(t) PROVE RInv' /\ Step
    BY <1>1, RequestIsInvoke
  <1>2. ASSUME NEW t \in Tasks, LoadStep(t) PROVE RInv' /\ Step
    BY <1>2, EndsAtOnceHasNoEffect, LoadBeginsStutters, EvictNextStutters,
       FailedLoadHasNoEffect, EvictionSufficesStutters, LoadDoneIsLoad DEF LoadStep
  <1>3. ASSUME NEW t \in Tasks, UnloadStep(t) PROVE RInv' /\ Step
    BY <1>3, EndsAtOnceHasNoEffect, UnloadStartsStutters, UnloadDoneIsUnload DEF UnloadStep
  <1>4. ASSUME NEW t \in Tasks, Cancel(t) PROVE RInv' /\ Step
    BY <1>4, CancelWaitingHasNoEffect, CancelAtBackendIsInterrupt DEF Cancel
  <1>5. CASE Restart
    BY <1>5, RestartIsReset
  <1>6. CASE UNCHANGED vars
    <2>1. Ledger' = Ledger /\ UNCHANGED <<pinned, call>>
      BY <1>6 DEF vars, Ledger, LoadUnderWay
    <2>2. RInv'
      BY <1>6 DEF vars, RInv, IdleHasNoCall, EvictionAccounts, NoVictimTooMany, Victims
    <2>3. QED
      BY <2>1, <2>2, Stutters
  <1>7. QED
    BY <1>1, <1>2, <1>3, <1>4, <1>5, <1>6 DEF Next

\* What the mapping needs to know holds of every behaviour.
LEMMA AccountsInvariant == Spec => [](IInv /\ RInv)
  <1>1. Init => RInv
    BY InitMaps
  <1>2. IInv /\ RInv /\ [Next]_vars => RInv'
    BY NextMaps
  <1>3. QED
    BY <1>1, <1>2, InductiveInvariant, PTL DEF Spec

\* The manager, with its lock, its awaits and everything that may fail in
\* between, does what the ledger promises: loads are all or nothing, evict no
\* more than they need, and never the pinned model.
THEOREM ManagerImplementsLedger == Spec => ImplementsLedger
  <1>1. Init => Promise!Init
    BY InitMaps
  <1>2. IInv /\ RInv /\ [Next]_vars => [Promise!Next]_(Promise!vars)
    BY NextMaps DEF Step
  <1>3. QED
    BY <1>1, <1>2, AccountsInvariant, PTL DEF Spec, ImplementsLedger, Promise!Spec

\* When _free_vram returns, the second can_load of load_model succeeds.
THEOREM FreedIsEnough == Spec => FreeingEnoughIsEnough
  <1>1. IInv /\ RInv /\ [Next]_vars =>
            [\A t \in Tasks : At(t, "evicting") /\ EvictionSuffices(t)
                                  => pc'[t] = "loading"]_vars
    BY EvictionSufficesStutters
  <1>2. QED
    BY <1>1, AccountsInvariant, PTL DEF Spec, FreeingEnoughIsEnough
===============================================================================
