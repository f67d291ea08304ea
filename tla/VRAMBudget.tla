------------------------------ MODULE VRAMBudget ------------------------------
(***************************************************************************)
(* The arithmetic of router/vram_manager.py: dictionaries from a model to  *)
(* its estimated VRAM, and what they leave of the budget.  VRAM is counted *)
(* in whole units (half a GB makes FRAGMENTATION_BUFFER_GB three units),   *)
(* so the sum of a dictionary is the number of units it occupies.  Stating *)
(* the sum as a cardinality keeps every fact about it provable without     *)
(* induction.                                                              *)
(***************************************************************************)
EXTENDS Integers, FiniteSets, Functions

CONSTANTS
    Models,               \* names of the models the backend can serve
    Estimates,            \* the VRAM estimates a caller may pass to load_model
    MaxVRAM,              \* max_vram_gb
    FragmentationBuffer   \* FRAGMENTATION_BUFFER_GB

ASSUME BudgetAssumption ==
    /\ Estimates \subseteq Nat
    /\ MaxVRAM \in Int
    /\ FragmentationBuffer \in Nat

(***************************************************************************)
(* A dictionary of loaded models: model |-> estimate.                      *)
(***************************************************************************)
Dict == UNION {[S -> Estimates] : S \in SUBSET Models}

EmptyDict == [m \in {} |-> 0]

Without(d, gone) == Restrict(d, DOMAIN d \ gone)

\* The entries of both, those of d where they differ: d @@ other, spelled out
\* because the provers have no definition of that operator.
Merge(d, other) ==
    [m \in DOMAIN d \cup DOMAIN other |-> IF m \in DOMAIN d THEN d[m] ELSE other[m]]

Enter(d, m, estimate) == Merge(d, [o \in {m} |-> estimate])

\* The units of VRAM that a dictionary occupies, one pair for each.
Units(d) == UNION {{m} \X (1 .. d[m]) : m \in DOMAIN d}

Allocated(d) == Cardinality(Units(d))

EffectiveBudget == MaxVRAM - FragmentationBuffer

Capacity == IF EffectiveBudget > 0 THEN EffectiveBudget ELSE 0

\* Mutant of Available: the safety buffer is forgotten.
AvailableWithoutBuffer(d) ==
    IF MaxVRAM > Allocated(d) THEN MaxVRAM - Allocated(d) ELSE 0

Available(d) ==
    IF EffectiveBudget > Allocated(d) THEN EffectiveBudget - Allocated(d) ELSE 0

CanLoad(d, estimate) == Available(d) >= estimate
===============================================================================
