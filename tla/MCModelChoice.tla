----------------------------- MODULE MCModelChoice -----------------------------
(***************************************************************************)
(* An instance of the lists of models and of the dispatch for TLC.  They   *)
(* have no state in common, for a dispatch takes any list there may be, so *)
(* a behaviour is about one of them, while the other stays as it is        *)
(* initially.                                                              *)
(***************************************************************************)
EXTENDS MCDispatch, ModelLists

CONSTANTS m1, m2

VARIABLE subject

MCInventories == {{}, {m1}, {m1, m2}}

\* The calls for lists are alike.
Symmetry == Permutations(Askers)

choiceVars == <<vars, dispatchVars, subject>>

ChoiceInit ==
    /\ Init /\ DispatchInit
    /\ \/ subject = "lists" /\ ~dispatcher
       \/ subject = "dispatch" /\ listed = {m1}

ChoiceNext ==
    \/ subject = "lists" /\ Next /\ UNCHANGED <<dispatchVars, subject>>
    \/ subject = "dispatch" /\ DispatchNext /\ UNCHANGED <<vars, subject>>

ChoiceSpec == ChoiceInit /\ [][ChoiceNext]_choiceVars
===============================================================================
