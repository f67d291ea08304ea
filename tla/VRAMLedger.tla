------------------------------ MODULE VRAMLedger ------------------------------
(***************************************************************************)
(* What the VRAM manager promises its callers, with no lock, no awaits and *)
(* no backend: a ledger of loaded models on which every call acts in one   *)
(* step, at some moment between the moments it is made and returns.        *)
(*   - A load enters its model and evicts, in the same step, victims that  *)
(*     are not pinned, and never one victim more than the model needs.     *)
(*   - A load that fails leaves the ledger alone.                          *)
(*   - An unload forgets its model, or leaves the ledger alone; it never   *)
(*     forgets the pinned model.                                           *)
(*   - Only a call that is cancelled may leave the ledger halfway: models  *)
(*     that are not pinned are forgotten.                                  *)
(*   - With the process everything is lost.                                *)
(***************************************************************************)
EXTENDS VRAMBudget

CONSTANTS
    Tasks,
    NoModel,
    Interruptible   \* calls may be cancelled

VARIABLES ledger, pinned, call

vars == <<ledger, pinned, call>>

NoCall == [op |-> "none", model |-> NoModel, estimate |-> 0, pin |-> FALSE]

Calls == [op : {"load", "unload"}, model : Models, estimate : Estimates \cup {0},
          pin : BOOLEAN]

Init == /\ ledger = EmptyDict
        /\ pinned = NoModel
        /\ call = [t \in Tasks |-> NoCall]

Ends(t) == call' = [call EXCEPT ![t] = NoCall]

Invoke(t) ==
    /\ call[t] = NoCall
    /\ \E new \in Calls : call' = [call EXCEPT ![t] = new]
    /\ UNCHANGED <<ledger, pinned>>

\* Without the last victim the rest would not have been enough.
NoneTooMany(victims, estimate) ==
    victims # {} =>
        \E last \in victims : ~CanLoad(Without(ledger, victims \ {last}), estimate)

Load(t, victims) ==
    /\ call[t].op = "load"
    /\ call[t].model \notin DOMAIN ledger
    /\ CanLoad(Without(ledger, victims), call[t].estimate)
    /\ NoneTooMany(victims, call[t].estimate)
    /\ ledger' = Enter(Without(ledger, victims), call[t].model, call[t].estimate)
    /\ pinned' = IF call[t].pin THEN call[t].model ELSE pinned
    /\ Ends(t)

Unload(t) ==
    /\ call[t].op = "unload"
    /\ call[t].model # pinned
    /\ ledger' = Without(ledger, {call[t].model})
    /\ UNCHANGED pinned
    /\ Ends(t)

\* Already loaded, rejected, failed; not loaded, or pinned.
NoEffect(t) ==
    /\ call[t] # NoCall
    /\ UNCHANGED <<ledger, pinned>>
    /\ Ends(t)

Interrupt(t, gone) ==
    /\ Interruptible
    /\ call[t].op = "load"
    /\ ledger' = Without(ledger, gone)
    /\ UNCHANGED pinned
    /\ Ends(t)

Reset == /\ ledger' = EmptyDict
         /\ pinned' = NoModel
         /\ call' = [t \in Tasks |-> NoCall]

Next ==
    \/ \E t \in Tasks :
           \/ Invoke(t)
           \/ \E gone \in SUBSET (DOMAIN ledger \ {pinned}) :
                  Load(t, gone) \/ Interrupt(t, gone)
           \/ Unload(t)
           \/ NoEffect(t)
    \/ Reset

Spec == Init /\ [][Next]_vars
===============================================================================
