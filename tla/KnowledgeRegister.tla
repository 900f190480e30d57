-------------------------- MODULE KnowledgeRegister --------------------------
(***************************************************************************)
(* What a chain of snapshots promises about a changing source: what is     *)
(* shown only moves forward.  Every part shown was true at some time, and  *)
(* no part goes back to an older value than the one shown before it.       *)
(***************************************************************************)
EXTENDS Integers

CONSTANT Part
VARIABLES
    world,  \* the version every part has in the source
    shown   \* the versions shown to readers; 0 before anything is shown

RegisterInit == world = [p \in Part |-> 0] /\ shown = [p \in Part |-> 0]

Change(p) == world' = [world EXCEPT ![p] = @ + 1] /\ UNCHANGED shown

Show ==
    /\ shown' \in [Part -> Nat]
    /\ \A p \in Part : shown[p] <= shown'[p] /\ shown'[p] <= world[p]
    /\ UNCHANGED world

RegisterNext == Show \/ \E p \in Part : Change(p)
RegisterSpec == RegisterInit /\ [][RegisterNext]_<<world, shown>>
=============================================================================
