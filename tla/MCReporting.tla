----------------------------- MODULE MCReporting ------------------------------
(***************************************************************************)
(* What the reporting's owner thread keeps, one at a time: the calls of    *)
(* the SDK, the binding of the game's task, the player count it asks the   *)
(* game for, and its question whether the transport is quiet.  A behaviour *)
(* goes through one while the others rest in their first states.           *)
(***************************************************************************)
EXTENDS SdkLifecycle, TaskBinding, Producer, Quiescence, TLC

VARIABLE part
SlotsAlike == Permutations(Slots)

OwnerInit ==
    /\ part \in {"sdk", "task", "count", "quiet"}
    /\ Init /\ TaskInit /\ ProducerInit /\ QuietInit

OwnerNext ==
    \/ /\ part = "sdk" /\ Next
       /\ UNCHANGED <<part, taskVars, producerVars, quietVars>>
    \/ /\ part = "task" /\ TaskNext
       /\ UNCHANGED <<part, vars, producerVars, quietVars>>
    \/ /\ part = "count" /\ ProducerNext
       /\ UNCHANGED <<part, vars, taskVars, quietVars>>
    \/ /\ part = "quiet" /\ QuietNext
       /\ UNCHANGED <<part, vars, taskVars, producerVars>>

OwnerSpec == OwnerInit /\ [][OwnerNext]_<<part, vars, taskVars, producerVars, quietVars>>
===============================================================================
