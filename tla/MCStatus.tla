------------------------------ MODULE MCStatus -------------------------------
(***************************************************************************)
(* The status blocks, one at a time: of the recovery and of the reporting. *)
(* A behaviour goes through one while the other rests.                     *)
(*                                                                         *)
(* Each writer of the reporting status publishes once more after its first *)
(* publication and then finds its sequence used up.                        *)
(***************************************************************************)
EXTENDS RecoveryStatus, StatusBlock, TLC

Bits     == {0, 1}
TwoEqual == {<<0, 0>>, <<1, 1>>}
Zeroes   == <<0, 0>>
Fours    == [writer \in {"owner", "worker"} |-> 4]

VARIABLE part

ReadersInit ==
    /\ part \in {"recovery", "reporting"}
    /\ Init /\ BlockInit

ReadersNext ==
    \/ /\ part = "recovery" /\ Next
       /\ UNCHANGED <<part, blockVars>>
    \/ /\ part = "reporting" /\ BlockNext
       /\ UNCHANGED <<part, vars>>

ReadersSpec == ReadersInit /\ [][ReadersNext]_<<part, vars, blockVars>>
==============================================================================
