---------------------------- MODULE AtomicStatus ----------------------------
(***************************************************************************)
(* What an external reader of a published block may rely on: the block has *)
(* one current value, and a read that answers with a value answers with    *)
(* one that was current at some moment between its call and its answer.    *)
(* A read may also answer without a value.                                 *)
(***************************************************************************)
CONSTANTS Values, Absent, Refusals

VARIABLES
    current,   \* the value published last, or Absent
    window,    \* the values that were current since the read began
    answer     \* of the last read

vars == <<current, window, answer>>

Init == current = Absent /\ window = {} /\ answer = Absent

Publish ==
    /\ current' \in Values
    /\ window' = IF window = {} THEN {} ELSE window \cup {current'}
    /\ UNCHANGED answer

Ask ==
    /\ window = {} /\ window' = {current}
    /\ answer' = Absent /\ UNCHANGED current

Reply ==
    /\ window # {} /\ window' = {}
    /\ answer' \in (window \ {Absent}) \cup Refusals
    /\ UNCHANGED current

Next == Publish \/ Ask \/ Reply
Spec == Init /\ [][Next]_vars
=============================================================================
