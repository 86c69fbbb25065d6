----------------------------- MODULE MCObserver ------------------------------
(***************************************************************************)
(* The observer and the wrappers it installs, part by part: a behaviour    *)
(* goes through one part while the others rest in their first states, so   *)
(* that one run explores each of them and never their product.             *)
(***************************************************************************)
EXTENDS ObserverDispatch, ObserverInstall, CallFrames, ProxyCalls, CallbackTiming, EventLog

CONSTANTS t1, t2, r1, u1, u2
Callers == {t1, t2}
Addresses == {r1}
Accounts == {u1, u2}

VARIABLE part

ObserverInit ==
    /\ part \in {"install", "dispatch", "frames", "calls", "callback", "log"}
    /\ Init /\ InstallInit /\ FramesInit /\ CallsInit /\ CallbackInit /\ LogInit
    /\ part # "install" => prot = "RO"

ObserverNext ==
    \/ /\ part = "install" /\ InstallerNext
       /\ UNCHANGED <<part, vars, frameVars, callsVars, callbackVars, logVars>>
    \/ /\ part = "dispatch" /\ Next
       /\ UNCHANGED <<part, installVars, frameVars, callsVars, callbackVars, logVars>>
    \/ /\ part = "frames" /\ FramesNext
       /\ UNCHANGED <<part, vars, installVars, callsVars, callbackVars, logVars>>
    \/ /\ part = "calls" /\ CallsNext
       /\ UNCHANGED <<part, vars, installVars, frameVars, callbackVars, logVars>>
    \/ /\ part = "callback" /\ CallbackNext
       /\ UNCHANGED <<part, vars, installVars, frameVars, callsVars, logVars>>
    \/ /\ part = "log" /\ LogNext
       /\ UNCHANGED <<part, vars, installVars, frameVars, callsVars, callbackVars>>

ObserverSpec ==
    ObserverInit /\ [][ObserverNext]_<<part, vars, installVars, frameVars, callsVars, callbackVars, logVars>>
==============================================================================
