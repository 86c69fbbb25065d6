--------------------------- MODULE ObserverInstall ---------------------------
(***************************************************************************)
(* The installation of the observer: the startup thread redirects the      *)
(* import cells of the factory, shutdown, init and pump calls to wrappers, *)
(* one compare-and-swap per cell, verifies them, and commits by one swap   *)
(* of the gate; or it rolls back.  Meanwhile other threads of the host may *)
(* call through the cells, already redirected or not, and a foreign hook   *)
(* may take a cell over.                                                   *)
(*                                                                         *)
(* The system's calls may fail with or without their effect and may claim  *)
(* success without it, except that a swap on a page that is not writable   *)
(* faults and leaves the cell alone.  A read tells the truth or fails.     *)
(***************************************************************************)
EXTENDS Naturals

CONSTANTS
    Count,      \* cells of the transaction: 3, or 4 with the server's pump
    HostThreads     \* threads of the host that call through the cells

ASSUME CountAssumption == Count \in Nat \ {0}

VARIABLES
    gate,       \* DispatchState.gate
    cell,       \* what each import cell holds
    prot,       \* the protection of the cells' page
    found,      \* the protection it was found with
    pc, next,   \* the place in InstallObserver and the cell it is at
    attempted,  \* pointerWriteAttempted
    restored,   \* restored, with protectionRestored
    outcome,    \* InstallResult: "none" until it returns
    call,       \* each thread's place inside a wrapper
    missed      \* history: a qualifying call went through a wrapper unobserved

Cells == 1..Count
installer   == <<pc, next, attempted, restored, outcome, found>>
callers     == <<call, missed>>
installVars == <<gate, cell, prot, installer, callers>>

InstallInit ==
    /\ gate = "Preparing" /\ cell = [c \in Cells |-> "original"]
    /\ prot \in {"RO", "RW"} /\ found = prot
    /\ pc = "check" /\ next = 1 /\ attempted = FALSE /\ restored = FALSE
    /\ outcome = "none"
    /\ call = [t \in HostThreads |-> "out"] /\ missed = FALSE
-----------------------------------------------------------------------------
(* Helpers of the transaction.                                             *)

Goes(from, to) == pc = from /\ pc' = to
Returns(from, o) == Goes(from, "done") /\ outcome' = o

\* One cell of ProtectedCells: the page has its protection back and the cell
\* holds the pointer expected.
Protected(c, pointer) == prot = found /\ cell[c] = pointer

\* ProtectedCells over all cells, one read at a time: `to' after the last one.
Scan(from, pointer, to) ==
    /\ pc = from /\ Protected(next, pointer)
    /\ IF next = Count THEN pc' = to /\ next' = 1 ELSE pc' = pc /\ next' = next + 1

protect(p) == prot' \in {prot, p}

SwapsBlindly(c, old, new) == cell' = [cell EXCEPT ![c] = new]    \* mutant
Swaps(c, old, new) ==
    cell' = [cell EXCEPT ![c] = IF @ = old THEN new ELSE @]
-----------------------------------------------------------------------------
(* Qualification, the writable window and the swaps.                       *)

CheckCell ==
    /\ Scan("check", "original", "gate")
    /\ UNCHANGED <<gate, cell, prot, attempted, restored, outcome, found, callers>>

\* Nothing was touched yet: an unsuitable context, page, profile or lease, or a
\* cell that is not the original.
Decline ==
    /\ Returns("check", "failed")
    /\ UNCHANGED <<gate, cell, prot, next, attempted, restored, found, callers>>

OpenPage ==
    /\ pc = "gate"
    /\ IF gate = "Preparing"
          THEN protect("RW") /\ pc' \in {"swapGate", "judge"} /\ UNCHANGED outcome
          ELSE Returns("gate", "failed") /\ UNCHANGED prot
    /\ UNCHANGED <<gate, cell, next, attempted, restored, found, callers>>

ReadGateForSwap ==
    /\ pc = "swapGate"
    /\ IF gate = "Preparing" THEN pc' = "swap" /\ attempted' = TRUE
                             ELSE pc' = "judge" /\ UNCHANGED attempted
    /\ UNCHANGED <<gate, cell, prot, next, restored, outcome, found, callers>>

SwapCell ==
    /\ pc = "swap" /\ prot = "RW" /\ Swaps(next, "original", "wrapper")
    /\ IF cell[next] # "original" THEN pc' = "judge" /\ UNCHANGED next
       ELSE IF next = Count THEN pc' = "close" /\ next' = 1
       ELSE pc' = "swapGate" /\ next' = next + 1
    /\ UNCHANGED <<gate, prot, attempted, restored, outcome, found, callers>>

SwapFaults ==
    /\ Goes("swap", "judge")
    /\ UNCHANGED <<gate, cell, prot, next, attempted, restored, outcome, found, callers>>

ClosePage ==
    /\ pc = "close" /\ protect(found) /\ pc' \in {"verify", "judge"}
    /\ UNCHANGED <<gate, cell, next, attempted, restored, outcome, found, callers>>

VerifyCell ==
    /\ Scan("verify", "wrapper", "commit")
    /\ UNCHANGED <<gate, cell, prot, attempted, restored, outcome, found, callers>>

\* A wrapper that is not in its cell, a lease or profile that changed.
VerifyFails ==
    /\ pc \in {"verify", "commit"} /\ pc' = "judge"
    /\ UNCHANGED <<gate, cell, prot, next, attempted, restored, outcome, found, callers>>

Commit ==
    /\ pc = "commit"
    /\ IF gate = "Preparing"
          THEN gate' = "Armed" /\ Returns("commit", "armed")
          ELSE pc' = "judge" /\ UNCHANGED <<gate, outcome>>
    /\ UNCHANGED <<cell, prot, next, attempted, restored, found, callers>>
-----------------------------------------------------------------------------
(* Failure: prove that nothing was touched, or roll back.                  *)

Judge ==
    /\ pc = "judge" /\ next' = 1
    /\ pc' = IF attempted THEN "reopen" ELSE "untouched"
    /\ UNCHANGED <<gate, cell, prot, attempted, restored, outcome, found, callers>>

UntouchedCell ==
    /\ Scan("untouched", "original", "disable")
    /\ UNCHANGED <<gate, cell, prot, attempted, restored, outcome, found, callers>>
UntouchedFails ==
    /\ pc \in {"untouched", "disable"} /\ pc' = "reopen" /\ next' = 1
    /\ UNCHANGED <<gate, cell, prot, attempted, restored, outcome, found, callers>>
DisableUntouched ==
    /\ Returns("disable", "failed") /\ gate' = "Disabled"
    /\ UNCHANGED <<cell, prot, next, attempted, restored, found, callers>>

ReopenPage ==
    /\ pc = "reopen" /\ protect("RW")
    /\ \/ pc' = "restore" /\ restored' = TRUE
       \/ pc' = "reclose" /\ restored' = FALSE
    /\ UNCHANGED <<gate, cell, next, attempted, outcome, found, callers>>

RestoreNext == IF next = Count THEN pc' = "reclose" /\ next' = 1
                               ELSE pc' = "restore" /\ next' = next + 1

\* An original pointer needs nothing; an unreadable or a foreign one is left.
RestoreSkips ==
    /\ pc = "restore" /\ RestoreNext
    /\ \/ cell[next] = "original" /\ UNCHANGED restored
       \/ restored' = FALSE
    /\ UNCHANGED <<gate, cell, prot, attempted, outcome, found, callers>>
RestoreFinds ==
    /\ Goes("restore", "unswap") /\ cell[next] = "wrapper"
    /\ UNCHANGED <<gate, cell, prot, next, attempted, restored, outcome, found, callers>>
UnswapCell ==
    /\ pc = "unswap" /\ prot = "RW" /\ Swaps(next, "wrapper", "original")
    /\ RestoreNext /\ restored' = (restored /\ cell[next] = "wrapper")
    /\ UNCHANGED <<gate, prot, attempted, outcome, found, callers>>
UnswapFaults ==
    /\ pc = "unswap" /\ RestoreNext /\ restored' = FALSE
    /\ UNCHANGED <<gate, cell, prot, attempted, outcome, found, callers>>

ReclosePage ==
    /\ Goes("reclose", "prove") /\ protect(found)
    /\ \/ UNCHANGED restored
       \/ restored' = FALSE
    /\ UNCHANGED <<gate, cell, next, attempted, outcome, found, callers>>

ProveUnread == Goes("prove", "proven") /\ UNCHANGED next         \* mutant
ProveScans == Scan("prove", "original", "proven")
ProveCell ==
    /\ ProveScans
    /\ UNCHANGED <<gate, cell, prot, attempted, restored, outcome, found, callers>>

\* The state is proven, and after a pointer write the whole way back worked too.
ConcludeRestored ==
    /\ restored \/ ~attempted
    /\ Returns("proven", "failed") /\ gate' = "Disabled"
    /\ UNCHANGED <<cell, prot, next, attempted, restored, found, callers>>
ConcludeFatal ==
    /\ pc \in {"prove", "proven"} /\ Returns(pc, "fatal") /\ gate' = "Disabled"
    /\ UNCHANGED <<cell, prot, next, attempted, restored, found, callers>>
-----------------------------------------------------------------------------
(* Calls of the host, and foreign hooks.                                   *)

Moves(t, from, to) == call[t] = from /\ call' = [call EXCEPT ![t] = to]

\* A call through a redirected cell enters Admit; one that does not qualify (a
\* factory call from elsewhere) never touches the gate.
EnterWrapper(t) ==
    /\ outcome # "fatal" /\ \E c \in Cells : cell[c] = "wrapper"
    /\ \/ Moves(t, "out", "admit")
       \/ Moves(t, "out", "admitOther")
    /\ UNCHANGED <<gate, cell, prot, installer, missed>>

AdmitReads(t) ==
    /\ call[t] = "admit"
    /\ call' = [call EXCEPT ![t] = IF gate = "Armed" THEN "observed"
                                   ELSE IF gate = "Preparing" THEN "contaminate" ELSE "raw"]
    /\ missed' = (missed \/ gate \notin {"Armed", "Preparing"})
    /\ UNCHANGED <<gate, cell, prot, installer>>

AdmitOther(t) ==
    /\ Moves(t, "admitOther", IF gate = "Armed" THEN "observed" ELSE "raw")
    /\ UNCHANGED <<gate, cell, prot, installer, missed>>

\* The swap that spoils a gate still Preparing; losing it to the commit means
\* that the call is to be observed after all.
LoserRetries == "admit"
Contaminate(t) ==
    /\ call[t] = "contaminate"
    /\ LET won == gate = "Preparing"
           to  == IF won THEN "raw" ELSE LoserRetries
       IN /\ gate' = IF won THEN "Contaminated" ELSE gate
          /\ call' = [call EXCEPT ![t] = to]
          /\ missed' = (missed \/ to = "raw")
    /\ UNCHANGED <<cell, prot, installer>>

LeaveWrapper(t) ==
    /\ Moves(t, call[t], "out") /\ call[t] \in {"observed", "raw"}
    /\ UNCHANGED <<gate, cell, prot, installer, missed>>

ForeignHook ==
    /\ \E c \in Cells : cell' = [cell EXCEPT ![c] = "foreign"]
    /\ UNCHANGED <<gate, prot, installer, callers>>

InstallNext ==
    \/ CheckCell \/ Decline \/ OpenPage \/ ReadGateForSwap \/ SwapCell \/ SwapFaults
    \/ ClosePage \/ VerifyCell \/ VerifyFails \/ Commit
    \/ Judge \/ UntouchedCell \/ UntouchedFails \/ DisableUntouched
    \/ ReopenPage \/ RestoreSkips \/ RestoreFinds \/ UnswapCell \/ UnswapFaults
    \/ ReclosePage \/ ProveCell \/ ConcludeRestored \/ ConcludeFatal

CallNext(t) ==
    \/ EnterWrapper(t) \/ AdmitReads(t) \/ AdmitOther(t) \/ Contaminate(t) \/ LeaveWrapper(t)

InstallerNext == InstallNext \/ ForeignHook \/ \E t \in HostThreads : CallNext(t)

InstallSpec == InstallInit /\ [][InstallerNext]_installVars
-----------------------------------------------------------------------------
(* Properties.                                                             *)

TypeOK ==
    /\ gate \in {"Preparing", "Armed", "Contaminated", "Disabled"}
    /\ cell \in [Cells -> {"original", "wrapper", "foreign"}]
    /\ prot \in {"RO", "RW"} /\ found \in {"RO", "RW"}
    /\ pc \in {"check", "gate", "swapGate", "swap", "close", "verify", "commit", "judge",
               "untouched", "disable", "reopen", "restore", "unswap", "reclose", "prove",
               "proven", "done"}
    /\ next \in Cells
    /\ attempted \in BOOLEAN /\ restored \in BOOLEAN /\ missed \in BOOLEAN
    /\ outcome \in {"none", "armed", "failed", "fatal"}
    /\ call \in [HostThreads -> {"out", "admit", "admitOther", "contaminate", "observed", "raw"}]

\* The host never goes on half redirected: an armed observer stands behind every
\* cell, a failed installation behind none, and the page has its protection
\* back; anything else ends the process (InstallObserver, stateProven).  A cell
\* somebody else has taken is theirs either way.
AllOrNothing ==
    /\ outcome = "armed"  => prot = found /\ \A c \in Cells : cell[c] # "original"
    /\ outcome = "failed" => prot = found /\ \A c \in Cells : cell[c] # "wrapper"

\* An armed observer has seen every qualifying call that ever entered a wrapper:
\* a call that came too early spoils the commit, and one that lost to the commit
\* is observed (Admit against the commit point of InstallObserver).
ArmedMissedNothing == gate = "Armed" => ~missed

\* "Never overwrite a foreign hook" (steam_observer.cpp:271): neither the swaps
\* nor the rollback write over a pointer that is not ours.
ForeignKept ==
    [][\A c \in Cells : cell[c] = "foreign" => cell'[c] = "foreign"]_installVars

\* What installing owes to the code around it: calls that raced the commit are
\* accounted for (Admit), and other modules' hooks stay (the swaps and rollback).
RespectsTheHost == []ArmedMissedNothing /\ ForeignKept
=============================================================================
