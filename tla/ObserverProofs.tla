---------------------------- MODULE ObserverProofs ----------------------------
(***************************************************************************)
(* Proofs about the observer and what it wraps around the game's calls:    *)
(* its installation, what the armed wrappers give out, the measurement of  *)
(* their own time, the proxies' counts and the timing of the primary       *)
(* callback.  They share no state; each has its inductive invariant here,  *)
(* named after it.                                                         *)
(***************************************************************************)
EXTENDS ObserverInstall, ObserverDispatch, CallFrames, ProxyCalls, CallbackTiming,
        FiniteSetTheorems, SequenceTheorems, TLAPS
-----------------------------------------------------------------------------
(* The installation (ObserverInstall)                                      *)
(***************************************************************************)
(* AllOrNothing, ArmedMissedNothing and ForeignKept for any number of      *)
(* cells and any set of calling threads.                                   *)
(*                                                                         *)
(* A scan reads one cell at a time while foreign hooks appear, so what it  *)
(* has read need not be so any more when it ends.  What it has established *)
(* for good is weaker: a cell it saw with the wrapper will not hold the    *)
(* original again, nor one it saw with the original the wrapper, because   *)
(* only the installer writes these and it is busy scanning.                *)
(***************************************************************************)
\* Before the first swap nothing of ours is in any cell, and before the page is
\* opened it is as it was found (InstallObserver up to the first protect).
Pristine ==
    /\ pc \in {"check", "gate"} => prot = found
    /\ pc \in {"check", "gate"} => \A c \in Cells : cell[c] # "wrapper"

\* What the scan at hand, or the one just ended, has established for good.
Scanned ==
    /\ pc = "verify" => \A c \in Cells : c < next => cell[c] # "original"
    /\ pc = "commit" => \A c \in Cells : cell[c] # "original"
    /\ pc \in {"untouched", "prove"} => \A c \in Cells : c < next => cell[c] # "wrapper"
    /\ pc \in {"disable", "proven"} => \A c \in Cells : cell[c] # "wrapper"
    /\ pc \in {"commit", "disable", "proven"} => prot = found

\* The scans start at the first cell.
FromFirst == pc \in {"close", "reopen", "reclose"} => next = 1

\* A verdict is final, and it is the commit that arms.
Verdicts ==
    /\ (outcome # "none") <=> (pc = "done")
    /\ gate = "Armed" => outcome = "armed"

InstallInv == TypeOK /\ Pristine /\ Scanned /\ FromFirst /\ Verdicts
            /\ AllOrNothing /\ (missed => gate \in {"Contaminated", "Disabled"})
-----------------------------------------------------------------------------

USE CountAssumption DEF Cells

\* The invariant holds when InstallObserver is entered.
LEMMA InstallStarts == InstallInit => InstallInv
  <1> SUFFICES ASSUME InstallInit PROVE InstallInv
    OBVIOUS
  <1> USE DEF InstallInit
  <1>1. attempted \in BOOLEAN /\ restored \in BOOLEAN /\ missed \in BOOLEAN /\ ~missed
    BY Zenon
  <1>2. next \in Cells /\ cell \in [Cells -> {"original", "wrapper", "foreign"}]
    OBVIOUS
  <1>3. call \in [HostThreads -> {"out", "admit", "admitOther", "contaminate", "observed", "raw"}]
    OBVIOUS
  <1>4. TypeOK
    BY <1>1, <1>2, <1>3 DEF TypeOK
  <1>5. Pristine /\ Scanned /\ FromFirst /\ Verdicts /\ AllOrNothing
    BY DEF Pristine, Scanned, FromFirst, Verdicts, AllOrNothing
  <1> QED
    BY <1>1, <1>4, <1>5 DEF InstallInv

\* Every step of the installing thread keeps it.
LEMMA InstallKeeps == InstallInv /\ InstallNext => InstallInv'
  <1> SUFFICES ASSUME InstallInv, InstallNext PROVE InstallInv'
    OBVIOUS
  <1> USE DEF InstallInv, TypeOK, Pristine, Scanned, FromFirst, Verdicts, AllOrNothing, callers
  <1>1. CASE CheckCell
    BY <1>1 DEF CheckCell, Scan, Protected
  <1>2. CASE Decline
    BY <1>2 DEF Decline, Returns, Goes
  <1>3. CASE OpenPage
    BY <1>3 DEF OpenPage, Returns, Goes, protect
  <1>4. CASE ReadGateForSwap
    BY <1>4 DEF ReadGateForSwap
  <1>5. CASE SwapCell
    BY <1>5 DEF SwapCell, Swaps
  <1>6. CASE SwapFaults
    BY <1>6 DEF SwapFaults, Goes
  <1>7. CASE ClosePage
    BY <1>7 DEF ClosePage, protect
  <1>8. CASE VerifyCell
    BY <1>8 DEF VerifyCell, Scan, Protected
  <1>9. CASE VerifyFails
    BY <1>9 DEF VerifyFails
  <1>10. CASE Commit
    BY <1>10 DEF Commit, Returns, Goes
  <1>11. CASE Judge
    BY <1>11 DEF Judge
  <1>12. CASE UntouchedCell
    BY <1>12 DEF UntouchedCell, Scan, Protected
  <1>13. CASE UntouchedFails
    BY <1>13 DEF UntouchedFails
  <1>14. CASE DisableUntouched
    BY <1>14 DEF DisableUntouched, Returns, Goes
  <1>15. CASE ReopenPage
    BY <1>15 DEF ReopenPage, protect
  <1>16. CASE RestoreSkips
    <2>1. restored' \in BOOLEAN
      BY <1>16, Zenon DEF RestoreSkips
    <2> QED
      BY <1>16, <2>1 DEF RestoreSkips, RestoreNext
  <1>17. CASE RestoreFinds
    BY <1>17 DEF RestoreFinds, Goes
  <1>18. CASE UnswapCell
    BY <1>18 DEF UnswapCell, Swaps, RestoreNext
  <1>19. CASE UnswapFaults
    <2>1. restored' \in BOOLEAN
      BY <1>19, Zenon DEF UnswapFaults
    <2> QED
      BY <1>19, <2>1 DEF UnswapFaults, RestoreNext
  <1>20. CASE ReclosePage
    <2>1. restored' \in BOOLEAN
      BY <1>20, Zenon DEF ReclosePage
    <2> QED
      BY <1>20, <2>1 DEF ReclosePage, protect, Goes
  <1>21. CASE ProveCell
    BY <1>21 DEF ProveCell, ProveScans, Scan, Protected
  <1>22. CASE ConcludeRestored
    BY <1>22 DEF ConcludeRestored, Returns, Goes
  <1>23. CASE ConcludeFatal
    BY <1>23 DEF ConcludeFatal, Returns, Goes
  <1> QED
    BY <1>1, <1>2, <1>3, <1>4, <1>5, <1>6, <1>7, <1>8, <1>9, <1>10, <1>11, <1>12, <1>13, <1>14, <1>15, <1>16, <1>17, <1>18, <1>19, <1>20, <1>21, <1>22, <1>23 DEF InstallNext

\* Calls of other threads and foreign hooks keep it: neither puts one of our
\* pointers into a cell, and a gate that was spoiled stays so.
LEMMA OthersKeep == InstallInv /\ (ForeignHook \/ \E t \in HostThreads : CallNext(t)) => InstallInv'
  <1> SUFFICES ASSUME InstallInv, ForeignHook \/ \E t \in HostThreads : CallNext(t) PROVE InstallInv'
    OBVIOUS
  <1> USE DEF InstallInv, TypeOK, Pristine, Scanned, FromFirst, Verdicts, AllOrNothing,
              installer, callers, Moves
  <1>1. CASE ForeignHook
    BY <1>1 DEF ForeignHook
  <1>2. ASSUME NEW t \in HostThreads, CallNext(t) PROVE InstallInv'
    <2>1. CASE EnterWrapper(t)
      BY <2>1 DEF EnterWrapper
    <2>2. CASE AdmitReads(t)
      BY <2>2 DEF AdmitReads
    <2>3. CASE AdmitOther(t)
      BY <2>3 DEF AdmitOther
    <2>4. CASE Contaminate(t)
      BY <2>4 DEF Contaminate, LoserRetries
    <2>5. CASE LeaveWrapper(t)
      BY <2>5 DEF LeaveWrapper
    <2> QED
      BY <1>2, <2>1, <2>2, <2>3, <2>4, <2>5 DEF CallNext
  <1> QED
    BY <1>1, <1>2

LEMMA StutterKeeps == InstallInv /\ UNCHANGED installVars => InstallInv'
  BY DEF InstallInv, TypeOK, Pristine, Scanned, FromFirst, Verdicts, AllOrNothing, installVars,
         installer, callers

\* The inductive invariant, for every number of cells and set of threads.
THEOREM InstallInvariance == InstallSpec => []InstallInv
  <1>1. InstallInv /\ [InstallerNext]_installVars => InstallInv'
    BY InstallKeeps, OthersKeep, StutterKeeps DEF InstallerNext
  <1> QED
    BY InstallStarts, <1>1, PTL DEF InstallSpec

\* The host goes on with an observer behind every cell or behind none
\* (InstallObserver).
THEOREM InstalledWhole == InstallSpec => []AllOrNothing
  <1>1. InstallInv => AllOrNothing
    BY DEF InstallInv
  <1> QED
    BY InstallInvariance, <1>1, PTL

\* An armed observer has missed no qualifying call that entered a wrapper
\* (Admit, and the commit of InstallObserver).
THEOREM NothingMissed == InstallSpec => []ArmedMissedNothing
  <1>1. InstallInv => ArmedMissedNothing
    BY DEF InstallInv, ArmedMissedNothing
  <1> QED
    BY InstallInvariance, <1>1, PTL

\* No step writes over a foreign pointer (the swaps of InstallObserver).
THEOREM ForeignHooksKept == InstallSpec => ForeignKept
  <1> DEFINE Kept == \A c \in Cells : cell[c] = "foreign" => cell'[c] = "foreign"
  <1>1. ASSUME InstallInv, InstallerNext PROVE Kept
    <2> USE DEF InstallInv, TypeOK
    <2>1. CASE SwapCell
      BY <2>1 DEF SwapCell, Swaps
    <2>2. CASE UnswapCell
      BY <2>2 DEF UnswapCell, Swaps
    <2>3. CASE ForeignHook
      BY <2>3 DEF ForeignHook
    <2>4. CASE UNCHANGED cell
      BY <2>4
    <2> QED
      BY <1>1, <2>1, <2>2, <2>3, <2>4 DEF InstallerNext, InstallNext, CallNext, CheckCell, Decline,
        OpenPage, ReadGateForSwap, SwapFaults, ClosePage, VerifyCell, VerifyFails, Commit,
        Judge, UntouchedCell, UntouchedFails, DisableUntouched, ReopenPage, RestoreSkips,
        RestoreFinds, UnswapFaults, ReclosePage, ProveCell, ConcludeRestored,
        ConcludeFatal, EnterWrapper, AdmitReads, AdmitOther, Contaminate, LeaveWrapper
  <1>2. InstallInv /\ [InstallerNext]_installVars => [Kept]_installVars
    BY <1>1
  <1> QED
    BY InstallInvariance, <1>2, PTL DEF InstallSpec, ForeignKept

\* Installing misses no call that raced the commit of InstallObserver and
\* overwrites no foreign hook, in its swaps or in its rollback.
THEOREM HostIsRespected == InstallSpec => RespectsTheHost
  BY NothingMissed, ForeignHooksKept DEF RespectsTheHost
-----------------------------------------------------------------------------
(* The armed observer (ObserverDispatch)                                   *)
(***************************************************************************)
(* BoundIsCurrent and OneVerdict for any finite set of threads, any width  *)
(* of the lifecycle word and any capacity of the binding table.            *)
(*                                                                         *)
(* The argument is about what the two halves of the word say between two   *)
(* reads: a call that was in flight at the first read shows in its lower   *)
(* half, one that began later in its upper half, and one that the word     *)
(* could not count has raised the unknown flag first.                      *)
(***************************************************************************)
LifeWord == [entered : Nat, active : Nat]
Objects == Reals \cup Nat
Binding == [real : Objects, user : Users \cup {0}, entered : Nat, accepted : BOOLEAN]
Places == {"out", "overflow", "native", "decide", "confirmed"} \cup Spanning \cup Returned
Locals == [pc : Places, owned : BOOLEAN, before : LifeWord, after : LifeWord, object : Objects,
           user : Users \cup {0}, valid : BOOLEAN, id : Nat, crossed : BOOLEAN]

\* The binding a factory or a lookup has found is one of its lifecycle.
Bound(l, bs) ==
    /\ l.id \in DOMAIN bs /\ bs[l.id].accepted
    /\ bs[l.id].entered = l.before.entered
    /\ bs[l.id].real = l.object \/ l.id = l.object

\* The word `w' shows, or the flag or the first read does, what has crossed l.
Shows(l, w, flag) == flag \/ l.before.active > 0 \/ l.before.entered # w.entered

\* What holds of a thread's locals l under the shared state.
Fits(l, w, flag, bs) ==
    /\ l \in Locals
    /\ l.owned => l.pc = "native"
    /\ l.pc = "native" => l.owned \/ flag
    /\ l.pc \in Spanning => l.before.entered <= w.entered
    /\ l.pc \in Spanning /\ l.crossed => Shows(l, w, flag)
    /\ l.pc \in {"decide", "confirmed"} /\ l.crossed => Shows(l, l.after, flag)
    /\ l.pc \in {"confirm", "confirmed"} \cup Returned => Bound(l, bs)
    /\ l.pc \in Returned => ~l.crossed

\* The lower half of the word counts the threads that own a lifecycle call.
Owners == {t \in Threads : th[t].owned}

SharedOK ==
    /\ life \in LifeWord /\ unknown \in BOOLEAN /\ exhausted \in BOOLEAN
    /\ bindings \in Seq(Binding)

ThreadsOK ==
    /\ th \in [Threads -> Locals]
    /\ \A t \in Threads : Fits(th[t], life, unknown, bindings)

ActiveIsCount == life.active = Cardinality(Owners)

DispatchInv == SharedOK /\ ThreadsOK /\ ActiveIsCount /\ OneVerdict
-----------------------------------------------------------------------------

USE DispatchAssumption

\* What holds of a thread's locals survives whatever other threads do to the
\* shared state: the word's upper half and the flag only rise, and the binding
\* table only grows.
LEMMA FitsLater ==
    ASSUME NEW l, NEW w \in LifeWord, NEW w2 \in LifeWord, NEW flag, NEW flag2,
           NEW bs \in Seq(Binding), NEW bs2 \in Seq(Binding),
           Fits(l, w, flag, bs), w.entered <= w2.entered, flag => flag2,
           \A i \in DOMAIN bs : i \in DOMAIN bs2 /\ bs2[i] = bs[i]
    PROVE  Fits(l, w2, flag2, bs2)
  <1>1. l \in Locals /\ l.before.entered \in Nat
    BY DEF Fits, Locals, LifeWord
  <1>2. w.entered \in Nat /\ w2.entered \in Nat
    BY DEF LifeWord
  <1>3. Bound(l, bs) => Bound(l, bs2)
    BY DEF Bound
  <1>4. l.before.entered <= w.entered /\ Shows(l, w, flag) => Shows(l, w2, flag2)
    BY <1>1, <1>2 DEF Shows
  <1>5. Shows(l, l.after, flag) => Shows(l, l.after, flag2)
    BY DEF Shows
  <1> QED
    BY <1>1, <1>2, <1>3, <1>4, <1>5 DEF Fits

\* A history bit that rises in the step that makes the word show it.
LEMMA FitsCrossed ==
    ASSUME NEW l, NEW w \in LifeWord, NEW flag, NEW bs,
           Fits(l, w, flag, bs), l.pc \in Spanning, Shows(l, w, flag)
    PROVE  Fits([l EXCEPT !.crossed = TRUE], w, flag, bs)
  <1> DEFINE m == [l EXCEPT !.crossed = TRUE]
  <1>1. l \in Locals
    BY DEF Fits
  <1>2. m \in Locals /\ m.pc = l.pc /\ m.owned = l.owned /\ m.before = l.before
        /\ m.after = l.after /\ m.object = l.object /\ m.id = l.id
    BY <1>1 DEF Locals
  <1>3. Bound(m, bs) <=> Bound(l, bs)
    BY <1>2 DEF Bound
  <1>4. Shows(m, w, flag)
    BY <1>2 DEF Shows
  <1>5. m.pc \notin {"decide", "confirmed"} \cup Returned
    BY <1>2 DEF Spanning, Returned
  <1> QED
    BY <1>2, <1>3, <1>4, <1>5 DEF Fits

\* A thread outside the dispatch.
LEMMA FitsOutside ==
    ASSUME NEW w \in LifeWord, NEW flag, NEW bs
    PROVE  Fits(Outside, w, flag, bs)
  <1>1. Outside \in Locals
    BY DEF Outside, Locals, LifeWord, Zero, Places, Objects
  <1> QED
    BY <1>1 DEF Outside, Fits, Spanning, Returned

\* The invariant holds before the first call.
LEMMA DispatchStarts == Init => DispatchInv
  <1> SUFFICES ASSUME Init PROVE DispatchInv
    OBVIOUS
  <1>1. SharedOK
    <2>1. bindings \in Seq(Binding)
      BY DEF Init
    <2>2. life \in LifeWord
      BY DEF Init, LifeWord, Zero
    <2>3. unknown \in BOOLEAN /\ exhausted \in BOOLEAN
      BY Zenon DEF Init
    <2> QED
      BY <2>1, <2>2, <2>3 DEF SharedOK
  <1>2. ThreadsOK
    <2>1. Outside \in Locals
      BY <1>1, FitsOutside DEF Fits, SharedOK
    <2> QED
      BY <1>1, <2>1, FitsOutside DEF Init, ThreadsOK, SharedOK
  <1>3. Owners = {}
    BY DEF Init, Owners, Outside
  <1>4. ActiveIsCount
    BY <1>3, FS_EmptySet DEF ActiveIsCount, Init, Zero
  <1>5. OneVerdict
    BY DEF OneVerdict, Init
  <1> QED
    BY <1>1, <1>2, <1>4, <1>5 DEF DispatchInv

\* A step in which one thread moves to locals that fit, the other threads stand
\* still and the shared state only grows keeps ThreadsOK.
LEMMA OneMoves ==
    ASSUME SharedOK, SharedOK', ThreadsOK, NEW t \in Threads, NEW l, Sets(t, l),
           life.entered <= life'.entered, unknown => unknown',
           \A i \in DOMAIN bindings : i \in DOMAIN bindings' /\ bindings'[i] = bindings[i],
           Fits(l, life', unknown', bindings')
    PROVE  ThreadsOK'
  <1>1. l \in Locals
    BY DEF Fits
  <1>2. th' \in [Threads -> Locals]
    BY <1>1 DEF Sets, ThreadsOK
  <1>3. ASSUME NEW u \in Threads PROVE Fits(th'[u], life', unknown', bindings')
    <2>1. CASE u = t
      BY <2>1 DEF Sets, ThreadsOK
    <2>2. CASE u # t
      <3>1. th'[u] = th[u] /\ Fits(th[u], life, unknown, bindings)
        BY <2>2 DEF Sets, ThreadsOK
      <3>2. Fits(th[u], life', unknown', bindings')
        BY <3>1, FitsLater DEF SharedOK
      <3> QED
        BY <3>1, <3>2
    <2> QED
      BY <2>1, <2>2
  <1> QED
    BY <1>2, <1>3 DEF ThreadsOK

\* A step of one thread that leaves the shared state alone and owns what it
\* owned keeps the whole invariant.
LEMMA QuietMove ==
    ASSUME DispatchInv, NEW t \in Threads, NEW l, Sets(t, l), UNCHANGED shared,
           l.owned = th[t].owned, Fits(l, life, unknown, bindings)
    PROVE  DispatchInv'
  <1>1. SharedOK'
    BY DEF DispatchInv, SharedOK, shared
  <1>2. life'.entered <= life'.entered
    BY DEF DispatchInv, SharedOK, LifeWord, shared
  <1>3. ThreadsOK'
    BY <1>1, <1>2, OneMoves DEF DispatchInv, shared
  <1>4. \A u \in Threads : th'[u].owned = th[u].owned
    BY DEF Sets, DispatchInv, ThreadsOK
  <1>5. Owners' = Owners
    BY <1>4 DEF Owners
  <1>6. ActiveIsCount'
    BY <1>5 DEF DispatchInv, ActiveIsCount, shared
  <1>7. OneVerdict'
    BY DEF DispatchInv, OneVerdict, shared
  <1> QED
    BY <1>1, <1>3, <1>6, <1>7 DEF DispatchInv

\* To(t, to) changes the place only.
LEMMA MovesOnly ==
    ASSUME ThreadsOK, NEW t \in Threads, NEW to \in Places
    PROVE  /\ To(t, to) \in Locals /\ To(t, to).pc = to
           /\ To(t, to).owned = th[t].owned /\ To(t, to).before = th[t].before
           /\ To(t, to).after = th[t].after /\ To(t, to).object = th[t].object
           /\ To(t, to).user = th[t].user /\ To(t, to).valid = th[t].valid
           /\ To(t, to).id = th[t].id /\ To(t, to).crossed = th[t].crossed
  BY DEF ThreadsOK, To, Locals

\* A thread that is not in a native lifecycle call owns none.
LEMMA OwnsNone ==
    ASSUME ThreadsOK, NEW t \in Threads, ~At(t, "native")
    PROVE  th[t].owned = FALSE
  <1>1. th[t].owned \in BOOLEAN /\ ~th[t].owned
    BY DEF ThreadsOK, Fits, At, Locals
  <1> QED
    BY <1>1, Zenon

\* So a thread that leaves the dispatch without an effect keeps the invariant.
LEMMA QuietLeave ==
    ASSUME DispatchInv, NEW t \in Threads, ~At(t, "native"), Sets(t, Outside), UNCHANGED shared
    PROVE  DispatchInv'
  <1>1. Outside.owned = th[t].owned
    BY OwnsNone DEF DispatchInv, Outside
  <1>2. Fits(Outside, life, unknown, bindings)
    BY FitsOutside DEF DispatchInv, SharedOK
  <1> QED
    BY <1>1, <1>2, QuietMove
-----------------------------------------------------------------------------
(* The steps of one thread.                                                *)

\* The owners of lifecycle calls are finitely many.
LEMMA OwnersFinite == IsFiniteSet(Owners)
  BY FS_Subset DEF Owners

\* A call in flight shows in the word's lower half or in the flag (LifecycleEnter).
LEMMA FlightShows ==
    ASSUME DispatchInv, NEW t \in Threads, At(t, "native")
    PROVE  unknown \/ life.active > 0
  <1>1. CASE t \in Owners
    <2>1. Cardinality(Owners) \in Nat /\ Cardinality(Owners) # 0
      BY <1>1, OwnersFinite, FS_CardinalityType, FS_EmptySet
    <2> QED
      BY <2>1 DEF DispatchInv, ActiveIsCount
  <1>2. CASE t \notin Owners
    BY <1>2 DEF DispatchInv, ThreadsOK, Fits, Owners, At
  <1> QED
    BY <1>1, <1>2

\* Forwarding a lifecycle call crosses every factory call and lookup under way;
\* the invariant survives when the word, or the flag, shows it to all of them.
LEMMA ForwardKeeps ==
    ASSUME SharedOK, SharedOK', ThreadsOK, NEW t \in Threads, NEW owned \in BOOLEAN,
           Forwards(t, owned), life.entered <= life'.entered, unknown => unknown',
           bindings' = bindings, owned \/ unknown',
           \A u \in Threads : th[u].pc \in Spanning => Shows(th[u], life', unknown')
    PROVE  ThreadsOK' /\ th'[t].owned = owned
           /\ \A u \in Threads \ {t} : th'[u].owned = th[u].owned
  <1> DEFINE native == [Outside EXCEPT !.pc = "native", !.owned = owned]
  <1>1. native \in Locals /\ native.pc = "native" /\ native.owned = owned
    <2>1. Outside \in Locals
      BY FitsOutside DEF Fits, SharedOK
    <2> QED
      BY <2>1 DEF Locals, Places
  <1>2. Fits(native, life', unknown', bindings')
    BY <1>1 DEF Fits, Spanning, Returned
  <1>3. th'[t] = native
    BY DEF Forwards
  <1>4. ASSUME NEW u \in Threads \ {t}
        PROVE  Fits(th'[u], life', unknown', bindings') /\ th'[u].owned = th[u].owned
    <2>1. Fits(th[u], life', unknown', bindings') /\ th[u] \in Locals
      <3>1. Fits(th[u], life, unknown, bindings) /\ th[u] \in Locals
        BY DEF ThreadsOK
      <3> QED
        BY <3>1, FitsLater DEF SharedOK
    <2>2. CASE th[u].pc \in Spanning
      <3>1. th'[u] = [th[u] EXCEPT !.crossed = TRUE]
        BY <2>2 DEF Forwards
      <3>2. Fits(th'[u], life', unknown', bindings')
        BY <2>1, <2>2, <3>1, FitsCrossed DEF SharedOK
      <3> QED
        BY <2>1, <3>1, <3>2 DEF Locals
    <2>3. CASE th[u].pc \notin Spanning
      <3>1. th'[u] = [th[u] EXCEPT !.crossed = @ \/ FALSE]
        BY <2>3 DEF Forwards
      <3>2. th[u].crossed \in BOOLEAN
        BY <2>1 DEF Locals
      <3>3. (th[u].crossed \/ FALSE) = th[u].crossed
        BY <3>2, Zenon
      <3>4. th'[u] = [th[u] EXCEPT !.crossed = th[u].crossed]
        BY <3>1, <3>3, Zenon
      <3>5. th'[u] = th[u]
        BY <2>1, <3>4 DEF Locals
      <3> QED
        BY <2>1, <3>5
    <2> QED
      BY <2>2, <2>3
  <1>5. \A u \in Threads : Fits(th'[u], life', unknown', bindings')
    BY <1>2, <1>3, <1>4
  <1>6. th' \in [Threads -> Locals]
    <2>1. \A u \in Threads : th'[u] \in Locals
      BY <1>5 DEF Fits
    <2> QED
      BY <2>1 DEF Forwards
  <1> QED
    BY <1>1, <1>3, <1>4, <1>5, <1>6 DEF ThreadsOK

\* LifecycleEnter counts its call in both halves.
LEMMA DispatchEnterKeeps ==
    ASSUME DispatchInv, NEW t \in Threads, LifecycleEnter(t)
    PROVE  DispatchInv'
  <1>1. life' = [entered |-> life.entered + 1, active |-> life.active + 1]
        /\ life.entered \in Nat /\ life.active \in Nat
    BY DEF LifecycleEnter, Counted, DispatchInv, SharedOK, LifeWord
  <1>2. SharedOK'
    BY <1>1 DEF LifecycleEnter, DispatchInv, SharedOK, LifeWord
  <1>3. \A u \in Threads : th[u].pc \in Spanning => Shows(th[u], life', unknown')
    <2> TAKE u \in Threads
    <2>1. th[u].before.entered \in Nat
      BY DEF DispatchInv, ThreadsOK, Locals, LifeWord
    <2> QED
      BY <1>1, <2>1 DEF DispatchInv, ThreadsOK, Fits, Shows
  <1>4. /\ ThreadsOK' /\ th'[t].owned = TRUE
        /\ \A u \in Threads \ {t} : th'[u].owned = th[u].owned
    <2>1. life.entered <= life'.entered
      BY <1>1
    <2>2. Forwards(t, TRUE) /\ unknown' = unknown /\ bindings' = bindings
      BY Zenon DEF LifecycleEnter
    <2> QED
      BY <1>2, <1>3, <2>1, <2>2, ForwardKeeps, Zenon DEF DispatchInv
  <1>5. t \notin Owners
    <2>1. ~At(t, "native")
      BY DEF LifecycleEnter, At
    <2> QED
      BY <2>1, OwnsNone DEF DispatchInv, Owners
  <1>6. Owners' = Owners \cup {t}
    BY <1>4 DEF Owners
  <1>7. ActiveIsCount'
    <2>1. Cardinality(Owners') = Cardinality(Owners) + 1
      BY <1>5, <1>6, OwnersFinite, FS_AddElement
    <2> QED
      BY <1>1, <2>1 DEF DispatchInv, ActiveIsCount
  <1>8. OneVerdict'
    BY DEF LifecycleEnter, DispatchInv, OneVerdict
  <1> QED
    BY <1>2, <1>4, <1>7, <1>8 DEF DispatchInv

\* A call the word cannot count raises the flag before it is forwarded.
LEMMA UnknownKeeps ==
    ASSUME DispatchInv, NEW t \in Threads, LifecycleUnknown(t)
    PROVE  DispatchInv'
  <1>1. SharedOK' /\ life.entered \in Nat
    BY DEF LifecycleUnknown, DispatchInv, SharedOK, LifeWord
  <1>2. \A u \in Threads : th[u].pc \in Spanning => Shows(th[u], life', unknown')
    BY DEF LifecycleUnknown, Shows
  <1>3. /\ ThreadsOK' /\ th'[t].owned = FALSE
        /\ \A u \in Threads \ {t} : th'[u].owned = th[u].owned
    <2>1. life.entered <= life'.entered
      BY <1>1 DEF LifecycleUnknown
    <2>2. Forwards(t, FALSE) /\ unknown' = TRUE /\ bindings' = bindings
      BY Zenon DEF LifecycleUnknown
    <2> QED
      BY <1>1, <1>2, <2>1, <2>2, ForwardKeeps, Zenon DEF DispatchInv
  <1>4. th[t].owned = FALSE
    BY OwnsNone DEF LifecycleUnknown, DispatchInv, At
  <1>5. Owners' = Owners
    BY <1>3, <1>4 DEF Owners
  <1>6. ActiveIsCount' /\ OneVerdict'
    BY <1>5 DEF LifecycleUnknown, DispatchInv, ActiveIsCount, OneVerdict
  <1> QED
    BY <1>1, <1>3, <1>6 DEF DispatchInv

\* The reference a thread owns is there to be given back, so that it never
\* raises the flag here.
LEMMA CleanupKeeps ==
    ASSUME DispatchInv, NEW t \in Threads, LifecycleCleanup(t)
    PROVE  DispatchInv'
  <1>1. life.entered \in Nat /\ life.active \in Nat /\ th[t].owned \in BOOLEAN
    BY DEF DispatchInv, SharedOK, ThreadsOK, Locals, LifeWord
  <1>2. OneVerdict' /\ bindings' = bindings
    BY DEF LifecycleCleanup, DispatchInv, OneVerdict
  <1>3. CASE th[t].owned
    <2>1. t \in Owners
      BY <1>3 DEF Owners
    <2>2. life.active > 0
      <3>1. Cardinality(Owners) \in Nat /\ Cardinality(Owners) # 0
        BY <2>1, OwnersFinite, FS_CardinalityType, FS_EmptySet
      <3> QED
        BY <3>1 DEF DispatchInv, ActiveIsCount
    <2>3. life' = [entered |-> life.entered, active |-> life.active - 1] /\ unknown' = unknown
      BY <1>3, <2>2 DEF LifecycleCleanup, LifecycleLeave, DispatchInv, SharedOK, LifeWord
    <2>4. SharedOK'
      BY <1>1, <2>2, <2>3 DEF LifecycleCleanup, DispatchInv, SharedOK, LifeWord
    <2>5. Fits(Outside, life', unknown', bindings')
      BY <2>4, FitsOutside DEF SharedOK
    <2>6. ThreadsOK'
      <3>1. life.entered <= life'.entered
        BY <1>1, <2>3
      <3> QED
        BY <1>2, <2>3, <2>4, <2>5, <3>1, OneMoves DEF LifecycleCleanup, DispatchInv
    <2>7. Owners' = Owners \ {t}
      <3>1. th' = [th EXCEPT ![t] = Outside] /\ DOMAIN th = Threads /\ Outside.owned = FALSE
        BY DEF LifecycleCleanup, Sets, DispatchInv, ThreadsOK, Outside
      <3> QED
        BY <3>1 DEF Owners
    <2>8. ActiveIsCount'
      <3>1. Cardinality(Owners') = Cardinality(Owners) - 1
        BY <2>1, <2>7, OwnersFinite, FS_RemoveElement
      <3> QED
        BY <2>3, <3>1 DEF DispatchInv, ActiveIsCount
    <2> QED
      BY <1>2, <2>4, <2>6, <2>8 DEF DispatchInv
  <1>4. CASE ~th[t].owned
    <2>1. th[t].owned = FALSE /\ (unknown \/ th[t].owned) = unknown
      <3>1. unknown \in BOOLEAN
        BY DEF DispatchInv, SharedOK
      <3> QED
        BY <1>1, <1>4, <3>1, Zenon
    <2>2. UNCHANGED shared /\ Sets(t, Outside)
      <3>1. life' = life /\ unknown' = (unknown \/ th[t].owned)
        BY <1>4, Zenon DEF LifecycleCleanup
      <3>2. bindings' = bindings /\ exhausted' = exhausted /\ Sets(t, Outside)
        BY DEF LifecycleCleanup
      <3> QED
        BY <2>1, <3>1, <3>2, Zenon DEF shared
    <2>3. Outside.owned = th[t].owned
      BY <2>1 DEF Outside
    <2>4. Fits(Outside, life, unknown, bindings)
      BY FitsOutside DEF DispatchInv, SharedOK
    <2> QED
      BY <2>2, <2>3, <2>4, QuietMove
  <1> QED
    BY <1>3, <1>4

\* Where a factory call and a lookup go, apart from the answers.
LEMMA BeginsFits ==
    ASSUME DispatchInv, NEW t \in Threads, NEW to \in {"call", "scan"}, NEW what \in Objects,
           Begins(t, to, what), UNCHANGED shared
    PROVE  DispatchInv'
  <1> DEFINE l == [Outside EXCEPT !.pc = to, !.before = life, !.object = what,
                                  !.crossed = InFlight]
  <1>1. InFlight \in BOOLEAN
    BY Zenon DEF InFlight
  <1>2. Outside \in Locals /\ life \in LifeWord
    BY FitsOutside DEF Fits, DispatchInv, SharedOK
  <1>3. l.owned = FALSE /\ l.pc = to /\ l.before = life /\ l.crossed = InFlight
    BY <1>2 DEF Locals, Outside
  <1>4. l \in Locals
    BY <1>1, <1>2 DEF Locals, Places, Spanning
  <1>5. InFlight => Shows(l, life, unknown)
    BY <1>3, FlightShows DEF InFlight, Shows
  <1>6. Fits(l, life, unknown, bindings)
    BY <1>2, <1>3, <1>4, <1>5 DEF Fits, Spanning, Returned, LifeWord
  <1>7. l.owned = th[t].owned
    <2>1. th[t].owned = FALSE
      BY OwnsNone DEF Begins, At, DispatchInv
    <2> QED
      BY <1>3, <2>1, Zenon
  <1>8. Sets(t, l)
    BY Zenon DEF Begins
  <1> QED
    BY <1>6, <1>7, <1>8, QuietMove

\* A move inside the span of the history, which learns no binding.
LEMMA SpanKeeps ==
    ASSUME DispatchInv, NEW t \in Threads, th[t].pc \in Spanning,
           NEW l \in Locals, l.owned = th[t].owned, l.before = th[t].before,
           l.crossed = th[t].crossed, l.pc \in Spanning \ {"confirm"},
           Sets(t, l), UNCHANGED shared
    PROVE  DispatchInv'
  <1>1. Fits(th[t], life, unknown, bindings)
    BY DEF DispatchInv, ThreadsOK
  <1>2. l.owned = FALSE
    BY <1>1, OwnsNone, Zenon DEF At, DispatchInv, Spanning, Fits
  <1>3. Fits(l, life, unknown, bindings)
    BY <1>1, <1>2 DEF Fits, Spanning, Returned, Shows
  <1> QED
    BY <1>3, QuietMove

\* The last read of the word: the history ends, and what it shows stays shown.
LEMMA LastReadKeeps ==
    ASSUME DispatchInv, NEW t \in Threads, NEW from \in Spanning, NEW to \in {"decide", "confirmed"},
           to = "confirmed" => from = "confirm", Rereads(t, from, to)
    PROVE  DispatchInv'
  <1> DEFINE l == [To(t, to) EXCEPT !.after = life]
  <1>1. Fits(th[t], life, unknown, bindings) /\ th[t].pc = from
    BY DEF DispatchInv, ThreadsOK, Rereads, At
  <1>2. to \in Places
    BY DEF Places
  <1>3. /\ l \in Locals /\ l.pc = to /\ l.after = life
        /\ l.owned = th[t].owned /\ l.before = th[t].before
        /\ l.object = th[t].object /\ l.id = th[t].id /\ l.crossed = th[t].crossed
    BY <1>2, MovesOnly DEF DispatchInv, Locals, SharedOK
  <1>4. ~l.owned
    BY <1>1, <1>3 DEF Fits, Spanning
  <1>5. th[t].crossed => Shows(l, l.after, unknown)
    BY <1>1, <1>3 DEF Fits, Shows
  <1>6. to = "confirmed" => Bound(l, bindings)
    BY <1>1, <1>3 DEF Fits, Bound
  <1>7. Fits(l, life, unknown, bindings)
    BY <1>3, <1>4, <1>5, <1>6 DEF Fits, Spanning, Returned
  <1> QED
    BY <1>3, <1>7, QuietMove DEF Rereads

\* A clean word at the last read: nothing has crossed the call.
LEMMA CleanUncrossed ==
    ASSUME DispatchInv, NEW t \in Threads, th[t].pc \in {"decide", "confirmed"}, CleanLifecycle(t)
    PROVE  ~th[t].crossed /\ th[t].owned = FALSE
  <1>1. th[t].before.active = 0 /\ th[t].before = th[t].after /\ ~unknown
    BY DEF CleanLifecycle
  <1>2. ~Shows(th[t], th[t].after, unknown)
    BY <1>1 DEF Shows
  <1>3. th[t].owned = FALSE
    BY OwnsNone DEF At, DispatchInv
  <1> QED
    BY <1>2, <1>3 DEF DispatchInv, ThreadsOK, Fits

\* An answer of such a call fits when its binding is one of its lifecycle.
LEMMA AnswerFits ==
    ASSUME ThreadsOK, NEW t \in Threads, ~th[t].crossed, th[t].owned = FALSE,
           NEW to \in Returned, NEW i \in Nat, NEW w, NEW flag, NEW bs,
           i \in DOMAIN bs, bs[i].accepted, bs[i].entered = th[t].before.entered,
           bs[i].real = th[t].object \/ i = th[t].object
    PROVE  Fits([To(t, to) EXCEPT !.id = i], w, flag, bs)
  <1> DEFINE l == [To(t, to) EXCEPT !.id = i]
  <1>1. to \in Places
    BY DEF Places
  <1>2. /\ l \in Locals /\ l.pc = to /\ l.id = i /\ l.owned = FALSE
        /\ l.before = th[t].before /\ l.object = th[t].object /\ ~l.crossed
    BY <1>1, MovesOnly DEF Locals
  <1>3. Bound(l, bs)
    BY <1>2 DEF Bound
  <1> QED
    BY <1>2, <1>3 DEF Fits, Spanning, Returned

\* InitEntry and ShutdownEntry keep the invariant.
LEMMA LifecycleKeeps ==
    ASSUME DispatchInv, NEW t \in Threads, LifecycleNext(t)
    PROVE  DispatchInv'
  <1>1. CASE LifecycleOverflow(t)
    <2>1. /\ To(t, "overflow") \in Locals /\ To(t, "overflow").pc = "overflow"
          /\ To(t, "overflow").owned = th[t].owned
      BY MovesOnly DEF DispatchInv, Places
    <2>2. th[t].owned = FALSE
      BY <1>1, OwnsNone DEF LifecycleOverflow, At, DispatchInv
    <2>3. Fits(To(t, "overflow"), life, unknown, bindings)
      BY <2>1, <2>2 DEF Fits, Spanning, Returned
    <2> QED
      BY <1>1, <2>1, <2>3, QuietMove DEF LifecycleOverflow
  <1> QED
    BY <1>1, DispatchEnterKeeps, UnknownKeeps, CleanupKeeps DEF LifecycleNext

\* The factory up to its last read of the word.
LEMMA FactoryCallKeeps ==
    ASSUME DispatchInv, NEW t \in Threads,
           FactoryBegins(t) \/ FactoryReturns(t) \/ FactoryReadsLife(t) \/ FactoryClean(t)
           \/ FactoryFinds(t) \/ ValidateObject(t) \/ FactoryRereadsLife(t)
    PROVE  DispatchInv'
  <1> USE DEF DispatchInv
  <1>1. CASE FactoryBegins(t)
    BY <1>1, BeginsFits DEF FactoryBegins, Objects
  <1>2. CASE FactoryReturns(t)
    <2>1. CASE Sets(t, Outside)
      BY <1>2, <2>1, QuietLeave DEF FactoryReturns, At
    <2>2. ASSUME NEW r \in Reals, NEW u \in Users,
                 Sets(t, [To(t, "after") EXCEPT !.object = r, !.user = u])
          PROVE  DispatchInv'
      <3> DEFINE l == [To(t, "after") EXCEPT !.object = r, !.user = u]
      <3>1. "after" \in Places
        BY DEF Places, Spanning
      <3>2. To(t, "after") \in Locals /\ To(t, "after").pc = "after"
            /\ To(t, "after").owned = th[t].owned /\ To(t, "after").before = th[t].before
            /\ To(t, "after").crossed = th[t].crossed
        BY <3>1, MovesOnly
      <3>3. /\ l \in Locals /\ l.pc = "after" /\ l.owned = th[t].owned
            /\ l.before = th[t].before /\ l.crossed = th[t].crossed
        BY <3>2 DEF Locals, Objects
      <3> QED
        BY <1>2, <2>2, <3>3, SpanKeeps DEF FactoryReturns, At, Spanning
    <2> QED
      BY <1>2, <2>1, <2>2 DEF FactoryReturns
  <1>3. CASE FactoryReadsLife(t)
    <2> DEFINE l == [To(t, "clean") EXCEPT !.after = life]
    <2>1. /\ l \in Locals /\ l.pc = "clean" /\ l.owned = th[t].owned
          /\ l.before = th[t].before /\ l.crossed = th[t].crossed
      BY MovesOnly DEF Places, Spanning, Locals, SharedOK
    <2> QED
      BY <1>3, <2>1, SpanKeeps DEF FactoryReadsLife, Rereads, At, Spanning
  <1>4. CASE FactoryClean(t)
    <2>1. CASE CleanLifecycle(t)
      <3>1. /\ To(t, "find") \in Locals /\ To(t, "find").pc = "find"
            /\ To(t, "find").owned = th[t].owned /\ To(t, "find").before = th[t].before
            /\ To(t, "find").crossed = th[t].crossed
        BY MovesOnly DEF Places, Spanning
      <3> QED
        BY <1>4, <2>1, <3>1, SpanKeeps DEF FactoryClean, At, Spanning
    <2>2. CASE ~CleanLifecycle(t)
      BY <1>4, <2>2, QuietLeave DEF FactoryClean, At
    <2> QED
      BY <2>1, <2>2
  <1>5. CASE FactoryFinds(t)
    <2>1. CASE FindBinding(t) = {}
      <3>1. /\ To(t, "validate") \in Locals /\ To(t, "validate").pc = "validate"
            /\ To(t, "validate").owned = th[t].owned /\ To(t, "validate").before = th[t].before
            /\ To(t, "validate").crossed = th[t].crossed
        BY MovesOnly DEF Places, Spanning
      <3> QED
        BY <1>5, <2>1, <3>1, SpanKeeps DEF FactoryFinds, At, Spanning
    <2>2. CASE FindBinding(t) # {}
      <3> DEFINE v == \E i \in FindBinding(t) : bindings[i].accepted
                 l == [To(t, "recheck") EXCEPT !.valid = v]
      <3>1. v \in BOOLEAN
        BY Zenon
      <3> HIDE DEF v
      <3>2. /\ l \in Locals /\ l.pc = "recheck" /\ l.owned = th[t].owned
            /\ l.before = th[t].before /\ l.crossed = th[t].crossed
        BY <3>1, MovesOnly DEF Places, Spanning, Locals
      <3>3. th[t].pc \in Spanning /\ Sets(t, l) /\ UNCHANGED shared
        BY <1>5, <2>2, Zenon DEF FactoryFinds, At, Spanning, v
      <3> QED
        BY <3>2, <3>3, SpanKeeps DEF Spanning
    <2> QED
      BY <2>1, <2>2
  <1>6. CASE ValidateObject(t)
    <2>1. PICK v \in BOOLEAN : Sets(t, [To(t, "recheck") EXCEPT !.valid = v])
      BY <1>6, Zenon DEF ValidateObject
    <2> DEFINE l == [To(t, "recheck") EXCEPT !.valid = v]
    <2>2. /\ l \in Locals /\ l.pc = "recheck" /\ l.owned = th[t].owned
          /\ l.before = th[t].before /\ l.crossed = th[t].crossed
      BY MovesOnly DEF Places, Spanning, Locals
    <2> QED
      BY <1>6, <2>1, <2>2, SpanKeeps DEF ValidateObject, At, Spanning
  <1>7. CASE FactoryRereadsLife(t)
    BY <1>7, LastReadKeeps DEF FactoryRereadsLife, Spanning
  <1> QED
    BY <1>1, <1>2, <1>3, <1>4, <1>5, <1>6, <1>7

\* The decision with cacheLock held, on a clean word.
LEMMA BindsKeeps ==
    ASSUME DispatchInv, NEW t \in Threads, FactoryBinds(t)
    PROVE  DispatchInv'
  <1> USE DEF DispatchInv
  <1> DEFINE b == [real |-> th[t].object, user |-> th[t].user,
                   entered |-> th[t].before.entered, accepted |-> th[t].valid]
  <1>1. th[t] \in Locals /\ th[t].pc = "decide" /\ CleanLifecycle(t)
    BY DEF FactoryBinds, At, ThreadsOK
  <1>2. ~th[t].crossed /\ th[t].owned = FALSE
    BY <1>1, CleanUncrossed
  <1>3. b \in Binding
    BY <1>1 DEF Locals, LifeWord, Binding
  <1>4. bindings' = Append(bindings, b) /\ bindings \in Seq(Binding)
    BY DEF FactoryBinds, SharedOK
  <1>5. /\ Len(bindings) + 1 \in Nat /\ Len(bindings) + 1 \in DOMAIN bindings'
        /\ bindings'[Len(bindings) + 1] = b
        /\ \A i \in DOMAIN bindings : i \in DOMAIN bindings' /\ bindings'[i] = bindings[i]
        /\ \A i \in DOMAIN bindings' : i \in DOMAIN bindings \/ i = Len(bindings) + 1
    BY <1>3, <1>4
  <1>6. SharedOK'
    <2>1. bindings' \in Seq(Binding)
      BY <1>3, <1>4
    <2>2. life' = life /\ unknown' = unknown /\ exhausted' = exhausted
      BY DEF FactoryBinds
    <2> QED
      BY <2>1, <2>2 DEF SharedOK
  <1>7. life'.entered = life.entered /\ life.entered \in Nat /\ unknown' = unknown
    BY DEF FactoryBinds, SharedOK, LifeWord
  <1>8. PICK l : Sets(t, l) /\ l.owned = FALSE /\ Fits(l, life', unknown', bindings')
    <2>1. CASE th[t].valid
      <3> DEFINE l == [To(t, "proxy") EXCEPT !.id = Len(bindings) + 1]
      <3>1. Sets(t, l)
        <4>1. Answers(t, Len(bindings) + 1, th[t].valid)
          BY Zenon DEF FactoryBinds
        <4> QED
          BY <2>1, <4>1, Zenon DEF Answers
      <3>2. Fits(l, life', unknown', bindings')
        <4> DEFINE n == Len(bindings) + 1
        <4>1. /\ n \in Nat /\ n \in DOMAIN bindings' /\ bindings'[n].accepted
              /\ bindings'[n].entered = th[t].before.entered
              /\ bindings'[n].real = th[t].object
          BY <1>5, <2>1
        <4> HIDE DEF n
        <4>2. Fits([To(t, "proxy") EXCEPT !.id = n], life', unknown', bindings')
          BY <1>2, <4>1, AnswerFits DEF Returned
        <4> QED
          BY <4>2 DEF n
      <3>3. To(t, "proxy").owned = FALSE /\ To(t, "proxy") \in Locals
        BY <1>2, MovesOnly DEF Places, Returned
      <3>4. l.owned = FALSE
        BY <3>3 DEF Locals
      <3> QED
        BY <3>1, <3>2, <3>4
    <2>2. CASE ~th[t].valid
      BY <1>6, <2>2, FitsOutside DEF FactoryBinds, Answers, Outside, SharedOK
    <2> QED
      BY <2>1, <2>2
  <1>9. ThreadsOK'
    BY <1>5, <1>6, <1>7, <1>8, OneMoves
  <1>10. ActiveIsCount'
    <2>1. \A u \in Threads : th'[u].owned = th[u].owned
      BY <1>2, <1>8 DEF Sets, ThreadsOK
    <2>2. Owners' = Owners
      BY <2>1 DEF Owners
    <2> QED
      BY <2>2 DEF ActiveIsCount, FactoryBinds
  <1>11. OneVerdict'
    <2>1. \A i \in DOMAIN bindings :
             ~(/\ bindings[i].real = b.real /\ bindings[i].user = b.user
               /\ bindings[i].entered = b.entered)
      BY DEF FactoryBinds, Taken, FindBinding
    <2> QED
      BY <1>5, <2>1 DEF OneVerdict
  <1> QED
    BY <1>6, <1>9, <1>10, <1>11

\* The other outcomes of FactoryEntry's locked section keep it too.
LEMMA DecisionKeeps ==
    ASSUME DispatchInv, NEW t \in Threads,
           FactoryCrossed(t) \/ FactoryBinds(t) \/ FactoryJoins(t) \/ FactoryExhausts(t)
    PROVE  DispatchInv'
  <1>1. CASE FactoryCrossed(t)
    BY <1>1, QuietLeave DEF FactoryCrossed, At
  <1>2. CASE FactoryJoins(t)
    <2>1. PICK i \in FindBinding(t) : Answers(t, i, bindings[i].accepted)
      BY <1>2 DEF FactoryJoins, Taken
    <2>2. /\ i \in DOMAIN bindings /\ i \in Nat /\ bindings[i].real = th[t].object
          /\ bindings[i].entered = th[t].before.entered
      BY DEF FindBinding, DispatchInv, SharedOK
    <2>3. ~th[t].crossed /\ th[t].owned = FALSE
      BY <1>2, CleanUncrossed DEF FactoryJoins, At
    <2>4. CASE bindings[i].accepted
      <3> DEFINE l == [To(t, "proxy") EXCEPT !.id = i]
      <3>1. Fits(l, life, unknown, bindings)
        BY <2>2, <2>3, <2>4, AnswerFits DEF Returned, DispatchInv
      <3>2. To(t, "proxy").owned = th[t].owned /\ To(t, "proxy") \in Locals
        BY MovesOnly DEF Places, Returned, DispatchInv
      <3>3. l.owned = th[t].owned
        BY <3>2 DEF Locals
      <3>4. Sets(t, l) /\ UNCHANGED shared
        BY <1>2, <2>1, <2>4 DEF Answers, FactoryJoins
      <3> QED
        BY <3>1, <3>3, <3>4, QuietMove
    <2>5. CASE ~bindings[i].accepted
      BY <1>2, <2>1, <2>5, QuietLeave DEF Answers, FactoryJoins, At
    <2> QED
      BY <2>4, <2>5
  <1>3. CASE FactoryExhausts(t)
    <2>1. /\ life' = life /\ unknown' = unknown /\ bindings' = bindings /\ Sets(t, Outside)
          /\ exhausted' \in BOOLEAN
      BY <1>3, Zenon DEF FactoryExhausts
    <2>2. SharedOK' /\ life.entered \in Nat
      BY <2>1 DEF DispatchInv, SharedOK, LifeWord
    <2>3. Fits(Outside, life', unknown', bindings')
      BY <2>2, FitsOutside DEF SharedOK
    <2>4. ThreadsOK'
      BY <2>1, <2>2, <2>3, OneMoves DEF DispatchInv
    <2>5. Owners' = Owners
      <3>1. th[t].owned = FALSE
        BY <1>3, OwnsNone DEF FactoryExhausts, At, DispatchInv
      <3>2. \A u \in Threads : th'[u].owned = th[u].owned
        BY <2>1, <3>1 DEF Sets, DispatchInv, ThreadsOK, Outside
      <3> QED
        BY <3>2 DEF Owners
    <2> QED
      BY <2>1, <2>2, <2>4, <2>5 DEF DispatchInv, ActiveIsCount, OneVerdict
  <1> QED
    BY <1>1, <1>2, <1>3, BindsKeeps

\* ReadAcceptedBinding keeps the invariant, and so does the use of an answer.
LEMMA LookupKeeps ==
    ASSUME DispatchInv, NEW t \in Threads, LookupNext(t) \/ Uses(t)
    PROVE  DispatchInv'
  <1> USE DEF DispatchInv
  <1>1. CASE LookupBegins(t)
    <2>1. DOMAIN bindings \subseteq Nat
      BY DEF SharedOK
    <2> QED
      BY <1>1, <2>1, BeginsFits DEF LookupBegins, Objects
  <1>2. CASE LookupFails(t)
    BY <1>2, QuietLeave DEF LookupFails, At
  <1>3. CASE LookupFinds(t)
    <2>1. PICK i \in DOMAIN bindings :
                 Matching(t) = {i} /\ Sets(t, [To(t, "confirm") EXCEPT !.id = i])
      BY <1>3 DEF LookupFinds
    <2> DEFINE l == [To(t, "confirm") EXCEPT !.id = i]
    <2>2. /\ i \in Nat /\ bindings[i].accepted
          /\ bindings[i].entered = th[t].before.entered
          /\ bindings[i].real = th[t].object \/ i = th[t].object
      BY <2>1 DEF Matching, SharedOK
    <2>3. /\ l \in Locals /\ l.pc = "confirm" /\ l.id = i /\ l.owned = th[t].owned
          /\ l.before = th[t].before /\ l.object = th[t].object /\ l.crossed = th[t].crossed
      BY <2>2, MovesOnly DEF Places, Spanning, Locals
    <2>4. Bound(l, bindings)
      BY <2>1, <2>2, <2>3 DEF Bound
    <2>5. Fits(th[t], life, unknown, bindings) /\ th[t].pc = "scan"
      BY <1>3 DEF ThreadsOK, LookupFinds, At
    <2>6. Fits(l, life, unknown, bindings)
      BY <2>3, <2>4, <2>5 DEF Fits, Spanning, Returned, Shows
    <2> QED
      BY <1>3, <2>1, <2>3, <2>6, QuietMove DEF LookupFinds
  <1>4. CASE LookupReadsLife(t)
    BY <1>4, LastReadKeeps DEF LookupReadsLife, Spanning
  <1>5. CASE LookupConfirms(t)
    <2>1. CASE CleanLifecycle(t)
      <3>1. ~th[t].crossed /\ th[t].owned = FALSE
        BY <1>5, <2>1, CleanUncrossed DEF LookupConfirms, At
      <3>2. Fits(th[t], life, unknown, bindings) /\ th[t].pc = "confirmed"
        BY <1>5 DEF ThreadsOK, LookupConfirms, At
      <3>3. /\ To(t, "snapshot") \in Locals /\ To(t, "snapshot").pc = "snapshot"
            /\ To(t, "snapshot").owned = FALSE /\ To(t, "snapshot").id = th[t].id
            /\ To(t, "snapshot").before = th[t].before /\ ~To(t, "snapshot").crossed
            /\ To(t, "snapshot").object = th[t].object
        BY <3>1, MovesOnly DEF Places, Returned
      <3>4. Bound(To(t, "snapshot"), bindings)
        BY <3>2, <3>3 DEF Fits, Bound
      <3>5. Fits(To(t, "snapshot"), life, unknown, bindings)
        BY <3>3, <3>4 DEF Fits, Spanning, Returned
      <3> QED
        BY <1>5, <2>1, <3>1, <3>3, <3>5, QuietMove DEF LookupConfirms
    <2>2. CASE ~CleanLifecycle(t)
      BY <1>5, <2>2, QuietLeave DEF LookupConfirms, At
    <2> QED
      BY <2>1, <2>2
  <1>6. CASE Uses(t)
    BY <1>6, QuietLeave DEF Uses, Returned, At
  <1> QED
    BY <1>1, <1>2, <1>3, <1>4, <1>5, <1>6 DEF LookupNext
-----------------------------------------------------------------------------
(* The theorems.                                                           *)

\* The strengthened invariant holds in every reachable state.
THEOREM DispatchInvariance == Spec => []DispatchInv
  <1>1. DispatchInv /\ [Next]_vars => DispatchInv'
    <2> SUFFICES ASSUME DispatchInv, [Next]_vars PROVE DispatchInv'
      OBVIOUS
    <2>1. CASE UNCHANGED vars
      BY <2>1 DEF vars, shared, DispatchInv, SharedOK, ThreadsOK, ActiveIsCount, Owners, OneVerdict
    <2>2. ASSUME NEW t \in Threads,
                 LifecycleNext(t) \/ FactoryNext(t) \/ LookupNext(t) \/ Uses(t)
          PROVE  DispatchInv'
      BY <2>2, LifecycleKeeps, FactoryCallKeeps, DecisionKeeps, LookupKeeps DEF FactoryNext
    <2> QED
      BY <2>1, <2>2 DEF Next
  <1> QED
    BY DispatchStarts, <1>1, PTL DEF Spec

\* A proxy or a binding given out belongs to one undisturbed lifecycle and to an
\* accepted object (FactoryEntry, ReadAcceptedBinding).
THEOREM GivenOutIsCurrent == Spec => []BoundIsCurrent
  <1>1. DispatchInv => BoundIsCurrent
    BY DEF DispatchInv, ThreadsOK, Fits, Bound, BoundIsCurrent
  <1> QED
    BY DispatchInvariance, <1>1, PTL

\* One object has one verdict per user and lifecycle (the second FindBinding of
\* FactoryEntry).
THEOREM VerdictsAreFinal == Spec => []OneVerdict
  <1>1. DispatchInv => OneVerdict
    BY DEF DispatchInv
  <1> QED
    BY DispatchInvariance, <1>1, PTL
-----------------------------------------------------------------------------
(* The wrappers' frames (CallFrames)                                       *)
(***************************************************************************)
(* Proofs about CallFrames, for any limit of its counters.  As long as no  *)
(* gap is latched the owner's frames are exactly the counted ones, so that *)
(* only the outermost is top-level; with that, what is staged or accounted *)
(* as top-level began no later than any frame that is still open.          *)
(***************************************************************************)
\* Without a gap the depth counters count the frames, and the outermost frame
\* alone is top-level.
DepthCounted ==
    ~timing.gap =>
        /\ TimingDepth = Len(stack)
        /\ \A i \in 1..Len(stack) : stack[i].depthOwned /\ (stack[i].topLevel => i = 1)

\* Nothing that was measured lies in the future.
Past == timing.watermark <= now /\ \A i \in 1..Len(stack) : stack[i].start <= now

\* A frame's readings before its original ran are its own time up to there.
ReadsOwnTime == \A i \in 1..Len(stack) : stack[i].nativeStart = stack[i].start + stack[i].own

\* What waits to be accounted as top-level began before every open frame.
PendingFirst ==
    ~timing.gap /\ timing.pending # <<>> /\ timing.pending[1].topLevel =>
        /\ timing.pending[1].entry <= now
        /\ \A i \in 1..Len(stack) : stack[i].start >= timing.pending[1].entry

FramesInv == /\ FramesTyped /\ TimeConserved /\ StagedFits
        /\ DepthCounted /\ Past /\ PendingFirst /\ WatermarkHonest /\ ReadsOwnTime

\* What a measurement counts.
TotalTicks(t) == t.ticks["PumpForward"] + t.ticks["PumpManagement"]
              + t.ticks["BuilderForward"] + t.ticks["BuilderProbe"]
              + (IF t.pending = <<>> THEN 0 ELSE t.pending[1].ticks)

\* The one interval that waits.
LEMMA PendingOne ==
  ASSUME NEW t \in Timing, t.pending # <<>>
  PROVE  t.pending[1] \in Interval /\ t.pending = <<t.pending[1]>>
  BY DEF Timing

\* Latching the gap changes nothing else.
LEMMA FailKeeps ==
  ASSUME NEW t \in Timing
  PROVE  /\ Fail(t) \in Timing /\ Fail(t).gap /\ TotalTicks(Fail(t)) = TotalTicks(t)
         /\ Fail(t).watermark = t.watermark /\ Fail(t).pending = t.pending
  BY DEF Fail, Timing, TotalTicks

\* An accounted interval has moved from the slot into the counters.
LEMMA AccountedKeeps ==
  ASSUME NEW t \in Timing, ~t.gap, NEW i \in Interval, t.pending = <<i>>, Room(t, i)
  PROVE  /\ Accounted(t, i) \in Timing /\ TotalTicks(Accounted(t, i)) = TotalTicks(t)
         /\ ~Accounted(t, i).gap /\ Accounted(t, i).pending = <<>>
         /\ Accounted(t, i).watermark = IF i.topLevel THEN i.entry ELSE t.watermark
<1>1. /\ t.ticks \in [Classes -> 0..MaxTicks] /\ t.calls \in [Classes -> 0..MaxCalls]
      /\ i.class \in Classes /\ i.ticks \in Nat /\ t.watermark \in Nat /\ i.entry \in Nat
  BY DEF Timing, Interval
<1> DEFINE counts == [t.calls EXCEPT ![i.class] = t.calls[i.class] + 1]
           ticks == [t.ticks EXCEPT ![i.class] = t.ticks[i.class] + i.ticks]
           mark  == IF i.topLevel THEN i.entry ELSE t.watermark
<1>2. t.calls[i.class] + 1 \in 0..MaxCalls /\ t.ticks[i.class] + i.ticks \in 0..MaxTicks
  BY <1>1, FrameAssumption DEF Room
<1>3. counts \in [Classes -> 0..MaxCalls] /\ ticks \in [Classes -> 0..MaxTicks] /\ mark \in Nat
  BY <1>1, <1>2
<1>4. Accounted(t, i) = [gap |-> t.gap, pending |-> <<>>, calls |-> counts, ticks |-> ticks, watermark |-> mark]
  BY DEF Accounted
<1>5. t.ticks \in [Classes -> Nat] /\ ticks \in [Classes -> Nat]
  BY <1>1, <1>3, FrameAssumption
<1>6. ticks["PumpForward"] + ticks["PumpManagement"] + ticks["BuilderForward"] + ticks["BuilderProbe"]
        = t.ticks["PumpForward"] + t.ticks["PumpManagement"] + t.ticks["BuilderForward"]
            + t.ticks["BuilderProbe"] + i.ticks
  <2>1. \A k \in Classes : ticks[k] = IF k = i.class THEN t.ticks[k] + i.ticks ELSE t.ticks[k]
    BY <1>1, <1>5
  <2>2. \A k \in Classes : ticks[k] \in Nat /\ t.ticks[k] \in Nat
    BY <1>5
  <2> HIDE DEF ticks
  <2> QED
    BY <2>1, <2>2, <1>1 DEF Classes
<1>7. TotalTicks(t) = t.ticks["PumpForward"] + t.ticks["PumpManagement"] + t.ticks["BuilderForward"]
                        + t.ticks["BuilderProbe"] + i.ticks
  <2>1. t.pending # <<>> /\ t.pending[1] = i
    OBVIOUS
  <2> QED
    BY <2>1, <1>1, <1>5 DEF TotalTicks
<1> HIDE DEF counts, ticks, mark
<1>8. TotalTicks(Accounted(t, i)) = ticks["PumpForward"] + ticks["PumpManagement"] + ticks["BuilderForward"]
                                      + ticks["BuilderProbe"]
  BY <1>4, <1>5 DEF TotalTicks, Classes
<1>9. Accounted(t, i) \in Timing
  BY <1>3, <1>4 DEF Timing
<1> QED
  BY <1>4, <1>6, <1>7, <1>8, <1>9 DEF mark

\* What waits can still be accounted.
Ready(t) == ~t.gap /\ t.pending # <<>> => Room(t, t.pending[1]) /\ InOrder(t, t.pending[1])

\* A measurement counts a natural number of ticks.
LEMMA TotalIsNat == ASSUME NEW t \in Timing PROVE TotalTicks(t) \in Nat
<1>1. \A k \in Classes : t.ticks[k] \in Nat
  BY FrameAssumption DEF Timing
<1>2. t.pending # <<>> => t.pending[1].ticks \in Nat
  BY PendingOne DEF Interval
<1>3. /\ t.ticks["PumpForward"] \in Nat /\ t.ticks["PumpManagement"] \in Nat
      /\ t.ticks["BuilderForward"] \in Nat /\ t.ticks["BuilderProbe"] \in Nat
  BY <1>1 DEF Classes
<1> DEFINE waiting == IF t.pending = <<>> THEN 0 ELSE t.pending[1].ticks
<1>4. waiting \in Nat
  BY <1>2
<1>5. TotalTicks(t) = t.ticks["PumpForward"] + t.ticks["PumpManagement"]
                        + t.ticks["BuilderForward"] + t.ticks["BuilderProbe"] + waiting
  BY DEF TotalTicks
<1> HIDE DEF waiting
<1> QED
  BY <1>3, <1>4, <1>5

\* Consuming counts what waits, and never has to latch the gap.
LEMMA ConsumeKeeps ==
  ASSUME NEW t \in Timing, Ready(t), NEW s, s = ConsumeRuntimeDuration(t)
  PROVE  /\ s \in Timing /\ TotalTicks(s) = TotalTicks(t)
         /\ t.gap => s = t
         /\ ~t.gap => ~s.gap /\ s.pending = <<>>
         /\ \/ s.watermark = t.watermark
            \/ ~t.gap /\ t.pending # <<>> /\ t.pending[1].topLevel /\ s.watermark = t.pending[1].entry
<1>1. CASE t.gap \/ t.pending = <<>>
  BY <1>1 DEF ConsumeRuntimeDuration
<1>2. CASE ~t.gap /\ t.pending # <<>>
  <2>1. t.pending[1] \in Interval /\ t.pending = <<t.pending[1]>>
    BY <1>2, PendingOne
  <2>2. Room(t, t.pending[1]) /\ InOrder(t, t.pending[1])
    BY <1>2 DEF Ready
  <2>3. s = Accounted(t, t.pending[1])
    BY <1>2, <2>2 DEF ConsumeRuntimeDuration
  <2> QED
    BY <1>2, <2>1, <2>2, <2>3, AccountedKeeps
<1> QED
  BY <1>1, <1>2

\* Staging puts an interval into the empty slot, or latches the gap.
LEMMA StageKeeps ==
  ASSUME NEW t \in Timing, NEW i \in Interval, NEW s, s = StageRuntimeDuration(t, i),
         ~t.gap => t.pending = <<>>
  PROVE  /\ s \in Timing /\ s.watermark = t.watermark /\ Ready(s)
         /\ t.gap => s.gap
         /\ TotalTicks(s) <= TotalTicks(t) + i.ticks
         /\ ~s.gap => TotalTicks(s) = TotalTicks(t) + i.ticks /\ s.pending = <<i>>
<1>1. t.ticks \in [Classes -> Nat] /\ i.ticks \in Nat /\ TotalTicks(t) \in Nat
  BY FrameAssumption, TotalIsNat DEF Timing, Interval
<1>2. CASE t.gap
  BY <1>1, <1>2 DEF StageRuntimeDuration, Ready
<1>3. CASE ~t.gap /\ ~(InOrder(t, i) /\ Room(t, i))
  <2>1. s = Fail(t)
    BY <1>3 DEF StageRuntimeDuration
  <2> QED
    BY <1>1, <1>3, <2>1, FailKeeps DEF Ready
<1>4. CASE ~t.gap /\ InOrder(t, i) /\ Room(t, i)
  <2>1. s = [t EXCEPT !.pending = <<i>>]
    BY <1>4 DEF StageRuntimeDuration
  <2>2. s = [gap |-> t.gap, pending |-> <<i>>, calls |-> t.calls, ticks |-> t.ticks, watermark |-> t.watermark]
    BY <2>1 DEF Timing
  <2>3. s \in Timing
    BY <2>2 DEF Timing
  <2>4. TotalTicks(s) = TotalTicks(t) + i.ticks
    BY <1>1, <1>4, <2>2 DEF TotalTicks, Classes
  <2>5. Ready(s)
    BY <1>4, <2>2 DEF Ready, Room, InOrder
  <2> QED
    BY <1>1, <1>4, <2>2, <2>3, <2>4, <2>5
<1> QED
  BY <1>2, <1>3, <1>4
------------------------------------------------------------------------------
\* The watermark of `s' is the measurement's own, or that of what it waits to
\* account.
MarkOf(s) ==
    \/ s.watermark = timing.watermark
    \/ ~timing.gap /\ timing.pending # <<>> /\ timing.pending[1].topLevel /\ s.watermark = timing.pending[1].entry

\* Neither lies in the future or passes an open frame.
LEMMA MarkLow ==
  ASSUME FramesInv, NEW s, MarkOf(s)
  PROVE  s.watermark <= now /\ \A i \in 1..Len(stack) : stack[i].start >= s.watermark
  BY DEF FramesInv, MarkOf, Past, PendingFirst, WatermarkHonest

\* What the invariant says of the measurement alone.
LEMMA Measured ==
  ASSUME FramesInv
  PROVE  /\ timing \in Timing /\ Ready(timing) /\ OwnCounted = TotalTicks(timing)
         /\ \A i \in 1..Len(stack) : stack[i] \in Frame /\ stack[i].start \in Nat /\ stack[i].own \in Nat
<1>1. timing \in Timing /\ stack \in Seq(Frame)
  BY DEF FramesInv, FramesTyped
<1>2. Ready(timing)
  BY DEF FramesInv, StagedFits, Ready
<1>3. OwnCounted = TotalTicks(timing)
  BY DEF OwnCounted, TotalTicks
<1>4. \A i \in 1..Len(stack) : stack[i] \in Frame
  BY <1>1
<1> QED
  BY <1>1, <1>2, <1>3, <1>4 DEF Frame

\* Before the first frame nothing was measured.
LEMMA InitHolds == FramesInit => FramesInv
<1> SUFFICES ASSUME FramesInit PROVE FramesInv
  OBVIOUS
<1> USE FrameAssumption DEF FramesInit
<1>1. [c \in Classes |-> 0] \in [Classes -> 0..MaxCalls] /\ [c \in Classes |-> 0] \in [Classes -> 0..MaxTicks]
  OBVIOUS
<1>2. timing \in Timing
  BY <1>1 DEF Timing
<1>3. FramesTyped
  <2>1. depth \in [Kinds -> Int] /\ stack \in Seq(Frame)
    OBVIOUS
  <2> QED
    BY <1>2, <2>1 DEF FramesTyped
<1>4. TimeConserved
  BY DEF TimeConserved, OwnCounted, Classes
<1>5. StagedFits /\ PendingFirst
  BY DEF StagedFits, PendingFirst
<1>6. DepthCounted /\ Past /\ WatermarkHonest /\ ReadsOwnTime
  BY DEF DepthCounted, Past, WatermarkHonest, TimingDepth, Kinds, ReadsOwnTime
<1> QED
  BY <1>3, <1>4, <1>5, <1>6 DEF FramesInv

\* An entry consumes what waits, or latches the gap, and opens one frame.
LEMMA FramesEnterKeeps == ASSUME FramesInv, NEW kind \in Kinds, Enter(kind) PROVE FramesInv'
<1>1. PICK work \in 0..1, reading \in Clocks :
        /\ now' = now + work /\ stack' = Append(stack, Pushed(kind, work))
        /\ depth' = IF Full THEN depth ELSE [depth EXCEPT ![kind] = @ + 1]
        /\ timing' = IF Full \/ reading = "early" THEN Fail(timing)
                     ELSE Read(reading, ConsumeRuntimeDuration(timing))
        /\ revoked' = (revoked \/ timing'.gap \/ depth'[kind] # 1) /\ spent' = spent
  BY DEF Enter
<1>2. /\ timing \in Timing /\ Ready(timing) /\ OwnCounted = TotalTicks(timing)
      /\ \A i \in 1..Len(stack) : stack[i] \in Frame /\ stack[i].start \in Nat
  BY Measured
<1>3. /\ timing' \in Timing /\ TotalTicks(timing') = TotalTicks(timing) /\ MarkOf(timing')
      /\ ~timing'.gap => ~timing.gap /\ ~Full /\ timing'.pending = <<>>
  <2>1. CASE Full \/ reading = "early"
    BY <1>1, <1>2, <2>1, FailKeeps DEF MarkOf
  <2>2. CASE ~Full /\ reading # "early"
    <3> DEFINE t == ConsumeRuntimeDuration(timing)
    <3>1. timing' = t \/ timing' = Fail(t)
      BY <1>1, <2>2 DEF Read
    <3>2. /\ t \in Timing /\ TotalTicks(t) = TotalTicks(timing) /\ MarkOf(t)
          /\ timing.gap => t = timing
          /\ ~timing.gap => t.pending = <<>>
      <4> HIDE DEF t
      <4>1. t = ConsumeRuntimeDuration(timing)
        BY DEF t
      <4> QED
        BY <4>1, <1>2, ConsumeKeeps DEF MarkOf
    <3> HIDE DEF t
    <3>3. CASE timing' = t
      BY <2>2, <3>2, <3>3
    <3>4. CASE timing' = Fail(t)
      BY <2>2, <3>2, <3>4, FailKeeps DEF MarkOf
    <3> QED
      BY <3>1, <3>3, <3>4
  <2> QED
    BY <2>1, <2>2
<1>4. /\ now \in Nat /\ now' \in Nat /\ now <= now' /\ stack \in Seq(Frame) /\ depth \in [Kinds -> Int]
      /\ spent \in Nat /\ revoked \in BOOLEAN
  BY <1>1 DEF FramesInv, FramesTyped
<1>5. /\ Pushed(kind, work) \in Frame /\ Pushed(kind, work).start = now
      /\ Pushed(kind, work).nativeStart = now + work /\ Pushed(kind, work).own = work
  BY <1>4 DEF Pushed, Frame, Full, TopLevel
<1>6. /\ stack' \in Seq(Frame) /\ Len(stack') = Len(stack) + 1
      /\ \A i \in 1..Len(stack) : stack'[i] = stack[i]
      /\ stack'[Len(stack')] = Pushed(kind, work)
  BY <1>1, <1>4, <1>5
<1>7. FramesTyped'
  <2>1. depth' \in [Kinds -> Int]
    BY <1>1, <1>4
  <2>2. revoked' \in BOOLEAN
    BY <1>1, <1>4
  <2> QED
    BY <1>1, <1>3, <1>4, <1>6, <2>1, <2>2 DEF FramesTyped
<1>8. TimeConserved'
  <2>1. OwnCounted' = TotalTicks(timing')
    BY DEF OwnCounted, TotalTicks
  <2> QED
    BY <1>1, <1>2, <1>3, <2>1 DEF FramesInv, TimeConserved
<1>9. StagedFits' /\ PendingFirst'
  BY <1>3 DEF StagedFits, PendingFirst
<1>10. DepthCounted'
  <2> SUFFICES ASSUME ~timing'.gap
               PROVE  /\ TimingDepth' = Len(stack')
                      /\ \A i \in 1..Len(stack') : stack'[i].depthOwned /\ (stack'[i].topLevel => i = 1)
    BY DEF DepthCounted
  <2>1. /\ ~Full /\ TimingDepth = Len(stack)
        /\ \A i \in 1..Len(stack) : stack[i].depthOwned /\ (stack[i].topLevel => i = 1)
    BY <1>3 DEF FramesInv, DepthCounted
  <2>2. TimingDepth' = TimingDepth + 1
    BY <1>1, <1>4, <2>1 DEF TimingDepth, Kinds
  <2>3. Pushed(kind, work).depthOwned /\ (Pushed(kind, work).topLevel => Len(stack) = 0)
    BY <2>1 DEF Pushed, TopLevel
  <2> QED
    BY <1>4, <1>6, <2>1, <2>2, <2>3
<1>11. timing'.watermark <= now /\ \A i \in 1..Len(stack) : stack[i].start >= timing'.watermark
  BY <1>3, MarkLow
<1>12. timing'.watermark \in Nat
  BY <1>3 DEF Timing
<1>13. Past' /\ WatermarkHonest'
  <2>1. \A i \in 1..Len(stack) : stack[i].start <= now
    BY DEF FramesInv, Past
  <2>2. \A i \in 1..Len(stack') : i \in 1..Len(stack) \/ i = Len(stack')
    BY <1>4, <1>6
  <2>3. ASSUME NEW i \in 1..Len(stack')
        PROVE  stack'[i].start <= now' /\ stack'[i].start >= timing'.watermark
    <3>1. CASE i \in 1..Len(stack)
      BY <1>2, <1>4, <1>6, <1>11, <2>1, <3>1
    <3>2. CASE i = Len(stack')
      BY <1>4, <1>5, <1>6, <1>11, <1>12, <3>2
    <3> QED
      BY <2>2, <3>1, <3>2
  <2> QED
    BY <1>4, <1>11, <1>12, <2>3 DEF Past, WatermarkHonest
<1>14. ReadsOwnTime'
  <2>1. \A i \in 1..Len(stack) : stack[i].nativeStart = stack[i].start + stack[i].own
    BY DEF FramesInv, ReadsOwnTime
  <2>2. \A i \in 1..Len(stack') : i \in 1..Len(stack) \/ i = Len(stack')
    BY <1>4, <1>6
  <2> QED
    BY <1>5, <1>6, <2>1, <2>2 DEF ReadsOwnTime
<1> QED
  BY <1>7, <1>8, <1>9, <1>10, <1>13, <1>14 DEF FramesInv

\* Closing the innermost frame leaves the others as they are.
LEMMA AllButInnermost ==
  \A s \in Seq(Frame) : Len(s) > 0 =>
    /\ SubSeq(s, 1, Len(s) - 1) \in Seq(Frame) /\ Len(SubSeq(s, 1, Len(s) - 1)) = Len(s) - 1
    /\ \A i \in 1..Len(s) - 1 : SubSeq(s, 1, Len(s) - 1)[i] = s[i]
<1> SUFFICES ASSUME NEW s \in Seq(Frame), Len(s) > 0
             PROVE  /\ SubSeq(s, 1, Len(s) - 1) \in Seq(Frame)
                    /\ Len(SubSeq(s, 1, Len(s) - 1)) = Len(s) - 1
                    /\ \A i \in 1..Len(s) - 1 : SubSeq(s, 1, Len(s) - 1)[i] = s[i]
  OBVIOUS
<1> DEFINE n == Len(s) - 1
           r == SubSeq(s, 1, n)
<1>1. n \in Nat /\ \A i \in 1..n : s[i] \in Frame
  OBVIOUS
<1>2. r \in Seq(Frame) /\ Len(r) = (IF 1 <= n THEN n - 1 + 1 ELSE 0) /\ \A i \in 1..n - 1 + 1 : r[i] = s[1 + i - 1]
  <2> HIDE DEF n
  <2> QED
    BY <1>1, SubSeqProperties
<1>3. n - 1 + 1 = n /\ \A i \in 1..n : 1 + i - 1 = i
  BY <1>1
<1>4. Len(r) = n
  <2> HIDE DEF n, r
  <2> QED
    BY <1>1, <1>2, <1>3
<1>5. \A i \in 1..n : r[i] = s[i]
  <2> HIDE DEF n, r
  <2> QED
    BY <1>1, <1>2, <1>3
<1> QED
  BY <1>2, <1>4, <1>5

\* A leaving frame stages its own time, or latches the gap, and is closed.
LEMMA LeaveKeeps == ASSUME FramesInv, Leave PROVE FramesInv'
<1> DEFINE f == stack[Len(stack)]
           Left(end, nativeEnd) == (end - f.start) - (nativeEnd - f.nativeStart)
<1>1. PICK native \in 0..1, work \in 0..1, class \in ClassesOf(f.kind), returned \in BOOLEAN, reading \in Clocks :
        LET ticks == Left(now + native + work, now + native)
            interval == [class |-> class, ticks |-> ticks, entry |-> f.start, topLevel |-> f.topLevel]
            published == ConsumeRuntimeDuration(timing) IN
        /\ now' = now + native + work
        /\ stack' = SubSeq(stack, 1, Len(stack) - 1)
        /\ depth' = IF f.depthOwned THEN [depth EXCEPT ![f.kind] = @ - 1] ELSE depth
        /\ timing' = CASE reading = "early" -> Fail(timing)
                       [] reading = "late"  -> Fail(published)
                       [] reading = "none"  -> StageRuntimeDuration(published, interval)
        /\ revoked' = (revoked \/ timing'.gap \/ ~returned)
        /\ spent' = spent + (f.own + work)
  BY DEF Leave, NativeTicks, Innermost
<1> DEFINE ticks == Left(now + native + work, now + native)
           interval == [class |-> class, ticks |-> ticks, entry |-> f.start, topLevel |-> f.topLevel]
           published == ConsumeRuntimeDuration(timing)
<1>2. /\ timing \in Timing /\ Ready(timing) /\ OwnCounted = TotalTicks(timing)
      /\ \A i \in 1..Len(stack) : stack[i] \in Frame /\ stack[i].start \in Nat
  BY Measured
<1>3. /\ stack \in Seq(Frame) /\ Len(stack) \in Nat \ {0} /\ now \in Nat /\ spent \in Nat
      /\ depth \in [Kinds -> Int] /\ revoked \in BOOLEAN
  <2>1. stack \in Seq(Frame) /\ stack # <<>>
    BY DEF FramesInv, FramesTyped, Leave
  <2> QED
    BY <2>1 DEF FramesInv, FramesTyped
<1>4. /\ f \in Frame /\ f.start \in Nat /\ f.own \in Nat /\ f.kind \in Kinds
      /\ f.nativeStart = f.start + f.own
  BY <1>2, <1>3 DEF Frame, FramesInv, ReadsOwnTime
<1>5. /\ stack' \in Seq(Frame) /\ Len(stack') = Len(stack) - 1
      /\ \A i \in 1..Len(stack') : i \in 1..Len(stack) /\ stack'[i] = stack[i]
  <2>1. stack' = SubSeq(stack, 1, Len(stack) - 1)
    BY <1>1
  <2>2. /\ stack' \in Seq(Frame) /\ Len(stack') = Len(stack) - 1
        /\ \A i \in 1..Len(stack) - 1 : stack'[i] = stack[i]
    BY <1>3, <2>1, AllButInnermost
  <2> QED
    BY <1>3, <2>2
<1>6. now' \in Nat /\ now <= now'
  BY <1>1, <1>3
<1>7. interval \in Interval /\ interval.ticks = f.own + work /\ f.own + work \in Nat
  <2>1. class \in Classes /\ f.topLevel \in BOOLEAN /\ f.own + work \in Nat
    BY <1>4 DEF Classes, ClassesOf, Frame
  <2>2. ticks = f.own + work
    <3> HIDE DEF f
    <3> QED
      BY <1>3, <1>4
  <2> HIDE DEF ticks
  <2> QED
    BY <1>4, <2>1, <2>2 DEF Interval
<1>8. /\ published \in Timing /\ TotalTicks(published) = TotalTicks(timing) /\ MarkOf(published)
      /\ timing.gap => published.gap
      /\ ~timing.gap => published.pending = <<>>
  <2> HIDE DEF published
  <2>1. published = ConsumeRuntimeDuration(timing)
    BY DEF published
  <2> QED
    BY <2>1, <1>2, ConsumeKeeps DEF MarkOf
<1>9. TotalTicks(timing) \in Nat
  BY <1>2, TotalIsNat
<1>10. /\ timing' \in Timing /\ MarkOf(timing') /\ Ready(timing')
       /\ TotalTicks(timing') <= TotalTicks(timing) + (f.own + work)
       /\ ~timing'.gap => /\ ~timing.gap /\ timing'.pending = <<interval>>
                          /\ TotalTicks(timing') = TotalTicks(timing) + (f.own + work)
  <2>1. CASE timing' = Fail(timing)
    BY <1>2, <1>7, <1>9, <2>1, FailKeeps DEF MarkOf, Ready
  <2>2. CASE timing' = Fail(published)
    <3> HIDE DEF published, interval
    <3> QED
      BY <1>7, <1>8, <1>9, <2>2, FailKeeps DEF MarkOf, Ready
  <2>3. CASE timing' = StageRuntimeDuration(published, interval)
    <3>1. ~published.gap => ~timing.gap
      BY <1>8
    <3>2. ~published.gap => published.pending = <<>>
      BY <1>8, <3>1
    <3> HIDE DEF published, interval
    <3>3. /\ timing' \in Timing /\ timing'.watermark = published.watermark /\ Ready(timing')
          /\ published.gap => timing'.gap
          /\ TotalTicks(timing') <= TotalTicks(published) + interval.ticks
          /\ ~timing'.gap => TotalTicks(timing') = TotalTicks(published) + interval.ticks
                             /\ timing'.pending = <<interval>>
      BY <1>7, <1>8, <2>3, <3>2, StageKeeps
    <3> QED
      BY <1>7, <1>8, <3>1, <3>3 DEF MarkOf
  <2>4. timing' = Fail(timing) \/ timing' = Fail(published) \/ timing' = StageRuntimeDuration(published, interval)
    BY <1>1 DEF Clocks
  <2> QED
    BY <2>1, <2>2, <2>3, <2>4
<1>11. timing'.watermark <= now /\ \A i \in 1..Len(stack) : stack[i].start >= timing'.watermark
  BY <1>10, MarkLow
<1>12. FramesTyped'
  <2>1. depth' \in [Kinds -> Int] /\ revoked' \in BOOLEAN /\ spent' \in Nat
    <3>1. depth' = IF f.depthOwned THEN [depth EXCEPT ![f.kind] = @ - 1] ELSE depth
      BY <1>1
    <3>2. revoked' = (revoked \/ timing'.gap \/ ~returned) /\ spent' = spent + (f.own + work)
      BY <1>1
    <3> HIDE DEF f, interval, published
    <3>3. depth' \in [Kinds -> Int]
      BY <1>3, <1>4, <3>1
    <3>4. revoked' \in BOOLEAN
      BY <3>2
    <3> QED
      BY <1>3, <1>7, <3>2, <3>3, <3>4
  <2> QED
    BY <1>5, <1>6, <1>10, <2>1 DEF FramesTyped
<1>13. TimeConserved'
  <2>1. OwnCounted' = TotalTicks(timing')
    BY DEF OwnCounted, TotalTicks
  <2>2. TotalTicks(timing') \in Nat
    BY <1>10, TotalIsNat
  <2>3. spent' = spent + (f.own + work)
    BY <1>1
  <2> HIDE DEF f, interval
  <2> QED
    BY <1>2, <1>3, <1>7, <1>9, <1>10, <2>1, <2>2, <2>3 DEF FramesInv, TimeConserved
<1>14. StagedFits'
  BY <1>10 DEF StagedFits, Ready
<1>15. DepthCounted'
  <2> SUFFICES ASSUME ~timing'.gap
               PROVE  /\ TimingDepth' = Len(stack')
                      /\ \A i \in 1..Len(stack') : stack'[i].depthOwned /\ (stack'[i].topLevel => i = 1)
    BY DEF DepthCounted
  <2>1. /\ TimingDepth = Len(stack)
        /\ \A i \in 1..Len(stack) : stack[i].depthOwned /\ (stack[i].topLevel => i = 1)
    BY <1>10 DEF FramesInv, DepthCounted
  <2>2. TimingDepth' = TimingDepth - 1
    <3>1. depth' = IF f.depthOwned THEN [depth EXCEPT ![f.kind] = @ - 1] ELSE depth
      BY <1>1
    <3>2. Len(stack) \in 1..Len(stack)
      BY <1>3
    <3>3. f.depthOwned
      BY <2>1, <3>2
    <3> HIDE DEF f, interval, published
    <3> QED
      BY <1>3, <1>4, <3>1, <3>3 DEF TimingDepth, Kinds
  <2> QED
    BY <1>5, <2>1, <2>2
<1>16. PendingFirst'
  <2> SUFFICES ASSUME ~timing'.gap, timing'.pending[1].topLevel
               PROVE  timing'.pending[1].entry <= now' /\ Len(stack') = 0
    BY DEF PendingFirst
  <2>1. timing'.pending[1] = interval
    BY <1>10
  <2>2. f.topLevel /\ timing'.pending[1].entry = f.start
    BY <2>1
  <2>3. Len(stack) = 1
    <3>1. \A i \in 1..Len(stack) : stack[i].topLevel => i = 1
      BY <1>10 DEF FramesInv, DepthCounted
    <3>2. Len(stack) \in 1..Len(stack)
      BY <1>3
    <3>3. stack[Len(stack)].topLevel
      BY <2>2
    <3> HIDE DEF f
    <3> QED
      BY <3>1, <3>2, <3>3
  <2>4. f.start <= now
    BY <1>3 DEF FramesInv, Past
  <2> QED
    BY <1>3, <1>4, <1>5, <1>6, <2>2, <2>3, <2>4
<1>17. Past' /\ WatermarkHonest'
  <2>1. \A i \in 1..Len(stack) : stack[i].start <= now
    BY DEF FramesInv, Past
  <2>2. timing'.watermark \in Nat
    BY <1>10 DEF Timing
  <2> HIDE DEF f, ticks, interval, published
  <2>3. ASSUME NEW i \in 1..Len(stack')
        PROVE  stack'[i].start <= now' /\ stack'[i].start >= timing'.watermark
    <3>1. i \in 1..Len(stack) /\ stack'[i] = stack[i]
      BY <1>5
    <3>2. stack[i].start <= now /\ stack[i].start >= timing'.watermark /\ stack[i].start \in Nat
      BY <1>2, <1>11, <2>1, <3>1
    <3> QED
      BY <1>3, <1>6, <3>1, <3>2
  <2>4. timing'.watermark <= now'
    BY <1>3, <1>6, <1>11, <2>2
  <2> QED
    BY <2>3, <2>4 DEF Past, WatermarkHonest
<1>18. ReadsOwnTime'
  BY <1>5 DEF FramesInv, ReadsOwnTime
<1> QED
  BY <1>12, <1>13, <1>14, <1>15, <1>16, <1>17, <1>18 DEF FramesInv

\* A shutdown publishes: what waits is consumed.
LEMMA ShutdownKeeps == ASSUME FramesInv, Shutdown PROVE FramesInv'
<1>1. timing' = ConsumeRuntimeDuration(timing) /\ UNCHANGED <<stack, now, depth, spent>>
  BY DEF Shutdown, Measures
<1>2. /\ timing \in Timing /\ Ready(timing) /\ OwnCounted = TotalTicks(timing)
      /\ \A i \in 1..Len(stack) : stack[i] \in Frame /\ stack[i].start \in Nat
  BY Measured
<1>3. /\ timing' \in Timing /\ TotalTicks(timing') = TotalTicks(timing) /\ MarkOf(timing')
      /\ timing.gap => timing' = timing
      /\ ~timing.gap => ~timing'.gap /\ timing'.pending = <<>>
  BY <1>1, <1>2, ConsumeKeeps DEF MarkOf
<1>4. timing'.watermark <= now /\ \A i \in 1..Len(stack) : stack[i].start >= timing'.watermark
  BY <1>3, MarkLow
<1>5. FramesTyped'
  <2>1. revoked' \in BOOLEAN
    BY DEF FramesInv, FramesTyped, Shutdown, Measures
  <2> QED
    BY <1>1, <1>3, <2>1 DEF FramesInv, FramesTyped
<1>6. TimeConserved'
  <2>1. OwnCounted' = TotalTicks(timing')
    BY DEF OwnCounted, TotalTicks
  <2> QED
    BY <1>1, <1>2, <1>3, <2>1 DEF FramesInv, TimeConserved
<1>7. StagedFits' /\ PendingFirst'
  BY <1>3 DEF StagedFits, PendingFirst
<1>8. DepthCounted'
  BY <1>1, <1>3 DEF FramesInv, DepthCounted, TimingDepth
<1>9. Past' /\ WatermarkHonest' /\ ReadsOwnTime'
  BY <1>1, <1>4 DEF FramesInv, Past, WatermarkHonest, ReadsOwnTime
<1> QED
  BY <1>5, <1>6, <1>7, <1>8, <1>9 DEF FramesInv

\* What does not touch the measurement keeps all of it.
LEMMA RestKeeps ==
  ASSUME FramesInv, UNCHANGED <<stack, now, depth, timing, spent>>, revoked' \in BOOLEAN
  PROVE  FramesInv'
  BY DEF FramesInv, FramesTyped, TimeConserved, OwnCounted, StagedFits, Room, InOrder, DepthCounted, TimingDepth,
         Past, PendingFirst, WatermarkHonest, ReadsOwnTime

\* Every step keeps the invariant.
LEMMA StepHolds == FramesInv /\ [FramesNext]_frameVars => FramesInv'
<1> SUFFICES ASSUME FramesInv, [FramesNext]_frameVars PROVE FramesInv'
  OBVIOUS
<1>1. CASE \E kind \in Kinds : Enter(kind)
  BY <1>1, FramesEnterKeeps
<1>2. CASE Leave
  BY <1>2, LeaveKeeps
<1>3. CASE Shutdown
  BY <1>3, ShutdownKeeps
<1>4. CASE Foreign
  BY <1>4, RestKeeps DEF Foreign
<1>5. CASE UNCHANGED frameVars
  BY <1>5, RestKeeps DEF frameVars, FramesInv, FramesTyped
<1> QED
  BY <1>1, <1>2, <1>3, <1>4, <1>5 DEF FramesNext

\* The invariant holds in every state.
THEOREM FramesSound == FramesSpec => []FramesInv
  BY InitHolds, StepHolds, PTL DEF FramesSpec

\* Own time is counted once, however frames nest or unwind: between
\* StageRuntimeDuration and ConsumeRuntimeDuration none is counted twice, and
\* none is lost unless the gap is latched.
THEOREM TimeIsConserved == FramesSpec => []TimeConserved
<1>1. FramesInv => TimeConserved
  BY DEF FramesInv
<1> QED
  BY <1>1, FramesSound, PTL

\* timingAccountedThroughQpc never passes a call that is still running, and the
\* checks made while an interval is staged suffice for accounting it.
THEOREM WatermarkIsHonest == FramesSpec => [](WatermarkHonest /\ StagedFits)
<1>1. FramesInv => WatermarkHonest /\ StagedFits
  BY DEF FramesInv
<1> QED
  BY <1>1, FramesSound, PTL
-----------------------------------------------------------------------------
(* The proxies' calls (ProxyCalls)                                         *)
(***************************************************************************)
(* ChangesAreTold for any finite set of threads, any buckets and any width *)
(* of the counters.  A compare-and-swap that succeeds found the word it    *)
(* read, so the word was below its last value: that a count is exact while *)
(* no counter overflowed follows from what each call under way has read.   *)
(* The told answers and those exchanged but not told yet are, together,    *)
(* the changes of the last answer.                                         *)
(***************************************************************************)
CallPlaces == Counting \cup {"native", "exchange", "tell"}
CallShape  == [at : CallPlaces, method : Methods, bucket : Buckets, answer : BOOLEAN,
               old : 0..(FullCount + 1), changed : BOOLEAN]
CallTyped ==
    /\ words \in [Words -> 0..FullCount] /\ overflow \in BOOLEAN
    /\ seen \in [Buckets -> {{}, {TRUE}, {FALSE}}]
    /\ calls \in [GameThreads -> {Free} \cup CallShape]
    /\ told \in [Buckets -> [BOOLEAN -> Nat]]
    /\ ids \in Seq(Nat) /\ entries \in [Words -> Nat]

\* A call is where its method goes, and what it read is no more than the word
\* is now (Increment reads first and swaps later).
SoundCall(c, w) == c # Free =>
    /\ c.at \in {"answer", "exchange"} => c.method = "BLoggedOn"
    /\ c.at \notin Counting => c.old = FullCount + 1
    /\ c.at \in Counting /\ c.old # FullCount + 1 => c.old <= w[Word(c)]
    /\ c.changed => c.at \in {"complete", "tell"}
CallSound == \A t \in GameThreads : SoundCall(calls[t], words)

\* The numbers given are those up to the counter.
Numbered ==
    /\ Len(ids) = words[<<"id">>]
    /\ \A i \in 1..Len(ids) : ids[i] = i

CallsInv == CallTyped /\ CallSound /\ Numbered /\ CountsAreExact /\ AnswersAlternate

\* A call whose change of the answer a in bucket b is not told yet.
Pending(c, b, a) == c.at \in {"complete", "tell"} /\ c.changed /\ c.bucket = b /\ c.answer = a
-----------------------------------------------------------------------------
\* A call under way has every field of one.
LEMMA Shaped ==
    ASSUME CallTyped, NEW t \in GameThreads, calls[t].at # "free"
    PROVE  calls[t] \in CallShape /\ calls[t] # Free
  <1>1. calls[t] \in {Free} \cup CallShape
    BY DEF CallTyped
  <1>2. Free.at = "free"
    BY DEF Free
  <1> QED
    BY <1>1, <1>2, Zenon

\* A counting call increments one of the counters.
LEMMA WordIsOne ==
    ASSUME NEW c \in CallShape, c.at \in Counting
    PROVE  Word(c) \in Words
  <1>1. c.method \in Methods /\ c.bucket \in Buckets /\ c.answer \in BOOLEAN
    BY Zenon DEF CallShape
  <1>2. CASE c.at = "number"
    BY <1>2 DEF Word, Words
  <1>3. CASE c.at = "enter"
    BY <1>1, <1>3 DEF Word, Words
  <1>4. CASE c.at = "answer"
    <2>1. Word(c) = <<"answer", c.bucket, c.answer>>
      BY <1>4 DEF Word
    <2>2. <<"answer", c.bucket, c.answer>> \in {"answer"} \X Buckets \X BOOLEAN
      BY <1>1, Zenon
    <2> QED
      BY <2>1, <2>2, Zenon DEF Words
  <1>5. CASE c.at = "complete"
    BY <1>1, <1>5 DEF Word, Words
  <1> QED
    BY <1>2, <1>3, <1>4, <1>5 DEF Counting

\* One thread's call moves: the other calls do not.
LEMMA OneCallMoves ==
    ASSUME CallTyped, NEW t \in GameThreads, NEW c \in {Free} \cup CallShape,
           calls' = [calls EXCEPT ![t] = c]
    PROVE  /\ calls' \in [GameThreads -> {Free} \cup CallShape]
           /\ calls'[t] = c
           /\ \A s \in GameThreads : s # t => calls'[s] = calls[s]
  BY Zenon DEF CallTyped

\* What a moving call must respect for the calls to stay sound.
LEMMA StaysSound ==
    ASSUME CallTyped, CallSound, NEW t \in GameThreads, NEW c \in {Free} \cup CallShape,
           calls' = [calls EXCEPT ![t] = c], SoundCall(c, words'),
           words' \in [Words -> 0..FullCount], \A w \in Words : words[w] <= words'[w]
    PROVE  CallSound'
  <1> SUFFICES ASSUME NEW s \in GameThreads PROVE SoundCall(calls'[s], words')
    BY Zenon DEF CallSound
  <1>1. CASE s = t
    BY <1>1, OneCallMoves, Zenon
  <1>2. CASE s # t
    <2>1. calls'[s] = calls[s] /\ SoundCall(calls[s], words)
      BY <1>2, OneCallMoves, Zenon DEF CallSound
    <2> SUFFICES ASSUME calls[s] # Free, calls[s].at \in Counting, calls[s].old # FullCount + 1
                 PROVE  calls[s].old <= words'[Word(calls[s])]
      BY <2>1, Zenon DEF SoundCall
    <2>2. calls[s] \in CallShape
      BY Zenon DEF CallTyped
    <2>3. Word(calls[s]) \in Words
      BY <2>2, WordIsOne, Zenon
    <2>4. calls[s].old <= words[Word(calls[s])] /\ words[Word(calls[s])] <= words'[Word(calls[s])]
      BY <2>1, <2>3, Zenon DEF SoundCall
    <2>5. calls[s].old \in Int
      <3>1. calls[s].old \in 0..(FullCount + 1)
        BY <2>2, Zenon DEF CallShape
      <3> QED
        BY <3>1, CallsAssumption
    <2>6. words[Word(calls[s])] \in Int /\ words'[Word(calls[s])] \in Int
      <3>1. words[Word(calls[s])] \in 0..FullCount /\ words'[Word(calls[s])] \in 0..FullCount
        BY <2>3, Zenon DEF CallTyped
      <3> QED
        BY <3>1, CallsAssumption
    <2> QED
      BY <2>4, <2>5, <2>6
  <1> QED
    BY <1>1, <1>2, Zenon

\* Who has something to tell is a matter of the moving call alone.
LEMMA UntoldStays ==
    ASSUME CallTyped, NEW t \in GameThreads, NEW c \in {Free} \cup CallShape,
           calls' = [calls EXCEPT ![t] = c]
    PROVE  \A b, a : (Pending(c, b, a) <=> Pending(calls[t], b, a)) => Untold(b, a)' = Untold(b, a)
  <1> TAKE b, a
  <1> HAVE Pending(c, b, a) <=> Pending(calls[t], b, a)
  <1>1. Untold(b, a) = {s \in GameThreads : Pending(calls[s], b, a)}
    BY Zenon DEF Untold, Pending
  <1>2. Untold(b, a)' = {s \in GameThreads : Pending(calls'[s], b, a)}
    BY Zenon DEF Untold, Pending
  <1>3. \A s \in GameThreads : Pending(calls'[s], b, a) <=> Pending(calls[s], b, a)
    <2> TAKE s \in GameThreads
    <2> QED
      BY OneCallMoves, Zenon
  <1> QED
    BY <1>1, <1>2, <1>3, Zenon

\* The changes of the buckets alternate as long as neither they nor the last
\* answers move.
LEMMA AlternateStays ==
    ASSUME CallTyped, AnswersAlternate, seen' = seen,
           \A b \in Buckets, a \in BOOLEAN : Changes(b, a)' = Changes(b, a)
    PROVE  AnswersAlternate'
  <1>1. \A b \in Buckets : \A a \in seen[b] : a \in BOOLEAN
    <2> TAKE b \in Buckets
    <2> TAKE a \in seen[b]
    <2>1. seen[b] \in {{}, {TRUE}, {FALSE}}
      BY Zenon DEF CallTyped
    <2>2. CASE a = TRUE
      BY <2>2, Zenon
    <2>3. CASE a = FALSE
      BY <2>3, Zenon
    <2> QED
      BY <2>1, <2>2, <2>3, Zenon
  <1>2. AnswersAlternate /\ seen' = seen
    BY Zenon
  <1> SUFFICES ASSUME NEW b \in Buckets
               PROVE  /\ seen[b] = {} => Changes(b, TRUE)' + Changes(b, FALSE)' = 0
                      /\ \A new \in seen[b], old \in BOOLEAN \ seen[b] : Changes(b, new)' > 0
                            /\ Changes(b, new)' \in {Changes(b, old)', Changes(b, old)' + 1}
    BY <1>2, Zenon DEF AnswersAlternate
  <1>3. Changes(b, TRUE)' = Changes(b, TRUE) /\ Changes(b, FALSE)' = Changes(b, FALSE)
    BY Zenon
  <1>4. seen[b] = {} => Changes(b, TRUE)' + Changes(b, FALSE)' = 0
    BY <1>2, <1>3, Zenon DEF AnswersAlternate
  <1>5. ASSUME NEW new \in seen[b], NEW old \in BOOLEAN \ seen[b]
        PROVE  Changes(b, new)' > 0 /\ Changes(b, new)' \in {Changes(b, old)', Changes(b, old)' + 1}
    <2>1. Changes(b, new)' = Changes(b, new) /\ Changes(b, old)' = Changes(b, old)
      BY <1>1, Zenon
    <2>2. Changes(b, new) > 0 /\ Changes(b, new) \in {Changes(b, old), Changes(b, old) + 1}
      BY <1>2, Zenon DEF AnswersAlternate
    <2> QED
      BY <2>1, <2>2, Zenon
  <1> QED
    BY <1>4, <1>5, Zenon

\* A step of a thread that neither exchanges nor tells.
LEMMA PlainStep ==
    ASSUME CallsInv, NEW t \in GameThreads, NEW c \in {Free} \cup CallShape,
           calls' = [calls EXCEPT ![t] = c], SoundCall(c, words'),
           words' \in [Words -> 0..FullCount], \A w \in Words : words[w] <= words'[w],
           \A b \in Buckets, a \in BOOLEAN : Pending(c, b, a) <=> Pending(calls[t], b, a),
           seen' = seen, told' = told
    PROVE  /\ calls' \in [GameThreads -> {Free} \cup CallShape]
           /\ CallSound' /\ AnswersAlternate'
  <1>1. calls' \in [GameThreads -> {Free} \cup CallShape]
    BY OneCallMoves, Zenon DEF CallsInv
  <1>2. CallSound'
    BY StaysSound, Zenon DEF CallsInv
  <1>3. \A b \in Buckets, a \in BOOLEAN : Untold(b, a)' = Untold(b, a)
    <2> TAKE b \in Buckets, a \in BOOLEAN
    <2>1. CallTyped
      BY Zenon DEF CallsInv
    <2>2. \A y, x : (Pending(c, y, x) <=> Pending(calls[t], y, x)) => Untold(y, x)' = Untold(y, x)
      BY <2>1, UntoldStays, Zenon
    <2>3. Pending(c, b, a) <=> Pending(calls[t], b, a)
      BY Zenon
    <2> QED
      BY <2>2, <2>3, Zenon
  <1>4. AnswersAlternate'
    <2>1. \A b \in Buckets, a \in BOOLEAN : Changes(b, a)' = Changes(b, a)
      BY <1>3, Zenon DEF Changes
    <2> QED
      BY <2>1, AlternateStays, Zenon DEF CallsInv
  <1> QED
    BY <1>1, <1>2, <1>4
-----------------------------------------------------------------------------
\* The counters count: what follows from a step that leaves them alone.
LEMMA CountersStay ==
    ASSUME CallsInv, UNCHANGED <<words, overflow, ids, entries>>
    PROVE  /\ Numbered' /\ CountsAreExact'
           /\ words' \in [Words -> 0..FullCount] /\ overflow' \in BOOLEAN
           /\ ids' \in Seq(Nat) /\ entries' \in [Words -> Nat]
           /\ \A w \in Words : words[w] <= words'[w]
  <1>1. words' = words /\ overflow' = overflow /\ ids' = ids /\ entries' = entries
    BY Zenon
  <1>2. Numbered'
    BY <1>1, Zenon DEF CallsInv, Numbered
  <1>3. CountsAreExact'
    <2> SUFFICES ASSUME NEW w \in Words
                 PROVE  words'[w] = entries'[w] \/ (overflow' /\ words'[w] = FullCount)
      BY Zenon DEF CountsAreExact
    <2>1. words[w] = entries[w] \/ (overflow /\ words[w] = FullCount)
      BY Zenon DEF CallsInv, CountsAreExact
    <2>2. words'[w] = words[w] /\ entries'[w] = entries[w]
      BY <1>1, Zenon
    <2>3. overflow => overflow'
      BY Zenon
    <2> QED
      BY <2>1, <2>2, <2>3, Zenon
  <1>4. words \in [Words -> 0..FullCount]
    BY Zenon DEF CallsInv, CallTyped
  <1>5. \A w \in Words : words[w] <= words[w]
    <2> TAKE w \in Words
    <2>1. words[w] \in 0..FullCount
      BY <1>4, Zenon
    <2> QED
      BY <2>1, CallsAssumption
  <1> QED
    BY <1>1, <1>2, <1>3, <1>5, Zenon DEF CallsInv, CallTyped

\* A step of a thread that leaves the counters, the answers and the log alone.
LEMMA QuietStep ==
    ASSUME CallsInv, NEW t \in GameThreads, NEW c \in {Free} \cup CallShape,
           calls' = [calls EXCEPT ![t] = c], SoundCall(c, words),
           \A b \in Buckets, a \in BOOLEAN : Pending(c, b, a) <=> Pending(calls[t], b, a),
           UNCHANGED <<words, overflow, seen, told, ids, entries>>
    PROVE  CallsInv'
  <1>1. UNCHANGED <<words, overflow, ids, entries>> /\ words' = words /\ seen' = seen /\ told' = told
    BY Zenon
  <1>2. SoundCall(c, words')
    BY <1>1, Zenon
  <1>3. /\ Numbered' /\ CountsAreExact'
        /\ words' \in [Words -> 0..FullCount] /\ overflow' \in BOOLEAN
        /\ ids' \in Seq(Nat) /\ entries' \in [Words -> Nat]
        /\ \A w \in Words : words[w] <= words'[w]
    BY <1>1, CountersStay, Zenon
  <1>4. /\ calls' \in [GameThreads -> {Free} \cup CallShape]
        /\ CallSound' /\ AnswersAlternate'
    BY <1>1, <1>2, <1>3, PlainStep, Zenon
  <1>5. seen' \in [Buckets -> {{}, {TRUE}, {FALSE}}] /\ told' \in [Buckets -> [BOOLEAN -> Nat]]
    BY <1>1, Zenon DEF CallsInv, CallTyped
  <1> QED
    BY <1>3, <1>4, <1>5, Zenon DEF CallsInv, CallTyped

\* The calls of the game start with none.
LEMMA CallsStart == CallsInit => CallsInv
  <1> SUFFICES ASSUME CallsInit PROVE CallsInv
    OBVIOUS
  <1>1. CallTyped
    <2>1. words \in [Words -> 0..FullCount] /\ entries \in [Words -> Nat]
      BY CallsAssumption DEF CallsInit
    <2>2. seen \in [Buckets -> {{}, {TRUE}, {FALSE}}] /\ calls \in [GameThreads -> {Free} \cup CallShape]
      BY Zenon DEF CallsInit
    <2>3. told \in [Buckets -> [BOOLEAN -> Nat]]
      <3>1. [a \in BOOLEAN |-> 0] \in [BOOLEAN -> Nat]
        OBVIOUS
      <3> QED
        BY <3>1, Zenon DEF CallsInit
    <2>4. overflow \in BOOLEAN
      BY Zenon DEF CallsInit
    <2>5. ids \in Seq(Nat)
      BY DEF CallsInit
    <2> QED
      BY <2>1, <2>2, <2>3, <2>4, <2>5, Zenon DEF CallTyped
  <1>2. \A t \in GameThreads : calls[t] = Free
    BY Zenon DEF CallsInit
  <1>3. CallSound
    BY <1>2, Zenon DEF CallSound, SoundCall
  <1>4. Numbered
    <2>1. ids = <<>> /\ words[<<"id">>] = 0
      BY DEF CallsInit, Words
    <2> QED
      BY <2>1 DEF Numbered
  <1>5. CountsAreExact
    BY Zenon DEF CallsInit, CountsAreExact
  <1>6. AnswersAlternate
    <2>1. \A b, a : Untold(b, a) = {}
      BY <1>2 DEF Untold, Free
    <2>2. \A b \in Buckets : Changes(b, TRUE) = 0 /\ Changes(b, FALSE) = 0
      <3> TAKE b \in Buckets
      <3>1. told[b][TRUE] = 0 /\ told[b][FALSE] = 0
        BY Zenon DEF CallsInit
      <3>2. Cardinality(Untold(b, TRUE)) = 0 /\ Cardinality(Untold(b, FALSE)) = 0
        BY <2>1, FS_EmptySet, Zenon
      <3>3. Changes(b, TRUE) = 0 + 0 /\ Changes(b, FALSE) = 0 + 0
        BY <3>1, <3>2, Zenon DEF Changes
      <3>4. 0 + 0 = 0
        OBVIOUS
      <3> QED
        BY <3>3, <3>4, Zenon
    <2>3. \A b \in Buckets : seen[b] = {}
      BY Zenon DEF CallsInit
    <2> QED
      <3> SUFFICES ASSUME NEW b \in Buckets
                   PROVE  /\ seen[b] = {} => Changes(b, TRUE) + Changes(b, FALSE) = 0
                          /\ \A new \in seen[b], old \in BOOLEAN \ seen[b] :
                                Changes(b, new) > 0 /\ Changes(b, new) \in {Changes(b, old), Changes(b, old) + 1}
        BY Zenon DEF AnswersAlternate
      <3>1. Changes(b, TRUE) + Changes(b, FALSE) = 0
        <4>1. Changes(b, TRUE) + Changes(b, FALSE) = 0 + 0
          BY <2>2, Zenon
        <4>2. 0 + 0 = 0
          OBVIOUS
        <4> QED
          BY <4>1, <4>2, Zenon
      <3> QED
        BY <2>3, <3>1, Zenon
  <1> QED
    BY <1>1, <1>3, <1>4, <1>5, <1>6 DEF CallsInv
-----------------------------------------------------------------------------
\* A call that reads its word again is otherwise the same.
LEMMA ReadsAgain ==
    ASSUME NEW c \in CallShape, NEW o \in 0..(FullCount + 1)
    PROVE  LET d == [c EXCEPT !.old = o] IN
           /\ d \in CallShape /\ d.at = c.at /\ d.old = o /\ d.method = c.method
           /\ d.bucket = c.bucket /\ d.answer = c.answer /\ d.changed = c.changed
  BY Zenon DEF CallShape

\* A word fits a reading.
LEMMA Readable ==
    ASSUME CallTyped, NEW w \in Words
    PROVE  /\ words[w] \in 0..FullCount /\ words[w] \in 0..(FullCount + 1) /\ words[w] # FullCount + 1
           /\ words[w] <= words[w]
  <1>1. words[w] \in 0..FullCount
    BY Zenon DEF CallTyped
  <1> QED
    BY <1>1, CallsAssumption

\* The steps that read a word: the first reading, and the one a failed swap brings.
LEMMA ReadingSound ==
    ASSUME CallsInv, NEW t \in GameThreads, calls[t].at \in Counting,
           calls' = [calls EXCEPT ![t].old = words[Word(calls[t])]],
           UNCHANGED <<words, overflow, seen, told, ids, entries>>
    PROVE  CallsInv'
  <1> DEFINE c == calls[t]
  <1>1. c \in CallShape /\ c # Free
    <2>1. CallTyped
      BY Zenon DEF CallsInv
    <2>2. c.at # "free"
      BY DEF Counting
    <2> QED
      BY <2>1, <2>2, Shaped, Zenon
  <1>2. Word(c) \in Words
    BY <1>1, WordIsOne, Zenon
  <1>3. /\ words[Word(c)] \in 0..FullCount /\ words[Word(c)] \in 0..(FullCount + 1)
        /\ words[Word(c)] # FullCount + 1 /\ words[Word(c)] <= words[Word(c)]
    BY <1>2, Readable, Zenon DEF CallsInv
  <1>4. PICK d : d = [c EXCEPT !.old = words[Word(c)]]
    BY Zenon
  <1>5. /\ d \in CallShape /\ d.at = c.at /\ d.old = words[Word(c)] /\ d.method = c.method
        /\ d.bucket = c.bucket /\ d.answer = c.answer /\ d.changed = c.changed
    BY <1>1, <1>3, <1>4, ReadsAgain, Zenon
  <1>6. calls' = [calls EXCEPT ![t] = d]
    BY <1>4, Zenon
  <1>7. Word(d) = Word(c)
    BY <1>5, Zenon DEF Word
  <1>8. SoundCall(d, words)
    <2>1. SoundCall(c, words)
      BY Zenon DEF CallsInv, CallSound
    <2> HIDE DEF c
    <2>2. d.at \in Counting
      BY <1>5, Zenon DEF c
    <2> QED
      BY <1>1, <1>3, <1>5, <1>7, <2>1, <2>2, Zenon DEF SoundCall
  <1>9. \A b \in Buckets, a \in BOOLEAN : Pending(d, b, a) <=> Pending(calls[t], b, a)
    BY <1>5, Zenon DEF Pending
  <1>10. d \in {Free} \cup CallShape
    BY <1>5, Zenon
  <1> HIDE DEF c
  <1> QED
    BY <1>6, <1>8, <1>9, <1>10, QuietStep, Zenon

\* Reads (Increment's first load of the word).
LEMMA ReadWordKeeps ==
    ASSUME CallsInv, NEW t \in GameThreads, ReadWord(t)
    PROVE  CallsInv'
  <1>1. /\ calls[t].at \in Counting
        /\ calls' = [calls EXCEPT ![t].old = words[Word(calls[t])]]
        /\ UNCHANGED <<words, overflow, seen, told, ids, entries>>
    BY Zenon DEF ReadWord
  <1> QED
    BY <1>1, ReadingSound, Zenon

\* A failed swap reads again.
LEMMA SwapFailsKeeps ==
    ASSUME CallsInv, NEW t \in GameThreads, SwapFails(t)
    PROVE  CallsInv'
  <1>1. /\ calls[t].at \in Counting
        /\ calls' = [calls EXCEPT ![t].old = words[Word(calls[t])]]
        /\ UNCHANGED <<words, overflow, seen, told, ids, entries>>
    BY Zenon DEF SwapFails
  <1> QED
    BY <1>1, ReadingSound, Zenon

\* A method is called.
LEMMA CallKeeps ==
    ASSUME CallsInv, NEW t \in GameThreads, Call(t)
    PROVE  CallsInv'
  <1>1. PICK m \in Methods, b \in Buckets :
          /\ calls[t].at = "free"
          /\ calls' = [calls EXCEPT ![t] =
                [at |-> IF m = "SetKeyValue" THEN "enter" ELSE "number",
                 method |-> m, bucket |-> b, answer |-> FALSE, old |-> FullCount + 1, changed |-> FALSE]]
          /\ UNCHANGED <<words, overflow, seen, told, ids, entries>>
    BY Zenon DEF Call, CallAt
  <1>2. PICK d : d = [at |-> IF m = "SetKeyValue" THEN "enter" ELSE "number",
                 method |-> m, bucket |-> b, answer |-> FALSE, old |-> FullCount + 1, changed |-> FALSE]
    BY Zenon
  <1>3. d.at \in {"number", "enter"} /\ d.old = FullCount + 1 /\ d.changed = FALSE
    BY <1>2, Zenon
  <1>4. d \in CallShape
    <2>1. d.at \in CallPlaces
      BY <1>3, Zenon DEF CallPlaces, Counting
    <2>2. FullCount + 1 \in 0..(FullCount + 1)
      BY CallsAssumption
    <2>3. (IF m = "SetKeyValue" THEN "enter" ELSE "number") \in CallPlaces
      BY <1>2, <2>1, Zenon
    <2>4. FALSE \in BOOLEAN
      OBVIOUS
    <2> QED
      BY <1>2, <2>2, <2>3, <2>4, Zenon DEF CallShape
  <1>5. SoundCall(d, words)
    <2>1. d.at \in Counting /\ d.at \notin {"answer", "exchange"}
      BY <1>3 DEF Counting
    <2> QED
      BY <1>3, <2>1, Zenon DEF SoundCall
  <1>6. \A y \in Buckets, x \in BOOLEAN : Pending(d, y, x) <=> Pending(calls[t], y, x)
    <2>1. calls[t].at \notin {"complete", "tell"} /\ d.at \notin {"complete", "tell"}
      BY <1>1, <1>3
    <2> QED
      BY <2>1, Zenon DEF Pending
  <1>7. d \in {Free} \cup CallShape /\ calls' = [calls EXCEPT ![t] = d]
    BY <1>1, <1>2, <1>4, Zenon
  <1> QED
    BY <1>1, <1>5, <1>6, <1>7, QuietStep, ZenonT(30)

\* The interface throws, and the call is over.
LEMMA NativeThrowsKeeps ==
    ASSUME CallsInv, NEW t \in GameThreads, NativeThrows(t)
    PROVE  CallsInv'
  <1>1. /\ calls[t].at = "native" /\ calls' = [calls EXCEPT ![t] = Free]
        /\ UNCHANGED <<words, overflow, seen, told, ids, entries>>
    BY Zenon DEF NativeThrows, CallAt
  <1>2. SoundCall(Free, words)
    BY Zenon DEF SoundCall
  <1>3. \A y \in Buckets, x \in BOOLEAN : Pending(Free, y, x) <=> Pending(calls[t], y, x)
    <2>1. calls[t].at \notin {"complete", "tell"} /\ Free.at \notin {"complete", "tell"}
      BY <1>1 DEF Free
    <2> QED
      BY <2>1, Zenon DEF Pending
  <1>4. Free \in {Free} \cup CallShape
    BY Zenon
  <1> QED
    BY <1>1, <1>2, <1>3, <1>4, QuietStep, Zenon

\* The interface answers.
LEMMA NativeReturnsKeeps ==
    ASSUME CallsInv, NEW t \in GameThreads, NativeReturns(t)
    PROVE  CallsInv'
  <1> DEFINE c == calls[t]
  <1>1. PICK a \in BOOLEAN :
        /\ c.at = "native"
        /\ calls' = [calls EXCEPT ![t].answer = a,
              ![t].at = IF calls[t].method = "BLoggedOn" THEN "answer" ELSE "complete"]
        /\ UNCHANGED <<words, overflow, seen, told, ids, entries>>
    BY Zenon DEF NativeReturns, CallAt
  <1>2. c \in CallShape /\ c # Free
    <2>1. CallTyped
      BY Zenon DEF CallsInv
    <2>2. c.at # "free"
      BY <1>1
    <2> QED
      BY <2>1, <2>2, Shaped, Zenon
  <1>3. PICK to : to = IF calls[t].method = "BLoggedOn" THEN "answer" ELSE "complete"
    BY Zenon
  <1>4. PICK d : d = [c EXCEPT !.answer = a, !.at = to]
    BY Zenon
  <1>5. to \in {"answer", "complete"} /\ (to = "answer" => c.method = "BLoggedOn")
    BY <1>3
  <1>6. to \in CallPlaces /\ to \in Counting
    BY <1>5 DEF CallPlaces, Counting
  <1>7. /\ d \in CallShape /\ d.at = to /\ d.old = c.old /\ d.method = c.method /\ d.changed = c.changed
    BY <1>2, <1>4, <1>6, Zenon DEF CallShape
  <1>8. calls' = [calls EXCEPT ![t] = d]
    BY <1>1, <1>3, <1>4, Zenon
  <1>9. c.old = FullCount + 1 /\ ~c.changed
    <2>1. SoundCall(c, words)
      BY Zenon DEF CallsInv, CallSound
    <2>2. c.at \notin Counting /\ c.at \notin {"complete", "tell"}
      BY <1>1 DEF Counting
    <2> HIDE DEF c
    <2> QED
      BY <1>2, <2>1, <2>2, Zenon DEF SoundCall
  <1>10. SoundCall(d, words)
    <2>1. d.at \in {"answer", "exchange"} => d.method = "BLoggedOn"
      BY <1>5, <1>7
    <2> QED
      BY <1>6, <1>7, <1>9, <2>1, Zenon DEF SoundCall
  <1>11. \A y \in Buckets, x \in BOOLEAN : Pending(d, y, x) <=> Pending(calls[t], y, x)
    BY <1>7, <1>9, Zenon DEF Pending
  <1>12. d \in {Free} \cup CallShape
    BY <1>7, Zenon
  <1> HIDE DEF c
  <1> QED
    BY <1>1, <1>8, <1>10, <1>11, <1>12, QuietStep, ZenonT(30)
-----------------------------------------------------------------------------
\* Where a passed call goes is a place of its method, and it has nothing new to
\* tell for it.
LEMMA PassedCall ==
    ASSUME CallsInv, NEW t \in GameThreads, calls[t].at \in Counting, Passed(t)
    PROVE  \E d \in CallShape :
              /\ calls' = [calls EXCEPT ![t] = d]
              /\ \A w : SoundCall(d, w)
              /\ \A b \in Buckets, a \in BOOLEAN : Pending(d, b, a) <=> Pending(calls[t], b, a)
  <1> DEFINE c == calls[t]
  <1>1. c \in CallShape /\ c # Free
    <2>1. CallTyped
      BY Zenon DEF CallsInv
    <2>2. c.at # "free"
      BY DEF Counting
    <2> QED
      BY <2>1, <2>2, Shaped, Zenon
  <1>2. PICK to : to = After(c)
    BY Zenon
  <1>3. PICK d : d = [c EXCEPT !.at = to, !.old = FullCount + 1]
    BY Zenon
  <1>4. calls' = [calls EXCEPT ![t] = d]
    BY <1>2, <1>3, Zenon DEF Passed
  <1>5. /\ \/ c.at = "number" /\ to = "enter"
           \/ c.at = "enter" /\ to = "native"
           \/ c.at = "answer" /\ to = "exchange"
           \/ c.at = "complete" /\ to = "tell"
        /\ to \in CallPlaces
    BY <1>2 DEF After, Counting, CallPlaces
  <1>6. FullCount + 1 \in 0..(FullCount + 1)
    BY CallsAssumption
  <1>7. /\ d \in CallShape /\ d.at = to /\ d.old = FullCount + 1 /\ d.method = c.method
        /\ d.bucket = c.bucket /\ d.answer = c.answer /\ d.changed = c.changed
    <2>1. to \in CallPlaces
      BY <1>5, Zenon
    <2> HIDE DEF c
    <2>2. d.at = to /\ d.old = FullCount + 1 /\ d.method = c.method
          /\ d.bucket = c.bucket /\ d.answer = c.answer /\ d.changed = c.changed
      BY <1>1, <1>3, Zenon DEF CallShape
    <2>3. d \in CallShape
      BY <1>1, <1>3, <1>6, <2>1, Zenon DEF CallShape
    <2> QED
      BY <2>2, <2>3, Zenon
  <1>8. SoundCall(c, words)
    BY Zenon DEF CallsInv, CallSound
  <1> HIDE DEF c
  <1>9. c.at \in {"answer", "exchange"} => c.method = "BLoggedOn"
    BY <1>1, <1>8, Zenon DEF SoundCall
  <1>10. c.changed => c.at \in {"complete", "tell"}
    BY <1>1, <1>8, Zenon DEF SoundCall
  <1>11. \A w : SoundCall(d, w)
    <2> TAKE w
    <2>1. d.at \in {"answer", "exchange"} => d.method = "BLoggedOn"
      BY <1>5, <1>7, <1>9
    <2>2. c.at = "complete" => d.at = "tell"
      BY <1>5, <1>7
    <2>3. c.at # "tell"
      BY <1>5
    <2>4. d.changed => d.at \in {"complete", "tell"}
      BY <1>7, <1>10, <2>2, <2>3, Zenon
    <2> QED
      BY <1>7, <2>1, <2>4, Zenon DEF SoundCall
  <1>12. \A b \in Buckets, a \in BOOLEAN : Pending(d, b, a) <=> Pending(calls[t], b, a)
    <2>1. c.at \in {"complete", "tell"} <=> d.at \in {"complete", "tell"}
      BY <1>5, <1>7
    <2> QED
      BY <1>7, <2>1, Zenon DEF Pending, c
  <1> QED
    BY <1>4, <1>7, <1>11, <1>12, Zenon

\* A swap: the word grows by one, and a number is the counter's new value.
LEMMA SwapKeeps ==
    ASSUME CallsInv, NEW t \in GameThreads, Swap(t)
    PROVE  CallsInv'
  <1> DEFINE c == calls[t]
             v == Word(calls[t])
  <1>1. /\ c.at \in Counting /\ c.old < FullCount /\ words[v] = c.old
        /\ words' = [words EXCEPT ![v] = c.old + 1]
        /\ ids' = IF c.at = "number" THEN Append(ids, c.old + 1) ELSE ids
        /\ entries' = [entries EXCEPT ![v] = @ + 1]
        /\ Passed(t) /\ overflow' = overflow /\ seen' = seen /\ told' = told
    BY Zenon DEF Swap, SwapMatches
  <1>2. CallTyped
    BY Zenon DEF CallsInv
  <1>3. c \in CallShape
    <2>1. c.at # "free"
      BY <1>1 DEF Counting
    <2> QED
      BY <1>2, <2>1, Shaped, Zenon
  <1>4. v \in Words
    BY <1>1, <1>3, WordIsOne, Zenon
  <1>5. words \in [Words -> 0..FullCount] /\ entries \in [Words -> Nat]
    BY <1>2, Zenon DEF CallTyped
  <1>6. c.old \in 0..FullCount
    BY <1>1, <1>4, <1>5, Zenon
  <1>7. PICK n : n = c.old
    BY Zenon
  <1>8. n \in 0..FullCount /\ n + 1 \in 0..FullCount /\ n + 1 \in Nat
    BY <1>1, <1>6, <1>7, CallsAssumption
  <1>9. words' = [words EXCEPT ![v] = n + 1] /\ words[v] = n
    BY <1>1, <1>7, Zenon
  <1>10. words' \in [Words -> 0..FullCount] /\ words'[v] = n + 1
         /\ \A w \in Words : w # v => words'[w] = words[w]
    BY <1>4, <1>5, <1>8, <1>9, Zenon
  <1>11. \A w \in Words : words[w] <= words'[w]
    <2> TAKE w \in Words
    <2>1. CASE w = v
      <3>1. n <= n + 1
        BY <1>8
      <3> QED
        BY <1>9, <1>10, <2>1, <3>1, Zenon
    <2>2. CASE w # v
      BY <1>2, <1>10, <2>2, Readable, Zenon
    <2> QED
      BY <2>1, <2>2
  <1> HIDE DEF c, v
  <1>12. PICK d \in CallShape :
              /\ calls' = [calls EXCEPT ![t] = d]
              /\ \A w : SoundCall(d, w)
              /\ \A b \in Buckets, a \in BOOLEAN : Pending(d, b, a) <=> Pending(calls[t], b, a)
    BY <1>1, PassedCall, Zenon DEF c
  <1>13. calls' \in [GameThreads -> {Free} \cup CallShape] /\ CallSound' /\ AnswersAlternate'
    <2>1. d \in {Free} \cup CallShape /\ SoundCall(d, words')
      BY <1>12, Zenon
    <2>2. words' \in [Words -> 0..FullCount] /\ (\A w \in Words : words[w] <= words'[w])
          /\ seen' = seen /\ told' = told
      BY <1>1, <1>10, <1>11, Zenon
    <2>3. calls' = [calls EXCEPT ![t] = d]
          /\ \A b \in Buckets, a \in BOOLEAN : Pending(d, b, a) <=> Pending(calls[t], b, a)
      BY <1>12, Zenon
    <2> QED
      BY <2>1, <2>2, <2>3, PlainStep, Zenon
  <1>14. /\ entries' \in [Words -> Nat] /\ entries'[v] = entries[v] + 1
         /\ \A w \in Words : w # v => entries'[w] = entries[w]
    <2>1. entries[v] + 1 \in Nat
      <3>1. entries[v] \in Nat
        BY <1>4, <1>5, Zenon
      <3> QED
        BY <3>1
    <2> QED
      BY <1>1, <1>4, <1>5, <2>1, Zenon
  <1>15. CountsAreExact'
    <2> SUFFICES ASSUME NEW w \in Words
                 PROVE  words'[w] = entries'[w] \/ (overflow' /\ words'[w] = FullCount)
      BY Zenon DEF CountsAreExact
    <2>1. words[w] = entries[w] \/ (overflow /\ words[w] = FullCount)
      BY Zenon DEF CallsInv, CountsAreExact
    <2>2. overflow => overflow'
      BY <1>1, Zenon
    <2>3. CASE w = v
      <3>1. n # FullCount
        BY <1>1, <1>7, <1>8, CallsAssumption
      <3>2. n = entries[v]
        BY <1>9, <2>1, <2>3, <3>1, Zenon
      <3> QED
        BY <1>10, <1>14, <2>3, <3>2, Zenon
    <2>4. CASE w # v
      <3>1. words'[w] = words[w] /\ entries'[w] = entries[w]
        BY <1>10, <1>14, <2>4, Zenon
      <3> QED
        BY <2>1, <2>2, <3>1, Zenon
    <2> QED
      BY <2>3, <2>4
  <1>16. ids \in Seq(Nat) /\ Len(ids) = words[<<"id">>] /\ (\A i \in 1..Len(ids) : ids[i] = i)
    BY <1>2, Zenon DEF CallTyped, CallsInv, Numbered
  <1>17. ids' \in Seq(Nat) /\ Numbered'
    <2>1. CASE c.at = "number"
      <3>1. v = <<"id">>
        BY <2>1, Zenon DEF v, c, Word
      <3>2. ids' = Append(ids, n + 1) /\ words'[<<"id">>] = n + 1 /\ Len(ids) = n
        BY <1>1, <1>7, <1>9, <1>10, <1>16, <2>1, <3>1, Zenon
      <3>3. ids' \in Seq(Nat) /\ Len(ids') = n + 1 /\ (\A i \in 1..(n + 1) : ids'[i] = i)
        BY <1>8, <1>16, <3>2
      <3> QED
        BY <3>2, <3>3, Zenon DEF Numbered
    <2>2. CASE c.at # "number"
      <3>1. v # <<"id">>
        <4>1. v = <<"entered", c.method>> \/ v = <<"answer", c.bucket, c.answer>>
                 \/ v = <<"completed", c.method>>
          BY <1>1, <2>2, Zenon DEF v, c, Word, Counting
        <4> QED
          BY <4>1
      <3>2. <<"id">> \in Words
        BY Zenon DEF Words
      <3>3. ids' = ids /\ words'[<<"id">>] = words[<<"id">>]
        BY <1>1, <1>10, <2>2, <3>1, <3>2, Zenon
      <3> QED
        BY <1>16, <3>3, Zenon DEF Numbered
    <2> QED
      BY <2>1, <2>2
  <1>18. seen' \in [Buckets -> {{}, {TRUE}, {FALSE}}] /\ told' \in [Buckets -> [BOOLEAN -> Nat]]
         /\ overflow' \in BOOLEAN
    BY <1>1, <1>2, Zenon DEF CallTyped
  <1> QED
    BY <1>10, <1>13, <1>14, <1>15, <1>17, <1>18, Zenon DEF CallsInv, CallTyped

\* A full word stays, and the coverage says so.
LEMMA SaturatesKeeps ==
    ASSUME CallsInv, NEW t \in GameThreads, Saturates(t)
    PROVE  CallsInv'
  <1> DEFINE c == calls[t]
             v == Word(calls[t])
  <1>1. /\ c.at \in Counting /\ c.old = FullCount /\ overflow' = TRUE
        /\ entries' = [entries EXCEPT ![v] = @ + 1]
        /\ Passed(t) /\ words' = words /\ seen' = seen /\ told' = told /\ ids' = ids
    BY Zenon DEF Saturates
  <1>2. CallTyped
    BY Zenon DEF CallsInv
  <1>3. c \in CallShape /\ c # Free
    <2>1. c.at # "free"
      BY <1>1 DEF Counting
    <2> QED
      BY <1>2, <2>1, Shaped, Zenon
  <1>4. v \in Words
    BY <1>1, <1>3, WordIsOne, Zenon
  <1>5. words \in [Words -> 0..FullCount] /\ entries \in [Words -> Nat]
    BY <1>2, Zenon DEF CallTyped
  <1>6. \A w \in Words : words[w] <= words'[w]
    <2> TAKE w \in Words
    <2> QED
      BY <1>1, <1>2, Readable, Zenon
  <1>7. words[v] = FullCount
    <2>1. SoundCall(c, words)
      BY Zenon DEF CallsInv, CallSound
    <2>2. FullCount # FullCount + 1
      BY CallsAssumption
    <2> HIDE DEF c, v
    <2>3. FullCount <= words[v]
      BY <1>1, <1>3, <2>1, <2>2, Zenon DEF SoundCall, c, v
    <2>4. words[v] \in 0..FullCount
      BY <1>4, <1>5, Zenon
    <2> QED
      BY <2>3, <2>4, CallsAssumption
  <1> HIDE DEF c, v
  <1>8. PICK d \in CallShape :
              /\ calls' = [calls EXCEPT ![t] = d]
              /\ \A w : SoundCall(d, w)
              /\ \A b \in Buckets, a \in BOOLEAN : Pending(d, b, a) <=> Pending(calls[t], b, a)
    BY <1>1, PassedCall, Zenon DEF c
  <1>9. calls' \in [GameThreads -> {Free} \cup CallShape] /\ CallSound' /\ AnswersAlternate'
    <2>1. d \in {Free} \cup CallShape /\ SoundCall(d, words') /\ words' \in [Words -> 0..FullCount]
      BY <1>1, <1>5, <1>8, Zenon
    <2> QED
      BY <1>1, <1>6, <1>8, <2>1, PlainStep, Zenon
  <1>10. /\ entries' \in [Words -> Nat]
         /\ \A w \in Words : w # v => entries'[w] = entries[w]
    <2>1. entries[v] + 1 \in Nat
      <3>1. entries[v] \in Nat
        BY <1>4, <1>5, Zenon
      <3> QED
        BY <3>1
    <2> QED
      BY <1>1, <1>4, <1>5, <2>1, Zenon
  <1>11. CountsAreExact'
    <2> SUFFICES ASSUME NEW w \in Words
                 PROVE  words'[w] = entries'[w] \/ (overflow' /\ words'[w] = FullCount)
      BY Zenon DEF CountsAreExact
    <2>1. words[w] = entries[w] \/ (overflow /\ words[w] = FullCount)
      BY Zenon DEF CallsInv, CountsAreExact
    <2>2. overflow' /\ words'[w] = words[w]
      BY <1>1, Zenon
    <2>3. CASE w = v
      BY <1>7, <2>2, <2>3, Zenon
    <2>4. CASE w # v
      BY <1>10, <2>1, <2>2, <2>4, Zenon
    <2> QED
      BY <2>3, <2>4
  <1>12. ids' \in Seq(Nat) /\ Numbered'
    BY <1>1, <1>2, Zenon DEF CallTyped, CallsInv, Numbered
  <1>13. seen' \in [Buckets -> {{}, {TRUE}, {FALSE}}] /\ told' \in [Buckets -> [BOOLEAN -> Nat]]
         /\ overflow' \in BOOLEAN /\ words' \in [Words -> 0..FullCount]
    BY <1>1, <1>2, Zenon DEF CallTyped
  <1> QED
    BY <1>9, <1>10, <1>11, <1>12, <1>13, Zenon DEF CallsInv, CallTyped
-----------------------------------------------------------------------------
\* What AnswersAlternate says of a bucket, by the last answer.
Leads(b, new, old) == Changes(b, new) > 0 /\ Changes(b, new) \in {Changes(b, old), Changes(b, old) + 1}
Alternates(b) ==
    /\ seen[b] = {} => Changes(b, TRUE) = 0 /\ Changes(b, FALSE) = 0
    /\ seen[b] = {TRUE} => Leads(b, TRUE, FALSE)
    /\ seen[b] = {FALSE} => Leads(b, FALSE, TRUE)

\* The changes are numbers.
LEMMA ChangesAreNumbers ==
    ASSUME CallTyped, NEW b \in Buckets
    PROVE  /\ told[b][TRUE] \in Nat /\ told[b][FALSE] \in Nat
           /\ \A a : IsFiniteSet(Untold(b, a)) /\ Cardinality(Untold(b, a)) \in Nat
           /\ Changes(b, TRUE) \in Nat /\ Changes(b, FALSE) \in Nat
  <1>1. told[b][TRUE] \in Nat /\ told[b][FALSE] \in Nat
    <2>1. TRUE \in BOOLEAN /\ FALSE \in BOOLEAN
      OBVIOUS
    <2> QED
      BY <2>1, Zenon DEF CallTyped
  <1>2. \A a : IsFiniteSet(Untold(b, a)) /\ Cardinality(Untold(b, a)) \in Nat
    <2> TAKE a
    <2>1. Untold(b, a) \subseteq GameThreads /\ IsFiniteSet(GameThreads)
      BY CallsAssumption, Zenon DEF Untold
    <2>2. IsFiniteSet(Untold(b, a))
      BY <2>1, FS_Subset, Zenon
    <2> QED
      BY <2>2, FS_CardinalityType, Zenon
  <1>3. ASSUME NEW m \in Nat, NEW n \in Nat PROVE m + n \in Nat
    OBVIOUS
  <1>4. told[b][TRUE] + Cardinality(Untold(b, TRUE)) \in Nat
        /\ told[b][FALSE] + Cardinality(Untold(b, FALSE)) \in Nat
    BY <1>1, <1>2, <1>3, Zenon
  <1> QED
    BY <1>1, <1>2, <1>4, Zenon DEF Changes

\* The two ways to say it.
LEMMA AlternatesByAnswer ==
    CallTyped => (AnswersAlternate <=> \A b \in Buckets : Alternates(b))
  <1> SUFFICES ASSUME CallTyped PROVE AnswersAlternate <=> \A b \in Buckets : Alternates(b)
    OBVIOUS
  <1>1. \A b \in Buckets : Changes(b, TRUE) \in Nat /\ Changes(b, FALSE) \in Nat
    BY ChangesAreNumbers, Zenon
  <1>2. \A m \in Nat, n \in Nat : (m + n = 0) <=> (m = 0 /\ n = 0)
    OBVIOUS
  <1>3. BOOLEAN \ {TRUE} = {FALSE} /\ BOOLEAN \ {FALSE} = {TRUE} /\ {TRUE} # {FALSE} /\ {TRUE} # {}
        /\ {FALSE} # {}
    OBVIOUS
  <1>4. ASSUME NEW b \in Buckets
        PROVE  Alternates(b) <=>
                  /\ seen[b] = {} => Changes(b, TRUE) + Changes(b, FALSE) = 0
                  /\ \A new \in seen[b], old \in BOOLEAN \ seen[b] :
                        Changes(b, new) > 0 /\ Changes(b, new) \in {Changes(b, old), Changes(b, old) + 1}
    <2>1. seen[b] = {} \/ seen[b] = {TRUE} \/ seen[b] = {FALSE}
      BY Zenon DEF CallTyped
    <2>2. CASE seen[b] = {}
      <3>1. (Changes(b, TRUE) + Changes(b, FALSE) = 0) <=> (Changes(b, TRUE) = 0 /\ Changes(b, FALSE) = 0)
        BY <1>1, <1>2, Zenon
      <3>2. seen[b] # {TRUE} /\ seen[b] # {FALSE}
        BY <1>3, <2>2, Zenon
      <3> QED
        BY <2>2, <3>1, <3>2, Zenon DEF Alternates, Leads
    <2>3. CASE seen[b] = {TRUE}
      <3>1. seen[b] # {} /\ seen[b] # {FALSE} /\ BOOLEAN \ seen[b] = {FALSE}
        BY <1>3, <2>3, Zenon
      <3> QED
        BY <2>3, <3>1, Zenon DEF Alternates, Leads
    <2>4. CASE seen[b] = {FALSE}
      <3>1. seen[b] # {} /\ seen[b] # {TRUE} /\ BOOLEAN \ seen[b] = {TRUE}
        BY <1>3, <2>4, Zenon
      <3> QED
        BY <2>4, <3>1, Zenon DEF Alternates, Leads
    <2> QED
      BY <2>1, <2>2, <2>3, <2>4, Zenon
  <1> QED
    BY <1>4, Zenon DEF AnswersAlternate

LEMMA AlternatesAfter ==
    (CallTyped => (AnswersAlternate <=> \A b \in Buckets : Alternates(b)))'
  BY AlternatesByAnswer, PTL
-----------------------------------------------------------------------------
\* A call that gets something to tell joins those that have; one that told leaves them.
LEMMA UntoldJoins ==
    ASSUME CallTyped, NEW t \in GameThreads, NEW c \in {Free} \cup CallShape,
           calls' = [calls EXCEPT ![t] = c]
    PROVE  \A b \in Buckets : \A a : ~Pending(calls[t], b, a) /\ Pending(c, b, a)
              => Cardinality(Untold(b, a)') = Cardinality(Untold(b, a)) + 1
  <1> TAKE b \in Buckets
  <1> TAKE a
  <1> HAVE ~Pending(calls[t], b, a) /\ Pending(c, b, a)
  <1>1. Untold(b, a) = {s \in GameThreads : Pending(calls[s], b, a)}
    BY Zenon DEF Untold, Pending
  <1>2. Untold(b, a)' = {s \in GameThreads : Pending(calls'[s], b, a)}
    BY Zenon DEF Untold, Pending
  <1>3. calls'[t] = c /\ \A s \in GameThreads : s # t => calls'[s] = calls[s]
    BY OneCallMoves, Zenon
  <1>4. Untold(b, a)' = Untold(b, a) \cup {t} /\ t \notin Untold(b, a)
    BY <1>1, <1>2, <1>3, Zenon
  <1>5. IsFiniteSet(Untold(b, a))
    BY ChangesAreNumbers, Zenon
  <1>6. Cardinality(Untold(b, a) \cup {t}) = Cardinality(Untold(b, a)) + 1
    BY <1>4, <1>5, FS_AddElement, Zenon
  <1> QED
    BY <1>4, <1>6, Zenon

LEMMA UntoldLeaves ==
    ASSUME CallTyped, NEW t \in GameThreads, NEW c \in {Free} \cup CallShape,
           calls' = [calls EXCEPT ![t] = c]
    PROVE  \A b \in Buckets : \A a : Pending(calls[t], b, a) /\ ~Pending(c, b, a)
              => Cardinality(Untold(b, a)') = Cardinality(Untold(b, a)) - 1
  <1> TAKE b \in Buckets
  <1> TAKE a
  <1> HAVE Pending(calls[t], b, a) /\ ~Pending(c, b, a)
  <1>1. Untold(b, a) = {s \in GameThreads : Pending(calls[s], b, a)}
    BY Zenon DEF Untold, Pending
  <1>2. Untold(b, a)' = {s \in GameThreads : Pending(calls'[s], b, a)}
    BY Zenon DEF Untold, Pending
  <1>3. calls'[t] = c /\ \A s \in GameThreads : s # t => calls'[s] = calls[s]
    BY OneCallMoves, Zenon
  <1>4. Untold(b, a)' = Untold(b, a) \ {t} /\ t \in Untold(b, a)
    BY <1>1, <1>2, <1>3, Zenon
  <1>5. IsFiniteSet(Untold(b, a))
    BY ChangesAreNumbers, Zenon
  <1>6. Cardinality(Untold(b, a) \ {t}) = Cardinality(Untold(b, a)) - 1
    BY <1>4, <1>5, FS_RemoveElement, Zenon
  <1> QED
    BY <1>4, <1>6, Zenon

\* The arithmetic of a change: the new answer, which was not the last one, is
\* ahead of the other afterwards.
LEMMA ChangeLeads ==
    ASSUME NEW new \in Nat, NEW other \in Nat, NEW after, after = new + 1,
           (new = 0 /\ other = 0) \/ (other > 0 /\ other \in {new, new + 1})
    PROVE  after > 0 /\ after \in {other, other + 1}
  OBVIOUS

\* The exchange of an answer keeps the changes alternating.
LEMMA ExchangeAlternates ==
    ASSUME CallsInv, CallTyped', NEW t \in GameThreads, NEW d \in CallShape,
           calls' = [calls EXCEPT ![t] = d], told' = told,
           calls[t].at = "exchange", d.at = "complete"
    PROVE  \A b \in Buckets : \A v, u :
              /\ (v = TRUE /\ u = FALSE) \/ (v = FALSE /\ u = TRUE)
              /\ seen' = [seen EXCEPT ![b] = {v}] /\ d.bucket = b /\ d.answer = v
              /\ d.changed <=> (seen[b] # {v})
              => AnswersAlternate'
  <1> TAKE b \in Buckets
  <1> TAKE v, u
  <1> HAVE /\ (v = TRUE /\ u = FALSE) \/ (v = FALSE /\ u = TRUE)
           /\ seen' = [seen EXCEPT ![b] = {v}] /\ d.bucket = b /\ d.answer = v
           /\ d.changed <=> (seen[b] # {v})
  <1>1. CallTyped /\ (\A y \in Buckets : Alternates(y)) /\ d \in {Free} \cup CallShape
    BY AlternatesByAnswer, Zenon DEF CallsInv
  <1>2. v \in BOOLEAN /\ u \in BOOLEAN /\ {v} # {u} /\ {v} # {} /\ {u} # {} /\ u # v
    <2>1. CASE v = TRUE /\ u = FALSE
      BY <2>1
    <2>2. CASE v = FALSE /\ u = TRUE
      BY <2>2
    <2> QED
      BY <2>1, <2>2, Zenon
  <1>3. \A y, x : ~Pending(calls[t], y, x)
    <2>1. calls[t].at \notin {"complete", "tell"}
      OBVIOUS
    <2> QED
      BY <2>1, Zenon DEF Pending
  <1>4. \A y, x : Pending(d, y, x) <=> (seen[b] # {v} /\ y = b /\ x = v)
    <2>1. d.at \in {"complete", "tell"}
      OBVIOUS
    <2> QED
      BY <2>1, Zenon DEF Pending
  <1>5. \A y, x : ~(seen[b] # {v} /\ y = b /\ x = v) => Untold(y, x)' = Untold(y, x)
    <2> TAKE y, x
    <2> HAVE ~(seen[b] # {v} /\ y = b /\ x = v)
    <2>1. ~Pending(d, y, x) /\ ~Pending(calls[t], y, x)
      BY <1>3, <1>4, Zenon
    <2>2. \A p, q : (Pending(d, p, q) <=> Pending(calls[t], p, q)) => Untold(p, q)' = Untold(p, q)
      BY <1>1, UntoldStays, Zenon
    <2> QED
      BY <2>1, <2>2, Zenon
  <1>6. \A y, x : ~(seen[b] # {v} /\ y = b /\ x = v) => Changes(y, x)' = Changes(y, x)
    BY <1>5, Zenon DEF Changes
  <1>7. seen' \in [Buckets -> {{}, {TRUE}, {FALSE}}] /\ seen'[b] = {v}
        /\ \A y \in Buckets : y # b => seen'[y] = seen[y]
    BY <1>1, Zenon DEF CallTyped
  <1>8. Changes(b, v) \in Nat /\ Changes(b, u) \in Nat /\ told[b][v] \in Nat
        /\ Cardinality(Untold(b, v)) \in Nat
    BY <1>1, ChangesAreNumbers, Zenon
  <1>9. Changes(b, u)' = Changes(b, u)
    BY <1>2, <1>6, Zenon
  <1>10. Changes(b, v)' > 0 /\ Changes(b, v)' \in {Changes(b, u)', Changes(b, u)' + 1}
    <2>1. CASE seen[b] = {v}
      <3>1. Leads(b, v, u)
        BY <1>1, <2>1, Zenon DEF Alternates
      <3>2. Changes(b, v)' = Changes(b, v)
        BY <1>6, <2>1, Zenon
      <3> QED
        BY <1>9, <3>1, <3>2, Zenon DEF Leads
    <2>2. CASE seen[b] # {v}
      <3>1. (Changes(b, v) = 0 /\ Changes(b, u) = 0) \/ Leads(b, u, v)
        <4>1. seen[b] = {} \/ seen[b] = {u}
          <5>1. seen[b] = {} \/ seen[b] = {TRUE} \/ seen[b] = {FALSE}
            BY <1>1, Zenon DEF CallTyped
          <5> QED
            BY <2>2, <5>1, Zenon
        <4> QED
          BY <1>1, <4>1, Zenon DEF Alternates
      <3>2. Cardinality(Untold(b, v)') = Cardinality(Untold(b, v)) + 1
        <4>1. ~Pending(calls[t], b, v) /\ Pending(d, b, v)
          BY <1>3, <1>4, <2>2, Zenon
        <4> QED
          <5>1. \A y \in Buckets : \A x : ~Pending(calls[t], y, x) /\ Pending(d, y, x)
                   => Cardinality(Untold(y, x)') = Cardinality(Untold(y, x)) + 1
            BY <1>1, UntoldJoins, Zenon
          <5> QED
            BY <4>1, <5>1, Zenon
      <3>3. PICK m, n, k : m = told[b][v] /\ n = Cardinality(Untold(b, v)) /\ k = Changes(b, v)
        BY Zenon
      <3>4. m \in Nat /\ n \in Nat /\ k = m + n
        BY <1>8, <3>3, Zenon DEF Changes
      <3>5. Changes(b, v)' = m + (n + 1)
        BY <3>2, <3>3, Zenon DEF Changes
      <3>6. m + (n + 1) = k + 1
        BY <3>4
      <3>7. Changes(b, v)' = Changes(b, v) + 1
        BY <3>3, <3>5, <3>6, Zenon
      <3>8. \/ Changes(b, v) = 0 /\ Changes(b, u) = 0
            \/ Changes(b, u) > 0 /\ Changes(b, u) \in {Changes(b, v), Changes(b, v) + 1}
        BY <3>1, Zenon DEF Leads
      <3>9. PICK z : z = Changes(b, v)'
        BY Zenon
      <3>10. z > 0 /\ z \in {Changes(b, u), Changes(b, u) + 1}
        BY <1>8, <3>7, <3>8, <3>9, ChangeLeads, Zenon
      <3> QED
        BY <1>9, <3>9, <3>10, Zenon
    <2> QED
      BY <2>1, <2>2, Zenon
  <1>11. \A y \in Buckets : Alternates(y)'
    <2> TAKE y \in Buckets
    <2>1. CASE y = b
      <3>1. Leads(b, v, u)'
        BY <1>10, Zenon DEF Leads
      <3>2. CASE v = TRUE /\ u = FALSE
        <4>1. {TRUE} # {} /\ {TRUE} # {FALSE}
          BY <1>2, <3>2, Zenon
        <4> QED
          BY <1>7, <2>1, <3>1, <3>2, <4>1, Zenon DEF Alternates
      <3>3. CASE v = FALSE /\ u = TRUE
        <4>1. {FALSE} # {} /\ {TRUE} # {FALSE}
          BY <1>2, <3>3, Zenon
        <4> QED
          BY <1>7, <2>1, <3>1, <3>3, <4>1, Zenon DEF Alternates
      <3> QED
        BY <3>2, <3>3, Zenon
    <2>2. CASE y # b
      <3>1. Changes(y, TRUE)' = Changes(y, TRUE) /\ Changes(y, FALSE)' = Changes(y, FALSE)
        BY <1>6, <2>2, Zenon
      <3>2. seen'[y] = seen[y] /\ Alternates(y)
        BY <1>1, <1>7, <2>2, Zenon
      <3> QED
        BY <3>1, <3>2, Zenon DEF Alternates, Leads
    <2> QED
      BY <2>1, <2>2, Zenon
  <1> QED
    BY <1>11, AlternatesAfter, Zenon
-----------------------------------------------------------------------------
\* The exchange: the last answer of the bucket, and whether it was news.
LEMMA ExchangeKeeps ==
    ASSUME CallsInv, NEW t \in GameThreads, Exchange(t)
    PROVE  CallsInv'
  <1> DEFINE c == calls[t]
             b == calls[t].bucket
             v == calls[t].answer
  <1>1. /\ c.at = "exchange"
        /\ calls' = [calls EXCEPT ![t].at = "complete", ![t].changed = (seen[b] # {v})]
        /\ seen' = [seen EXCEPT ![b] = {v}]
        /\ UNCHANGED <<words, overflow, ids, entries>> /\ words' = words /\ told' = told
    BY Zenon DEF Exchange, CallAt, Changed
  <1>2. CallTyped
    BY Zenon DEF CallsInv
  <1>3. c \in CallShape /\ c # Free
    <2>1. c.at # "free"
      BY <1>1
    <2> QED
      BY <1>2, <2>1, Shaped, Zenon
  <1>4. b \in Buckets /\ v \in BOOLEAN
    BY <1>3, Zenon DEF CallShape
  <1>5. PICK d : d = [c EXCEPT !.at = "complete", !.changed = (seen[b] # {v})]
    BY Zenon
  <1>6. calls' = [calls EXCEPT ![t] = d]
    BY <1>1, <1>5, Zenon
  <1>7. c.old = FullCount + 1
    <2>1. SoundCall(c, words) /\ c.at \notin Counting
      <3>1. c.at \notin Counting
        BY <1>1 DEF Counting
      <3> QED
        BY <3>1, Zenon DEF CallsInv, CallSound
    <2> HIDE DEF c
    <2> QED
      BY <1>3, <2>1, Zenon DEF SoundCall
  <1> HIDE DEF c
  <1>8. d.at = "complete" /\ d.old = FullCount + 1 /\ d.bucket = b /\ d.answer = v /\ d.method = c.method
    BY <1>3, <1>5, <1>7, Zenon DEF CallShape, c
  <1>9. d.changed <=> (seen[b] # {v})
    BY <1>3, <1>5, Zenon DEF CallShape
  <1>10. d \in CallShape
    <2>1. "complete" \in CallPlaces
      BY DEF CallPlaces, Counting
    <2>2. (seen[b] # {v}) \in BOOLEAN
      OBVIOUS
    <2> QED
      BY <1>3, <1>5, <2>1, <2>2, Zenon DEF CallShape
  <1>11. SoundCall(d, words) /\ d \in {Free} \cup CallShape
    <2>1. d.at \in Counting /\ d.at \notin {"answer", "exchange"} /\ d.at \in {"complete", "tell"}
      BY <1>8 DEF Counting
    <2> QED
      BY <1>8, <1>10, <2>1, Zenon DEF SoundCall
  <1>12. /\ Numbered' /\ CountsAreExact'
         /\ words' \in [Words -> 0..FullCount] /\ overflow' \in BOOLEAN
         /\ ids' \in Seq(Nat) /\ entries' \in [Words -> Nat]
         /\ \A w \in Words : words[w] <= words'[w]
    BY <1>1, CountersStay, Zenon
  <1>13. calls' \in [GameThreads -> {Free} \cup CallShape]
    BY <1>2, <1>6, <1>11, OneCallMoves, Zenon
  <1>14. CallSound'
    <2>1. SoundCall(d, words') /\ CallSound
      BY <1>1, <1>11, Zenon DEF CallsInv
    <2> QED
      BY <1>2, <1>6, <1>11, <1>12, <2>1, StaysSound, Zenon
  <1>15. CallTyped'
    <2>1. {v} \in {{}, {TRUE}, {FALSE}}
      BY <1>4, Zenon
    <2>2. seen' \in [Buckets -> {{}, {TRUE}, {FALSE}}] /\ told' \in [Buckets -> [BOOLEAN -> Nat]]
      BY <1>1, <1>2, <1>4, <2>1, Zenon DEF CallTyped
    <2> QED
      BY <1>12, <1>13, <2>2, Zenon DEF CallTyped
  <1>16. AnswersAlternate'
    <2> HIDE DEF b, v
    <2>1. calls[t].at = "exchange"
      BY <1>1, Zenon DEF c
    <2>2. PICK u : (v = TRUE /\ u = FALSE) \/ (v = FALSE /\ u = TRUE)
      BY <1>4, Zenon
    <2>3. PICK x, y : x = v /\ y = b
      BY Zenon
    <2>4. /\ (x = TRUE /\ u = FALSE) \/ (x = FALSE /\ u = TRUE)
          /\ y \in Buckets /\ seen' = [seen EXCEPT ![y] = {x}] /\ d.bucket = y /\ d.answer = x
          /\ d.changed <=> (seen[y] # {x})
      BY <1>1, <1>4, <1>8, <1>9, <2>2, <2>3, Zenon
    <2>5. d.at = "complete" /\ told' = told
      BY <1>1, <1>8, Zenon
    <2>6. \A p \in Buckets : \A q, r :
             /\ (q = TRUE /\ r = FALSE) \/ (q = FALSE /\ r = TRUE)
             /\ seen' = [seen EXCEPT ![p] = {q}] /\ d.bucket = p /\ d.answer = q
             /\ d.changed <=> (seen[p] # {q})
             => AnswersAlternate'
      BY <1>6, <1>10, <1>15, <2>1, <2>5, ExchangeAlternates, Zenon
    <2> QED
      BY <2>4, <2>6, Zenon
  <1> QED
    BY <1>12, <1>14, <1>15, <1>16, Zenon DEF CallsInv

\* A call ends, and a change is told.
LEMMA TellKeeps ==
    ASSUME CallsInv, NEW t \in GameThreads, Tell(t)
    PROVE  CallsInv'
  <1> DEFINE c == calls[t]
  <1>0. PICK b, v : b = calls[t].bucket /\ v = calls[t].answer
    BY Zenon
  <1>1. /\ c.at = "tell" /\ calls' = [calls EXCEPT ![t] = Free]
        /\ told' = IF c.changed THEN [told EXCEPT ![b][v] = @ + 1] ELSE told
        /\ UNCHANGED <<words, overflow, ids, entries>> /\ words' = words /\ seen' = seen
    BY <1>0, Zenon DEF Tell, CallAt
  <1>2. CallTyped /\ CallSound
    BY Zenon DEF CallsInv
  <1>3. c \in CallShape
    <2>1. c.at # "free"
      BY <1>1
    <2> QED
      BY <1>2, <2>1, Shaped, Zenon
  <1>4. b \in Buckets /\ v \in BOOLEAN
    BY <1>0, <1>3, Zenon DEF CallShape
  <1>5. SoundCall(Free, words') /\ Free \in {Free} \cup CallShape
    BY Zenon DEF SoundCall
  <1>6. /\ Numbered' /\ CountsAreExact'
        /\ words' \in [Words -> 0..FullCount] /\ overflow' \in BOOLEAN
        /\ ids' \in Seq(Nat) /\ entries' \in [Words -> Nat]
        /\ \A w \in Words : words[w] <= words'[w]
    BY <1>1, CountersStay, Zenon
  <1>7. calls' \in [GameThreads -> {Free} \cup CallShape]
    BY <1>1, <1>2, <1>5, OneCallMoves, Zenon
  <1>8. CallSound'
    BY <1>1, <1>2, <1>5, <1>6, StaysSound, Zenon
  <1>9. \A y, x : ~Pending(Free, y, x)
    <2>1. Free.at \notin {"complete", "tell"}
      BY DEF Free
    <2> QED
      BY <2>1, Zenon DEF Pending
  <1>10. c.at \in {"complete", "tell"}
    BY <1>1
  <1>11. told[b][v] \in Nat
    BY <1>2, <1>4, Zenon DEF CallTyped
  <1> HIDE DEF c
  <1>12. \A y, x : Pending(calls[t], y, x) <=> (c.changed /\ b = y /\ v = x)
    BY <1>0, <1>10, Zenon DEF Pending, c
  <1>13. \A y, x : (Pending(Free, y, x) <=> Pending(calls[t], y, x)) => Untold(y, x)' = Untold(y, x)
    BY <1>1, <1>2, <1>5, UntoldStays, Zenon
  <1>14. \A y, x : ~(c.changed /\ b = y /\ v = x) => Untold(y, x)' = Untold(y, x)
    BY <1>9, <1>12, <1>13, Zenon
  <1>15. told' \in [Buckets -> [BOOLEAN -> Nat]]
         /\ \A y \in Buckets, x \in BOOLEAN : ~(c.changed /\ b = y /\ v = x) => told'[y][x] = told[y][x]
    <2>1. CASE c.changed
      <3>1. told' = [told EXCEPT ![b] = [told[b] EXCEPT ![v] = told[b][v] + 1]]
        BY <1>1, <2>1, Zenon
      <3>2. told[b][v] + 1 \in Nat
        BY <1>11
      <3>3. told \in [Buckets -> [BOOLEAN -> Nat]] /\ told[b] \in [BOOLEAN -> Nat]
        BY <1>2, <1>4, Zenon DEF CallTyped
      <3>4. [told[b] EXCEPT ![v] = told[b][v] + 1] \in [BOOLEAN -> Nat]
        BY <1>4, <3>2, <3>3, Zenon
      <3>5. told' \in [Buckets -> [BOOLEAN -> Nat]]
        BY <1>4, <3>1, <3>3, <3>4, Zenon
      <3> QED
        BY <1>4, <2>1, <3>1, <3>3, <3>5, Zenon
    <2>2. CASE ~c.changed
      BY <1>1, <1>2, <2>2, Zenon DEF CallTyped
    <2> QED
      BY <2>1, <2>2, Zenon
  <1>16. c.changed => Changes(b, v)' = Changes(b, v)
    <2> HAVE c.changed
    <2>1. told'[b][v] = told[b][v] + 1
      <3>1. told' = [told EXCEPT ![b] = [told[b] EXCEPT ![v] = told[b][v] + 1]]
        BY <1>1, Zenon
      <3>2. told \in [Buckets -> [BOOLEAN -> Nat]] /\ told[b] \in [BOOLEAN -> Nat]
        BY <1>2, <1>4, Zenon DEF CallTyped
      <3> QED
        BY <1>4, <3>1, <3>2, Zenon
    <2>2. Cardinality(Untold(b, v)') = Cardinality(Untold(b, v)) - 1
      <3>1. \A y \in Buckets : \A x : Pending(calls[t], y, x) /\ ~Pending(Free, y, x)
               => Cardinality(Untold(y, x)') = Cardinality(Untold(y, x)) - 1
        BY <1>1, <1>2, <1>5, UntoldLeaves, Zenon
      <3>2. Pending(calls[t], b, v) /\ ~Pending(Free, b, v)
        BY <1>0, <1>9, <1>10, Zenon DEF Pending, c
      <3> QED
        BY <1>4, <3>1, <3>2, Zenon
    <2>3. Cardinality(Untold(b, v)) \in Nat
      BY <1>2, <1>4, ChangesAreNumbers, Zenon
    <2>4. PICK m, n : m = told[b][v] /\ n = Cardinality(Untold(b, v))
      BY Zenon
    <2>5. (m + 1) + (n - 1) = m + n
      BY <1>11, <2>3, <2>4
    <2>6. Changes(b, v)' = (m + 1) + (n - 1) /\ Changes(b, v) = m + n
      BY <2>1, <2>2, <2>4, Zenon DEF Changes
    <2> QED
      BY <2>5, <2>6, Zenon
  <1>17. \A y \in Buckets, x \in BOOLEAN : Changes(y, x)' = Changes(y, x)
    <2> TAKE y \in Buckets, x \in BOOLEAN
    <2>1. CASE c.changed /\ b = y /\ v = x
      BY <1>16, <2>1, Zenon
    <2>2. CASE ~(c.changed /\ b = y /\ v = x)
      <3>1. Untold(y, x)' = Untold(y, x) /\ told'[y][x] = told[y][x]
        BY <1>14, <1>15, <2>2, Zenon
      <3> QED
        BY <3>1, Zenon DEF Changes
    <2> QED
      BY <2>1, <2>2, Zenon
  <1>18. AnswersAlternate'
    BY <1>1, <1>2, <1>17, AlternateStays, Zenon DEF CallsInv
  <1>19. seen' \in [Buckets -> {{}, {TRUE}, {FALSE}}]
    BY <1>1, <1>2, Zenon DEF CallTyped
  <1> QED
    BY <1>6, <1>7, <1>8, <1>15, <1>18, <1>19, Zenon DEF CallsInv, CallTyped

-----------------------------------------------------------------------------
\* Numbers that count up are all different (the call numbers of Increment).
LEMMA NumbersDiffer ==
    ASSUME CallsInv
    PROVE  IdsUnique
  <1>1. ids \in Seq(Nat) /\ \A i \in 1..Len(ids) : ids[i] = i
    BY Zenon DEF CallsInv, CallTyped, Numbered
  <1>2. {ids[i] : i \in 1..Len(ids)} = 1..Len(ids)
    BY <1>1, Zenon
  <1>3. Len(ids) \in Nat
    BY <1>1
  <1>4. Cardinality(1..Len(ids)) = Len(ids)
    <2>1. PICK n : n = Len(ids)
      BY Zenon
    <2>2. n \in Int /\ 1 \in Int /\ (IF 1 > n THEN 0 ELSE n - 1 + 1) = n
      BY <1>3, <2>1
    <2>3. Cardinality(1..n) = IF 1 > n THEN 0 ELSE n - 1 + 1
      BY <2>2, FS_Interval, Zenon
    <2> QED
      BY <2>1, <2>2, <2>3, Zenon
  <1> QED
    BY <1>2, <1>4, Zenon DEF IdsUnique

\* The proxies' invariant: a call under way read no more than its word is new,
\* numbers run with the counter, counts are exact, changes alternate.
THEOREM CallsInvariant == CallsSpec => []CallsInv
  <1>1. CallsInit => CallsInv
    BY CallsStart
  <1>2. CallsInv /\ [CallsNext]_callsVars => CallsInv'
    <2> SUFFICES ASSUME CallsInv, [CallsNext]_callsVars PROVE CallsInv'
      OBVIOUS
    <2>1. ASSUME NEW t \in GameThreads, Call(t) PROVE CallsInv'
      BY <2>1, CallKeeps, Zenon
    <2>2. ASSUME NEW t \in GameThreads, ReadWord(t) PROVE CallsInv'
      BY <2>2, ReadWordKeeps, Zenon
    <2>3. ASSUME NEW t \in GameThreads, Swap(t) PROVE CallsInv'
      BY <2>3, SwapKeeps, Zenon
    <2>4. ASSUME NEW t \in GameThreads, SwapFails(t) PROVE CallsInv'
      BY <2>4, SwapFailsKeeps, Zenon
    <2>5. ASSUME NEW t \in GameThreads, Saturates(t) PROVE CallsInv'
      BY <2>5, SaturatesKeeps, Zenon
    <2>6. ASSUME NEW t \in GameThreads, NativeReturns(t) PROVE CallsInv'
      BY <2>6, NativeReturnsKeeps, Zenon
    <2>7. ASSUME NEW t \in GameThreads, NativeThrows(t) PROVE CallsInv'
      BY <2>7, NativeThrowsKeeps, Zenon
    <2>8. ASSUME NEW t \in GameThreads, Exchange(t) PROVE CallsInv'
      BY <2>8, ExchangeKeeps, Zenon
    <2>9. ASSUME NEW t \in GameThreads, Tell(t) PROVE CallsInv'
      BY <2>9, TellKeeps, Zenon
    <2>10. CASE UNCHANGED callsVars
      <3>1. UNCHANGED <<words, overflow, ids, entries>> /\ calls' = calls /\ seen' = seen
            /\ told' = told /\ words' = words
        BY <2>10, Zenon DEF callsVars
      <3>2. CallTyped' /\ Numbered' /\ CountsAreExact'
        BY <3>1, CountersStay, Zenon DEF CallsInv, CallTyped
      <3>3. CallSound'
        BY <3>1, Zenon DEF CallsInv, CallSound
      <3>4. \A b, a : Changes(b, a)' = Changes(b, a)
        BY <3>1, Zenon DEF Changes, Untold
      <3>5. AnswersAlternate'
        BY <3>1, <3>4, AlternateStays, Zenon DEF CallsInv
      <3> QED
        BY <3>2, <3>3, <3>5, Zenon DEF CallsInv
    <2> QED
      BY <2>1, <2>2, <2>3, <2>4, <2>5, <2>6, <2>7, <2>8, <2>9, <2>10, Zenon DEF CallsNext
  <1> QED
    BY <1>1, <1>2, PTL DEF CallsSpec

\* The log of the proxies is right however their calls interleave: ids are given
\* once (Increment), counts are exact or marked, and each change of what the game
\* logged on with is told, in turn (Exchange, Complete).
THEOREM CallsTold == CallsSpec => []ChangesAreTold
  <1>1. CallsInv => ChangesAreTold
    BY NumbersDiffer, Zenon DEF CallsInv, ChangesAreTold
  <1> QED
    BY <1>1, CallsInvariant, PTL
-----------------------------------------------------------------------------
(* The primary callback's own time (CallbackTiming)                        *)
(***************************************************************************)
(* ExactOrNothing for clocks of any width, and any number of callbacks and *)
(* exceptions.  The segment of the measurement is where the thread is, and *)
(* while no reading was missed the ticks are the own time up to the clock. *)
(***************************************************************************)
\* The measurement of a callback under way: what it measures and what it interrupted.
Going(t, segment, parent) ==
    t \in Measurement /\ t.phase = "InProgress" /\ t.segment = segment /\ t.parent = parent

\* It has measured o ticks of own time up to k.
Clean(t, o, k) == ~t.invalid /\ t.ticks = o /\ t.last = k /\ (t.segment # "Native" => t.start = k)

\* The segment is the one the thread is in.
Where == IF place = "native" THEN "Native" ELSE "Own"
SegmentFits ==
    IF search = "filter" THEN Going(measure, "Filter", Where) ELSE Going(measure, Where, "None")

\* The first callback alone is measured, and only it reaches the game's own.
FirstOnly ==
    /\ callbacks = 0 => measure = Fresh /\ place = "outside" /\ own = 0 /\ ~disturbed
    /\ measure.phase = "NotEntered" => callbacks = 0
    /\ measure.phase = "InProgress" <=> (callbacks = 1 /\ place # "outside")
    /\ place = "native" => callbacks = 1
    /\ search # "none" => place \in {"own", "native"}

CallbackInv ==
    /\ CallbackTypeOK /\ clock >= 1 /\ own < clock
    /\ FirstOnly /\ ExactOrNothing
    /\ measure.phase = "InProgress" =>
          /\ SegmentFits /\ (measure.invalid <=> disturbed)
          /\ ~disturbed => Clean(measure, own, clock)
-----------------------------------------------------------------------------
\* The fields of a measurement.
LEMMA Fields ==
    ASSUME NEW t \in Measurement
    PROVE  /\ t.phase \in Phases /\ t.segment \in Segments /\ t.parent \in Segments
           /\ t.ticks \in 0..MaxQpc /\ t.last \in 0..MaxQpc /\ t.start \in 0..MaxQpc
           /\ t.invalid \in BOOLEAN
  BY Zenon DEF Measurement

\* A reading that is accepted is the last one; any other leaves the measurement invalid.
LEMMA EndpointIs ==
    ASSUME NEW t \in Measurement, NEW q \in 0..MaxQpc
    PROVE  LET e == Endpoint(t, q) IN
           /\ e \in Measurement /\ e.phase = t.phase /\ e.segment = t.segment /\ e.parent = t.parent
           /\ e.ticks = t.ticks /\ e.start = t.start
           /\ Accepted(t, q) => e.last = q /\ (e.invalid <=> t.invalid)
           /\ ~Accepted(t, q) => e.invalid
  <1> DEFINE e == Endpoint(t, q)
  <1>1. CASE Accepted(t, q)
    <2>1. e = [t EXCEPT !.last = q]
      BY <1>1, Zenon DEF Endpoint
    <2> HIDE DEF e
    <2>2. /\ e \in Measurement /\ e.phase = t.phase /\ e.segment = t.segment /\ e.parent = t.parent
          /\ e.ticks = t.ticks /\ e.start = t.start /\ e.last = q /\ (e.invalid <=> t.invalid)
      BY <2>1, Zenon DEF Measurement
    <2> QED
      BY <1>1, <2>2, Zenon DEF e
  <1>2. CASE ~Accepted(t, q)
    <2>1. e = [t EXCEPT !.invalid = TRUE]
      BY <1>2, Zenon DEF Endpoint, Spoil
    <2> HIDE DEF e
    <2>2. /\ e \in Measurement /\ e.phase = t.phase /\ e.segment = t.segment /\ e.parent = t.parent
          /\ e.ticks = t.ticks /\ e.start = t.start /\ e.invalid
      <3>1. TRUE \in BOOLEAN
        OBVIOUS
      <3> QED
        BY <2>1, <3>1, Zenon DEF Measurement
    <2> QED
      BY <1>2, <2>2, Zenon DEF e
  <1> QED
    BY <1>1, <1>2, Zenon

\* The end of an own interval adds what it lasted, or leaves the measurement invalid.
LEMMA CloseOwnIs ==
    ASSUME NEW t \in Measurement, NEW q \in 0..MaxQpc
    PROVE  LET e == CloseOwn(t, q) IN
           /\ e \in Measurement /\ e.phase = t.phase /\ e.segment = t.segment /\ e.parent = t.parent
           /\ e.start = t.start /\ e.last = t.last
           /\ t.invalid => e.invalid
           /\ ~t.invalid /\ t.start # 0 /\ t.start <= q /\ t.ticks + (q - t.start) <= MaxQpc
                 => ~e.invalid /\ e.ticks = t.ticks + (q - t.start)
  <1> DEFINE e == CloseOwn(t, q)
             far == t.start = 0 \/ q < t.start \/ q - t.start > MaxQpc - t.ticks
  <1>1. t.ticks \in 0..MaxQpc /\ t.start \in 0..MaxQpc /\ t.last \in 0..MaxQpc
    BY Fields, Zenon
  <1>2. PICK n, s : n = t.ticks /\ s = t.start
    BY Zenon
  <1>3. n \in Nat /\ s \in Nat /\ n \in Int /\ s \in Int /\ q \in Int /\ q \in Nat /\ MaxQpc \in Int
    BY <1>1, <1>2, CallbackAssumption
  <1>4. (~t.invalid /\ s # 0 /\ s <= q /\ n + (q - s) <= MaxQpc) => ~far
    <2>1. (s # 0 /\ s <= q /\ n + (q - s) <= MaxQpc) => ~(s = 0 \/ q < s \/ q - s > MaxQpc - n)
      BY <1>3
    <2> QED
      BY <1>2, <2>1, Zenon
  <1>5. CASE t.invalid
    <2>1. e = t
      BY <1>5, Zenon DEF CloseOwn
    <2> QED
      BY <1>5, <2>1, Zenon
  <1>6. CASE ~t.invalid /\ far
    <2>1. e = [t EXCEPT !.invalid = TRUE]
      BY <1>6, Zenon DEF CloseOwn, Spoil
    <2>2. ~(t.start # 0 /\ t.start <= q /\ t.ticks + (q - t.start) <= MaxQpc)
      BY <1>2, <1>4, <1>6, Zenon
    <2> HIDE DEF e, far
    <2>3. /\ e \in Measurement /\ e.phase = t.phase /\ e.segment = t.segment /\ e.parent = t.parent
          /\ e.start = t.start /\ e.last = t.last /\ e.invalid
      <3>1. TRUE \in BOOLEAN
        OBVIOUS
      <3> QED
        BY <2>1, <3>1, Zenon DEF Measurement
    <2> QED
      BY <2>2, <2>3, Zenon DEF e
  <1>7. CASE ~t.invalid /\ ~far
    <2>1. e = [t EXCEPT !.ticks = t.ticks + (q - t.start)]
      BY <1>7, Zenon DEF CloseOwn
    <2>2. n + (q - s) \in 0..MaxQpc
      <3>1. ~(s = 0 \/ q < s \/ q - s > MaxQpc - n)
        BY <1>2, <1>7, Zenon
      <3> QED
        BY <1>3, <3>1
    <2>3. t.ticks + (q - t.start) \in 0..MaxQpc
      BY <1>2, <2>2, Zenon
    <2> HIDE DEF e, far
    <2>4. /\ e \in Measurement /\ e.phase = t.phase /\ e.segment = t.segment /\ e.parent = t.parent
          /\ e.start = t.start /\ e.last = t.last /\ (e.invalid <=> t.invalid)
          /\ e.ticks = t.ticks + (q - t.start)
      BY <2>1, <2>3, Zenon DEF Measurement
    <2> QED
      BY <1>7, <2>4, Zenon DEF e
  <1> QED
    BY <1>5, <1>6, <1>7, Zenon

\* A segment opens at an accepted reading; any other leaves the measurement invalid.
LEMMA OpenedIs ==
    ASSUME NEW t \in Measurement, NEW q \in 0..MaxQpc, NEW segment \in Segments
    PROVE  LET e == Opened(t, segment, q) IN
           /\ e \in Measurement /\ e.phase = t.phase /\ e.segment = segment /\ e.parent = t.parent
           /\ e.ticks = t.ticks
           /\ Accepted(t, q) => e.last = q /\ e.start = q /\ (e.invalid <=> t.invalid)
           /\ ~Accepted(t, q) => e.invalid
  <1> DEFINE f == Endpoint(t, q)
             e == Opened(t, segment, q)
  <1>1. /\ f \in Measurement /\ f.phase = t.phase /\ f.segment = t.segment /\ f.parent = t.parent
        /\ f.ticks = t.ticks /\ f.start = t.start
        /\ Accepted(t, q) => f.last = q /\ (f.invalid <=> t.invalid)
        /\ ~Accepted(t, q) => f.invalid
    BY EndpointIs, Zenon
  <1>2. PICK from : from = IF Accepted(t, q) THEN q ELSE 0
    BY Zenon
  <1>3. from \in 0..MaxQpc /\ (Accepted(t, q) => from = q)
    <2>1. 0 \in 0..MaxQpc
      BY CallbackAssumption
    <2> QED
      BY <1>2, <2>1, Zenon
  <1>4. e = [f EXCEPT !.segment = segment, !.start = from]
    BY <1>2, Zenon DEF Opened
  <1> HIDE DEF e, f
  <1>5. /\ e \in Measurement /\ e.phase = f.phase /\ e.segment = segment /\ e.parent = f.parent
        /\ e.ticks = f.ticks /\ e.start = from /\ e.last = f.last /\ (e.invalid <=> f.invalid)
    BY <1>1, <1>3, <1>4, Zenon DEF Measurement
  <1> QED
    BY <1>1, <1>3, <1>5, Zenon DEF e
-----------------------------------------------------------------------------
\* A later reading is accepted.
LEMMA LaterIsAccepted ==
    ASSUME NEW t, NEW o, NEW k \in Nat \ {0}, NEW q \in Nat, Clean(t, o, k), q >= k
    PROVE  Accepted(t, q)
  <1>1. t.last = k
    BY Zenon DEF Clean
  <1>2. q # 0
    OBVIOUS
  <1> QED
    BY <1>1, <1>2, Zenon DEF Accepted

\* An own interval that ends: the two functions that close one share this.
LEMMA Closes ==
    ASSUME NEW t \in Measurement, NEW q \in 0..MaxQpc
    PROVE  LET u == CloseOwn(Endpoint(t, q), q) IN
           /\ u \in Measurement /\ u.phase = t.phase /\ u.segment = t.segment /\ u.parent = t.parent
           /\ t.invalid \/ ~Accepted(t, q) => u.invalid
           /\ \A o \in Nat, k \in Nat \ {0} :
                 Clean(t, o, k) /\ t.segment # "Native" /\ q >= k /\ o + (q - k) <= MaxQpc
                    => ~u.invalid /\ u.ticks = o + (q - k) /\ u.last = q
  <1> DEFINE e == Endpoint(t, q)
             u == CloseOwn(e, q)
  <1>1. /\ e \in Measurement /\ e.phase = t.phase /\ e.segment = t.segment /\ e.parent = t.parent
        /\ e.ticks = t.ticks /\ e.start = t.start
        /\ Accepted(t, q) => e.last = q /\ (e.invalid <=> t.invalid)
        /\ ~Accepted(t, q) => e.invalid
    BY EndpointIs, Zenon
  <1>2. e \in Measurement
    BY <1>1, Zenon
  <1> HIDE DEF e
  <1>3. /\ u \in Measurement /\ u.phase = e.phase /\ u.segment = e.segment /\ u.parent = e.parent
        /\ u.start = e.start /\ u.last = e.last
        /\ e.invalid => u.invalid
        /\ ~e.invalid /\ e.start # 0 /\ e.start <= q /\ e.ticks + (q - e.start) <= MaxQpc
              => ~u.invalid /\ u.ticks = e.ticks + (q - e.start)
    BY <1>2, CloseOwnIs, Zenon
  <1> HIDE DEF u
  <1>4. t.invalid \/ ~Accepted(t, q) => u.invalid
    BY <1>1, <1>3, Zenon
  <1>5. ASSUME NEW o \in Nat, NEW k \in Nat \ {0},
               Clean(t, o, k), t.segment # "Native", q >= k, o + (q - k) <= MaxQpc
        PROVE  ~u.invalid /\ u.ticks = o + (q - k) /\ u.last = q
    <2>1. q \in Nat /\ k # 0 /\ k <= q
      BY <1>5, CallbackAssumption
    <2>2. Accepted(t, q)
      BY <1>5, <2>1, LaterIsAccepted, Zenon
    <2>3. ~e.invalid /\ e.start = k /\ e.ticks = o /\ e.last = q
      BY <1>1, <1>5, <2>2, Zenon DEF Clean
    <2> QED
      BY <1>3, <1>5, <2>1, <2>3, Zenon
  <1> QED
    BY <1>1, <1>3, <1>4, <1>5, Zenon DEF u, e

\* Into the game's callback: what was own time ends.
LEMMA EnterNativeIs ==
    ASSUME NEW t, Going(t, "Own", "None"), NEW q \in 0..MaxQpc
    PROVE  LET u == EnterNative(t, q) IN
           /\ Going(u, "Native", "None")
           /\ t.invalid \/ ~Accepted(t, q) => u.invalid
           /\ \A o \in Nat, k \in Nat \ {0} :
                 Clean(t, o, k) /\ q >= k /\ o + (q - k) <= MaxQpc => Clean(u, o + (q - k), q)
  <1> DEFINE c == CloseOwn(Endpoint(t, q), q)
             u == EnterNative(t, q)
  <1>1. t \in Measurement /\ t.phase = "InProgress" /\ t.segment = "Own" /\ t.parent = "None"
    BY Zenon DEF Going
  <1>2. /\ c \in Measurement /\ c.phase = t.phase /\ c.segment = t.segment /\ c.parent = t.parent
        /\ t.invalid \/ ~Accepted(t, q) => c.invalid
        /\ \A o \in Nat, k \in Nat \ {0} :
              Clean(t, o, k) /\ t.segment # "Native" /\ q >= k /\ o + (q - k) <= MaxQpc
                 => ~c.invalid /\ c.ticks = o + (q - k) /\ c.last = q
    BY <1>1, Closes, Zenon
  <1>3. u = [c EXCEPT !.segment = "Native", !.start = 0]
    BY <1>1, Zenon DEF EnterNative, Active
  <1>4. 0 \in 0..MaxQpc /\ "Native" \in Segments
    BY CallbackAssumption DEF Segments
  <1> HIDE DEF c, u
  <1>5. /\ u \in Measurement /\ u.phase = c.phase /\ u.segment = "Native" /\ u.parent = c.parent
        /\ u.ticks = c.ticks /\ u.last = c.last /\ (u.invalid <=> c.invalid)
    BY <1>2, <1>3, <1>4, Zenon DEF Measurement
  <1>6. t.segment # "Native"
    BY <1>1
  <1> QED
    BY <1>1, <1>2, <1>5, <1>6, Zenon DEF u, Going, Clean

\* Out of it: own time begins, and what passed in it is not counted.
LEMMA LeaveNativeIs ==
    ASSUME NEW t, Going(t, "Native", "None"), NEW q \in 0..MaxQpc
    PROVE  LET u == LeaveNative(t, q) IN
           /\ Going(u, "Own", "None")
           /\ t.invalid \/ ~Accepted(t, q) => u.invalid
           /\ \A o \in Nat, k \in Nat \ {0} : Clean(t, o, k) /\ q >= k => Clean(u, o, q)
  <1> DEFINE u == LeaveNative(t, q)
  <1>1. t \in Measurement /\ t.phase = "InProgress" /\ t.segment = "Native" /\ t.parent = "None"
    BY Zenon DEF Going
  <1>2. u = Opened(t, "Own", q)
    BY <1>1, Zenon DEF LeaveNative, Active, BeginOwn
  <1>3. "Own" \in Segments /\ q \in Nat
    BY CallbackAssumption DEF Segments
  <1> HIDE DEF u
  <1>4. /\ u \in Measurement /\ u.phase = t.phase /\ u.segment = "Own" /\ u.parent = t.parent
        /\ u.ticks = t.ticks
        /\ Accepted(t, q) => u.last = q /\ u.start = q /\ (u.invalid <=> t.invalid)
        /\ ~Accepted(t, q) => u.invalid
    <2>1. t \in Measurement /\ "Own" \in Segments
      BY <1>1, <1>3, Zenon
    <2>2. LET e == Opened(t, "Own", q) IN
          /\ e \in Measurement /\ e.phase = t.phase /\ e.segment = "Own" /\ e.parent = t.parent
          /\ e.ticks = t.ticks
          /\ Accepted(t, q) => e.last = q /\ e.start = q /\ (e.invalid <=> t.invalid)
          /\ ~Accepted(t, q) => e.invalid
      BY <2>1, OpenedIs, Zenon
    <2> QED
      BY <1>2, <2>2, Zenon
  <1>5. ASSUME NEW o \in Nat, NEW k \in Nat \ {0}, Clean(t, o, k), q >= k
        PROVE  Clean(u, o, q)
    <2>1. Accepted(t, q)
      BY <1>3, <1>5, LaterIsAccepted, Zenon
    <2> QED
      BY <1>4, <1>5, <2>1, Zenon DEF Clean
  <1> QED
    BY <1>1, <1>4, <1>5, Zenon DEF u, Going
-----------------------------------------------------------------------------
\* An exception comes to the filter: the segment it interrupts waits.
LEMMA BeginFilterIs ==
    ASSUME NEW t, NEW segment \in {"Own", "Native"}, Going(t, segment, "None"), NEW q \in 0..MaxQpc
    PROVE  LET u == BeginFilter(t, q) IN
           /\ Going(u, "Filter", segment)
           /\ t.invalid \/ ~Accepted(t, q) => u.invalid
           /\ \A o \in Nat, k \in Nat \ {0} :
                 Clean(t, o, k) /\ q >= k /\ o + (q - k) <= MaxQpc
                    => Clean(u, IF segment = "Own" THEN o + (q - k) ELSE o, q)
  <1> DEFINE closed == IF t.segment = "Own" THEN CloseOwn(Endpoint(t, q), q) ELSE Endpoint(t, q)
             u == BeginFilter(t, q)
  <1>1. t \in Measurement /\ t.phase = "InProgress" /\ t.segment = segment /\ t.parent = "None"
    BY Zenon DEF Going
  <1>2. PICK from : from = IF Accepted(t, q) THEN q ELSE 0
    BY Zenon
  <1>3. from \in 0..MaxQpc /\ (Accepted(t, q) => from = q) /\ q \in Nat
    <2>1. 0 \in 0..MaxQpc /\ q \in Nat
      BY CallbackAssumption
    <2> QED
      BY <1>2, <2>1, Zenon
  <1>4. u = [closed EXCEPT !.parent = segment, !.segment = "Filter", !.start = from]
    <2>1. t.segment \in {"Own", "Native"}
      BY <1>1, Zenon
    <2> QED
      BY <1>1, <1>2, <2>1, Zenon DEF BeginFilter, Active
  <1>5. "Filter" \in Segments /\ segment \in Segments
    BY DEF Segments
  <1>6. CASE segment = "Own"
    <2>1. closed = CloseOwn(Endpoint(t, q), q)
      BY <1>1, <1>6, Zenon
    <2> DEFINE c == CloseOwn(Endpoint(t, q), q)
    <2>2. /\ c \in Measurement /\ c.phase = t.phase /\ c.segment = t.segment /\ c.parent = t.parent
          /\ t.invalid \/ ~Accepted(t, q) => c.invalid
          /\ \A o \in Nat, k \in Nat \ {0} :
                Clean(t, o, k) /\ t.segment # "Native" /\ q >= k /\ o + (q - k) <= MaxQpc
                   => ~c.invalid /\ c.ticks = o + (q - k) /\ c.last = q
      BY <1>1, Closes, Zenon
    <2>3. u = [c EXCEPT !.parent = segment, !.segment = "Filter", !.start = from]
      BY <1>4, <2>1, Zenon
    <2> HIDE DEF c, u, closed
    <2>4. /\ u \in Measurement /\ u.phase = c.phase /\ u.segment = "Filter" /\ u.parent = segment
          /\ u.ticks = c.ticks /\ u.last = c.last /\ u.start = from /\ (u.invalid <=> c.invalid)
      BY <1>3, <1>5, <2>2, <2>3, Zenon DEF Measurement
    <2>5. t.segment # "Native"
      BY <1>1, <1>6
    <2>6. ASSUME NEW o \in Nat, NEW k \in Nat \ {0}, Clean(t, o, k), q >= k, o + (q - k) <= MaxQpc
          PROVE  Clean(u, o + (q - k), q)
      <3>1. Accepted(t, q)
        BY <1>3, <2>6, LaterIsAccepted, Zenon
      <3> QED
        BY <1>3, <2>2, <2>4, <2>5, <2>6, <3>1, Zenon DEF Clean
    <2> QED
      BY <1>1, <1>6, <2>2, <2>4, <2>6, Zenon DEF u, Going
  <1>7. CASE segment = "Native"
    <2> DEFINE e == Endpoint(t, q)
    <2>1. closed = e
      BY <1>1, <1>7
    <2>2. /\ e \in Measurement /\ e.phase = t.phase /\ e.segment = t.segment /\ e.parent = t.parent
          /\ e.ticks = t.ticks /\ e.start = t.start
          /\ Accepted(t, q) => e.last = q /\ (e.invalid <=> t.invalid)
          /\ ~Accepted(t, q) => e.invalid
      BY <1>1, EndpointIs, Zenon
    <2>3. u = [e EXCEPT !.parent = segment, !.segment = "Filter", !.start = from]
      BY <1>4, <2>1, Zenon
    <2> HIDE DEF e, u, closed
    <2>4. /\ u \in Measurement /\ u.phase = e.phase /\ u.segment = "Filter" /\ u.parent = segment
          /\ u.ticks = e.ticks /\ u.last = e.last /\ u.start = from /\ (u.invalid <=> e.invalid)
      BY <1>3, <1>5, <2>2, <2>3, Zenon DEF Measurement
    <2>5. segment # "Own"
      BY <1>7
    <2>6. ASSUME NEW o \in Nat, NEW k \in Nat \ {0}, Clean(t, o, k), q >= k
          PROVE  Clean(u, o, q)
      <3>1. Accepted(t, q)
        BY <1>3, <2>6, LaterIsAccepted, Zenon
      <3> QED
        BY <1>3, <2>2, <2>4, <2>6, <3>1, Zenon DEF Clean
    <2> QED
      BY <1>1, <2>2, <2>4, <2>5, <2>6, Zenon DEF u, Going
  <1> QED
    BY <1>6, <1>7

\* It declines: its own time ends, and the segment it interrupted goes on.
LEMMA EndFilterIs ==
    ASSUME NEW t, NEW segment \in {"Own", "Native"}, Going(t, "Filter", segment), NEW q \in 0..MaxQpc
    PROVE  LET u == EndFilter(t, q) IN
           /\ Going(u, segment, "None")
           /\ t.invalid \/ ~Accepted(t, q) => u.invalid
           /\ \A o \in Nat, k \in Nat \ {0} :
                 Clean(t, o, k) /\ q >= k /\ o + (q - k) <= MaxQpc => Clean(u, o + (q - k), q)
  <1> DEFINE c == CloseOwn(Endpoint(t, q), q)
             u == EndFilter(t, q)
  <1>1. t \in Measurement /\ t.phase = "InProgress" /\ t.segment = "Filter" /\ t.parent = segment
    BY Zenon DEF Going
  <1>2. PICK from : from = IF t.parent = "Own" /\ Accepted(t, q) THEN q ELSE 0
    BY Zenon
  <1>3. from \in 0..MaxQpc /\ (segment = "Own" /\ Accepted(t, q) => from = q) /\ q \in Nat
    <2>1. 0 \in 0..MaxQpc /\ q \in Nat
      BY CallbackAssumption
    <2> QED
      BY <1>1, <1>2, <2>1, Zenon
  <1>4. /\ c \in Measurement /\ c.phase = t.phase /\ c.segment = t.segment /\ c.parent = t.parent
        /\ t.invalid \/ ~Accepted(t, q) => c.invalid
        /\ \A o \in Nat, k \in Nat \ {0} :
              Clean(t, o, k) /\ t.segment # "Native" /\ q >= k /\ o + (q - k) <= MaxQpc
                 => ~c.invalid /\ c.ticks = o + (q - k) /\ c.last = q
    BY <1>1, Closes, Zenon
  <1>5. u = [c EXCEPT !.segment = segment, !.parent = "None", !.start = from]
    <2>1. t.parent \in {"Own", "Native"}
      BY <1>1, Zenon
    <2> QED
      BY <1>1, <1>2, <2>1, Zenon DEF EndFilter, Active
  <1>6. "None" \in Segments /\ segment \in Segments /\ t.segment # "Native"
    BY <1>1 DEF Segments
  <1> HIDE DEF c, u
  <1>7. /\ u \in Measurement /\ u.phase = c.phase /\ u.segment = segment /\ u.parent = "None"
        /\ u.ticks = c.ticks /\ u.last = c.last /\ u.start = from /\ (u.invalid <=> c.invalid)
    BY <1>3, <1>4, <1>5, <1>6, Zenon DEF Measurement
  <1>8. ASSUME NEW o \in Nat, NEW k \in Nat \ {0}, Clean(t, o, k), q >= k, o + (q - k) <= MaxQpc
        PROVE  Clean(u, o + (q - k), q)
    <2>1. Accepted(t, q)
      BY <1>3, <1>8, LaterIsAccepted, Zenon
    <2>2. ~u.invalid /\ u.ticks = o + (q - k) /\ u.last = q
      BY <1>4, <1>6, <1>7, <1>8, Zenon
    <2>3. u.segment # "Native" => u.start = q
      BY <1>3, <1>7, <2>1, Zenon
    <2> QED
      BY <2>2, <2>3, Zenon DEF Clean
  <1> QED
    BY <1>1, <1>4, <1>7, <1>8, Zenon DEF u, Going

\* The handler: own time begins, and the system's time before it is not counted.
LEMMA BeginUnwindIs ==
    ASSUME NEW t, NEW segment \in {"Own", "Native"}, Going(t, segment, "None"), NEW q \in 0..MaxQpc
    PROVE  LET u == BeginUnwind(t, q) IN
           /\ Going(u, "Own", "None")
           /\ t.invalid \/ ~Accepted(t, q) => u.invalid
           /\ \A o \in Nat, k \in Nat \ {0} : Clean(t, o, k) /\ q >= k => Clean(u, o, q)
  <1> DEFINE e == Endpoint(t, q)
             u == BeginUnwind(t, q)
  <1>1. t \in Measurement /\ t.phase = "InProgress" /\ t.segment = segment /\ t.parent = "None"
    BY Zenon DEF Going
  <1>2. /\ e \in Measurement /\ e.phase = t.phase /\ e.segment = t.segment /\ e.parent = t.parent
        /\ e.ticks = t.ticks /\ e.start = t.start
        /\ Accepted(t, q) => e.last = q /\ (e.invalid <=> t.invalid)
        /\ ~Accepted(t, q) => e.invalid
    BY <1>1, EndpointIs, Zenon
  <1>3. u = Opened(e, "Own", q)
    <2>1. t.segment \in {"Own", "Native"}
      BY <1>1, Zenon
    <2> QED
      BY <1>1, <2>1, Zenon DEF BeginUnwind, Active, BeginOwn
  <1>4. "Own" \in Segments /\ q \in Nat
    BY CallbackAssumption DEF Segments
  <1> HIDE DEF e, u
  <1>5. /\ u \in Measurement /\ u.phase = e.phase /\ u.segment = "Own" /\ u.parent = e.parent
        /\ u.ticks = e.ticks
        /\ Accepted(e, q) => u.last = q /\ u.start = q /\ (u.invalid <=> e.invalid)
        /\ ~Accepted(e, q) => u.invalid
    BY <1>2, <1>3, <1>4, OpenedIs, ZenonT(30)
  <1>6. t.invalid \/ ~Accepted(t, q) => u.invalid
    BY <1>2, <1>5, Zenon
  <1>7. ASSUME NEW o \in Nat, NEW k \in Nat \ {0}, Clean(t, o, k), q >= k
        PROVE  Clean(u, o, q)
    <2>1. Accepted(t, q)
      BY <1>4, <1>7, LaterIsAccepted, Zenon
    <2>2. e.last = q /\ ~e.invalid /\ e.ticks = o
      BY <1>2, <1>7, <2>1, Zenon DEF Clean
    <2>3. q # 0 /\ q >= q
      BY <1>4, <1>7
    <2>4. Accepted(e, q)
      BY <2>2, <2>3, Zenon DEF Accepted
    <2> QED
      BY <1>5, <2>2, <2>4, Zenon DEF Clean
  <1> QED
    BY <1>1, <1>2, <1>5, <1>6, <1>7, Zenon DEF u, Going

\* The end: the ticks that are reported, or none.
LEMMA FinalizeIs ==
    ASSUME NEW t, Going(t, "Own", "None"), NEW q \in 0..MaxQpc
    PROVE  LET u == Finalize(t, q) IN
           /\ u \in Measurement
           /\ t.invalid \/ ~Accepted(t, q) => u.phase = "CompleteInvalid" /\ u.ticks = 0
           /\ \A o \in Nat, k \in Nat \ {0} :
                 Clean(t, o, k) /\ q >= k /\ o + (q - k) <= MaxQpc
                    => u.phase = "CompleteValid" /\ u.ticks = o + (q - k)
  <1> DEFINE c == CloseOwn(Endpoint(t, q), q)
             u == Finalize(t, q)
  <1>1. t \in Measurement /\ t.phase = "InProgress" /\ t.segment = "Own" /\ t.parent = "None"
    BY Zenon DEF Going
  <1>2. /\ c \in Measurement /\ c.phase = t.phase /\ c.segment = t.segment /\ c.parent = t.parent
        /\ t.invalid \/ ~Accepted(t, q) => c.invalid
        /\ \A o \in Nat, k \in Nat \ {0} :
              Clean(t, o, k) /\ t.segment # "Native" /\ q >= k /\ o + (q - k) <= MaxQpc
                 => ~c.invalid /\ c.ticks = o + (q - k) /\ c.last = q
    BY <1>1, Closes, Zenon
  <1>3. PICK phase, n : phase = (IF c.invalid THEN "CompleteInvalid" ELSE "CompleteValid")
                     /\ n = (IF c.invalid THEN 0 ELSE c.ticks)
    BY Zenon
  <1>4. u = [c EXCEPT !.phase = phase, !.ticks = n, !.segment = "None", !.parent = "None", !.start = 0]
    <2>1. ~(t.segment # "Own" \/ t.parent # "None") /\ Active(t)
      BY <1>1, Zenon DEF Active
    <2> QED
      BY <1>3, <2>1, Zenon DEF Finalize
  <1>5. c.ticks \in 0..MaxQpc
    BY <1>2, Fields, Zenon
  <1>6. 0 \in 0..MaxQpc /\ "None" \in Segments /\ "CompleteInvalid" \in Phases /\ "CompleteValid" \in Phases
    BY CallbackAssumption DEF Segments, Phases
  <1>7. t.segment # "Native"
    BY <1>1
  <1> HIDE DEF c, u
  <1>8. phase \in Phases /\ n \in 0..MaxQpc
    BY <1>3, <1>5, <1>6, Zenon
  <1>9. u \in Measurement /\ u.phase = phase /\ u.ticks = n
    BY <1>2, <1>4, <1>6, <1>8, Zenon DEF Measurement
  <1>10. ASSUME t.invalid \/ ~Accepted(t, q)
         PROVE  u.phase = "CompleteInvalid" /\ u.ticks = 0
    BY <1>2, <1>3, <1>9, <1>10, Zenon
  <1>11. ASSUME NEW o \in Nat, NEW k \in Nat \ {0}, Clean(t, o, k), q >= k, o + (q - k) <= MaxQpc
         PROVE  u.phase = "CompleteValid" /\ u.ticks = o + (q - k)
    BY <1>2, <1>3, <1>7, <1>9, <1>11, Zenon
  <1> QED
    BY <1>9, <1>10, <1>11, Zenon DEF u
-----------------------------------------------------------------------------
\* The clock and what is read of it: the time, or something that is not accepted.
LEMMA ReadingIs ==
    ASSUME CallbackInv, Ticks, NEW q \in Readings
    PROVE  /\ clock \in Nat \ {0} /\ clock' \in Nat \ {0} /\ clock' \in 0..MaxQpc
           /\ clock' = clock \/ clock' = clock + 1
           /\ clock' >= clock /\ own \in Nat /\ own < clock /\ own + (clock' - clock) <= MaxQpc
           /\ q \in 0..MaxQpc
           /\ q # clock' => ~Accepted(measure, q)
  <1>1. clock \in 0..MaxQpc /\ clock >= 1 /\ own \in 0..MaxQpc /\ own < clock /\ measure \in Measurement
    BY Zenon DEF CallbackInv, CallbackTypeOK
  <1>2. measure.last \in 0..MaxQpc
    BY <1>1, Fields, Zenon
  <1>3. clock' = clock \/ clock' = clock + 1
    BY DEF Ticks
  <1>4. clock' <= MaxQpc
    BY Zenon DEF Ticks
  <1>5. q \in Nat /\ (q = clock' \/ q = 0 \/ q = measure.last - 1)
    BY Zenon DEF Readings
  <1>6. PICK last : last = measure.last
    BY Zenon
  <1>7. last \in 0..MaxQpc /\ (q = clock' \/ q = 0 \/ q = last - 1)
    BY <1>2, <1>5, <1>6, Zenon
  <1>8. clock \in Nat \ {0} /\ clock' \in Nat \ {0} /\ clock' \in 0..MaxQpc /\ clock' >= clock /\ own \in Nat
    BY <1>1, <1>3, <1>4, CallbackAssumption
  <1>9. q \in 0..MaxQpc
    BY <1>5, <1>7, <1>8, CallbackAssumption
  <1>10. q # clock' => ~(q # 0 /\ q >= last)
    BY <1>5, <1>7
  <1>11. own + (clock' - clock) <= MaxQpc
    <2>1. PICK o, k, c : o = own /\ k = clock /\ c = clock'
      BY Zenon
    <2>2. k \in Nat /\ c \in Nat /\ o \in Nat /\ o < k /\ c \in 0..MaxQpc /\ (c = k \/ c = k + 1)
      BY <1>1, <1>3, <1>8, <2>1, Zenon
    <2>3. o + (c - k) <= MaxQpc
      BY <2>2, CallbackAssumption
    <2> QED
      BY <2>1, <2>3, Zenon
  <1> QED
    BY <1>1, <1>3, <1>6, <1>8, <1>9, <1>10, <1>11, Zenon DEF Accepted

\* A step of the first callback, short of its end, and what it must respect.
LEMMA FirstStep ==
    ASSUME CallbackInv, measure.phase = "InProgress", Ticks, NEW q \in Readings,
           disturbed' <=> (disturbed \/ (First /\ q # clock')),
           own' = own + (clock' - clock) \/ own' = own,
           measure.invalid \/ ~Accepted(measure, q) => measure'.invalid,
           Clean(measure, own, clock) /\ q = clock' => Clean(measure', own', clock'),
           callbacks' = callbacks, SegmentFits',
           place' \in {"own", "native", "handler"}, search' \in {"none", "filter", "declined"},
           search' # "none" => place' \in {"own", "native"},
           filters' \in 0..MaxFilters, forwarded' \in BOOLEAN, disturbed' \in BOOLEAN
    PROVE  CallbackInv'
  <1>1. /\ clock \in Nat \ {0} /\ clock' \in Nat \ {0} /\ clock' \in 0..MaxQpc
        /\ clock' = clock \/ clock' = clock + 1
        /\ clock' >= clock /\ own \in Nat /\ own < clock
        /\ q \in 0..MaxQpc
        /\ q # clock' => ~Accepted(measure, q)
    BY ReadingIs, Zenon
  <1>2. measure' \in Measurement /\ measure'.phase = "InProgress"
    BY Zenon DEF SegmentFits, Going
  <1>3. own' \in 0..MaxQpc /\ own' < clock' /\ clock' >= 1 /\ own + (clock' - clock) <= MaxQpc
    <2>1. PICK o, n, k, c : o = own /\ n = own' /\ k = clock /\ c = clock'
      BY Zenon
    <2>2. /\ k \in Nat \ {0} /\ c \in Nat \ {0} /\ c \in 0..MaxQpc /\ o \in Nat /\ o < k
          /\ c = k \/ c = k + 1
          /\ n = o + (c - k) \/ n = o
      BY <1>1, <2>1, Zenon
    <2>3. n \in 0..MaxQpc /\ n < c /\ c >= 1 /\ o + (c - k) <= MaxQpc
      BY <2>2, CallbackAssumption
    <2> QED
      BY <2>1, <2>3, Zenon
  <1>4. callbacks = 1
    BY Zenon DEF CallbackInv, FirstOnly
  <1>5. First
    BY <1>4 DEF First
  <1>6. CallbackTypeOK'
    <2>1. callbacks' \in 0..MaxCallbacks
      BY Zenon DEF CallbackInv, CallbackTypeOK
    <2>2. place' \in {"outside", "own", "native", "handler"}
      OBVIOUS
    <2> QED
      BY <1>1, <1>2, <1>3, <2>1, <2>2, Zenon DEF CallbackTypeOK
  <1>7. FirstOnly'
    <2>1. callbacks' = 1 /\ callbacks' # 0 /\ place' # "outside"
      BY <1>4
    <2>2. measure'.phase # "NotEntered"
      BY <1>2
    <2> QED
      BY <1>2, <2>1, <2>2, Zenon DEF FirstOnly
  <1>8. ExactOrNothing'
    <2>1. measure'.phase # "CompleteValid" /\ measure'.phase # "CompleteInvalid"
      BY <1>2
    <2> QED
      BY <2>1, Zenon DEF ExactOrNothing
  <1>9. (measure.invalid <=> disturbed) /\ (~disturbed => Clean(measure, own, clock))
    BY Zenon DEF CallbackInv
  <1>10. CASE disturbed'
    <2>1. measure.invalid \/ ~Accepted(measure, q)
      BY <1>1, <1>9, <1>10, Zenon
    <2>2. measure'.invalid
      BY <2>1, Zenon
    <2> QED
      BY <1>2, <1>3, <1>6, <1>7, <1>8, <1>10, <2>2, Zenon DEF CallbackInv
  <1>11. CASE ~disturbed'
    <2>1. ~disturbed /\ q = clock'
      BY <1>5, <1>11, Zenon
    <2>2. Clean(measure, own, clock)
      BY <1>9, <2>1, Zenon
    <2>3. Clean(measure', own', clock')
      BY <2>1, <2>2, Zenon
    <2>4. ~measure'.invalid
      BY <2>3, Zenon DEF Clean
    <2> QED
      BY <1>2, <1>3, <1>6, <1>7, <1>8, <1>11, <2>3, <2>4, Zenon DEF CallbackInv
  <1> QED
    BY <1>10, <1>11, Zenon

\* A step of a later callback leaves the measurement alone, and so what it measured.
LEMMA LaterStep ==
    ASSUME CallbackInv, measure.phase # "InProgress", place # "outside", Ticks, NEW q \in Readings,
           NEW spends, Reads(q, spends), measure' = measure, callbacks' = callbacks,
           place' \in {"outside", "own", "handler"}, search' \in {"none", "filter", "declined"},
           search' # "none" => place' = "own",
           filters' \in 0..MaxFilters, forwarded' \in BOOLEAN
    PROVE  CallbackInv'
  <1>1. /\ clock \in Nat \ {0} /\ clock' \in Nat \ {0} /\ clock' \in 0..MaxQpc
        /\ clock' >= clock /\ own \in Nat /\ own < clock
    BY ReadingIs, Zenon
  <1>2. callbacks # 0 /\ callbacks # 1 /\ callbacks \in 0..MaxCallbacks
    BY Zenon DEF CallbackInv, FirstOnly, CallbackTypeOK
  <1>3. ~First
    BY <1>2, CallbackAssumption DEF First
  <1>4. own' = own /\ (disturbed' <=> disturbed) /\ disturbed' \in BOOLEAN
    <2>1. own' = own
      BY <1>3, Zenon DEF Reads
    <2>2. disturbed \in BOOLEAN /\ disturbed' = disturbed
      BY <1>3, Zenon DEF Reads, CallbackInv, CallbackTypeOK
    <2> QED
      BY <2>1, <2>2, Zenon
  <1>5. own' < clock' /\ clock' >= 1
    BY <1>1, <1>4
  <1>6. CallbackTypeOK'
    <2>1. place' \in {"outside", "own", "native", "handler"}
      OBVIOUS
    <2> QED
      BY <1>1, <1>4, <2>1, Zenon DEF CallbackTypeOK, CallbackInv
  <1>7. FirstOnly'
    <2>1. callbacks' # 0 /\ callbacks' # 1 /\ place' # "native"
      BY <1>2
    <2>2. measure'.phase # "NotEntered" /\ measure'.phase # "InProgress"
      BY <1>2, Zenon DEF CallbackInv, FirstOnly
    <2>3. search' # "none" => place' \in {"own", "native"}
      BY Zenon
    <2> QED
      BY <2>1, <2>2, <2>3, Zenon DEF FirstOnly
  <1>8. ExactOrNothing'
    BY <1>4, Zenon DEF CallbackInv, ExactOrNothing
  <1> QED
    BY <1>5, <1>6, <1>7, <1>8, Zenon DEF CallbackInv
-----------------------------------------------------------------------------
\* Into the game's callback.
LEMMA CallbackForwardKeeps == CallbackInv /\ Forward => CallbackInv'
  <1> SUFFICES ASSUME CallbackInv, Forward PROVE CallbackInv'
    OBVIOUS
  <1>1. PICK q \in Readings : Reads(q, TRUE) /\ measure' = EnterNative(measure, q)
    BY Zenon DEF Forward
  <1>2. /\ place = "own" /\ search # "filter" /\ callbacks = 1 /\ Ticks
        /\ forwarded' = TRUE /\ place' = "native" /\ search' = "none"
        /\ callbacks' = callbacks /\ filters' = filters
    BY Zenon DEF Forward
  <1>3. /\ clock \in Nat \ {0} /\ clock' \in 0..MaxQpc /\ clock' >= clock /\ own \in Nat
        /\ q \in 0..MaxQpc /\ own < clock /\ own + (clock' - clock) <= MaxQpc
    BY <1>2, ReadingIs, Zenon
  <1>4. measure.phase = "InProgress" /\ Going(measure, "Own", "None") /\ filters \in 0..MaxFilters
    <2>1. place # "outside" /\ place # "native"
      BY <1>2
    <2>2. measure.phase = "InProgress"
      BY <1>2, <2>1, Zenon DEF CallbackInv, FirstOnly
    <2>3. SegmentFits /\ Where = "Own"
      BY <2>1, <2>2, Zenon DEF CallbackInv, Where
    <2> QED
      BY <1>2, <2>2, <2>3, Zenon DEF SegmentFits, CallbackInv, CallbackTypeOK
  <1>5. /\ Going(measure', "Native", "None")
        /\ measure.invalid \/ ~Accepted(measure, q) => measure'.invalid
        /\ Clean(measure, own, clock) /\ q >= clock /\ own + (q - clock) <= MaxQpc
              => Clean(measure', own + (q - clock), q)
    BY <1>1, <1>3, <1>4, EnterNativeIs, Zenon
  <1>6. First
    BY <1>2 DEF First
  <1>7. own' = own + (clock' - clock) /\ (disturbed' <=> (disturbed \/ (First /\ q # clock')))
        /\ disturbed' \in BOOLEAN
    BY <1>1, <1>6, Zenon DEF Reads
  <1>8. Clean(measure, own, clock) /\ q = clock' => Clean(measure', own', clock')
    BY <1>3, <1>5, <1>7, Zenon
  <1>9. SegmentFits'
    <2>1. Where' = "Native" /\ search' # "filter"
      BY <1>2 DEF Where
    <2> QED
      BY <1>5, <2>1, Zenon DEF SegmentFits
  <1>10. /\ place' \in {"own", "native", "handler"} /\ search' \in {"none", "filter", "declined"}
         /\ (search' # "none" => place' \in {"own", "native"}) /\ forwarded' \in BOOLEAN
         /\ filters' \in 0..MaxFilters
    BY <1>2, <1>4, Zenon
  <1> QED
    BY <1>2, <1>4, <1>5, <1>7, <1>8, <1>9, <1>10, FirstStep, Zenon

\* Out of it.
LEMMA ReturnKeeps == CallbackInv /\ Return => CallbackInv'
  <1> SUFFICES ASSUME CallbackInv, Return PROVE CallbackInv'
    OBVIOUS
  <1>1. PICK q \in Readings : Reads(q, FALSE) /\ measure' = LeaveNative(measure, q)
    BY Zenon DEF Return
  <1>2. /\ place = "native" /\ search # "filter" /\ Ticks /\ place' = "own" /\ search' = "none"
        /\ callbacks' = callbacks /\ filters' = filters /\ forwarded' = forwarded
    BY Zenon DEF Return
  <1>3. /\ clock \in Nat \ {0} /\ clock' \in 0..MaxQpc /\ clock' >= clock /\ own \in Nat /\ q \in 0..MaxQpc
    BY <1>2, ReadingIs, Zenon
  <1>4. /\ measure.phase = "InProgress" /\ Going(measure, "Native", "None")
        /\ filters \in 0..MaxFilters /\ forwarded \in BOOLEAN
    <2>1. place # "outside" /\ Where = "Native"
      BY <1>2 DEF Where
    <2>2. measure.phase = "InProgress"
      BY <1>2, <2>1, Zenon DEF CallbackInv, FirstOnly
    <2> QED
      BY <1>2, <2>1, <2>2, Zenon DEF SegmentFits, CallbackInv, CallbackTypeOK
  <1>5. /\ Going(measure', "Own", "None")
        /\ measure.invalid \/ ~Accepted(measure, q) => measure'.invalid
        /\ Clean(measure, own, clock) /\ q >= clock => Clean(measure', own, q)
    BY <1>1, <1>3, <1>4, LeaveNativeIs, Zenon
  <1>6. own' = own /\ (disturbed' <=> (disturbed \/ (First /\ q # clock'))) /\ disturbed' \in BOOLEAN
    BY <1>1, Zenon DEF Reads
  <1>7. Clean(measure, own, clock) /\ q = clock' => Clean(measure', own', clock')
    BY <1>3, <1>5, <1>6, Zenon
  <1>8. SegmentFits'
    <2>1. Where' = "Own" /\ search' # "filter"
      BY <1>2 DEF Where
    <2> QED
      BY <1>5, <2>1, Zenon DEF SegmentFits
  <1>9. /\ place' \in {"own", "native", "handler"} /\ search' \in {"none", "filter", "declined"}
        /\ (search' # "none" => place' \in {"own", "native"}) /\ forwarded' \in BOOLEAN
        /\ filters' \in 0..MaxFilters
    BY <1>2, <1>4, Zenon
  <1> QED
    BY <1>2, <1>4, <1>5, <1>6, <1>7, <1>8, <1>9, FirstStep, Zenon

\* An exception comes to the filter.
LEMMA RaiseKeeps == CallbackInv /\ Raise => CallbackInv'
  <1> SUFFICES ASSUME CallbackInv, Raise PROVE CallbackInv'
    OBVIOUS
  <1>1. PICK q \in Readings : Reads(q, place = "own") /\ measure' = BeginFilter(measure, q)
    BY Zenon DEF Raise
  <1>2. /\ place \in {"own", "native"} /\ search # "filter" /\ filters < MaxFilters /\ Ticks
        /\ place' = place /\ search' = "filter"
        /\ callbacks' = callbacks /\ filters' = filters + 1 /\ forwarded' = forwarded
    BY Zenon DEF Raise
  <1>3. /\ clock \in Nat \ {0} /\ clock' \in 0..MaxQpc /\ clock' >= clock /\ own \in Nat
        /\ q \in 0..MaxQpc /\ own + (clock' - clock) <= MaxQpc
    BY <1>2, ReadingIs, Zenon
  <1>4. filters' \in 0..MaxFilters /\ forwarded' \in BOOLEAN /\ place # "outside"
    <2>1. filters \in 0..MaxFilters /\ forwarded \in BOOLEAN
      BY Zenon DEF CallbackInv, CallbackTypeOK
    <2>2. filters' \in 0..MaxFilters /\ place # "outside"
      BY <1>2, <2>1, CallbackAssumption
    <2> QED
      BY <1>2, <2>1, <2>2, Zenon
  <1>5. CASE measure.phase = "InProgress"
    <2>1. PICK segment : segment = Where
      BY Zenon
    <2>2. segment \in {"Own", "Native"} /\ (segment = "Own" <=> place = "own")
      BY <1>2, <2>1 DEF Where
    <2>3. Going(measure, segment, "None")
      BY <1>2, <1>5, <2>1, Zenon DEF SegmentFits, CallbackInv
    <2>4. /\ Going(measure', "Filter", segment)
          /\ measure.invalid \/ ~Accepted(measure, q) => measure'.invalid
          /\ Clean(measure, own, clock) /\ q >= clock /\ own + (q - clock) <= MaxQpc
                => Clean(measure', IF segment = "Own" THEN own + (q - clock) ELSE own, q)
      BY <1>1, <1>3, <2>2, <2>3, BeginFilterIs, Zenon
    <2>5. First
      <3>1. callbacks = 1
        BY <1>5, Zenon DEF CallbackInv, FirstOnly
      <3> QED
        BY <3>1 DEF First
    <2>6. /\ own' = (IF segment = "Own" THEN own + (clock' - clock) ELSE own)
          /\ (disturbed' <=> (disturbed \/ (First /\ q # clock'))) /\ disturbed' \in BOOLEAN
      BY <1>1, <2>2, <2>5, Zenon DEF Reads
    <2>7. Clean(measure, own, clock) /\ q = clock' => Clean(measure', own', clock')
      BY <1>3, <2>4, <2>6, Zenon
    <2>8. own' = own + (clock' - clock) \/ own' = own
      BY <2>6, Zenon
    <2>9. SegmentFits'
      <3>1. Where' = segment /\ search' = "filter"
        BY <1>2, <2>1, Zenon DEF Where
      <3> QED
        BY <2>4, <3>1, Zenon DEF SegmentFits
    <2>10. /\ place' \in {"own", "native", "handler"} /\ search' \in {"none", "filter", "declined"}
           /\ (search' # "none" => place' \in {"own", "native"})
      BY <1>2, Zenon
    <2> QED
      BY <1>2, <1>4, <1>5, <2>4, <2>6, <2>7, <2>8, <2>9, <2>10, FirstStep, Zenon
  <1>6. CASE measure.phase # "InProgress"
    <2>1. measure' = measure
      BY <1>1, <1>6, Zenon DEF BeginFilter, Active
    <2>2. place = "own"
      <3>1. place # "native"
        BY <1>2, <1>4, <1>6, Zenon DEF CallbackInv, FirstOnly
      <3> QED
        BY <1>2, <3>1, Zenon
    <2>3. /\ place' \in {"outside", "own", "handler"} /\ search' \in {"none", "filter", "declined"}
          /\ (search' # "none" => place' = "own")
      BY <1>2, <2>2, Zenon
    <2>4. PICK spends : spends = (place = "own")
      BY Zenon
    <2>5. Reads(q, spends)
      BY <1>1, <2>4, Zenon
    <2> QED
      BY <1>2, <1>4, <1>6, <2>1, <2>3, <2>5, LaterStep, Zenon
  <1> QED
    BY <1>5, <1>6, Zenon

\* The filter declines it.
LEMMA FilterDeclinesKeeps == CallbackInv /\ FilterDeclines => CallbackInv'
  <1> SUFFICES ASSUME CallbackInv, FilterDeclines PROVE CallbackInv'
    OBVIOUS
  <1>1. PICK q \in Readings : Reads(q, TRUE) /\ measure' = EndFilter(measure, q)
    BY Zenon DEF FilterDeclines
  <1>2. /\ search = "filter" /\ Ticks /\ place' = place /\ search' = "declined"
        /\ callbacks' = callbacks /\ filters' = filters /\ forwarded' = forwarded
    BY Zenon DEF FilterDeclines
  <1>3. /\ clock \in Nat \ {0} /\ clock' \in 0..MaxQpc /\ clock' >= clock /\ own \in Nat
        /\ q \in 0..MaxQpc /\ own + (clock' - clock) <= MaxQpc
    BY <1>2, ReadingIs, Zenon
  <1>4. filters' \in 0..MaxFilters /\ forwarded' \in BOOLEAN /\ place \in {"own", "native"}
    <2>1. search # "none"
      BY <1>2
    <2> QED
      BY <1>2, <2>1, Zenon DEF CallbackInv, CallbackTypeOK, FirstOnly
  <1>5. CASE measure.phase = "InProgress"
    <2>1. PICK segment : segment = Where
      BY Zenon
    <2>2. segment \in {"Own", "Native"}
      BY <2>1 DEF Where
    <2>3. Going(measure, "Filter", segment)
      BY <1>2, <1>5, <2>1, Zenon DEF SegmentFits, CallbackInv
    <2>4. /\ Going(measure', segment, "None")
          /\ measure.invalid \/ ~Accepted(measure, q) => measure'.invalid
          /\ Clean(measure, own, clock) /\ q >= clock /\ own + (q - clock) <= MaxQpc
                => Clean(measure', own + (q - clock), q)
      BY <1>1, <1>3, <2>2, <2>3, EndFilterIs, Zenon
    <2>5. First
      <3>1. callbacks = 1
        BY <1>5, Zenon DEF CallbackInv, FirstOnly
      <3> QED
        BY <3>1 DEF First
    <2>6. /\ own' = own + (clock' - clock)
          /\ (disturbed' <=> (disturbed \/ (First /\ q # clock'))) /\ disturbed' \in BOOLEAN
      BY <1>1, <2>5, Zenon DEF Reads
    <2>7. Clean(measure, own, clock) /\ q = clock' => Clean(measure', own', clock')
      BY <1>3, <2>4, <2>6, Zenon
    <2>8. SegmentFits'
      <3>1. Where' = segment /\ search' # "filter"
        BY <1>2, <2>1 DEF Where
      <3> QED
        BY <2>4, <3>1, Zenon DEF SegmentFits
    <2>9. /\ place' \in {"own", "native", "handler"} /\ search' \in {"none", "filter", "declined"}
          /\ (search' # "none" => place' \in {"own", "native"})
      BY <1>2, <1>4, Zenon
    <2> QED
      BY <1>2, <1>4, <1>5, <2>4, <2>6, <2>7, <2>8, <2>9, FirstStep, Zenon
  <1>6. CASE measure.phase # "InProgress"
    <2>1. measure' = measure
      BY <1>1, <1>6, Zenon DEF EndFilter, Active
    <2>2. place = "own" /\ place # "outside"
      <3>1. place # "outside"
        BY <1>4
      <3>2. place # "native"
        BY <1>6, <3>1, Zenon DEF CallbackInv, FirstOnly
      <3> QED
        BY <1>4, <3>1, <3>2, Zenon
    <2>3. /\ place' \in {"outside", "own", "handler"} /\ search' \in {"none", "filter", "declined"}
          /\ (search' # "none" => place' = "own")
      BY <1>2, <2>2, Zenon
    <2> QED
      BY <1>1, <1>2, <1>4, <1>6, <2>1, <2>2, <2>3, LaterStep, Zenon
  <1> QED
    BY <1>5, <1>6, Zenon

\* The handler of an outer frame unwinds the callback.
LEMMA UnwindKeeps == CallbackInv /\ Unwind => CallbackInv'
  <1> SUFFICES ASSUME CallbackInv, Unwind PROVE CallbackInv'
    OBVIOUS
  <1>1. PICK q \in Readings : Reads(q, FALSE) /\ measure' = BeginUnwind(measure, q)
    BY Zenon DEF Unwind
  <1>2. /\ search = "declined" /\ Ticks /\ place' = "handler" /\ search' = "none"
        /\ callbacks' = callbacks /\ filters' = filters /\ forwarded' = forwarded
    BY Zenon DEF Unwind
  <1>3. /\ clock \in Nat \ {0} /\ clock' \in 0..MaxQpc /\ clock' >= clock /\ own \in Nat /\ q \in 0..MaxQpc
    BY <1>2, ReadingIs, Zenon
  <1>4. filters' \in 0..MaxFilters /\ forwarded' \in BOOLEAN /\ place # "outside"
    <2>1. search # "none"
      BY <1>2
    <2>2. place \in {"own", "native"} /\ filters' \in 0..MaxFilters /\ forwarded' \in BOOLEAN
      BY <1>2, <2>1, Zenon DEF CallbackInv, CallbackTypeOK, FirstOnly
    <2>3. place # "outside"
      BY <2>2
    <2> QED
      BY <2>2, <2>3, Zenon
  <1>5. /\ place' \in {"own", "native", "handler"} /\ search' \in {"none", "filter", "declined"}
        /\ place' \in {"outside", "own", "handler"}
        /\ (search' # "none" => place' \in {"own", "native"}) /\ (search' # "none" => place' = "own")
    BY <1>2, Zenon
  <1>6. CASE measure.phase = "InProgress"
    <2>1. PICK segment : segment = Where
      BY Zenon
    <2>2. segment \in {"Own", "Native"}
      BY <2>1 DEF Where
    <2>3. Going(measure, segment, "None")
      <3>1. search # "filter"
        BY <1>2
      <3> QED
        BY <1>6, <2>1, <3>1, Zenon DEF SegmentFits, CallbackInv
    <2>4. /\ Going(measure', "Own", "None")
          /\ measure.invalid \/ ~Accepted(measure, q) => measure'.invalid
          /\ Clean(measure, own, clock) /\ q >= clock => Clean(measure', own, q)
      BY <1>1, <1>3, <2>2, <2>3, BeginUnwindIs, Zenon
    <2>5. own' = own /\ (disturbed' <=> (disturbed \/ (First /\ q # clock'))) /\ disturbed' \in BOOLEAN
      BY <1>1, Zenon DEF Reads
    <2>6. Clean(measure, own, clock) /\ q = clock' => Clean(measure', own', clock')
      BY <1>3, <2>4, <2>5, Zenon
    <2>7. SegmentFits'
      <3>1. Where' = "Own" /\ search' # "filter"
        BY <1>2 DEF Where
      <3> QED
        BY <2>4, <3>1, Zenon DEF SegmentFits
    <2> QED
      BY <1>2, <1>4, <1>5, <1>6, <2>4, <2>5, <2>6, <2>7, FirstStep, Zenon
  <1>7. CASE measure.phase # "InProgress"
    <2>1. measure' = measure
      BY <1>1, <1>7, Zenon DEF BeginUnwind, Active
    <2> QED
      BY <1>1, <1>2, <1>4, <1>5, <1>7, <2>1, LaterStep, Zenon
  <1> QED
    BY <1>6, <1>7, Zenon

\* The callback ends: the measurement is reported if it is exact.
LEMMA FinishKeeps == CallbackInv /\ Finish => CallbackInv'
  <1> SUFFICES ASSUME CallbackInv, Finish PROVE CallbackInv'
    OBVIOUS
  <1>1. PICK q \in Readings : Reads(q, TRUE) /\ measure' = Finalize(measure, q)
    BY Zenon DEF Finish
  <1>2. /\ place \in {"own", "handler"} /\ search # "filter" /\ Ticks /\ place' = "outside"
        /\ search' = "none" /\ callbacks' = callbacks /\ filters' = filters /\ forwarded' = forwarded
    BY Zenon DEF Finish
  <1>3. /\ clock \in Nat \ {0} /\ clock' \in Nat \ {0} /\ clock' \in 0..MaxQpc /\ clock' >= clock
        /\ clock' = clock \/ clock' = clock + 1
        /\ own \in Nat /\ own < clock
        /\ q \in 0..MaxQpc /\ own + (clock' - clock) <= MaxQpc
        /\ q # clock' => ~Accepted(measure, q)
    BY <1>2, ReadingIs, Zenon
  <1>4. filters' \in 0..MaxFilters /\ forwarded' \in BOOLEAN /\ place # "outside" /\ place # "native"
    <2>1. place # "outside" /\ place # "native"
      BY <1>2
    <2> QED
      BY <1>2, <2>1, Zenon DEF CallbackInv, CallbackTypeOK
  <1>5. CASE measure.phase = "InProgress"
    <2>1. Going(measure, "Own", "None") /\ (measure.invalid <=> disturbed)
          /\ (~disturbed => Clean(measure, own, clock))
      <3>1. Where = "Own"
        BY <1>4 DEF Where
      <3> QED
        BY <1>2, <1>5, <3>1, Zenon DEF SegmentFits, CallbackInv
    <2>2. /\ measure' \in Measurement
          /\ measure.invalid \/ ~Accepted(measure, q)
                => measure'.phase = "CompleteInvalid" /\ measure'.ticks = 0
          /\ Clean(measure, own, clock) /\ q >= clock /\ own + (q - clock) <= MaxQpc
                => measure'.phase = "CompleteValid" /\ measure'.ticks = own + (q - clock)
      BY <1>1, <1>3, <2>1, FinalizeIs, Zenon
    <2>3. callbacks = 1
      BY <1>5, Zenon DEF CallbackInv, FirstOnly
    <2>4. First
      BY <2>3 DEF First
    <2>5. /\ own' = own + (clock' - clock)
          /\ (disturbed' <=> (disturbed \/ (First /\ q # clock'))) /\ disturbed' \in BOOLEAN
      BY <1>1, <2>4, Zenon DEF Reads
    <2>6. own' \in 0..MaxQpc /\ own' < clock' /\ clock' >= 1
      <3>1. PICK o, n, k, c : o = own /\ n = own' /\ k = clock /\ c = clock'
        BY Zenon
      <3>2. /\ k \in Nat \ {0} /\ c \in Nat \ {0} /\ o \in Nat /\ o < k /\ n = o + (c - k)
            /\ c = k \/ c = k + 1
            /\ o + (c - k) <= MaxQpc
        BY <1>3, <2>5, <3>1, Zenon
      <3>3. n \in 0..MaxQpc /\ n < c /\ c >= 1
        BY <3>2, CallbackAssumption
      <3> QED
        BY <3>1, <3>3, Zenon
    <2>7. \/ disturbed' /\ measure'.phase = "CompleteInvalid" /\ measure'.ticks = 0
          \/ ~disturbed' /\ measure'.phase = "CompleteValid" /\ measure'.ticks = own'
      <3>1. CASE disturbed'
        <4>1. measure.invalid \/ ~Accepted(measure, q)
          BY <1>3, <2>1, <2>5, <3>1, Zenon
        <4> QED
          BY <2>2, <3>1, <4>1, Zenon
      <3>2. CASE ~disturbed'
        <4>1. ~disturbed /\ q = clock'
          BY <2>4, <2>5, <3>2, Zenon
        <4>2. measure'.phase = "CompleteValid" /\ measure'.ticks = own + (q - clock)
          BY <1>3, <2>1, <2>2, <4>1, Zenon
        <4> QED
          BY <2>5, <3>2, <4>1, <4>2, Zenon
      <3> QED
        BY <3>1, <3>2, Zenon
    <2>8. ExactOrNothing' /\ measure'.phase # "InProgress" /\ measure'.phase # "NotEntered"
      <3>1. CASE disturbed' /\ measure'.phase = "CompleteInvalid" /\ measure'.ticks = 0
        <4>1. measure'.phase # "CompleteValid" /\ measure'.phase # "InProgress"
              /\ measure'.phase # "NotEntered"
          BY <3>1
        <4> QED
          BY <3>1, <4>1, Zenon DEF ExactOrNothing
      <3>2. CASE ~disturbed' /\ measure'.phase = "CompleteValid" /\ measure'.ticks = own'
        <4>1. measure'.phase # "CompleteInvalid" /\ measure'.phase # "InProgress"
              /\ measure'.phase # "NotEntered"
          BY <3>2
        <4> QED
          BY <3>2, <4>1, Zenon DEF ExactOrNothing
      <3> QED
        BY <2>7, <3>1, <3>2, Zenon
    <2>9. FirstOnly'
      <3>1. callbacks' # 0 /\ place' # "native"
        BY <1>2, <2>3
      <3> QED
        BY <1>2, <2>8, <3>1, Zenon DEF FirstOnly
    <2>10. CallbackTypeOK'
      <3>1. callbacks' \in 0..MaxCallbacks
        BY <1>2, Zenon DEF CallbackInv, CallbackTypeOK
      <3>2. place' \in {"outside", "own", "native", "handler"} /\ search' \in {"none", "filter", "declined"}
        BY <1>2, Zenon
      <3> QED
        BY <1>3, <1>4, <2>2, <2>5, <2>6, <3>1, <3>2, Zenon DEF CallbackTypeOK
    <2> QED
      BY <2>6, <2>8, <2>9, <2>10, Zenon DEF CallbackInv
  <1>6. CASE measure.phase # "InProgress"
    <2>1. measure' = measure
      BY <1>1, <1>6, Zenon DEF Finalize, Active
    <2>2. place' \in {"outside", "own", "handler"} /\ search' \in {"none", "filter", "declined"}
          /\ (search' # "none" => place' = "own")
      BY <1>2, Zenon
    <2> QED
      BY <1>1, <1>2, <1>4, <1>6, <2>1, <2>2, LaterStep, Zenon
  <1> QED
    BY <1>5, <1>6, Zenon

\* A callback inside the game's own leaves nothing to report.
LEMMA NestedKeeps == CallbackInv /\ Nested => CallbackInv'
  <1> SUFFICES ASSUME CallbackInv, Nested PROVE CallbackInv'
    OBVIOUS
  <1>1. /\ place = "native" /\ search # "filter" /\ measure' = Invalidate(measure) /\ disturbed' = TRUE
        /\ place' = place /\ search' = search /\ clock' = clock /\ forwarded' = forwarded
        /\ callbacks' = callbacks /\ filters' = filters /\ own' = own
    BY Zenon DEF Nested
  <1>2. callbacks = 1 /\ measure.phase = "InProgress" /\ Going(measure, "Native", "None")
    <2>1. place # "outside" /\ Where = "Native"
      BY <1>1 DEF Where
    <2>2. callbacks = 1 /\ measure.phase = "InProgress"
      BY <1>1, <2>1, Zenon DEF CallbackInv, FirstOnly
    <2> QED
      BY <1>1, <2>1, <2>2, Zenon DEF SegmentFits, CallbackInv
  <1>3. measure' = [measure EXCEPT !.invalid = TRUE]
    BY <1>1, <1>2, Zenon DEF Invalidate, Active, Spoil
  <1>4. /\ measure' \in Measurement /\ measure'.phase = "InProgress" /\ measure'.segment = "Native"
        /\ measure'.parent = "None" /\ measure'.invalid
    <2>1. TRUE \in BOOLEAN
      OBVIOUS
    <2>2. measure \in Measurement /\ measure.phase = "InProgress" /\ measure.segment = "Native"
          /\ measure.parent = "None"
      BY <1>2, Zenon DEF Going
    <2> QED
      BY <1>3, <2>1, <2>2, Zenon DEF Measurement
  <1>5. SegmentFits'
    <2>1. Where' = "Native" /\ search' # "filter"
      BY <1>1 DEF Where
    <2> QED
      BY <1>4, <2>1, Zenon DEF SegmentFits, Going
  <1>6. disturbed' /\ disturbed' \in BOOLEAN
    BY <1>1, Zenon
  <1>7. CallbackTypeOK'
    BY <1>1, <1>4, <1>6, Zenon DEF CallbackInv, CallbackTypeOK
  <1>8. FirstOnly'
    <2>1. callbacks' # 0 /\ callbacks' = 1 /\ place' # "outside" /\ place' \in {"own", "native"}
      BY <1>1, <1>2
    <2>2. measure'.phase # "NotEntered"
      BY <1>4
    <2> QED
      BY <1>4, <2>1, <2>2, Zenon DEF FirstOnly
  <1>9. ExactOrNothing'
    <2>1. measure'.phase # "CompleteValid" /\ measure'.phase # "CompleteInvalid"
      BY <1>4
    <2> QED
      BY <2>1, Zenon DEF ExactOrNothing
  <1>10. own' < clock' /\ clock' >= 1
    BY <1>1, Zenon DEF CallbackInv
  <1> QED
    BY <1>4, <1>5, <1>6, <1>7, <1>8, <1>9, <1>10, Zenon DEF CallbackInv

\* The first callback's claim of a measurement never taken.
LEMMA ClaimIs ==
    ASSUME NEW q \in 0..MaxQpc
    PROVE  /\ Going(Claim(Fresh, q), "Own", "None")
           /\ q # 0 => Clean(Claim(Fresh, q), 0, q)
           /\ q = 0 => Claim(Fresh, q).invalid
  <1>1. PICK from : from = IF Accepted(Fresh, q) THEN q ELSE 0
    BY Zenon
  <1>2. from \in 0..MaxQpc /\ q \in Nat /\ 0 \in 0..MaxQpc
    BY <1>1, CallbackAssumption
  <1>3. Fresh.last = 0 /\ Fresh.phase = "NotEntered"
    BY DEF Fresh
  <1>4. Accepted(Fresh, q) <=> q # 0
    <2>1. q >= 0
      BY <1>2
    <2> QED
      BY <1>3, <2>1, Zenon DEF Accepted
  <1> DEFINE entered == [Fresh EXCEPT !.phase = "InProgress"]
             u == Claim(Fresh, q)
  <1>11. Fresh \in Measurement /\ Fresh.parent = "None" /\ Fresh.ticks = 0 /\ ~Fresh.invalid
    <2>1. "NotEntered" \in Phases /\ "None" \in Segments /\ FALSE \in BOOLEAN
      BY DEF Phases, Segments
    <2> QED
      BY <1>2, <2>1, Zenon DEF Fresh, Measurement
  <1>5. /\ entered \in Measurement /\ entered.phase = "InProgress" /\ entered.parent = "None"
        /\ entered.ticks = 0 /\ entered.last = 0 /\ ~entered.invalid
    <2>1. "InProgress" \in Phases
      BY DEF Phases
    <2> HIDE DEF Fresh
    <2> QED
      BY <1>3, <1>11, <2>1, Zenon DEF Measurement
  <1>6. u = Opened(entered, "Own", q)
    BY <1>3, Zenon DEF Claim, Claimable, BeginOwn
  <1> HIDE DEF entered, u
  <1>7. Accepted(entered, q) <=> q # 0
    <2>1. q >= 0 /\ entered.last = 0
      BY <1>2, <1>5
    <2> QED
      BY <2>1, Zenon DEF Accepted
  <1>8. "InProgress" \in Phases /\ "Own" \in Segments /\ "None" \in Segments
    BY DEF Phases, Segments
  <1>9. CASE q # 0
    <2>1. u = [[entered EXCEPT !.last = q] EXCEPT !.segment = "Own", !.start = q]
      BY <1>6, <1>7, <1>9, Zenon DEF Opened, Endpoint
    <2>3. /\ u \in Measurement /\ u.phase = "InProgress" /\ u.segment = "Own" /\ u.parent = "None"
          /\ u.ticks = 0 /\ u.last = q /\ u.start = q /\ ~u.invalid
      BY <1>5, <1>8, <2>1, Zenon DEF Measurement
    <2> QED
      BY <1>9, <2>3, Zenon DEF Going, Clean, u
  <1>10. CASE q = 0
    <2>1. u = [[entered EXCEPT !.invalid = TRUE] EXCEPT !.segment = "Own", !.start = 0]
      BY <1>6, <1>7, <1>10, Zenon DEF Opened, Endpoint, Spoil
    <2>3. /\ u \in Measurement /\ u.phase = "InProgress" /\ u.segment = "Own" /\ u.parent = "None" /\ u.invalid
      <3>1. TRUE \in BOOLEAN
        OBVIOUS
      <3> QED
        BY <1>2, <1>5, <1>8, <2>1, <3>1, Zenon DEF Measurement
    <2> QED
      BY <1>10, <2>3, Zenon DEF Going, u
  <1> QED
    BY <1>9, <1>10, Zenon

\* A callback enters: the first takes the measurement, a later one leaves it.
LEMMA EnterCallbackKeeps == CallbackInv /\ EnterCallback => CallbackInv'
  <1> SUFFICES ASSUME CallbackInv, EnterCallback PROVE CallbackInv'
    OBVIOUS
  <1>1. PICK q \in {clock', 0} :
          /\ measure' = Claim(measure, q)
          /\ disturbed' = (disturbed \/ (callbacks = 0 /\ q # clock'))
    BY Zenon DEF EnterCallback
  <1>2. /\ place = "outside" /\ callbacks < MaxCallbacks /\ callbacks' = callbacks + 1 /\ place' = "own"
        /\ Ticks /\ search' = search /\ forwarded' = forwarded /\ filters' = filters /\ own' = own
    BY Zenon DEF EnterCallback
  <1>3. /\ clock \in Nat \ {0} /\ clock' \in Nat \ {0} /\ clock' \in 0..MaxQpc /\ clock' >= clock
        /\ own \in Nat /\ own < clock
    <2>1. clock' \in Readings
      <3>1. clock' \in Nat
        <4>1. clock \in 0..MaxQpc
          BY Zenon DEF CallbackInv, CallbackTypeOK
        <4>2. clock' \in {clock, clock + 1}
          BY <1>2, Zenon DEF Ticks
        <4> QED
          BY <4>1, <4>2, CallbackAssumption
      <3> QED
        BY <3>1, Zenon DEF Readings
    <2> QED
      BY <1>2, <2>1, ReadingIs, Zenon
  <1>4. callbacks \in 0..MaxCallbacks /\ measure \in Measurement /\ FirstOnly /\ CallbackTypeOK
    BY Zenon DEF CallbackInv, CallbackTypeOK
  <1>5. callbacks' \in 0..MaxCallbacks /\ callbacks' # 0 /\ place' # "outside" /\ place' # "native"
    BY <1>2, <1>4, CallbackAssumption
  <1>6. search = "none"
    <2>1. place # "own" /\ place # "native"
      BY <1>2
    <2> QED
      BY <1>4, <2>1, Zenon DEF FirstOnly
  <1>7. own' < clock' /\ clock' >= 1
    BY <1>2, <1>3
  <1>8. disturbed' \in BOOLEAN /\ (disturbed' <=> (disturbed \/ (callbacks = 0 /\ q # clock')))
    BY <1>1, Zenon
  <1>9. ASSUME measure' \in Measurement PROVE CallbackTypeOK'
    <2>1. place' \in {"outside", "own", "native", "handler"} /\ own' \in 0..MaxQpc
      BY <1>2, <1>4, Zenon DEF CallbackTypeOK
    <2> QED
      BY <1>2, <1>3, <1>4, <1>5, <1>8, <1>9, <2>1, Zenon DEF CallbackTypeOK
  <1>10. CASE callbacks = 0
    <2>1. measure = Fresh /\ own = 0 /\ ~disturbed
      BY <1>4, <1>10, Zenon DEF FirstOnly
    <2>2. q \in 0..MaxQpc
      <3>1. q = clock' \/ q = 0
        BY Zenon
      <3> QED
        BY <1>3, <3>1, CallbackAssumption
    <2>3. measure' = Claim(Fresh, q)
      BY <1>1, <2>1, Zenon
    <2>4. /\ Going(Claim(Fresh, q), "Own", "None")
          /\ q # 0 => Clean(Claim(Fresh, q), 0, q)
          /\ q = 0 => Claim(Fresh, q).invalid
      BY <2>2, ClaimIs, Zenon
    <2>5. /\ Going(measure', "Own", "None")
          /\ q # 0 => Clean(measure', 0, q)
          /\ q = 0 => measure'.invalid
      BY <2>3, <2>4, Zenon
    <2>6. measure' \in Measurement /\ measure'.phase = "InProgress"
      BY <2>5, Zenon DEF Going
    <2>7. callbacks' = 1
      BY <1>2, <1>10
    <2>8. SegmentFits'
      <3>1. Where' = "Own" /\ search' # "filter"
        BY <1>2, <1>6 DEF Where
      <3> QED
        BY <2>5, <3>1, Zenon DEF SegmentFits
    <2>9. FirstOnly'
      <3>1. measure'.phase # "NotEntered" /\ search' = "none"
        BY <1>2, <1>6, <2>6
      <3> QED
        BY <1>5, <2>6, <2>7, <3>1, Zenon DEF FirstOnly
    <2>10. ExactOrNothing'
      <3>1. measure'.phase # "CompleteValid" /\ measure'.phase # "CompleteInvalid"
        BY <2>6
      <3> QED
        BY <3>1, Zenon DEF ExactOrNothing
    <2>11. CASE q = clock'
      <3>1. q # 0
        BY <1>3, <2>11
      <3>2. ~disturbed' /\ Clean(measure', own', clock')
        BY <1>2, <1>8, <2>1, <2>5, <2>11, <3>1, Zenon
      <3>3. ~measure'.invalid
        BY <3>2, Zenon DEF Clean
      <3> QED
        BY <1>7, <1>9, <2>6, <2>8, <2>9, <2>10, <3>2, <3>3, Zenon DEF CallbackInv
    <2>12. CASE q # clock'
      <3>1. q = 0
        BY <2>12, Zenon
      <3>2. disturbed' /\ measure'.invalid
        BY <1>8, <1>10, <2>5, <2>12, <3>1, Zenon
      <3> QED
        BY <1>7, <1>9, <2>6, <2>8, <2>9, <2>10, <3>2, Zenon DEF CallbackInv
    <2> QED
      BY <2>11, <2>12, Zenon
  <1>11. CASE callbacks # 0
    <2>1. measure.phase # "NotEntered" /\ measure.phase # "InProgress"
      BY <1>2, <1>4, <1>11, Zenon DEF FirstOnly
    <2>2. measure' = measure
      BY <1>1, <2>1, Zenon DEF Claim, Claimable
    <2>3. disturbed' <=> disturbed
      BY <1>8, <1>11, Zenon
    <2>4. callbacks' # 1
      BY <1>2, <1>4, <1>11, CallbackAssumption
    <2>5. FirstOnly'
      BY <1>2, <1>5, <1>6, <2>1, <2>2, <2>4, Zenon DEF FirstOnly
    <2>6. ExactOrNothing'
      BY <1>2, <2>2, <2>3, Zenon DEF CallbackInv, ExactOrNothing
    <2>7. measure' \in Measurement /\ measure'.phase # "InProgress"
      BY <1>4, <2>1, <2>2, Zenon
    <2> QED
      BY <1>7, <1>9, <2>5, <2>6, <2>7, Zenon DEF CallbackInv
  <1> QED
    BY <1>10, <1>11, Zenon

-----------------------------------------------------------------------------
\* The measurement's invariant: the segment is where the thread is, and what was
\* measured so far is exact unless a reading was missed.
THEOREM CallbackInvariant == CallbackSpec => []CallbackInv
  <1>1. CallbackInit => CallbackInv
    <2> SUFFICES ASSUME CallbackInit PROVE CallbackInv
      OBVIOUS
    <2>1. /\ measure = Fresh /\ place = "outside" /\ search = "none" /\ clock = 1 /\ own = 0
          /\ callbacks = 0 /\ filters = 0 /\ forwarded = FALSE /\ disturbed = FALSE
      BY Zenon DEF CallbackInit
    <2>2. 0 \in 0..MaxQpc /\ 1 \in 0..MaxQpc /\ 0 \in 0..MaxCallbacks /\ 0 \in 0..MaxFilters
          /\ "NotEntered" \in Phases /\ "None" \in Segments /\ FALSE \in BOOLEAN
      BY CallbackAssumption DEF Phases, Segments
    <2>3. Fresh \in Measurement /\ Fresh.phase = "NotEntered"
      BY <2>2, Zenon DEF Fresh, Measurement
    <2>4. Fresh.phase # "InProgress" /\ Fresh.phase # "CompleteValid" /\ Fresh.phase # "CompleteInvalid"
      BY <2>3
    <2>5. clock >= 1 /\ own < clock
      BY <2>1
    <2>6. CallbackTypeOK
      BY <2>1, <2>2, <2>3, Zenon DEF CallbackTypeOK
    <2>7. FirstOnly /\ ExactOrNothing /\ measure.phase # "InProgress"
      <3>1. callbacks # 1 /\ place # "native"
        BY <2>1
      <3> QED
        BY <2>1, <2>4, <3>1, Zenon DEF FirstOnly, ExactOrNothing
    <2> QED
      BY <2>5, <2>6, <2>7, Zenon DEF CallbackInv
  <1>2. CallbackInv /\ [CallbackNext]_callbackVars => CallbackInv'
    <2> SUFFICES ASSUME CallbackInv, [CallbackNext]_callbackVars PROVE CallbackInv'
      OBVIOUS
    <2>1. CASE UNCHANGED callbackVars
      BY <2>1, Zenon DEF callbackVars, CallbackInv, CallbackTypeOK, FirstOnly, ExactOrNothing,
            SegmentFits, Where, Going, Clean
    <2> QED
      BY <2>1, EnterCallbackKeeps, CallbackForwardKeeps, ReturnKeeps, NestedKeeps, RaiseKeeps,
         FilterDeclinesKeeps, UnwindKeeps, FinishKeeps, Zenon DEF CallbackNext
  <1> QED
    BY <1>1, <1>2, PTL DEF CallbackSpec

\* A measurement that is reported is the own time of the first callback to the
\* tick, and one that may be inexact is withheld (TimingCopy).
THEOREM CallbackExact == CallbackSpec => []ExactOrNothing
  <1>1. CallbackInv => ExactOrNothing
    BY Zenon DEF CallbackInv
  <1> QED
    BY <1>1, CallbackInvariant, PTL
===============================================================================
