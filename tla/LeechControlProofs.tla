-------------------------- MODULE LeechControlProofs --------------------------
(***************************************************************************)
(* Proofs about LeechControl, for both schemas and with or without the     *)
(* console.  The properties are not inductive by themselves: that a lost   *)
(* race never reads as a malformed message needs to know that a running    *)
(* worker is the only writer of `result', that under schema 1 nothing      *)
(* gives a claim back, and what a worker past its claim already knows.     *)
(*                                                                         *)
(* At the end, the console worker's count of what it never told.           *)
(***************************************************************************)
EXTENDS LeechControl, ConsoleNotice, TLAPS

\* A running worker was started on an open endpoint, and nobody else closes it.
Alive == wpc \notin {"none", "done"} => enabled /\ started /\ result = "Ready"

\* A failure on its way to `result' has its cause.
CauseKnown == wpc \in {"disconnect", "exit", "post"} /\ verdict \in Failures => spoiled

\* A claim lost under schema 1 is lost to a stop or to a claim that stays.
LostForGood == wpc = "lost" => stop \/ Schema = 2 \/ latched # "None"

\* Only the owner that serves a request is inside a release.
Releasing == opc = "release" => Schema = 2 /\ owner = "serving"

Inv ==
    /\ TypeOK /\ ServedClaimHeld /\ EndpointClosesForCause
    /\ Alive /\ CauseKnown /\ LostForGood /\ Releasing

\* The control state starts closed, unclaimed and with no worker.
LEMMA InitInv == Init => Inv
  BY DEF Init, Inv, TypeOK, ServedClaimHeld, EndpointClosesForCause, Alive, CauseKnown,
         LostForGood, Releasing, Verdicts, Failures, Origins

\* The steps of the pipe worker keep the invariant (ReceivePipe, Worker).
LEMMA WorkerInv == ASSUME Inv, WorkerNext \/ ClientNext PROVE Inv'
<1> USE DEF Inv, TypeOK, ServedClaimHeld, EndpointClosesForCause, Alive, CauseKnown,
            LostForGood, Releasing, Verdicts, Failures, Origins, control, worker, request
<1>1. CASE ClientConnects
  BY <1>1 DEF ClientConnects
<1>2. CASE ConnectFails
  BY <1>2 DEF ConnectFails, Ends
<1>3. CASE ConnectStopped
  BY <1>3 DEF ConnectStopped, Ends
<1>4. CASE MessageArrives
  BY <1>4 DEF MessageArrives
<1>5. CASE ReadFails
  \* Without a stop the failure itself is the cause.
  <2>1. CASE stop
    <3>1. verdict' = "Stopped" /\ wpc' = "disconnect" /\ spoiled' = spoiled
      BY <1>5, <2>1 DEF ReadFails, Ends, OrStopped
    <3>2. QED
      BY <1>5, <3>1 DEF ReadFails
  <2>2. CASE ~stop
    <3>1. verdict' \in Failures /\ wpc' = "disconnect" /\ spoiled' = TRUE
      BY <1>5, <2>2 DEF ReadFails, Ends, OrStopped
    <3>2. QED
      BY <1>5, <3>1 DEF ReadFails
  <2>3. QED
    BY <2>1, <2>2
<1>6. CASE CheckStopped
  BY <1>6 DEF CheckStopped, Ends
<1>7. CASE PeerRejected
  BY <1>7 DEF PeerRejected, Ends
<1>8. CASE PeerAccepted
  BY <1>8 DEF PeerAccepted
<1>9. CASE PipeGuards
  \* A worker that runs is refused by the guards only after a stop.
  <2>1. ~ClaimAllowed("Pipe") => stop
    BY <1>9 DEF PipeGuards, ClaimAllowed
  <2>2. QED
    BY <1>9, <2>1 DEF PipeGuards
<1>10. CASE PipeClaims
  BY <1>10 DEF PipeClaims, Swap, Ends
<1>11. CASE PipeLost
  \* The verdict is a failure only without stop, without schema 2 and with a
  \* free latch, which LostForGood excludes.
  <2>1. OrStopped(LostVerdict) \in {"Stopped", "AlreadyClaimed"}
    BY <1>11, ControlAssumption DEF PipeLost, OrStopped, LostVerdict
  <2>2. QED
    BY <1>11, <2>1 DEF PipeLost, Ends
<1>12. CASE Disconnect
  BY <1>12 DEF Disconnect
<1>13. CASE DisconnectFails
  BY <1>13 DEF DisconnectFails
<1>14. CASE WorkerEnds
  BY <1>14 DEF WorkerEnds, OrStopped
<1>15. CASE WorkerPosts
  BY <1>15 DEF WorkerPosts
<1>16. QED
  BY <1>1, <1>2, <1>3, <1>4, <1>5, <1>6, <1>7, <1>8, <1>9, <1>10, <1>11, <1>12, <1>13,
     <1>14, <1>15 DEF WorkerNext, ClientNext

\* The steps of the owner thread, its console's included, keep the invariant.
LEMMA OwnerInv == ASSUME Inv, OwnerNext \/ ConsoleNext \/ StopControl PROVE Inv'
<1> USE DEF Inv, TypeOK, ServedClaimHeld, EndpointClosesForCause, Alive, CauseKnown,
            LostForGood, Releasing, Verdicts, Failures, Origins, control, worker, request
<1>1. CASE InitializeControl
  \* Nothing runs before the endpoint is open.
  <2>1. wpc \in {"none", "done"} /\ wpc' = wpc
    BY <1>1 DEF InitializeControl
  <2>2. CASE result' = "Ready" /\ enabled' = TRUE
    BY <1>1, <2>1, <2>2 DEF InitializeControl
  <2>3. CASE result' \in InitializeRefused /\ enabled' = enabled
    BY <1>1, <2>1, <2>3 DEF InitializeControl
  <2>4. QED
    BY <1>1, <2>2, <2>3 DEF InitializeControl
<1>2. CASE StartControl
  <2>1. wpc \in {"none", "done"}
    BY <1>2 DEF StartControl
  <2>2. CASE wpc' = "connect" /\ UNCHANGED <<enabled, result>>
    BY <1>2, <2>1, <2>2 DEF StartControl
  <2>3. CASE enabled' = FALSE /\ result' = "WorkerFailure" /\ wpc' = wpc
    <3>1. started' = TRUE /\ UNCHANGED <<stop, latched, registration, verdict, spoiled,
                                         opc, owner, served>>
      BY <1>2 DEF StartControl
    <3>2. EndpointClosesForCause' /\ Alive' /\ CauseKnown' /\ LostForGood'
      BY <2>1, <2>3, <3>1
    <3>3. ServedClaimHeld' /\ Releasing'
      BY <3>1
    <3>4. enabled' \in BOOLEAN /\ started' \in BOOLEAN /\ stop' \in BOOLEAN
      BY <2>3, <3>1
    <3>5. result' \in Verdicts /\ wpc' = wpc
      BY <2>3
    <3>6. TypeOK'
      BY <3>1, <3>4, <3>5
    <3>7. QED
      BY <3>2, <3>3, <3>6
  <2>4. QED
    BY <1>2, <2>2, <2>3 DEF StartControl
<1>3. CASE StopControl
  BY <1>3 DEF StopControl
<1>4. CASE RegisterConsole
  BY <1>4 DEF RegisterConsole
<1>5. CASE ConsoleGuards
  BY <1>5 DEF ConsoleGuards
<1>6. CASE ConsoleClaims
  BY <1>6 DEF ConsoleClaims, Swap
<1>7. CASE ConsoleWithdrawn
  BY <1>7 DEF ConsoleWithdrawn
<1>8. CASE ServeRequest
  BY <1>8 DEF ServeRequest, ReadLatched
<1>9. CASE RefuseRequest
  BY <1>9 DEF RefuseRequest
<1>10. CASE SpendRequest
  BY <1>10 DEF SpendRequest
<1>11. CASE ReleaseGuards
  BY <1>11 DEF ReleaseGuards, ReleaseAllowed
<1>12. CASE ReleaseClaim
  BY <1>12 DEF ReleaseClaim
<1>13. QED
  BY <1>1, <1>2, <1>3, <1>4, <1>5, <1>6, <1>7, <1>8, <1>9, <1>10, <1>11, <1>12
     DEF OwnerNext, ConsoleNext

\* Every step of the endpoint, of whichever thread, keeps the invariant.
LEMMA StepInv == ASSUME Inv, [Next]_vars PROVE Inv'
<1>1. CASE Next
  BY <1>1, WorkerInv, OwnerInv DEF Next
<1>2. CASE UNCHANGED vars
  BY <1>2 DEF vars, control, worker, request, Inv, TypeOK, ServedClaimHeld,
     EndpointClosesForCause, Alive, CauseKnown, LostForGood, Releasing
<1>3. QED
  BY <1>1, <1>2

\* The inductive invariant holds of every behaviour of the endpoint.
THEOREM Invariance == Spec => []Inv
  BY InitInv, StepInv, PTL DEF Spec

\* Every reachable control state is well typed.
THEOREM TypeCorrect == Spec => []TypeOK
<1>1. Inv => TypeOK
  BY DEF Inv
<1>2. QED
  BY Invariance, <1>1, PTL

\* The request the owner serves keeps its claim and its origin, whatever the
\* pipe worker and the console do (ClaimControl, ReleasePreflightClaim).
THEOREM ServedClaimIsHeld == Spec => []ServedClaimHeld
<1>1. Inv => ServedClaimHeld
  BY DEF Inv
<1>2. QED
  BY Invariance, <1>1, PTL

\* No valid request closes the endpoint by losing the race for the latch, under
\* either schema (ReceivePipe, Worker).
THEOREM ClosesForCause == Spec => []EndpointClosesForCause
<1>1. Inv => EndpointClosesForCause
  BY DEF Inv
<1>2. QED
  BY Invariance, <1>1, PTL

\* A claim is never replaced and ends only by the release of the request served.
LEMMA ClaimStep ==
    ASSUME Inv, Next, latched # "None", latched' # latched
    PROVE  latched' = "None" /\ owner = "serving" /\ served = latched /\ Schema = 2
<1>1. CASE ReleaseClaim
  BY <1>1 DEF ReleaseClaim, Inv, Releasing, ServedClaimHeld
<1>2. CASE ~ReleaseClaim
  \* Every other step keeps a latch that is taken.
  <2>1. ASSUME WorkerNext \/ ClientNext PROVE latched' = latched
    BY <2>1 DEF WorkerNext, ClientNext, control, ConnectStopped, MessageArrives,
       ReadFails, CheckStopped, PeerRejected, PeerAccepted, PipeGuards, PipeClaims,
       Swap, PipeLost, Disconnect, DisconnectFails, WorkerEnds, WorkerPosts,
       ClientConnects, ConnectFails
  <2>2. ASSUME OwnerNext \/ ConsoleNext \/ StopControl PROVE latched' = latched
    BY <1>2, <2>2 DEF OwnerNext, ConsoleNext, StopControl, control, InitializeControl,
       StartControl, RegisterConsole, ConsoleGuards, ConsoleClaims, Swap,
       ConsoleWithdrawn, ServeRequest, RefuseRequest, SpendRequest, ReleaseGuards
  <2>3. QED
    BY <2>1, <2>2 DEF Next
<1>3. QED
  BY <1>1, <1>2

\* The latch as an exclusive claim: no behaviour of the pipe worker, the console
\* and the owner replaces a claim or frees one that is not being given back.
THEOREM ExclusiveClaims == Spec => ClaimsAreExclusive
<1>1. ASSUME Inv, [Next]_vars
      PROVE [latched # "None" /\ latched' # latched =>
               latched' = "None" /\ owner = "serving" /\ served = latched /\ Schema = 2]_vars
  BY <1>1, ClaimStep DEF vars
<1>2. QED
  BY Invariance, <1>1, PTL DEF Spec, ClaimsAreExclusive

\* A latch that is free after a stop is not taken by a worker that is gone or by
\* an owner that has not looked before the stop.
LEMMA SealedStep ==
    ASSUME Next, stop, wpc = "done", opc = "idle", latched = "None"
    PROVE  latched' = "None" /\ opc' # "claim"
<1>1. CASE WorkerNext \/ ClientNext
  BY <1>1 DEF WorkerNext, ClientNext, control, ConnectStopped, MessageArrives, ReadFails,
     CheckStopped, PeerRejected, PeerAccepted, PipeGuards, PipeClaims, PipeLost, Disconnect,
     DisconnectFails, WorkerEnds, WorkerPosts, ClientConnects, ConnectFails
<1>2. CASE ConsoleNext \/ StopControl
  \* The console's guards ask for no stop.
  BY <1>2 DEF ConsoleNext, StopControl, control, RegisterConsole, ConsoleGuards, ClaimAllowed,
     ConsoleClaims, ConsoleWithdrawn
<1>3. CASE OwnerNext
  BY <1>3 DEF OwnerNext, control, InitializeControl, StartControl, ServeRequest, RefuseRequest,
     SpendRequest, ReleaseGuards, ReleaseClaim
<1>4. QED
  BY <1>1, <1>2, <1>3 DEF Next

\* The safety half of "stop is final": once stopped, with the worker gone and no
\* claim under way, nobody opens a request (StopControl, ClaimControl).
THEOREM SealedByStop == Spec => StopSeals
<1>1. ASSUME [Next]_vars
      PROVE [stop /\ wpc = "done" /\ opc = "idle" /\ latched = "None" =>
               latched' = "None" /\ opc' # "claim"]_vars
  BY <1>1, SealedStep DEF vars
<1>2. QED
  BY <1>1, PTL DEF Spec, StopSeals
-----------------------------------------------------------------------------
(* The console worker.                                                     *)

\* A channel is its latest notice and two marks.
Channel(c) == c \in [latest : {c.latest}, pending : BOOLEAN, attempted : BOOLEAN]
ChannelsTyped == Channel(normal) /\ Channel(restart) /\ skipped \in Nat /\ owed \in Nat

\* A line is only chosen from a channel that has one to tell, and it is marked
\* as attempted before it is written.
Picked == IF pick = "restart" THEN restart ELSE normal
ChosenWaits == place = "chosen" => Picked.pending
WrittenWasTried == place = "write" => Picked.attempted

NoticeInv == ChannelsTyped /\ SkippedIsExact /\ ChosenWaits /\ WrittenWasTried

\* The channels of the next state are channels.
LEMMA ChannelsNext ==
    ASSUME Channel(normal'), Channel(restart'), skipped' \in Nat, owed' \in Nat
    PROVE  ChannelsTyped'
  BY ZenonT(30) DEF ChannelsTyped, Channel

\* A selection that still waits for its first attempt counts one.
Untried(c) == IF Unattempted(c) THEN 1 ELSE 0

\* The count in these terms.
LEMMA SkippedNow ==
    ASSUME SkippedIsExact
    PROVE  owed = skipped + Untried(normal) + Untried(restart)
  BY DEF SkippedIsExact, Untried

\* The same of the next state.
LEMMA SkippedNext ==
    ASSUME owed' = skipped' + Untried(normal') + Untried(restart')
    PROVE  SkippedIsExact'
  BY DEF SkippedIsExact, Untried, Unattempted

\* At most one selection of a channel waits.
LEMMA UntriedIs == \A c : Untried(c) \in {0, 1}
  BY DEF Untried

\* A channel that adopts a selection counts one more, and the one it drops
\* untried as skipped.
LEMMA AdoptionCounts ==
    ASSUME NEW c, NEW notice, Channel(c), skipped \in Nat, owed \in Nat, Counts(c, notice)
    PROVE  /\ Channel(Adopted(c, notice)) /\ skipped' \in Nat /\ owed' \in Nat
           /\ c.pending => Adopted(c, notice).pending
           /\ owed' - owed = (skipped' - skipped)
                 + Untried(Adopted(c, notice)) - Untried(c)
<1> DEFINE d == [latest |-> notice, pending |-> TRUE, attempted |-> FALSE]
<1>1. Channel(d) /\ Untried(d) = 1 /\ d.pending
  BY DEF Channel, Untried, Unattempted
<1> HIDE DEF d
<1>2. CASE Changed(c, notice)
  <2>1. Adopted(c, notice) = d /\ owed' = owed + 1
        /\ skipped' = skipped + Untried(c)
    BY <1>2 DEF Adopted, Counts, Superseded, Untried, d
  <2> QED
    BY <1>1, <2>1, UntriedIs
<1>3. CASE ~Changed(c, notice)
  <2>1. Adopted(c, notice) = c /\ owed' = owed /\ skipped' = skipped
    BY <1>3 DEF Adopted, Counts
  <2> QED
    BY <2>1, UntriedIs
<1> QED
  BY <1>2, <1>3

\* What is chosen has a line to tell.
LEMMA ChoiceWaits ==
    ASSUME NEW notice, Choose(notice), restart' = restart
    PROVE  ChosenWaits' /\ place' # "write"
<1> DEFINE report == notice # None /\ normal'.pending
           other  == seenRecovery # None /\ restart.pending
<1>1. CASE (report \/ other) /\ due
  <2>1. place' = "chosen" /\ pick' = (IF other /\ UseRecovery(notice) THEN "restart" ELSE "normal")
    BY <1>1 DEF Choose
  <2>2. ~UseRecovery(notice) => normal'.pending
    BY DEF UseRecovery
  <2> QED
    BY <1>1, <2>1, <2>2 DEF ChosenWaits, Picked
<1>2. CASE ~((report \/ other) /\ due)
  BY <1>2 DEF Choose, Rests, ChosenWaits
<1> QED
  BY <1>1, <1>2

\* Every step of the console worker and its surroundings keeps the count.
LEMMA NoticeStep ==
    ASSUME NoticeInv, [NoticeNext]_consoleVars
    PROVE  NoticeInv'
<1> USE DEF NoticeInv
<1>0. ASSUME UNCHANGED <<place, pick, chans>>
      PROVE  NoticeInv'
  BY <1>0 DEF chans, ChannelsTyped, Channel, SkippedIsExact, Unattempted, ChosenWaits, WrittenWasTried, Picked
<1>r. ASSUME UNCHANGED chans, place' \in {"idle", "ended"}
      PROVE  NoticeInv'
  BY <1>r DEF chans, ChannelsTyped, Channel, SkippedIsExact, Unattempted, ChosenWaits, WrittenWasTried
<1>1. CASE UNCHANGED consoleVars
  BY <1>1, <1>0 DEF consoleVars, cycle
<1>2. CASE Environment
  <2>1. UNCHANGED <<place, pick, chans>>
    BY <1>2 DEF Environment, OwnerTransition, OwnerRefreshes, OwnerStalls, WorkerGate, WorkerCondition,
       Revoke, RecoveryTransition, ArmReportingConsole, StopReportingConsole, SecondPasses, Changes, cycle
  <2> QED
    BY <2>1, <1>0
<1>3. CASE Finish \/ ClockFails \/ Stale
  <2>1. UNCHANGED chans /\ place' \in {"idle", "ended"}
    BY <1>3 DEF Finish, ClockFails, Stale, ConsoleEnds, Rests
  <2> QED
    BY <2>1, <1>r
<1>4. CASE BeginCycle
  <2>1. place' = "sample" /\ normal' = normal
    BY <1>4 DEF BeginCycle
  <2>2. CASE UNCHANGED <<restart, skipped, owed>>
    BY <2>1, <2>2 DEF ChannelsTyped, Channel, SkippedIsExact, Unattempted, ChosenWaits, WrittenWasTried
  <2>3. CASE restart' = Adopted(restart, recovery) /\ Counts(restart, recovery)
    <3>1. /\ Channel(restart') /\ skipped' \in Nat /\ owed' \in Nat
          /\ owed' - owed = (skipped' - skipped)
                + Untried(restart') - Untried(restart)
      BY <2>3, AdoptionCounts DEF ChannelsTyped
    <3>2. SkippedIsExact'
      BY <2>1, <3>1, SkippedNow, SkippedNext, UntriedIs DEF ChannelsTyped
    <3>3. Channel(normal')
      BY <2>1 DEF ChannelsTyped
    <3> QED
      BY <2>1, <3>1, <3>2, <3>3, ChannelsNext DEF ChosenWaits, WrittenWasTried
  <2> QED
    BY <1>4, <2>2, <2>3 DEF BeginCycle
<1>5. CASE SampleBusy
  <2>1. UNCHANGED chans /\ Choose(None) /\ restart' = restart
    BY <1>5 DEF SampleBusy, chans
  <2>2. ChosenWaits' /\ place' # "write"
    BY <2>1, ChoiceWaits
  <2> QED
    BY <2>1, <2>2 DEF chans, ChannelsTyped, Channel, SkippedIsExact, Unattempted, WrittenWasTried
<1>6. CASE Sample
  <2> DEFINE notice == SelectReportingConsoleNotice(reporting)
  <2>1. normal' = Adopted(normal, notice) /\ Counts(normal, notice) /\ Choose(notice) /\ restart' = restart
    BY <1>6 DEF Sample
  <2> HIDE DEF notice
  <2>2. /\ Channel(normal') /\ skipped' \in Nat /\ owed' \in Nat
        /\ owed' - owed = (skipped' - skipped)
              + Untried(normal') - Untried(normal)
    BY <2>1, AdoptionCounts DEF ChannelsTyped
  <2>3. ChosenWaits' /\ place' # "write"
    BY <2>1, ChoiceWaits
  <2>4. SkippedIsExact'
    BY <2>1, <2>2, SkippedNow, SkippedNext, UntriedIs DEF ChannelsTyped
  <2>5. Channel(normal') /\ Channel(restart')
    BY <2>1, <2>2 DEF ChannelsTyped
  <2> QED
    BY <2>2, <2>3, <2>4, <2>5, ChannelsNext DEF WrittenWasTried
<1>7. CASE Attempt
  \* What was owed a first attempt has it now.
  <2>1. /\ place = "chosen" /\ place' = "write" /\ pick' = pick /\ skipped' = skipped
        /\ owed' = owed - (IF Picked.attempted THEN 0 ELSE 1)
        /\ IF pick = "restart" THEN restart' = Attempting(restart) /\ normal' = normal
           ELSE normal' = Attempting(normal) /\ restart' = restart
    BY <1>7 DEF Attempt, Picked, cycle
  <2>2. Picked.pending
    BY <2>1 DEF ChosenWaits
  <2>3. \A c : Channel(c) => /\ Channel(Attempting(c)) /\ Attempting(c).attempted
                              /\ Untried(Attempting(c)) = 0
                              /\ (c.pending => Untried(c) = IF c.attempted THEN 0 ELSE 1)
    BY DEF Channel, Attempting, Untried, Unattempted
  <2>4. SkippedIsExact' /\ owed' \in Nat
    <3>1. CASE pick = "restart"
      BY <2>1, <2>2, <2>3, <3>1, SkippedNow, SkippedNext, UntriedIs DEF ChannelsTyped, Picked
    <3>2. CASE pick # "restart"
      BY <2>1, <2>2, <2>3, <3>2, SkippedNow, SkippedNext, UntriedIs DEF ChannelsTyped, Picked
    <3> QED
      BY <3>1, <3>2
  <2>5. Channel(normal') /\ Channel(restart') /\ skipped' \in Nat
    BY <2>1, <2>3 DEF ChannelsTyped
  <2>6. Picked'.attempted
    BY <2>1, <2>3 DEF ChannelsTyped, Picked
  <2>7. ChannelsTyped'
    BY <2>4, <2>5, ChannelsNext
  <2> QED
    BY <2>1, <2>4, <2>6, <2>7 DEF ChosenWaits, WrittenWasTried
<1>8. CASE WriteOk \/ WriteFails
  \* What is written, or not, was attempted.
  <2>1. /\ place = "write" /\ place' \in {"idle", "ended"} /\ UNCHANGED <<skipped, owed>>
        /\ IF pick = "restart" THEN restart' \in {restart, Written(restart)} /\ normal' = normal
           ELSE normal' \in {normal, Written(normal)} /\ restart' = restart
    BY <1>8 DEF WriteOk, WriteFails, Leaves, ConsoleEnds, Rests, Failed
  <2>2. Picked.attempted
    BY <2>1 DEF WrittenWasTried
  <2>3. \A c : Channel(c) => /\ Channel(Written(c)) /\ (c.attempted => Untried(Written(c)) = 0 /\ Untried(c) = 0)
    BY DEF Channel, Written, Untried, Unattempted
  <2>4. SkippedIsExact'
    BY <2>1, <2>2, <2>3, SkippedNow, SkippedNext, UntriedIs DEF ChannelsTyped, Picked
  <2>5. Channel(normal') /\ Channel(restart') /\ skipped' \in Nat /\ owed' \in Nat
    BY <2>1, <2>3 DEF ChannelsTyped
  <2> QED
    BY <2>1, <2>4, <2>5, ChannelsNext DEF ChosenWaits, WrittenWasTried
<1> QED
  BY <1>1, <1>2, <1>3, <1>4, <1>5, <1>6, <1>7, <1>8 DEF NoticeNext, ConsoleWorker

\* The count of notices that were never attempted is exact: every selection was
\* attempted, still waits for its first attempt, or is counted as skipped.
THEOREM SkippedAreCounted == ConsoleSpec => []SkippedIsExact
<1>1. ConsoleInit => NoticeInv
  BY DEF ConsoleInit, NoticeInv, NoChannel, ChannelsTyped, Channel, SkippedIsExact, Unattempted, ChosenWaits,
     WrittenWasTried
<1>2. NoticeInv => SkippedIsExact
  BY DEF NoticeInv
<1> QED
  BY <1>1, <1>2, NoticeStep, PTL DEF ConsoleSpec
=============================================================================
