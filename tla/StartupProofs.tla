---------------------------- MODULE StartupProofs ----------------------------
(***************************************************************************)
(* Proofs about ReconFix and the Startup it is a part of, about the        *)
(* GenuineResolver, and about the Inventory.                               *)
(*                                                                         *)
(* CertainImage speaks of the end of the transaction only; the induction   *)
(* carries what each place has established: before the write the code is   *)
(* still the original, each check that passed has pinned its fact, and a   *)
(* returned outcome has all of its evidence.  MarkerIsTrue and             *)
(* WholeOrNothing speak of a process that may be killed anywhere and of    *)
(* the time after the call; their invariant follows the one attempt from   *)
(* the loader through the marker and the stages of the reporting.          *)
(*                                                                         *)
(* For the GenuineResolver the loader's count of the library equals the    *)
(* published records and the callers that own a reference, after every     *)
(* step of any number of callers.                                          *)
(*                                                                         *)
(* For the Inventory what the tool remembers of a path is a file that      *)
(* stood there; its identity never comes back, so what is found again has  *)
(* not left in between.                                                    *)
(***************************************************************************)
EXTENDS Startup, GenuineResolver, Inventory, FiniteSetTheorems, TLAPS
-----------------------------------------------------------------------------
(* The transaction of ReconFix.                                            *)


\* What has been proved of the image when RunReconFix is at each place.
Evidence ==
    /\ pc = "qualify" => <<bytes, prot>> = found /\ fetch = {bytes}
    /\ pc \notin {"qualify", "done"} => found = <<"original", "RX">>
    /\ pc \in {"protect", "refused", "window", "write", "recover", "reprotect"} =>
          bytes = "original" /\ fetch = {"original"}
    /\ pc \in {"window", "write", "rewrite"} => prot \in Writable
    /\ pc = "restore" => bytes = "corrected"
    /\ pc \in {"flush", "validate"} => bytes = "corrected" /\ prot = "RX"
    /\ pc = "validate" => fetch = {bytes}
    /\ pc = "reflush" => bytes = "original" /\ prot = "RX"

\* An outcome other than Fatal stands for a certain image.
Earned ==
    pc = "done" /\ outcome # "Fatal" =>
        /\ fetch = {bytes}
        /\ IF outcome = "Active" THEN bytes = "corrected" /\ prot = "RX"
                                 ELSE <<bytes, prot>> = found

\* The host goes on after the end of the transaction, and not after Fatal.
Decided ==
    /\ host # "starting" => pc = "done"
    /\ host = "running" => outcome # "Fatal"
    /\ reporting => outcome = "Active" /\ pc = "done"

\* What RunReconFix may answer in each mode.
Answered ==
    /\ pc \notin {"qualify", "done"} \/ (pc = "done" /\ outcome = "Active") => mode = "Active"
    /\ pc = "done" /\ outcome = "Passive" => mode = "Passive" /\ OriginalState

Inv == TypeOK /\ Evidence /\ Earned /\ Decided /\ Answered

\* Before the transaction the image is as it was found.
LEMMA InitInv == Init => Inv
<1> SUFFICES ASSUME Init PROVE Inv
  OBVIOUS
<1>1. bytes \in Versions /\ prot \in Protections
  BY DEF Init, Versions, Protections, Writable
<1>2. found \in Versions \X Protections
  BY <1>1 DEF Init
<1>3. fetch \in SUBSET Versions
  BY <1>1 DEF Init
<1>4. attempted \in BOOLEAN /\ reporting \in BOOLEAN
  BY DEF Init
<1>5. TypeOK
  BY <1>1, <1>2, <1>3, <1>4 DEF Init, TypeOK, Outcomes
<1>6. Evidence /\ Earned
  BY DEF Init, Evidence, Earned
<1>7. Decided /\ Answered
  BY DEF Init, Decided, Answered
<1>8. QED
  BY <1>5, <1>6, <1>7 DEF Inv

\* Qualification, the window and the correction keep the evidence (RunReconFix).
LEMMA CorrectInv ==
    ASSUME Inv, \/ Unqualified \/ Qualified \/ OpenWindow \/ ProtectRefused \/ CheckWindow
                \/ WriteCorrection \/ RestoreProtection \/ FlushCorrection \/ ValidateHost
    PROVE  Inv'
<1> USE DEF Inv, TypeOK, Evidence, Earned, Decided, Answered, OriginalState, Versions,
            Protections, Writable,
            Outcomes, image, Unmoved, Returns, Goes
<1>1. CASE Unqualified
  BY <1>1 DEF Unqualified
<1>2. CASE Qualified
  BY <1>2 DEF Qualified, OriginalState
<1>3. CASE OpenWindow
  BY <1>3 DEF OpenWindow, protect
<1>4. CASE ProtectRefused
  BY <1>4 DEF ProtectRefused, OriginalState
<1>5. CASE CheckWindow
  BY <1>5 DEF CheckWindow
<1>6. CASE WriteCorrection
  BY <1>6 DEF WriteCorrection, writeDword
<1>7. CASE RestoreProtection
  BY <1>7 DEF RestoreProtection, protect
<1>8. CASE FlushCorrection
  BY <1>8 DEF FlushCorrection
<1>9. CASE ValidateHost
  BY <1>9 DEF ValidateHost
<1>10. QED
  BY <1>1, <1>2, <1>3, <1>4, <1>5, <1>6, <1>7, <1>8, <1>9

\* So do the two recoveries (RecoverWithoutWrite, Rollback).
LEMMA RecoverInv ==
    ASSUME Inv, \/ RecoverWithoutWrite \/ Reprotect \/ RollbackOpens \/ RollbackWrites
                \/ RollbackCloses \/ RollbackFlushes
    PROVE  Inv'
<1> USE DEF Inv, TypeOK, Evidence, Earned, Decided, Answered, OriginalState, Versions,
            Protections, Writable,
            Outcomes, image, Unmoved, Returns, Goes
<1>1. CASE RecoverWithoutWrite
  BY <1>1 DEF RecoverWithoutWrite, OriginalState
<1>2. CASE Reprotect
  BY <1>2 DEF Reprotect, protect
<1>3. CASE RollbackOpens
  BY <1>3 DEF RollbackOpens, protect
<1>4. CASE RollbackWrites
  BY <1>4 DEF RollbackWrites, writeDword
<1>5. CASE RollbackCloses
  BY <1>5 DEF RollbackCloses, protect
<1>6. CASE RollbackFlushes
  BY <1>6 DEF RollbackFlushes
<1>7. QED
  BY <1>1, <1>2, <1>3, <1>4, <1>5, <1>6

\* Every step of the transaction, and its conclusion, keeps the invariant.
LEMMA StepInv == ASSUME Inv, [Next]_vars PROVE Inv'
<1>1. CASE Transaction
  BY <1>1, CorrectInv, RecoverInv DEF Transaction
<1>2. CASE Conclude
  BY <1>2 DEF Conclude, Inv, TypeOK, Evidence, Earned, Decided, Answered, OriginalState,
     image
<1>3. CASE UNCHANGED vars
  BY <1>3 DEF vars, image, Inv, TypeOK, Evidence, Earned, Decided, Answered, OriginalState
<1>4. QED
  BY <1>1, <1>2, <1>3 DEF Next

\* The inductive invariant holds of every startup.
THEOREM Invariance == Spec => []Inv
  BY InitInv, StepInv, PTL DEF Spec

\* Whatever fails, and whatever the failed calls did, the host goes on only with
\* the complete correction or with exactly the image that was found (RunReconFix,
\* RunCompanionInitialization).
THEOREM ImageIsCertain == Spec => []CertainImage
<1>1. Inv => CertainImage
  BY DEF Inv, TypeOK, Earned, Decided, CertainImage
<1>2. QED
  BY Invariance, <1>1, PTL

\* No step of the transaction stores to code whose page was not seen writable.
LEMMA StoreStep == ASSUME Inv, Next, bytes' # bytes PROVE prot \in Writable
<1> USE DEF image, Unmoved
<1>1. CASE WriteCorrection
  BY <1>1 DEF WriteCorrection, Inv, Evidence
<1>2. CASE RollbackWrites
  BY <1>2 DEF RollbackWrites, Inv, Evidence
<1>3. CASE ~WriteCorrection /\ ~RollbackWrites
  BY <1>3 DEF Next, Transaction, Conclude, Unqualified, Qualified, OpenWindow,
     ProtectRefused, CheckWindow, RestoreProtection, FlushCorrection, ValidateHost,
     RecoverWithoutWrite, Reprotect, RollbackOpens, RollbackCloses, RollbackFlushes, protect
<1>4. QED
  BY <1>1, <1>2, <1>3

\* The correction and its rollback store only inside a proven writable window.
THEOREM StoresInWindow == Spec => WriteInWindow
<1>1. ASSUME Inv, [Next]_vars PROVE [bytes' # bytes => prot \in Writable]_vars
  BY <1>1, StoreStep DEF vars, image
<1>2. QED
  BY Invariance, <1>1, PTL DEF Spec, WriteInWindow
-----------------------------------------------------------------------------
(* The inductive invariant of Startup.                                     *)

\* Where the startup thread is inside RunCompanionInitialization, before and after
\* the recon correction, and after StartReporter.
AfterRecon == {"create", "write", "flush", "remove", "written", "report", "arm", "finish"}
Before     == {"modules", "hash", "recon"}
Inside     == Before \cup AfterRecon
Reporting  == {"report", "arm", "finish"}

\* The results of an initialization that came as far as the marker.
Told == {"Ok", "FixDisabled", "MarkerWriteFailed"}

\* The types: of the flags, of the words, of the marker's records, of the status.
Flags == {tried, held, invoked, good, hooks} \subseteq BOOLEAN
Words ==
    /\ place \in {"outside", "load", "candidate", "initialize", "ended"} \cup Inside
    /\ calls \in Nat /\ claim \in 0..2 /\ stage \in 1..18
    /\ result \in {"none", "InvalidContext", "HostIdentityFailed"} \cup Told
    /\ reporter \in {"idle", "polling", "done"}
    /\ line \in {"none", "passed", "failed"} /\ shown \in {"none", "passed", "failed"}
    /\ writer \in {"none", "prepared", "armed", "stopped"}
    /\ recovery \in {"off", "prepared", "armed"}
MarkerTypes ==
    /\ target \in Files
    /\ files \in [Files -> {"none", "partial", "accepted", "refused"}]
    /\ wrote \in [written : BOOLEAN, file : Files, final : BOOLEAN, cleanup : BOOLEAN]
StatusType == status \in [ready : BOOLEAN, revoked : BOOLEAN, notice : BOOLEAN]
StartupTypes == Flags /\ Words /\ MarkerTypes /\ StatusType

\* One attempt: who was not called cannot be loaded, who was loaded was judged,
\* and the claim stands for an entered companion.
Loaded ==
    /\ ~tried => place \in {"outside", "ended"} /\ ~held /\ ~invoked /\ claim = 0
    /\ place = "load" => ~held /\ ~invoked
    /\ place = "candidate" => held /\ ~invoked
    /\ place = "initialize" => held /\ invoked
    /\ place = "outside" => held = invoked
    /\ place \in {"load", "candidate", "initialize"} => claim = 0
    /\ place \in Inside => claim = 1
    /\ claim # 0 => held /\ invoked
    /\ claim = 1 => place \in Inside \cup {"ended"}

\* Until the claim is made, and until the correction is done, nothing else is.
Untouched ==
    /\ claim = 0 \/ place \in Before =>
          /\ files = [f \in Files |-> "none"] /\ wrote = NotWritten
          /\ target = "primary" /\ good = TRUE
          /\ result = "none"
    /\ claim = 0 \/ place \in {"modules", "hash"} => pc = "qualify"
    /\ result \notin Told =>
          /\ stage = 1 /\ status = [ready |-> FALSE, revoked |-> FALSE, notice |-> FALSE]
          /\ writer = "none" /\ hooks = FALSE /\ recovery = "off"
          /\ reporter = "idle" /\ line = "none"
          /\ shown = "none" \/ place = "ended"
    /\ place \in Inside \ Reporting => result = "none"
    /\ place \in Reporting => result \in Told

\* What the transaction has left when the marker is written, and after it.
Corrected ==
    /\ place \in AfterRecon => pc = "done"
    /\ result \in Told => pc = "done" /\ GoesOn
    /\ stage > 3 => outcome = "Active"

\* The marker file being written, and the one given up before it.
Clean == wrote.cleanup \/ files["primary"] = "none"
Attempt ==
    /\ place \in {"create", "write", "flush", "remove"} =>
          /\ ~wrote.written /\ ~wrote.final
          /\ target = "primary" => ~wrote.cleanup /\ files["fallback"] = "none"
          /\ target = "fallback" => Clean
    /\ place = "create" => files[target] = "none" /\ good = TRUE
    /\ place = "write"  => files[target] = "partial"
    /\ place = "flush"  => files[target] \in {Whole} \cup (IF good THEN {} ELSE {"partial"})
    /\ place = "remove" => files[target] \in {Whole, "partial"}

\* The end of WriteMarkerWithFallback: the marker that counts is whole.
Settled ==
    place = "written" \/ result \in Told =>
        /\ wrote.written \/ wrote.final
        /\ wrote.written =>
              /\ ~wrote.final /\ wrote.file = target /\ files[target] = Whole
              /\ target = "primary" => ~wrote.cleanup /\ files["fallback"] = "none"
              /\ target = "fallback" => Clean

\* An accepted marker, wherever it was left, is the truth about the correction.
Accepts == \A f \in Files : files[f] = "accepted" => pc = "done" /\ initializeResult = "Ok"

\* The result, and the console line, follow the marker.
Followed ==
    /\ result \in Told =>
          result = (IF MarkerOk THEN initializeResult ELSE "MarkerWriteFailed")
    /\ "passed" \in {line, shown} => result = "Ok" \/ place = "ended"

\* The stages of the reporting.
Staged ==
    /\ place = "report" => ~hooks /\ recovery # "armed"
    /\ place = "report" => writer = (IF HasWriter THEN "prepared" ELSE "none")
    /\ stage = 1 => ~status.ready
    /\ hooks => stage = Len(Stages) /\ place \in {"arm", "finish", "outside", "ended"}
    /\ place = "arm" => hooks
    /\ recovery = "armed" => hooks
    /\ place \in {"finish", "outside"} =>
          /\ hooks => writer = "armed"
          /\ status.ready /\ ~hooks =>
                status.revoked /\ status.notice /\ writer \in {"none", "stopped"}

SInv ==
    /\ Inv /\ StartupTypes /\ Loaded /\ Untouched /\ Corrected /\ Attempt
    /\ Settled /\ Accepts /\ Followed /\ Staged
-----------------------------------------------------------------------------
(* It holds at the start, and each step of the startup keeps each part.    *)

\* The stages of StartReporting that the other parts refer to by number.
LEMMA StageNames ==
    /\ Len(Stages) = 18 /\ Stages[1] = "status"
    /\ stage \in 1..18 => /\ Stages[stage] = "status" => stage = 1
                          /\ Stages[stage] = "eligible" <=> stage = 3
                          /\ Stages[stage] = "writer" <=> stage = 12
                          /\ Stages[stage] = "install" => stage = 18
  BY DEF Stages

\* Before the host's first call nothing has happened.
LEMMA StartsUntouched == StartupInit => SInv
<1> SUFFICES ASSUME StartupInit PROVE SInv
  OBVIOUS
<1> USE DEF StartupInit
<1>1. Inv
  BY InitInv
<1>2. pc = "qualify"
  BY DEF Init
<1>3. Flags
  BY DEF Flags
<1>4. Words
  BY DEF Words
<1>5. MarkerTypes /\ StatusType
  <2>1. NotWritten \in [written : BOOLEAN, file : Files, final : BOOLEAN, cleanup : BOOLEAN]
    BY DEF NotWritten, Files
  <2>2. [ready |-> FALSE, revoked |-> FALSE, notice |-> FALSE]
            \in [ready : BOOLEAN, revoked : BOOLEAN, notice : BOOLEAN]
    OBVIOUS
  <2>3. QED
    BY <2>1, <2>2 DEF MarkerTypes, StatusType, Files
<1>6. Loaded /\ Corrected /\ Attempt /\ Settled
  <2>1. held = invoked
    OBVIOUS
  <2>2. Loaded
    BY <2>1 DEF Loaded, Inside, Before, AfterRecon
  <2>3. Corrected /\ Attempt /\ Settled
    BY DEF Corrected, Attempt, Settled, AfterRecon, Told
  <2>4. QED
    BY <2>2, <2>3
<1>7. Untouched
  BY <1>2 DEF Untouched, Inside, Before, AfterRecon, Reporting, Told
<1>8. Accepts /\ Followed /\ Staged
  BY StageNames DEF Accepts, Followed, Staged, Files, Told, HasWriter
<1>9. QED
  BY <1>1, <1>3, <1>4, <1>5, <1>6, <1>7, <1>8 DEF SInv, StartupTypes

\* The startup takes the steps of the transaction, and goes on after it only
\* with an outcome that is not fatal.
LEMMA ImageStep ==
    ASSUME SInv, StartupNext
    PROVE  Inv'
<1> USE DEF vars, image, bootstrap, marker, console, report, At, To, MarkerOnly
<1>0. Inv /\ Loaded /\ Untouched /\ Corrected /\ Staged
  BY DEF SInv
<1>1. CASE JudgeModules \/ AcquireHostHash \/ Recon
  <2>1. CASE UNCHANGED vars
    BY <1>0, <2>1, StepInv
  <2>2. CASE Unqualified
    BY <1>0, <2>2, CorrectInv
  <2>3. CASE Transaction
    BY <1>0, <2>3, CorrectInv, RecoverInv DEF Transaction
  <2>4. QED
    BY <1>1, <2>1, <2>2, <2>3 DEF JudgeModules, AcquireHostHash, Disqualified, Recon
<1>2. CASE ReportFatal
  <2>1. Conclude
    BY <1>2 DEF ReportFatal
  <2>2. QED
    BY <1>0, <2>1, StepInv DEF Next
<1>3. CASE FinishInitialization
  <2>1. pc = "done" /\ outcome # "Fatal"
    BY <1>0, <1>3 DEF FinishInitialization, Corrected, AfterRecon, Untouched, Reporting,
       GoesOn
  <2>2. hooks => outcome = "Active"
    BY <1>0, StageNames DEF Staged, Corrected
  <2>3. hooks \in BOOLEAN
    BY DEF SInv, StartupTypes, Flags
  <2>4. TypeOK'
    <3>1. reporting' \in BOOLEAN
      BY <2>3, <1>3 DEF FinishInitialization
    <3>2. QED
      BY <1>0, <1>3, <3>1 DEF FinishInitialization, Inv, TypeOK
  <2>5. QED
    BY <1>0, <1>3, <2>1, <2>2, <2>4 DEF FinishInitialization, Inv, Evidence, Earned,
       Decided,
       Answered, OriginalState
<1>4. CASE UNCHANGED vars
  BY <1>0, <1>4, StepInv
<1>5. QED
  BY <1>1, <1>2, <1>3, <1>4 DEF StartupNext, Thread, X3DAudioInitialize, LoadCompanion,
     JudgeCandidate, ClaimInitialization, ReconDone, CreateMarker, NoWorkspace,
     WriteMarker, FlushAndClose, RemoveMarker, StartReporter, StagePasses, StatusTaken,
     StageFails, Install, Arm, Killed, RunConsoleReporter, WorkerRevokes

\* The flags keep their type.
LEMMA FlagsStep ==
    ASSUME SInv, StartupNext
    PROVE  Flags'
<1> USE DEF vars, image, bootstrap, marker, console, report, At, To, MarkerOnly, Flags
<1>0. Flags
  BY DEF SInv, StartupTypes
<1>1. CASE X3DAudioInitialize
  BY <1>0, <1>1 DEF X3DAudioInitialize
<1>2. CASE LoadCompanion
  BY <1>0, <1>2 DEF LoadCompanion
<1>3. CASE JudgeCandidate
  BY <1>0, <1>3 DEF JudgeCandidate, Reject
<1>4. CASE CreateMarker
  BY <1>0, <1>4 DEF CreateMarker, FileDone
<1>5. CASE WriteMarker
  BY <1>0, <1>5 DEF WriteMarker
<1>6. CASE FlushAndClose
  BY <1>0, <1>6 DEF FlushAndClose, FileDone
<1>7. CASE RemoveMarker
  BY <1>0, <1>7 DEF RemoveMarker, FileDone
<1>8. CASE Install
  BY <1>0, <1>8 DEF Install
<1>9. CASE ClaimInitialization \/ JudgeModules \/ AcquireHostHash \/ Recon \/ ReconDone
           \/ NoWorkspace \/ ReportFatal \/ StartReporter \/ StagePasses \/ StatusTaken
           \/ StageFails \/ Arm \/ FinishInitialization \/ Killed \/ RunConsoleReporter
           \/ WorkerRevokes
  BY <1>0, <1>9 DEF ClaimInitialization, JudgeModules, AcquireHostHash, Disqualified,
     Unqualified, Returns, Unmoved, Recon, ReconDone, NoWorkspace, ReportFatal,
     StartReporter, StagePasses, StatusTaken, StageFails, Arm, FinishInitialization,
     Killed, RunConsoleReporter, WorkerRevokes, Conclude, Eligible, Finish,
     RejectReporting, HasWriter
<1>10. QED
  BY <1>1, <1>2, <1>3, <1>4, <1>5, <1>6, <1>7, <1>8, <1>9 DEF StartupNext, Thread

\* So do the words: no stage is passed after the last one.
LEMMA WordsStep ==
    ASSUME SInv, StartupNext
    PROVE  Words'
<1> USE DEF vars, image, bootstrap, marker, console, report, At, To, MarkerOnly, Words,
            Told, Inside, Before, AfterRecon, initializeResult, Acceptance
<1>0. Words
  BY DEF SInv, StartupTypes
<1>1. CASE X3DAudioInitialize
  BY <1>0, <1>1 DEF X3DAudioInitialize
<1>2. CASE ClaimInitialization
  BY <1>0, <1>2 DEF ClaimInitialization, Finish
<1>3. CASE CreateMarker
  BY <1>0, <1>3 DEF CreateMarker, FileDone
<1>4. CASE FlushAndClose
  BY <1>0, <1>4 DEF FlushAndClose, FileDone
<1>5. CASE RemoveMarker
  BY <1>0, <1>5 DEF RemoveMarker, FileDone
<1>6. CASE ReportFatal
  BY <1>0, <1>6 DEF ReportFatal, Conclude
<1>7. CASE StartReporter
  BY <1>0, <1>7 DEF StartReporter
<1>8. CASE StagePasses
  BY StageNames, <1>0, <1>8 DEF StagePasses, Eligible
<1>9. CASE StageFails
  BY StageNames, <1>0, <1>9 DEF StageFails, RejectReporting, HasWriter
<1>10. CASE Arm
  BY <1>0, <1>10 DEF Arm
<1>11. CASE RunConsoleReporter
  BY <1>0, <1>11 DEF RunConsoleReporter
<1>12. CASE LoadCompanion \/ JudgeCandidate \/ JudgeModules \/ AcquireHostHash \/ Recon
            \/ ReconDone \/ NoWorkspace \/ WriteMarker \/ StatusTaken \/ Install
            \/ FinishInitialization \/ Killed \/ WorkerRevokes
  BY <1>0, <1>12 DEF LoadCompanion, JudgeCandidate, JudgeModules, AcquireHostHash,
     Disqualified, Unqualified, Returns, Unmoved, Recon, ReconDone, NoWorkspace,
     WriteMarker, StatusTaken, Install, FinishInitialization, Killed, WorkerRevokes,
     Finish, Reject
<1>13. QED
  BY <1>1, <1>2, <1>3, <1>4, <1>5, <1>6, <1>7, <1>8, <1>9, <1>10, <1>11, <1>12 DEF
     StartupNext, Thread

\* So do the marker's records.
LEMMA MarkerTypesStep ==
    ASSUME SInv, StartupNext
    PROVE  MarkerTypes'
<1> USE DEF vars, image, bootstrap, marker, console, report, At, To, MarkerOnly,
            MarkerTypes, Files, Whole, Says
<1>0. Flags /\ MarkerTypes
  BY DEF SInv, StartupTypes
<1>1. CASE CreateMarker
  BY <1>0, <1>1 DEF CreateMarker, FileDone
<1>2. CASE NoWorkspace
  BY <1>0, <1>2 DEF NoWorkspace
<1>3. CASE WriteMarker
  BY <1>0, <1>3 DEF WriteMarker
<1>4. CASE FlushAndClose
  BY <1>0, <1>4 DEF FlushAndClose, FileDone
<1>5. CASE RemoveMarker
  BY <1>0, <1>5, ZenonT(40) DEF RemoveMarker, FileDone
<1>6. CASE X3DAudioInitialize \/ LoadCompanion \/ JudgeCandidate \/ ClaimInitialization
           \/ JudgeModules \/ AcquireHostHash \/ Recon \/ ReconDone \/ ReportFatal
           \/ StartReporter \/ StagePasses \/ StatusTaken \/ StageFails \/ Install \/ Arm
           \/ FinishInitialization \/ Killed \/ RunConsoleReporter \/ WorkerRevokes
  BY <1>0, <1>6 DEF X3DAudioInitialize, LoadCompanion, JudgeCandidate,
     ClaimInitialization, JudgeModules, AcquireHostHash, Disqualified, Unqualified,
     Returns, Unmoved, Recon, ReconDone, ReportFatal, StartReporter, StagePasses,
     StatusTaken, StageFails, Install, Arm, FinishInitialization, Killed,
     RunConsoleReporter, WorkerRevokes, Conclude, Eligible, Finish, Reject,
     RejectReporting, HasWriter
<1>7. QED
  BY <1>1, <1>2, <1>3, <1>4, <1>5, <1>6 DEF StartupNext, Thread

\* So does the status.
LEMMA StatusTypeStep ==
    ASSUME SInv, StartupNext
    PROVE  StatusType'
<1> USE DEF vars, image, bootstrap, marker, console, report, At, To, MarkerOnly,
            StatusType
<1>0. StatusType
  BY DEF SInv, StartupTypes
<1>1. CASE StagePasses
  BY <1>0, <1>1 DEF StagePasses, Eligible
<1>2. CASE StageFails
  BY <1>0, <1>2 DEF StageFails, RejectReporting, HasWriter
<1>3. CASE WorkerRevokes
  BY <1>0, <1>3 DEF WorkerRevokes
<1>4. CASE X3DAudioInitialize \/ LoadCompanion \/ JudgeCandidate \/ ClaimInitialization
           \/ JudgeModules \/ AcquireHostHash \/ Recon \/ ReconDone \/ CreateMarker
           \/ NoWorkspace \/ WriteMarker \/ FlushAndClose \/ RemoveMarker \/ ReportFatal
           \/ StartReporter \/ StatusTaken \/ Install \/ Arm \/ FinishInitialization
           \/ Killed \/ RunConsoleReporter
  BY <1>0, <1>4 DEF X3DAudioInitialize, LoadCompanion, JudgeCandidate,
     ClaimInitialization, JudgeModules, AcquireHostHash, Disqualified, Unqualified,
     Returns, Unmoved, Recon, ReconDone, CreateMarker, NoWorkspace, WriteMarker,
     FlushAndClose, RemoveMarker, ReportFatal, StartReporter, StatusTaken, Install, Arm,
     FinishInitialization, Killed, RunConsoleReporter, Conclude, FileDone, Finish,
     Reject
<1>5. QED
  BY <1>1, <1>2, <1>3, <1>4 DEF StartupNext, Thread

\* The companion is loaded, judged, entered and claimed in this order, and once.
LEMMA LoadedStep ==
    ASSUME SInv, StartupNext
    PROVE  Loaded'
<1> USE DEF vars, image, bootstrap, marker, console, report, At, To, MarkerOnly, Flags,
            Words, Loaded, AfterRecon, Inside, Before, Told
<1>0. Flags /\ Words /\ Loaded
  BY DEF SInv, StartupTypes
<1>1. CASE X3DAudioInitialize
  BY <1>0, <1>1 DEF X3DAudioInitialize
<1>2. CASE LoadCompanion
  BY <1>0, <1>2 DEF LoadCompanion
<1>3. CASE JudgeCandidate
  BY <1>0, <1>3 DEF JudgeCandidate, Reject
<1>4. CASE ClaimInitialization
  BY <1>0, <1>4 DEF ClaimInitialization, Finish
<1>5. CASE ReportFatal
  BY <1>0, <1>5 DEF ReportFatal, Conclude
<1>6. CASE JudgeModules \/ AcquireHostHash \/ Recon \/ ReconDone \/ CreateMarker
           \/ NoWorkspace \/ WriteMarker \/ FlushAndClose \/ RemoveMarker \/ StartReporter
           \/ StagePasses \/ StatusTaken \/ StageFails \/ Install \/ Arm
           \/ FinishInitialization \/ Killed \/ RunConsoleReporter \/ WorkerRevokes
  BY <1>0, <1>6 DEF JudgeModules, AcquireHostHash, Disqualified, Unqualified, Returns,
     Unmoved, Recon, ReconDone, CreateMarker, NoWorkspace, WriteMarker, FlushAndClose,
     RemoveMarker, StartReporter, StagePasses, StatusTaken, StageFails, Install, Arm,
     FinishInitialization, Killed, RunConsoleReporter, WorkerRevokes, Eligible,
     FileDone, Finish, RejectReporting, HasWriter
<1>7. QED
  BY <1>1, <1>2, <1>3, <1>4, <1>5, <1>6 DEF StartupNext, Thread

\* Nothing is written or started before its turn.
LEMMA UntouchedStep ==
    ASSUME SInv, StartupNext
    PROVE  Untouched'
<1> USE DEF vars, image, bootstrap, marker, console, report, At, To, MarkerOnly, Words,
            Loaded, Untouched, AfterRecon, Inside, Before, Reporting, Told, initializeResult
<1>0. Words /\ Loaded /\ Untouched
  BY DEF SInv, StartupTypes
<1>1. CASE ClaimInitialization
  BY <1>0, <1>1 DEF ClaimInitialization, Finish
<1>2. CASE JudgeModules \/ AcquireHostHash \/ Recon
  BY <1>0, <1>2 DEF JudgeModules, AcquireHostHash, Disqualified, Unqualified, Returns,
     Unmoved, Recon
<1>3. CASE ReconDone
  BY <1>0, <1>3 DEF ReconDone
<1>4. CASE StartReporter
  BY <1>0, <1>4 DEF StartReporter
<1>5. CASE FinishInitialization
  BY <1>0, <1>5 DEF FinishInitialization, Finish
<1>6. CASE CreateMarker
  BY <1>0, <1>6 DEF CreateMarker, FileDone
<1>7. CASE X3DAudioInitialize \/ LoadCompanion \/ JudgeCandidate \/ NoWorkspace
           \/ WriteMarker \/ FlushAndClose \/ RemoveMarker \/ ReportFatal \/ StagePasses
           \/ StatusTaken \/ StageFails \/ Install \/ Arm \/ Killed \/ RunConsoleReporter
           \/ WorkerRevokes
  BY <1>0, <1>7 DEF X3DAudioInitialize, LoadCompanion, JudgeCandidate, NoWorkspace,
     WriteMarker, FlushAndClose, RemoveMarker, ReportFatal, StagePasses, StatusTaken,
     StageFails, Install, Arm, Killed, RunConsoleReporter, WorkerRevokes, Conclude,
     Eligible, FileDone, Reject, RejectReporting, HasWriter
<1>8. QED
  BY <1>1, <1>2, <1>3, <1>4, <1>5, <1>6, <1>7 DEF StartupNext, Thread

\* What the transaction has answered stays.
LEMMA CorrectedStep ==
    ASSUME SInv, StartupNext
    PROVE  Corrected'
<1> USE DEF vars, image, bootstrap, marker, console, report, At, To, MarkerOnly, Words,
            Loaded, Untouched, Corrected, AfterRecon, Inside, Before, Reporting, Told,
            GoesOn, Eligible
<1>0. Words /\ Loaded /\ Untouched /\ Corrected
  BY DEF SInv, StartupTypes
<1>1. CASE JudgeModules \/ AcquireHostHash \/ Recon
  BY <1>0, <1>1 DEF JudgeModules, AcquireHostHash, Disqualified, Unqualified, Returns,
     Unmoved, Recon
<1>2. CASE ReconDone
  BY <1>0, <1>2 DEF ReconDone
<1>3. CASE StartReporter
  BY <1>0, <1>3 DEF StartReporter
<1>4. CASE StagePasses
  BY StageNames, <1>0, <1>4 DEF StagePasses, Eligible
<1>5. CASE FinishInitialization
  BY <1>0, <1>5 DEF FinishInitialization, Finish
<1>6. CASE X3DAudioInitialize \/ LoadCompanion \/ JudgeCandidate \/ ClaimInitialization
           \/ CreateMarker \/ NoWorkspace \/ WriteMarker \/ FlushAndClose \/ RemoveMarker
           \/ ReportFatal \/ StatusTaken \/ StageFails \/ Install \/ Arm \/ Killed
           \/ RunConsoleReporter \/ WorkerRevokes
  BY <1>0, <1>6 DEF X3DAudioInitialize, LoadCompanion, JudgeCandidate,
     ClaimInitialization, CreateMarker, NoWorkspace, WriteMarker, FlushAndClose,
     RemoveMarker, ReportFatal, StatusTaken, StageFails, Install, Arm, Killed,
     RunConsoleReporter, WorkerRevokes, Conclude, FileDone, Finish, Reject,
     RejectReporting, HasWriter
<1>7. QED
  BY <1>1, <1>2, <1>3, <1>4, <1>5, <1>6 DEF StartupNext, Thread

\* The file in the making (CreateMarker to RemoveMarker).
LEMMA AttemptStep ==
    ASSUME SInv, StartupNext
    PROVE  Attempt'
<1> USE DEF vars, image, bootstrap, marker, console, report, At, To, MarkerOnly,
            MarkerTypes, Untouched, Attempt, AfterRecon, Inside, Before, Reporting,
            Files, Clean, Whole, Says, FallbackSays, initializeResult, NotWritten
<1>0. MarkerTypes /\ Loaded /\ Untouched /\ Corrected /\ Attempt
  BY DEF SInv, StartupTypes
<1>1. CASE JudgeModules \/ AcquireHostHash \/ ReconDone
  BY <1>0, <1>1 DEF JudgeModules, AcquireHostHash, Disqualified, Unqualified, Returns,
     Unmoved, ReconDone
<1>2. CASE CreateMarker
  BY <1>0, <1>2 DEF CreateMarker, FileDone
<1>3. CASE WriteMarker
  BY <1>0, <1>3 DEF WriteMarker
<1>4. CASE FlushAndClose
  BY <1>0, <1>4 DEF FlushAndClose, FileDone
<1>5. CASE RemoveMarker
  BY <1>0, <1>5 DEF RemoveMarker, FileDone
<1>6. CASE X3DAudioInitialize \/ LoadCompanion \/ JudgeCandidate \/ ClaimInitialization
           \/ Recon \/ NoWorkspace \/ ReportFatal \/ StartReporter \/ StagePasses
           \/ StatusTaken \/ StageFails \/ Install \/ Arm \/ FinishInitialization \/ Killed
           \/ RunConsoleReporter \/ WorkerRevokes
  BY <1>0, <1>6 DEF X3DAudioInitialize, LoadCompanion, JudgeCandidate,
     ClaimInitialization, Recon, NoWorkspace, ReportFatal, StartReporter, StagePasses,
     StatusTaken, StageFails, Install, Arm, FinishInitialization, Killed,
     RunConsoleReporter, WorkerRevokes, Conclude, Eligible, Finish, Reject,
     RejectReporting, HasWriter
<1>7. QED
  BY <1>1, <1>2, <1>3, <1>4, <1>5, <1>6 DEF StartupNext, Thread

\* The file that counts (FileDone).
LEMMA SettledStep ==
    ASSUME SInv, StartupNext
    PROVE  Settled'
<1> USE DEF vars, image, bootstrap, marker, console, report, At, To, MarkerOnly,
            MarkerTypes, Untouched, Attempt, Settled, AfterRecon, Inside, Before,
            Reporting, Told, Files, Clean, Whole, Says, FallbackSays, initializeResult
<1>0. MarkerTypes /\ Loaded /\ Untouched /\ Corrected /\ Attempt /\ Settled
  BY DEF SInv, StartupTypes
<1>1. CASE CreateMarker
  BY <1>0, <1>1 DEF CreateMarker, FileDone
<1>2. CASE NoWorkspace
  BY <1>0, <1>2 DEF NoWorkspace
<1>3. CASE WriteMarker
  BY <1>0, <1>3 DEF WriteMarker
<1>4. CASE FlushAndClose
  BY <1>0, <1>4 DEF FlushAndClose, FileDone
<1>5. CASE RemoveMarker
  BY <1>0, <1>5 DEF RemoveMarker, FileDone
<1>6. CASE StartReporter
  BY <1>0, <1>6 DEF StartReporter
<1>7. CASE ReportFatal
  BY <1>0, <1>7 DEF ReportFatal, Conclude
<1>8. CASE X3DAudioInitialize \/ LoadCompanion \/ JudgeCandidate \/ ClaimInitialization
           \/ JudgeModules \/ AcquireHostHash \/ Recon \/ ReconDone \/ StagePasses
           \/ StatusTaken \/ StageFails \/ Install \/ Arm \/ FinishInitialization \/ Killed
           \/ RunConsoleReporter \/ WorkerRevokes
  BY <1>0, <1>8 DEF X3DAudioInitialize, LoadCompanion, JudgeCandidate,
     ClaimInitialization, JudgeModules, AcquireHostHash, Disqualified, Unqualified,
     Returns, Unmoved, Recon, ReconDone, StagePasses, StatusTaken, StageFails, Install,
     Arm, FinishInitialization, Killed, RunConsoleReporter, WorkerRevokes, Eligible,
     Finish, Reject, RejectReporting, HasWriter
<1>9. QED
  BY <1>1, <1>2, <1>3, <1>4, <1>5, <1>6, <1>7, <1>8 DEF StartupNext, Thread

\* Only a whole marker accepts, and only after the correction.
LEMMA AcceptsStep ==
    ASSUME SInv, StartupNext
    PROVE  Accepts'
<1> USE DEF vars, image, bootstrap, marker, console, report, At, To, MarkerOnly,
            MarkerTypes, Untouched, Corrected, Attempt, Accepts, AfterRecon, Inside, Before,
            Reporting, Told, Files, Whole, Says, FallbackSays, initializeResult
<1>0. MarkerTypes /\ Untouched /\ Corrected /\ Attempt /\ Accepts
  BY DEF SInv, StartupTypes
<1>1. CASE JudgeModules \/ AcquireHostHash \/ Recon
  BY <1>0, <1>1 DEF JudgeModules, AcquireHostHash, Disqualified, Unqualified, Returns,
     Unmoved, Recon
<1>2. CASE CreateMarker
  BY <1>0, <1>2 DEF CreateMarker, FileDone
<1>3. CASE WriteMarker
  BY <1>0, <1>3 DEF WriteMarker
<1>4. CASE RemoveMarker
  BY <1>0, <1>4 DEF RemoveMarker, FileDone
<1>5. CASE X3DAudioInitialize \/ LoadCompanion \/ JudgeCandidate \/ ClaimInitialization
           \/ ReconDone \/ NoWorkspace \/ FlushAndClose \/ ReportFatal \/ StartReporter
           \/ StagePasses \/ StatusTaken \/ StageFails \/ Install \/ Arm
           \/ FinishInitialization \/ Killed \/ RunConsoleReporter \/ WorkerRevokes
  BY <1>0, <1>5 DEF X3DAudioInitialize, LoadCompanion, JudgeCandidate,
     ClaimInitialization, ReconDone, NoWorkspace, FlushAndClose, ReportFatal,
     StartReporter, StagePasses, StatusTaken, StageFails, Install, Arm,
     FinishInitialization, Killed, RunConsoleReporter, WorkerRevokes, Conclude, Eligible,
     FileDone, Finish, Reject, RejectReporting, HasWriter
<1>6. QED
  BY <1>1, <1>2, <1>3, <1>4, <1>5 DEF StartupNext, Thread

\* Result and console line are taken from the marker (StartReporter).
LEMMA FollowedStep ==
    ASSUME SInv, StartupNext
    PROVE  Followed'
<1> USE DEF vars, image, bootstrap, marker, console, report, At, To, MarkerOnly, Words,
            Untouched, Followed, AfterRecon, Inside, Before, Reporting, Told, MarkerOk,
            Acceptance, initializeResult
<1>0. Words /\ Loaded /\ Untouched /\ Followed
  BY DEF SInv, StartupTypes
<1>1. CASE ReportFatal
  BY <1>0, <1>1 DEF ReportFatal, Conclude
<1>2. CASE StartReporter
  BY <1>0, <1>2 DEF StartReporter
<1>3. CASE RunConsoleReporter
  BY <1>0, <1>3 DEF RunConsoleReporter
<1>4. CASE FinishInitialization
  BY <1>0, <1>4 DEF FinishInitialization, Finish
<1>5. CASE ClaimInitialization
  BY <1>0, <1>5 DEF ClaimInitialization, Finish
<1>6. CASE X3DAudioInitialize \/ LoadCompanion \/ JudgeCandidate \/ JudgeModules
           \/ AcquireHostHash \/ Recon \/ ReconDone \/ CreateMarker \/ NoWorkspace
           \/ WriteMarker \/ FlushAndClose \/ RemoveMarker \/ StagePasses \/ StatusTaken
           \/ StageFails \/ Install \/ Arm \/ Killed \/ WorkerRevokes
  BY <1>0, <1>6 DEF X3DAudioInitialize, LoadCompanion, JudgeCandidate, JudgeModules,
     AcquireHostHash, Disqualified, Unqualified, Returns, Unmoved, Recon, ReconDone,
     CreateMarker, NoWorkspace, WriteMarker, FlushAndClose, RemoveMarker, StagePasses,
     StatusTaken, StageFails, Install, Arm, Killed, WorkerRevokes, Eligible, FileDone,
     Reject, RejectReporting, HasWriter
<1>7. QED
  BY <1>1, <1>2, <1>3, <1>4, <1>5, <1>6 DEF StartupNext, Thread

\* The stages of the reporting, its rejection, and the arming.
LEMMA StagedStep ==
    ASSUME SInv, StartupNext
    PROVE  Staged'
<1> USE DEF vars, image, bootstrap, marker, console, report, At, To, MarkerOnly, Words,
            StatusType, Untouched, Loaded, Staged, AfterRecon, Inside, Before,
            Reporting, Told, HasWriter
<1>0. Words /\ StatusType /\ Loaded /\ Untouched /\ Staged
  BY DEF SInv, StartupTypes
<1>1. CASE StagePasses
  BY StageNames, <1>0, <1>1 DEF StagePasses, Eligible
<1>2. CASE StatusTaken
  BY StageNames, <1>0, <1>2 DEF StatusTaken
<1>3. CASE StageFails
  BY StageNames, <1>0, <1>3 DEF StageFails, RejectReporting, HasWriter
<1>4. CASE Install
  BY StageNames, <1>0, <1>4 DEF Install
<1>5. CASE Arm
  BY <1>0, <1>5 DEF Arm
<1>6. CASE FinishInitialization
  BY <1>0, <1>6 DEF FinishInitialization, Finish
<1>7. CASE StartReporter
  BY <1>0, <1>7 DEF StartReporter
<1>8. CASE WorkerRevokes
  BY <1>0, <1>8 DEF WorkerRevokes
<1>9. CASE X3DAudioInitialize \/ LoadCompanion \/ JudgeCandidate \/ ClaimInitialization
           \/ JudgeModules \/ AcquireHostHash \/ Recon \/ ReconDone \/ CreateMarker
           \/ NoWorkspace \/ WriteMarker \/ FlushAndClose \/ RemoveMarker \/ ReportFatal
           \/ Killed \/ RunConsoleReporter
  BY <1>0, <1>9 DEF X3DAudioInitialize, LoadCompanion, JudgeCandidate,
     ClaimInitialization, JudgeModules, AcquireHostHash, Disqualified, Unqualified,
     Returns, Unmoved, Recon, ReconDone, CreateMarker, NoWorkspace, WriteMarker,
     FlushAndClose, RemoveMarker, ReportFatal, Killed, RunConsoleReporter, Conclude,
     FileDone, Finish, Reject
<1>10. QED
  BY <1>1, <1>2, <1>3, <1>4, <1>5, <1>6, <1>7, <1>8, <1>9 DEF StartupNext, Thread

\* A step of the startup, or none, keeps the whole invariant.
LEMMA StartupStep == SInv /\ [StartupNext]_startupVars => SInv'
<1> SUFFICES ASSUME SInv, [StartupNext]_startupVars PROVE SInv'
  OBVIOUS
<1>1. CASE StartupNext
  <2>1. StartupTypes'
    BY <1>1, FlagsStep, WordsStep, MarkerTypesStep, StatusTypeStep DEF StartupTypes
  <2>2. QED
    BY <1>1, <2>1, ImageStep, LoadedStep, UntouchedStep, CorrectedStep, AttemptStep,
       SettledStep, AcceptsStep, FollowedStep, StagedStep DEF SInv
<1>2. CASE UNCHANGED startupVars
  <2> USE <1>2 DEF startupVars, bootstrap, marker, console, report
  <2>1. Inv'
    BY StepInv DEF SInv
  <2>2. StartupTypes' /\ Loaded'
    BY DEF SInv, StartupTypes, Flags, Words, MarkerTypes, StatusType, Loaded
  <2>3. Untouched' /\ Corrected'
    BY DEF SInv, Untouched, Corrected, GoesOn, vars
  <2>4. Attempt' /\ Settled' /\ Accepts'
    BY DEF SInv, Attempt, Settled, Accepts, Clean, Whole, Says, FallbackSays,
       initializeResult, vars
  <2>5. Followed' /\ Staged'
    BY DEF SInv, Followed, Staged, MarkerOk, initializeResult, HasWriter, vars
  <2>6. QED
    BY <2>1, <2>2, <2>3, <2>4, <2>5 DEF SInv
<1>3. QED
  BY <1>1, <1>2
-----------------------------------------------------------------------------
(* The theorems about the startup.                                         *)

\* The inductive invariant holds of every startup, for any number of calls.
THEOREM StartupInvariance == StartupSpec => []SInv
  BY StartsUntouched, StartupStep, PTL DEF StartupSpec

\* The correction of a whole startup, bootstrap, marker and reporting included,
\* leaves a certain image (RunCompanionInitialization).
THEOREM StartupImageIsCertain == StartupSpec => []CertainImage
<1>1. SInv => CertainImage
  BY DEF SInv, Inv, TypeOK, Earned, Decided, CertainImage
<1>2. QED
  BY StartupInvariance, <1>1, PTL

\* Result, marker and console line tell one story (WriteMarkerWithFallback,
\* StartReporter).
LEMMA StoryIsOne == SInv => OneStory
<1> SUFFICES ASSUME SInv, At("outside"),
                    result \notin {"none", "InvalidContext", "HostIdentityFailed"}
             PROVE  /\ result = "Ok" <=> wrote.written /\ files[wrote.file] = "accepted"
                    /\ result = "Ok" => \A f \in Files \ {wrote.file} : files[f] = "none"
                    /\ "passed" \in {line, shown} => result = "Ok"
  BY DEF OneStory
<1>1. result \in Told
  BY DEF SInv, StartupTypes, Words
<1>2. MarkerTypes /\ Settled /\ Followed /\ Accepts
  BY DEF SInv, StartupTypes
<1>3. result = "Ok" <=> MarkerOk /\ initializeResult = "Ok"
  BY <1>1, <1>2 DEF Followed, initializeResult
<1>4. wrote.written => (files[wrote.file] = "accepted" <=> MarkerOk /\ initializeResult = "Ok")
  BY <1>1, <1>2 DEF Settled, Whole, Says, FallbackSays, MarkerOk, MarkerTypes, Files
<1>5. MarkerOk => \A f \in Files \ {wrote.file} : files[f] = "none"
  BY <1>1, <1>2 DEF Settled, Clean, MarkerOk, MarkerTypes, Files
<1>6. "passed" \in {line, shown} => result = "Ok"
  BY <1>2 DEF Followed, At
<1>7. MarkerOk => wrote.written
  BY DEF MarkerOk
<1>8. QED
  BY <1>3, <1>4, <1>5, <1>6, <1>7

\* No accepted marker is ever on disk before the correction is certain, wherever
\* the process is killed, and nothing else is told than what the marker says.
THEOREM MarkerTruth == StartupSpec => []MarkerIsTrue
<1>1. ASSUME SInv PROVE MarkerIsTrue
  <2>1. ASSUME "accepted" \in {files[f] : f \in Files}
        PROVE  /\ pc = "done" /\ fetch = {bytes}
               /\ IF mode = "Active" THEN bytes = "corrected" /\ prot = "RX"
                                    ELSE OriginalState
    <3>1. pc = "done" /\ outcome \in {"Passive", "Active"}
      BY <1>1, <2>1 DEF SInv, Accepts, initializeResult
    <3>2. QED
      BY <1>1, <3>1 DEF SInv, Inv, Earned, Answered
  <2>2. QED
    BY <1>1, <2>1, StoryIsOne DEF MarkerIsTrue
<1>2. QED
  BY StartupInvariance, <1>1, PTL

\* Outside the call the companion is whole or gone, at whatever stage it failed
\* (LoadAndInitializeCompanion, StartReporting with its rejection).
THEOREM CompanionIsWhole == StartupSpec => []WholeOrNothing
<1>1. SInv => WholeOrNothing
  BY DEF SInv, Loaded, Staged, WholeOrNothing, At
<1>2. QED
  BY StartupInvariance, <1>1, PTL
-----------------------------------------------------------------------------
(* The genuine library resolved by concurrent calls (GenuineResolver).     *)

CallerPlaces ==
    AtWork \cup {"idle", "look1", "look1b", "begin", "resolve", "look2", "look2b", "look3", "look3b",
                 "last", "lastb", "failed", "offer", "forward"}
ResolverTypeOK ==
    /\ pending \in BOOLEAN /\ normal \in Callers \cup {"fallback", None}
    /\ fallbackState \in {"Empty", "Writing", "Ready"} /\ fallback \in BOOLEAN
    /\ records \in SUBSET Callers
    /\ where \in [Callers -> CallerPlaces] /\ begun \in [Callers -> BOOLEAN]
    /\ attempt \in [Callers -> Nat] /\ lease \in [Callers -> Callers \cup {"fallback", "private", None}]

\* A lease is held through the forwarded call and at no other time, and it names
\* the one record that is published in the slot it was read from.
LeasesNamed ==
    \A c \in Callers :
        /\ lease[c] # None <=> where[c] = "forward"
        /\ lease[c] \in Callers => lease[c] = normal
        /\ lease[c] = "fallback" => fallbackState = "Ready"

\* A caller whose record was published finds it at the first look of every later call.
WinnerRests == normal \in Callers => where[normal] \in {"idle", "look1", "forward"}

\* One caller at most writes the fallback record, and it is complete before it is shown.
OneWriter ==
    /\ \A c \in Callers : where[c] \in {"write", "ready"} => fallbackState = "Writing"
    /\ \A c, d \in Callers : where[c] \in {"write", "ready"} /\ where[d] \in {"write", "ready"} => c = d
    /\ \A c \in Callers : where[c] = "ready" => fallback
    /\ \A c \in Callers : where[c] = "offer" => fallbackState = "Ready"
    /\ fallbackState = "Ready" => fallback
    /\ normal = "fallback" => fallbackState = "Ready"

\* `references' is a natural number by Counted.
ResolverInv ==
    /\ ResolverTypeOK /\ LeasesNamed /\ WinnerRests /\ OneWriter
    /\ Counted /\ NoneLeaks

\* Where the looks for a published record lead.
LEMMA LookPlaces ==
    /\ DOMAIN Looks = {"look1", "look2", "look3", "last", "publish4", "look5"}
    /\ Looks["look1"] = "begin" /\ Looks["look2"] = "resolve" /\ Looks["look3"] = "look2"
    /\ Looks["last"] = "failed" /\ Looks["publish4"] = "allocate" /\ Looks["look5"] = "claim"
    /\ Again["look1"] = "look1b" /\ Again["look2"] = "look2b" /\ Again["look3"] = "look3b"
    /\ Again["last"] = "lastb" /\ Again["publish4"] = "publish4b" /\ Again["look5"] = "look5b"
  BY DEF Looks, Again

\* A step of one caller keeps everything but the count, which the next lemmas follow.
LEMMA CallerStep ==
    ASSUME ResolverInv, NEW c \in Callers, Call(c) \/ Step(c)
    PROVE  (ResolverTypeOK /\ LeasesNamed /\ WinnerRests /\ OneWriter /\ NoneLeaks)'
<1> USE ResolverAssumption
        DEF ResolverInv, ResolverTypeOK, CallerPlaces, AtWork, LeasesNamed, WinnerRests, OneWriter, NoneLeaks,
            CallerGoes, Forwards, shared, own
<1>1. CASE Call(c)
  BY <1>1 DEF Call
<1>2. CASE \E p \in DOMAIN Looks : TryGetNormal(c, p)
  BY <1>2, LookPlaces DEF TryGetNormal
<1>3. CASE \E p \in DOMAIN Looks : TryGetReadyFallback(c, p)
  BY <1>3, LookPlaces DEF TryGetReadyFallback, FallbackReady
<1>4. CASE BeginOnce(c)
  <2>1. CASE /\ normal = None /\ begun' = [begun EXCEPT ![c] = TRUE]
             /\ CallerGoes(c, "begin", "resolve") /\ pending' = TRUE
             /\ UNCHANGED <<attempt, lease>>
    BY <1>4, <2>1 DEF BeginOnce
  <2>2. CASE normal # None /\ Forwards(c, normal) /\ UNCHANGED pending
    BY <1>4, <2>2 DEF BeginOnce
  <2>3. CASE CallerGoes(c, "begin", "resolve") /\ UNCHANGED <<own, pending>>
    BY <1>4, <2>3 DEF BeginOnce
  <2> QED
    BY <1>4, <2>1, <2>2, <2>3 DEF BeginOnce
<1>5. CASE Load(c)
  BY <1>5 DEF Load, Retries, GivesUp
<1>6. CASE Validate(c)
  BY <1>6 DEF Validate, Retries, GivesUp
<1>7. CASE Allocate(c)
  BY <1>7 DEF Allocate
<1>8. CASE Complete(c)
  BY <1>8 DEF Complete
<1>9. CASE ObserveWinner(c)
  BY <1>9 DEF ObserveWinner, Lost
<1>10. CASE ClaimFallback(c)
  BY <1>10 DEF ClaimFallback
<1>11. CASE WriteFallback(c)
  BY <1>11 DEF WriteFallback
<1>12. CASE PublishFallback(c)
  BY <1>12 DEF PublishFallback
<1>13. CASE OfferFallback(c)
  BY <1>13 DEF OfferFallback
<1>14. CASE GlanceAtFallback(c)
  BY <1>14 DEF GlanceAtFallback, Glance, FallbackReady
<1>15. CASE Return(c)
  BY <1>15 DEF Return
<1> QED
  BY <1>1, <1>2, <1>3, <1>4, <1>5, <1>6, <1>7, <1>8, <1>9, <1>10, <1>11, <1>12, <1>13, <1>14, <1>15 DEF Step

\* A step of one caller adds its reference, gives it up, or neither.
LEMMA OwnersChange ==
    ASSUME ResolverTypeOK, NEW c \in Callers,
           \A d \in Callers \ {c} : where'[d] = where[d] /\ lease'[d] = lease[d]
    PROVE  /\ Cardinality(Owners) \in Nat /\ Cardinality(Owners') \in Nat
           /\ (Owns(c)' <=> Owns(c)) => Owners' = Owners
           /\ ~Owns(c) /\ Owns(c)' => Cardinality(Owners') = Cardinality(Owners) + 1
           /\ Owns(c) /\ ~Owns(c)' => Cardinality(Owners') = Cardinality(Owners) - 1
<1>1. IsFiniteSet(Owners) /\ IsFiniteSet(Owners')
  BY ResolverAssumption, FS_Subset DEF Owners
<1>2. (Owns(c)' <=> Owns(c)) => Owners' = Owners
  BY DEF Owners, Owns
<1>3. ~Owns(c) /\ Owns(c)' => Owners' = Owners \cup {c} /\ c \notin Owners
  BY DEF Owners, Owns
<1>4. Owns(c) /\ ~Owns(c)' => Owners' = Owners \ {c} /\ c \in Owners
  BY DEF Owners, Owns
<1>5. Owners' = Owners \cup {c} /\ c \notin Owners => Cardinality(Owners') = Cardinality(Owners) + 1
  BY <1>1, FS_AddElement
<1>6. Owners' = Owners \ {c} /\ c \in Owners => Cardinality(Owners') = Cardinality(Owners) - 1
  BY <1>1, FS_RemoveElement
<1>7. Cardinality(Owners) \in Nat /\ Cardinality(Owners') \in Nat
  BY <1>1, FS_CardinalityType
<1> QED
  BY <1>2, <1>3, <1>4, <1>5, <1>6, <1>7

\* The two records that can be published count one each.
LEMMA PublishedCount ==
    /\ Cardinality(Published) \in Nat
    /\ Cardinality(Published) = (IF normal \in Callers THEN 1 ELSE 0) + (IF fallbackState = "Ready" THEN 1 ELSE 0)
<1>1. Cardinality({}) = 0 /\ Cardinality({normal}) = 1 /\ Cardinality({"fallback"}) = 1
  BY FS_EmptySet, FS_Singleton
<1>2. normal \in Callers => IsFiniteSet({normal}) /\ "fallback" \notin {normal}
  BY ResolverAssumption, FS_Singleton
<1>3. normal \in Callers => Cardinality({normal} \cup {"fallback"}) = 1 + 1
  BY <1>1, <1>2, FS_AddElement, ZenonT(40)
<1>4. CASE normal \in Callers /\ fallbackState = "Ready"
  BY <1>4, <1>3 DEF Published
<1>5. CASE normal \in Callers /\ fallbackState # "Ready"
  <2>1. Published = {normal}
    BY <1>5 DEF Published
  <2> QED
    BY <2>1, <1>5, <1>1
<1>6. CASE normal \notin Callers /\ fallbackState = "Ready"
  <2>1. Published = {"fallback"}
    BY <1>6 DEF Published
  <2> QED
    BY <2>1, <1>6, <1>1
<1>7. CASE normal \notin Callers /\ fallbackState # "Ready"
  <2>1. Published = {}
    BY <1>7 DEF Published
  <2> QED
    BY <2>1, <1>7, <1>1
<1> QED
  BY <1>4, <1>5, <1>6, <1>7

\* The same count after a step.
LEMMA PublishedCountNext ==
    (/\ Cardinality(Published) \in Nat
     /\ Cardinality(Published) = (IF normal \in Callers THEN 1 ELSE 0) + (IF fallbackState = "Ready" THEN 1 ELSE 0))'
  BY PublishedCount, PTL

\* The count is kept by a step that moves it as the owners change.
LEMMA CountStep ==
    ASSUME ResolverTypeOK, Counted, NEW c \in Callers,
           \A d \in Callers \ {c} : where'[d] = where[d] /\ lease'[d] = lease[d],
           references' = references
               + (IF Owns(c)' THEN 1 ELSE 0) - (IF Owns(c) THEN 1 ELSE 0)
               + (IF normal' \in Callers THEN 1 ELSE 0) - (IF normal \in Callers THEN 1 ELSE 0)
               + (IF fallbackState' = "Ready" THEN 1 ELSE 0) - (IF fallbackState = "Ready" THEN 1 ELSE 0)
    PROVE  Counted'
<1>1. Cardinality(Owners') = Cardinality(Owners) + (IF Owns(c)' THEN 1 ELSE 0) - (IF Owns(c) THEN 1 ELSE 0)
  BY OwnersChange
<1>2. Cardinality(Owners) \in Nat
  BY OwnersChange
<1> QED
  BY <1>1, <1>2, PublishedCount, PublishedCountNext DEF Counted

\* The loader's count follows its owners in every step: what is loaded is released or
\* published once.
LEMMA ReferencesStep ==
    ASSUME ResolverInv, NEW c \in Callers, Call(c) \/ Step(c)
    PROVE  Counted'
<1>0. references \in Nat
  <2>1. Cardinality(Owners) \in Nat
    BY ResolverAssumption, FS_Subset, FS_CardinalityType DEF Owners
  <2> QED
    BY <2>1, PublishedCount DEF ResolverInv, Counted
<1> SUFFICES
        /\ \A d \in Callers \ {c} : where'[d] = where[d] /\ lease'[d] = lease[d]
        /\ references' = references
               + (IF Owns(c)' THEN 1 ELSE 0) - (IF Owns(c) THEN 1 ELSE 0)
               + (IF normal' \in Callers THEN 1 ELSE 0) - (IF normal \in Callers THEN 1 ELSE 0)
               + (IF fallbackState' = "Ready" THEN 1 ELSE 0) - (IF fallbackState = "Ready" THEN 1 ELSE 0)
  BY CountStep DEF ResolverInv
<1> USE <1>0, ResolverAssumption
        DEF ResolverInv, ResolverTypeOK, LeasesNamed, OneWriter, CallerGoes, Forwards, Owns, AtWork, shared, own
<1>1. CASE Call(c)
  BY <1>1 DEF Call
<1>2. CASE \E p \in DOMAIN Looks : TryGetNormal(c, p)
  BY <1>2, LookPlaces DEF TryGetNormal, Owning
<1>3. CASE \E p \in DOMAIN Looks : TryGetReadyFallback(c, p)
  BY <1>3, LookPlaces DEF TryGetReadyFallback, FallbackReady, Owning
<1>4. CASE BeginOnce(c)
  BY <1>4 DEF BeginOnce
<1>5. CASE Load(c)
  BY <1>5 DEF Load, Retries, GivesUp
<1>6. CASE Validate(c)
  BY <1>6 DEF Validate, Retries, GivesUp
<1>7. CASE Allocate(c)
  BY <1>7 DEF Allocate
<1>8. CASE Complete(c)
  BY <1>8 DEF Complete
<1>9. CASE ObserveWinner(c)
  BY <1>9 DEF ObserveWinner, Lost
<1>10. CASE ClaimFallback(c)
  BY <1>10 DEF ClaimFallback
<1>11. CASE WriteFallback(c)
  BY <1>11 DEF WriteFallback
<1>12. CASE PublishFallback(c)
  BY <1>12 DEF PublishFallback
<1>13. CASE OfferFallback(c)
  BY <1>13 DEF OfferFallback
<1>14. CASE GlanceAtFallback(c)
  BY <1>14 DEF GlanceAtFallback, Glance, FallbackReady
<1>15. CASE Return(c)
  BY <1>15 DEF Return
<1> QED
  BY <1>1, <1>2, <1>3, <1>4, <1>5, <1>6, <1>7, <1>8, <1>9, <1>10, <1>11, <1>12, <1>13, <1>14, <1>15 DEF Step

\* No step of any caller breaks the invariant.
LEMMA ResolverStep ==
    ASSUME ResolverInv, [ResolverNext]_resolverVars
    PROVE  ResolverInv'
<1>1. CASE ResolverNext
  BY <1>1, CallerStep, ReferencesStep DEF ResolverNext, ResolverInv
<1>2. CASE UNCHANGED resolverVars
  BY <1>2 DEF resolverVars, shared, own, ResolverInv, ResolverTypeOK, LeasesNamed, WinnerRests, OneWriter,
              Counted, NoneLeaks, Published, Owners, Owns
<1> QED
  BY <1>1, <1>2

\* Before the first exported call nothing is loaded.
LEMMA ResolverStarts == ResolverInit => ResolverInv
<1> SUFFICES ASSUME ResolverInit PROVE ResolverInv
  OBVIOUS
<1>1. Published = {} /\ Owners = {}
  BY ResolverAssumption DEF ResolverInit, Published, Owners, Owns, AtWork
<1>2. Counted
  BY <1>1, FS_EmptySet DEF ResolverInit, Counted
<1> QED
  BY <1>2, ResolverAssumption DEF ResolverInit, ResolverInv, ResolverTypeOK, CallerPlaces, AtWork, LeasesNamed, WinnerRests, OneWriter, NoneLeaks

\* The invariant of concurrent resolutions of the genuine library
\* (genuine_resolver.cpp, AcquireGenuineX3Audio).
THEOREM ResolverInvariance == ResolverSpec => []ResolverInv
<1> QED
  BY ResolverStarts, ResolverStep, PTL DEF ResolverSpec

\* However many calls resolve the library at once and however their publications
\* end, each forwards through a whole record, and every reference to the library is
\* owned by a record that stays or a caller that will release it.
THEOREM LibraryStaysLoaded == ResolverSpec => []ReferencesOwned
<1>1. ResolverInv => ForwardsWhole
  BY ResolverAssumption DEF ResolverInv, ResolverTypeOK, LeasesNamed, OneWriter, NoneLeaks, ForwardsWhole
<1>2. ResolverInv => ReferencesOwned
  BY <1>1 DEF ResolverInv, ReferencesOwned
<1> QED
  BY <1>2, ResolverInvariance, PTL
-----------------------------------------------------------------------------
(* The inventory of a running process (Inventory).                         *)

FileRecord == {r \in [id : Nat, wanted : BOOLEAN] : r.id = 0 => r = Missing}

\* Modules and files carry the number of the change that put them there.
DiskInv ==
    /\ changes \in Nat /\ loaded \in [Modules -> Nat] /\ file \in [Modules -> FileRecord]
    /\ \A m \in Modules : loaded[m] <= changes /\ file[m].id <= changes

\* What the tool remembers of a path: a file that stood there, and if its identity
\* is there now it is still the same file.
Known(m, r) == r \in FileRecord /\ r.id <= changes /\ (r.id = file[m].id => r = file[m])
IsList(list) ==
    /\ DOMAIN list \subseteq Modules /\ list = [m \in DOMAIN list |-> list[m]]
    /\ \A m \in DOMAIN list : Known(m, list[m])

CapturePlaces  == {"open", "list", "query", "reread", "compare", "unstable"}
ArtifactPlaces == {"hash", "content", "rehash", "contract"}
ValidatePlaces == ArtifactPlaces \cup {"validate", "recon", "verdict"}

\* Two lists that agree speak of the instant of the second: a file read before that
\* instant and found again after it was there at that instant.
CaptureInv ==
    /\ IsList(previous) /\ IsList(current) /\ IsList(inventory) /\ IsList(atLast)
    /\ todo \in SUBSET Modules
    /\ inventory = Empty \/ inventory = atLast
    /\ \A m \in DOMAIN previous : previous[m].id # 0
    /\ \A m \in DOMAIN inventory : inventory[m].id # 0
    /\ tool \in CapturePlaces => inventory = Empty /\ ~passed
    /\ tool = "query" => todo # {}
    /\ tool = "reread" => todo # {} /\ Known(Chosen, before) /\ before.id # 0
    /\ tool = "compare" => todo = {}
    /\ tool \in {"query", "reread", "compare"} =>
        /\ DOMAIN atLast = DOMAIN current \cup todo /\ DOMAIN current \cap todo = {}
        /\ \A m \in DOMAIN previous \cap DOMAIN atLast : previous[m] = file[m] => atLast[m] = previous[m]
        /\ \A m \in DOMAIN current :
            /\ current[m].id # 0
            /\ m \in DOMAIN previous /\ previous[m].id = current[m].id => current[m] = atLast[m]

\* A module leaves the list with a finding or with the contents that were asked for.
ValidateInv ==
    /\ tool \in ValidatePlaces => inventory # Empty /\ ~passed
    /\ tool = "validate" => todo = DOMAIN inventory
    /\ tool \in ArtifactPlaces => todo # {} /\ todo \subseteq DOMAIN inventory
    /\ tool \in {"recon", "verdict"} => todo = {}
    /\ tool \in ArtifactPlaces \cup {"recon", "verdict"} /\ ~finding =>
           DOMAIN inventory = Modules /\ \A m \in Modules \ todo : inventory[m].wanted
    /\ tool \in {"content", "rehash", "contract"} => before = inventory[Chosen]
    /\ tool = "rehash" /\ file[Chosen] = before => before.wanted
    /\ tool = "contract" => before.wanted
    /\ passed => \A m \in Modules : inventory[m].wanted
    /\ tool_report = "pass" => passed

CompanionWords == [published : BOOLEAN, pinned : BOOLEAN, ready : BOOLEAN, latched : BOOLEAN]
ReadingStates == {"none", "invalid", "revoked", "uninitialized", "busy", "not-ready", "ready"}
Readings == [header : Nat, core : Nat, ready : BOOLEAN, latched : BOOLEAN, state : ReadingStates]

\* The header read before and after the core is of one companion, and so is the core:
\* a companion that was loaded later has another number.
ReadInv ==
    /\ words \in CompanionWords /\ out \in Readings
    /\ tool \in {"core", "again"} => out.header # 0 /\ out.header <= changes
                                  /\ (loaded[Companion] # 0 => out.header <= loaded[Companion])
    /\ tool = "again" => out.header <= out.core /\ out.core <= changes
                         /\ (loaded[Companion] # 0 => out.core <= loaded[Companion])
    /\ tool # "again" => out.core = 0 \/ out.core = out.header
    /\ tool \notin {"again", "gates", "unchangedAfter", "final", "sticky", "state", "report", "done"} => out.core = 0
    /\ latchedAtGates => out.latched /\ tool \in {"state", "report", "done"}
    /\ out.state = "ready" => out.core = out.header /\ ~out.latched
    /\ tool \notin {"report", "done"} => out.state = "none"

InventoryInv == DiskInv /\ CaptureInv /\ ValidateInv /\ ReadInv

\* What is on the disk changes to something never seen there, so what the tool knows of
\* a path stays true, and what it finds there again has not left in between.
LEMMA DiskStep ==
    ASSUME DiskInv, [InventoryNext]_inventoryVars
    PROVE  /\ DiskInv' /\ changes <= changes'
           /\ \A m \in Modules : loaded'[m] # 0 => loaded'[m] = loaded[m] \/ changes < loaded'[m]
           /\ \A m \in Modules : \A r : Known(m, r) =>
                  /\ r \in FileRecord /\ r.id <= changes' /\ (r.id = file'[m].id => r = file'[m])
                  /\ r.id # 0 /\ r = file'[m] => r = file[m]
<1>0. /\ changes \in Nat /\ loaded \in [Modules -> Nat] /\ file \in [Modules -> FileRecord]
      /\ \A m \in Modules : loaded[m] \in Nat /\ loaded[m] <= changes
      /\ \A m \in Modules : file[m] \in FileRecord /\ file[m].id \in Nat /\ file[m].id <= changes
      /\ \A r \in FileRecord : r.id \in Nat /\ (r.id = 0 => r = Missing)
  BY DEF DiskInv, FileRecord
<1>1. CASE UNCHANGED disk
  BY <1>0, <1>1 DEF disk, DiskInv, Known
<1>2. CASE \E m \in Modules : Loads(m) \/ Unloads(m)
  BY <1>0, <1>2 DEF Loads, Unloads, Change, DiskInv, Known
<1>3. CASE \E m \in Modules : Replaces(m)
  <2>1. PICK m \in Modules : Replaces(m)
    BY <1>3
  <2>2. PICK new : /\ new \in {Missing, [id |-> changes', wanted |-> TRUE], [id |-> changes', wanted |-> FALSE]}
                   /\ file' = [file EXCEPT ![m] = new]
    BY <2>1 DEF Replaces
  <2>3. changes' = changes + 1 /\ UNCHANGED loaded
    BY <2>1 DEF Replaces, Change
  <2>4. new \in FileRecord /\ (new = Missing \/ new.id = changes') /\ Missing.id = 0
    <3>1. changes' \in Nat /\ changes' # 0
      BY <2>3, <1>0
    <3>2. \A n \in Nat : \A w \in BOOLEAN :
              [id |-> n, wanted |-> w] \in [id : Nat, wanted : BOOLEAN] /\ [id |-> n, wanted |-> w].id = n
      OBVIOUS
    <3>3. 0 \in Nat /\ FALSE \in BOOLEAN /\ TRUE \in BOOLEAN
      OBVIOUS
    <3>4. Missing \in FileRecord /\ Missing.id = 0
      BY <3>2, <3>3 DEF FileRecord, Missing
    <3>5. \A w \in BOOLEAN : [id |-> changes', wanted |-> w] \in FileRecord /\ [id |-> changes', wanted |-> w].id = changes'
      BY <3>1, <3>2 DEF FileRecord
    <3> QED
      BY <2>2, <3>3, <3>4, <3>5
  <2>5. \A x \in Modules : file'[x] = IF x = m THEN new ELSE file[x]
    BY <2>2, <1>0
  <2>6. file' \in [Modules -> FileRecord]
    BY <2>2, <2>4, <1>0
  <2>7. \A x \in Modules : loaded'[x] <= changes' /\ file'[x].id <= changes'
    BY <1>0, <2>3, <2>4, <2>5
  <2>8. DiskInv'
    BY <1>0, <2>3, <2>6, <2>7 DEF DiskInv
  <2>9. \A x \in Modules : \A r : Known(x, r) =>
            /\ r \in FileRecord /\ r.id <= changes' /\ (r.id = file'[x].id => r = file'[x])
            /\ r.id # 0 /\ r = file'[x] => r = file[x]
    BY <1>0, <2>3, <2>4, <2>5 DEF Known
  <2> QED
    BY <1>0, <2>3, <2>8, <2>9
<1>4. UNCHANGED disk \/ \E m \in Modules : Loads(m) \/ Unloads(m) \/ Replaces(m)
  <2>1. Environment => UNCHANGED disk \/ \E m \in Modules : Loads(m) \/ Unloads(m) \/ Replaces(m)
    BY DEF Environment, CompanionMoves, Exits
  <2>2. Capture => UNCHANGED disk
    BY DEF Capture, OpenReader, Unstable, ListFails, Enumerate, QueryFile, ReadPe, ParseFails, CompareLists,
           Fails, Captures, Invalidated, NextAttempt, process
  <2>3. Validation => UNCHANGED disk
    BY DEF Validation, ModuleSet, HashModule, HashFile, HashAgain, Contract, ObserveReconState, Passed,
           Validates, process
  <2>4. ReadStatus => UNCHANGED disk
    BY DEF ReadStatus, ReadRejected, CheckModule, ReadIdentity, Requalify, ReadHeader, ReadCore,
           ReadHeaderAgain, ReadGates, FinalHeader, ReadSticky, ReportingState, Reads, process
  <2>5. WriteRuntimeInventoryReport \/ UNCHANGED inventoryVars => UNCHANGED disk
    BY DEF WriteRuntimeInventoryReport, process, inventoryVars
  <2> QED
    BY <2>1, <2>2, <2>3, <2>4, <2>5 DEF InventoryNext
<1> QED
  BY <1>1, <1>2, <1>3, <1>4

\* A list stays one while the disk changes under it.
LEMMA ListStays ==
    ASSUME DiskInv, [InventoryNext]_inventoryVars, NEW list, IsList(list)
    PROVE  /\ DOMAIN list \subseteq Modules /\ list = [m \in DOMAIN list |-> list[m]]
           /\ \A m \in DOMAIN list :
                /\ list[m] \in FileRecord /\ list[m].id <= changes'
                /\ list[m].id = file'[m].id => list[m] = file'[m]
  BY DiskStep DEF IsList

\* The module that is next is one of those that are left.
LEMMA ChosenIsLeft == todo # {} => Chosen \in todo
  BY DEF Chosen

\* The tool is not in its capture once it has left it.
LEMMA CaptureIsOver ==
    /\ Validation => tool \notin CapturePlaces /\ tool' \notin CapturePlaces /\ tool # "done"
    /\ ReadStatus \/ WriteRuntimeInventoryReport => tool \notin CapturePlaces /\ tool' \notin CapturePlaces
<1>1. Validation => tool \notin CapturePlaces /\ tool' \notin CapturePlaces /\ tool # "done"
  BY DEF Validation, ModuleSet, HashModule, HashFile, HashAgain, Contract, ObserveReconState, Passed, NextArtifact,
         ToolGoes, CapturePlaces
<1>2. ReadStatus \/ WriteRuntimeInventoryReport => tool \notin CapturePlaces /\ tool' \notin CapturePlaces
  BY DEF ReadStatus, ReadRejected, CheckModule, ReadIdentity, Requalify, ReadHeader, ReadCore, RejectStatus,
         ReadHeaderAgain, ReadGates, FinalHeader, ReadSticky, ReportingState, WriteRuntimeInventoryReport,
         ToolGoes, CapturePlaces
<1> QED
  BY <1>1, <1>2

\* The lists of the capture through a step of the process.
LEMMA CaptureBeside ==
    ASSUME DiskInv, CaptureInv, [InventoryNext]_inventoryVars,
           ToolAside
    PROVE  CaptureInv'
<1>1. UNCHANGED <<tool, capture, passed>> /\ Chosen' = Chosen
  BY DEF ToolAside, capture, verdict, Chosen
<1>2. IsList(previous)' /\ IsList(current)' /\ IsList(inventory)' /\ IsList(atLast)'
  BY <1>1, ListStays DEF CaptureInv, capture, IsList, Known
<1>3. tool = "reread" => Known(Chosen, before)'
  BY <1>1, DiskStep, ChosenIsLeft DEF CaptureInv, capture, Known
<1>4. tool \in {"query", "reread", "compare"} =>
        \A m \in DOMAIN previous \cap DOMAIN atLast : previous[m] = file'[m] => atLast[m] = previous[m]
  BY DiskStep DEF CaptureInv, IsList
<1>5. /\ tool = "reread" => todo # {} /\ before.id # 0
      /\ todo \in SUBSET Modules
      /\ inventory = Empty \/ inventory = atLast
      /\ \A m \in DOMAIN previous : previous[m].id # 0
      /\ \A m \in DOMAIN inventory : inventory[m].id # 0
      /\ tool \in CapturePlaces => inventory = Empty /\ ~passed
      /\ tool = "query" => todo # {}
      /\ tool = "compare" => todo = {}
  BY DEF CaptureInv
<1>6. tool \in {"query", "reread", "compare"} =>
        /\ DOMAIN atLast = DOMAIN current \cup todo /\ DOMAIN current \cap todo = {}
        /\ \A m \in DOMAIN current :
            /\ current[m].id # 0
            /\ m \in DOMAIN previous /\ previous[m].id = current[m].id => current[m] = atLast[m]
  BY DEF CaptureInv
<1> QED
  BY <1>1, <1>2, <1>3, <1>4, <1>5, <1>6 DEF CaptureInv, capture

\* After the capture its lists stand.
LEMMA CaptureAfter ==
    ASSUME DiskInv, CaptureInv, ReadStatus \/ WriteRuntimeInventoryReport \/ Validation
    PROVE  CaptureInv'
<1>1. UNCHANGED <<process, previous, current, inventory, atLast>> /\ todo' \in SUBSET Modules
  BY DEF ReadStatus, ReadRejected, CheckModule, ReadIdentity, Requalify, ReadHeader, ReadCore,
         ReadHeaderAgain, ReadGates, FinalHeader, ReadSticky, ReportingState, Reads, WriteRuntimeInventoryReport,
         Validation, ModuleSet, HashModule, HashFile, HashAgain, Contract, ObserveReconState, Passed, NextArtifact,
         Validates, capture, CaptureInv
<1>2. tool' \notin CapturePlaces
  BY CaptureIsOver
<1> QED
  BY <1>1, <1>2 DEF CaptureInv, IsList, Known, process, disk, CapturePlaces

\* The capture itself: a file is remembered as it was found, and found again, before
\* it is put on the list.
LEMMA CaptureRuns ==
    ASSUME DiskInv, CaptureInv, Capture
    PROVE  CaptureInv'
<1>0. UNCHANGED process
  BY DEF Capture, OpenReader, Unstable, ListFails, Enumerate, QueryFile, ReadPe, ParseFails, CompareLists,
         Fails, Captures, Invalidated, NextAttempt
<1>1. \A list : IsList(list) => IsList(list)'
  BY <1>0 DEF IsList, Known, process, disk
<1>2. IsList(Empty) /\ DOMAIN Empty = {}
  BY DEF IsList, Empty
<1> USE DEF CapturePlaces, ToolGoes
<1>3. CASE OpenReader \/ Unstable \/ ListFails \/ ParseFails
  BY <1>0, <1>3 DEF OpenReader, Unstable, ListFails, ParseFails, Fails, Captures, CaptureInv, IsList, Known, process, disk, verdict, capture
<1>4. \A list : NextAttempt(list) /\ IsList(list) /\ (\A m \in DOMAIN list : list[m].id # 0)
                /\ tool \in {"list", "query", "reread", "compare"} => CaptureInv'
  BY <1>0, <1>2 DEF NextAttempt, Captures, CaptureInv, IsList, Known, process, disk, verdict
<1>5. tool \in {"list", "query", "reread", "compare"} /\ Invalidated => CaptureInv'
  BY <1>2, <1>4 DEF Invalidated
<1>6. CASE Enumerate /\ ~Invalidated
  <2>1. /\ todo' = Listed /\ current' = Empty /\ tool' = (IF Listed = {} THEN "compare" ELSE "query")
        /\ atLast' = [m \in Listed |-> file[m]] /\ UNCHANGED <<tries, before, previous, inventory, passed>>
        /\ tool = "list"
    BY <1>6 DEF Enumerate, Captures, verdict
  <2>2. Listed \subseteq Modules
    BY DEF Listed
  <2>3. IsList(atLast)'
    BY <1>0, <2>1, <2>2 DEF DiskInv, IsList, Known, process, disk
  <2> QED
    BY <1>0, <1>2, <2>1, <2>2, <2>3 DEF CaptureInv, IsList, Known, process, disk
<1>7. CASE QueryFile /\ ~Invalidated
  <2>1. /\ tool = "query" /\ file[Chosen] # Missing /\ before' = file[Chosen] /\ tool' = "reread"
        /\ UNCHANGED <<tries, todo, previous, current, inventory, atLast, passed>>
    BY <1>7 DEF QueryFile, Captures, verdict
  <2>2. Chosen \in Modules /\ Chosen' = Chosen
    BY <2>1, ChosenIsLeft DEF CaptureInv, Chosen
  <2>3. Known(Chosen, file[Chosen]) /\ file[Chosen].id # 0
    BY <2>1, <2>2 DEF DiskInv, Known, FileRecord
  <2> QED
    BY <1>0, <2>1, <2>2, <2>3 DEF CaptureInv, IsList, Known, process, disk
<1>8. CASE ReadPe /\ ~Invalidated
  <2> DEFINE m == Chosen
  <2>1. /\ tool = "reread" /\ file[m].id = before.id
        /\ current' = [x \in DOMAIN current \cup {m} |-> IF x = m THEN before ELSE current[x]]
        /\ todo' = todo \ {m} /\ tool' = (IF todo' = {} THEN "compare" ELSE "query")
        /\ UNCHANGED <<tries, previous, inventory, atLast, passed>>
    BY <1>8 DEF ReadPe, Captures, verdict, SameFileIdentity
  <2>2. m \in todo /\ m \in Modules /\ Known(m, before) /\ before = file[m] /\ before.id # 0
    BY <2>1, ChosenIsLeft DEF CaptureInv, Known
  <2>3. IsList(current')
    BY <2>1, <2>2 DEF CaptureInv, IsList
  <2>4. m \in DOMAIN previous /\ previous[m].id = before.id => before = atLast[m]
    BY <2>1, <2>2 DEF CaptureInv, IsList, Known
  <2>5. DOMAIN atLast = DOMAIN current' \cup todo' /\ DOMAIN current' \cap todo' = {}
    BY <2>1, <2>2 DEF CaptureInv
  <2>6. \A x \in DOMAIN current' :
            /\ current'[x].id # 0
            /\ x \in DOMAIN previous /\ previous[x].id = current'[x].id => current'[x] = atLast[x]
    BY <2>1, <2>2, <2>4 DEF CaptureInv
  <2> HIDE DEF m
  <2>7. IsList(current)'
    BY <1>0, <2>3 DEF IsList, Known, process, disk
  <2> QED
    BY <1>0, <2>1, <2>2, <2>5, <2>6, <2>7 DEF CaptureInv, IsList, Known, process, disk
<1>9. CASE CompareLists
  <2>1. tool = "compare" /\ IsList(current) /\ \A m \in DOMAIN current : current[m].id # 0
    BY <1>9 DEF CompareLists, CaptureInv
  <2>2. CASE previous # Empty /\ SameModules(previous, current)
    <3>1. /\ inventory' = current /\ todo' = DOMAIN current /\ tool' = "validate"
          /\ previous' = Empty /\ current' = Empty /\ UNCHANGED atLast
      BY <1>9, <2>2 DEF CompareLists
    <3>2. DOMAIN current = DOMAIN atLast /\ \A m \in DOMAIN current : current[m] = atLast[m]
      BY <2>1, <2>2 DEF CaptureInv, SameModules, SameFileIdentity
    <3>3. current = atLast
      BY <2>1, <3>2 DEF CaptureInv, IsList
    <3> QED
      BY <1>0, <1>2, <2>1, <3>1, <3>3 DEF CaptureInv, IsList, Known, process, disk
  <2>3. CASE NextAttempt(current)
    BY <1>4, <2>1, <2>3
  <2> QED
    BY <1>9, <2>2, <2>3 DEF CompareLists
<1>10. Enumerate \/ QueryFile \/ ReadPe => tool \in {"list", "query", "reread", "compare"}
  BY DEF Enumerate, QueryFile, ReadPe
<1> QED
  BY <1>3, <1>5, <1>6, <1>7, <1>8, <1>9, <1>10 DEF Capture

\* The verdict through a step of the process: a file that is gone does not come back.
LEMMA ValidateBeside ==
    ASSUME DiskInv, CaptureInv, ValidateInv, [InventoryNext]_inventoryVars, ToolAside
    PROVE  ValidateInv'
<1>1. UNCHANGED <<tool, capture, verdict>> /\ Chosen' = Chosen
  BY DEF ToolAside, capture, Chosen
<1>2. tool = "rehash" => Chosen \in DOMAIN inventory /\ before = inventory[Chosen]
  BY ChosenIsLeft DEF ValidateInv, ArtifactPlaces
<1>3. tool = "rehash" => Known(Chosen, before) /\ Chosen \in Modules /\ before.id # 0
  BY <1>2 DEF CaptureInv, IsList
<1>4. tool = "rehash" /\ file'[Chosen] = before => before.wanted
  BY <1>3, DiskStep DEF ValidateInv
<1> QED
  BY <1>1, <1>4 DEF ValidateInv, capture, verdict, ValidatePlaces, ArtifactPlaces

\* The capture hands over a list that is not empty, or none.
LEMMA ValidateStarts ==
    ASSUME DiskInv, CaptureInv, ValidateInv, Capture
    PROVE  ValidateInv'
<1>1. tool \in CapturePlaces /\ ~passed /\ inventory = Empty
  BY DEF Capture, OpenReader, Unstable, ListFails, Enumerate, QueryFile, ReadPe, ParseFails, CompareLists,
         CaptureInv, CapturePlaces
<1>2. UNCHANGED <<passed, tool_report>>
  BY DEF Capture, OpenReader, Unstable, ListFails, Enumerate, QueryFile, ReadPe, ParseFails, CompareLists,
         Fails, Captures, Invalidated, NextAttempt, verdict
<1>3. \/ tool' \in CapturePlaces \cup {"report"}
      \/ /\ tool' = "validate" /\ inventory' = current /\ todo' = DOMAIN current /\ previous # Empty
         /\ SameModules(previous, current)
  BY DEF Capture, OpenReader, Unstable, ListFails, Enumerate, QueryFile, ReadPe, ParseFails, CompareLists,
         Fails, Invalidated, NextAttempt, ToolGoes, CapturePlaces
<1>4. previous # Empty /\ SameModules(previous, current) => current # Empty
  BY DEF CaptureInv, IsList, SameModules, Empty
<1> QED
  BY <1>1, <1>2, <1>3, <1>4 DEF ValidateInv, CapturePlaces, ValidatePlaces, ArtifactPlaces

\* A module is passed over only with its contents vouched for, or with a finding.
LEMMA ValidateRuns ==
    ASSUME DiskInv, CaptureInv, ValidateInv, Validation
    PROVE  ValidateInv'
<1>0. UNCHANGED <<process, inventory, tool_report>> /\ (todo' = todo => Chosen' = Chosen)
  BY DEF Validation, ModuleSet, HashModule, HashFile, HashAgain, Contract, ObserveReconState, Passed,
         Validates, capture, Chosen
<1>1. tool \in ArtifactPlaces => Chosen \in todo /\ Chosen \in DOMAIN inventory /\ Known(Chosen, inventory[Chosen])
  BY ChosenIsLeft DEF ValidateInv, CaptureInv, IsList
<1> USE DEF ToolGoes, ValidatePlaces, ArtifactPlaces
<1>2. CASE ModuleSet
  <2>1. todo # {}
    BY <1>2 DEF ModuleSet, ValidateInv, CaptureInv, IsList, Empty
  <2> QED
    BY <1>0, <1>2, <2>1 DEF ModuleSet, Validates, ValidateInv
<1>3. /\ tool \in ArtifactPlaces /\ Validates
      /\ todo' = todo \ {Chosen} /\ tool' = (IF todo' = {} THEN "recon" ELSE "hash")
      /\ ~finding' => ~finding /\ inventory[Chosen].wanted
      => ValidateInv'
  BY <1>0, <1>1 DEF Validates, ValidateInv
<1>4. CASE HashModule
  BY <1>0, <1>1, <1>3, <1>4 DEF HashModule, NextArtifact, Validates, ValidateInv, SameFileIdentity, Known
<1>5. CASE HashFile
  BY <1>0, <1>1, <1>3, <1>5 DEF HashFile, NextArtifact, Validates, ValidateInv, process, disk
<1>6. CASE HashAgain
  BY <1>0, <1>1, <1>3, <1>6 DEF HashAgain, NextArtifact, Validates, ValidateInv, SameFileIdentity, Known
<1>7. CASE Contract
  BY <1>0, <1>1, <1>3, <1>7 DEF Contract, NextArtifact, Validates, ValidateInv
<1>8. CASE ObserveReconState
  BY <1>0, <1>8 DEF ObserveReconState, Validates, ValidateInv
<1>9. CASE Passed
  BY <1>0, <1>9 DEF Passed, capture, ValidateInv
<1> QED
  BY <1>2, <1>4, <1>5, <1>6, <1>7, <1>8, <1>9 DEF Validation

\* The status is read beside the verdict, and the report repeats it.
LEMMA ValidateAfter ==
    ASSUME ValidateInv, ReadStatus \/ WriteRuntimeInventoryReport
    PROVE  ValidateInv'
<1>1. tool' \notin ValidatePlaces
  BY DEF ReadStatus, ReadRejected, CheckModule, ReadIdentity, Requalify, ReadHeader, ReadCore, RejectStatus,
         ReadHeaderAgain, ReadGates, FinalHeader, ReadSticky, ReportingState, WriteRuntimeInventoryReport,
         ToolGoes, ValidatePlaces, ArtifactPlaces
<1>2. UNCHANGED <<passed, inventory>> /\ (tool_report' = "pass" => passed \/ tool_report = "pass")
  BY DEF ReadStatus, ReadRejected, CheckModule, ReadIdentity, Requalify, ReadHeader, ReadCore,
         ReadHeaderAgain, ReadGates, FinalHeader, ReadSticky, ReportingState, WriteRuntimeInventoryReport,
         Reads, capture, verdict
<1> QED
  BY <1>1, <1>2 DEF ValidateInv, ValidatePlaces, ArtifactPlaces

\* What each entry of the tool's reading leaves as it was.
LEMMA WithHeader ==
    \A o \in Readings : \A h \in Nat :
        /\ [o EXCEPT !.header = h] \in Readings
        /\ [o EXCEPT !.header = h].header = h
        /\ [o EXCEPT !.header = h].core = o.core
        /\ [o EXCEPT !.header = h].latched = o.latched
        /\ [o EXCEPT !.header = h].state = o.state
  BY Zenon DEF Readings

LEMMA WithLatched ==
    \A o \in Readings : \A b \in BOOLEAN :
        /\ [o EXCEPT !.latched = b] \in Readings
        /\ [o EXCEPT !.latched = b].header = o.header
        /\ [o EXCEPT !.latched = b].core = o.core
        /\ [o EXCEPT !.latched = b].latched = b
        /\ [o EXCEPT !.latched = b].state = o.state
  BY Zenon DEF Readings

LEMMA WithState ==
    \A o \in Readings : \A s \in ReadingStates :
        /\ [o EXCEPT !.state = s] \in Readings
        /\ [o EXCEPT !.state = s].header = o.header
        /\ [o EXCEPT !.state = s].core = o.core
        /\ [o EXCEPT !.state = s].latched = o.latched
        /\ [o EXCEPT !.state = s].state = s
  BY Zenon DEF Readings
\* Before the first reading.
LEMMA UnreadFields == Unread \in Readings /\ Unread.header = 0 /\ Unread.core = 0 /\ Unread.state = "none"
<1>1. 0 \in Nat /\ FALSE \in BOOLEAN /\ "none" \in ReadingStates
  BY DEF ReadingStates
<1> QED
  BY <1>1, Zenon DEF Readings, Unread

\* The companion's words change one at a time, and start anew when it is loaded.
LEMMA CompanionWordsStep ==
    ASSUME words \in CompanionWords, [InventoryNext]_inventoryVars
    PROVE  words' \in CompanionWords
<1>1. \A w \in CompanionWords : \A b \in BOOLEAN :
          /\ [w EXCEPT !.published = b] \in CompanionWords /\ [w EXCEPT !.pinned = b] \in CompanionWords
          /\ [w EXCEPT !.ready = b] \in CompanionWords /\ [w EXCEPT !.latched = b] \in CompanionWords
  BY Zenon DEF CompanionWords
<1>2. TRUE \in BOOLEAN /\ FALSE \in BOOLEAN
  OBVIOUS
<1>3. NewStatus \in CompanionWords
  BY <1>2, Zenon DEF NewStatus, CompanionWords
<1>4. (~words.ready /\ ~words.latched) \in BOOLEAN
  OBVIOUS
<1>5. CASE CompanionMoves
  BY <1>1, <1>2, <1>4, <1>5, Zenon DEF CompanionMoves
<1>6. CASE \E m \in Modules : Loads(m)
  BY <1>3, <1>6 DEF Loads
<1>7. Environment => UNCHANGED words \/ CompanionMoves \/ \E m \in Modules : Loads(m)
  BY DEF Environment, Unloads, Replaces, Exits
<1>8. Capture \/ Validation \/ ReadStatus \/ WriteRuntimeInventoryReport \/ UNCHANGED inventoryVars => UNCHANGED words
  <2>1. Capture => UNCHANGED words
    BY DEF Capture, OpenReader, Unstable, ListFails, Enumerate, QueryFile, ReadPe, ParseFails, CompareLists,
           Fails, Captures, Invalidated, NextAttempt, process
  <2>2. Validation => UNCHANGED words
    BY DEF Validation, ModuleSet, HashModule, HashFile, HashAgain, Contract, ObserveReconState, Passed,
           Validates, process
  <2>3. ReadStatus => UNCHANGED words
    BY DEF ReadStatus, ReadRejected, CheckModule, ReadIdentity, Requalify, ReadHeader, ReadCore,
           ReadHeaderAgain, ReadGates, FinalHeader, ReadSticky, ReportingState, Reads, process
  <2>4. WriteRuntimeInventoryReport \/ UNCHANGED inventoryVars => UNCHANGED words
    BY DEF WriteRuntimeInventoryReport, process, inventoryVars
  <2> QED
    BY <2>1, <2>2, <2>3, <2>4
<1> QED
  BY <1>5, <1>6, <1>7, <1>8 DEF InventoryNext

\* The words of the status through a step of the process: a companion that was loaded
\* since is none of those read.
LEMMA ReadBeside ==
    ASSUME InventoryAssumption, DiskInv, ReadInv, [InventoryNext]_inventoryVars,
           UNCHANGED <<tool, observed>>
    PROVE  ReadInv'
<1>1. changes \in Nat /\ changes' \in Nat /\ loaded[Companion] \in Nat /\ loaded'[Companion] \in Nat
  BY DiskStep, InventoryAssumption DEF DiskInv
<1>2. changes <= changes' /\ (loaded'[Companion] # 0 => loaded'[Companion] = loaded[Companion] \/ changes < loaded'[Companion])
  BY DiskStep, InventoryAssumption
<1>3. out.header \in Nat /\ out.core \in Nat
  BY DEF ReadInv, Readings
<1>4. out' = out /\ tool' = tool /\ latchedAtGates' = latchedAtGates
  BY DEF observed
<1>5. tool \in {"core", "again"} => out.header <= changes' /\ (loaded'[Companion] # 0 => out.header <= loaded'[Companion])
  BY <1>1, <1>2, <1>3 DEF ReadInv
<1>6. tool = "again" => out.core <= changes' /\ (loaded'[Companion] # 0 => out.core <= loaded'[Companion])
  BY <1>1, <1>2, <1>3 DEF ReadInv
<1>7. words' \in CompanionWords
  BY CompanionWordsStep DEF ReadInv
<1> QED
  BY <1>4, <1>5, <1>6, <1>7 DEF ReadInv

\* Nothing is read of the status before the verdict on the files.
LEMMA ReadBefore ==
    ASSUME ReadInv, Capture \/ Validation
    PROVE  ReadInv'
<1>1. UNCHANGED <<process, observed>>
  BY DEF Capture, OpenReader, Unstable, ListFails, Enumerate, QueryFile, ReadPe, ParseFails, CompareLists,
         Fails, Captures, Invalidated, NextAttempt,
         Validation, ModuleSet, HashModule, HashFile, HashAgain, Contract, ObserveReconState, Passed, Validates
<1>2. tool \in CapturePlaces \cup ValidatePlaces /\ tool' \in CapturePlaces \cup ValidatePlaces \cup {"unchanged", "report"}
  BY DEF Capture, OpenReader, Unstable, ListFails, Enumerate, QueryFile, ReadPe, ParseFails, CompareLists,
         Fails, Captures, Invalidated, NextAttempt, ToolGoes, CapturePlaces, ValidatePlaces, ArtifactPlaces,
         Validation, ModuleSet, HashModule, HashFile, HashAgain, Contract, ObserveReconState, Passed, NextArtifact
<1>3. tool \notin {"core", "again", "gates", "unchangedAfter", "final", "sticky", "state", "report", "done"}
      /\ tool' \notin {"core", "again", "gates", "unchangedAfter", "final", "sticky", "state", "done"}
  BY <1>2 DEF CapturePlaces, ValidatePlaces, ArtifactPlaces
<1>4. UNCHANGED <<words, out, latchedAtGates>>
  BY <1>1 DEF process, observed
<1>5. words \in CompanionWords /\ out \in Readings /\ out.core = 0 /\ ~latchedAtGates /\ out.state = "none"
  BY <1>3 DEF ReadInv
<1> QED
  BY <1>3, <1>4, <1>5 DEF ReadInv

\* The reading itself.
LEMMA ReadRuns ==
    ASSUME InventoryAssumption, DiskInv, ReadInv, ReadStatus \/ WriteRuntimeInventoryReport
    PROVE  ReadInv'
<1>0. /\ changes \in Nat /\ loaded[Companion] \in Nat /\ loaded[Companion] <= changes
      /\ out \in Readings /\ out.header \in Nat /\ out.core \in Nat
  BY InventoryAssumption DEF DiskInv, ReadInv, Readings
<1>1. Instance \in Nat /\ (Instance # 0 => Instance = loaded[Companion])
  BY <1>0 DEF Instance
<1>2. UNCHANGED process
  BY DEF ReadStatus, ReadRejected, CheckModule, ReadIdentity, Requalify, ReadHeader, ReadCore,
         ReadHeaderAgain, ReadGates, FinalHeader, ReadSticky, ReportingState, WriteRuntimeInventoryReport, Reads
<1>3. UNCHANGED <<changes, loaded, words>> /\ words \in CompanionWords
  BY <1>2 DEF process, disk, ReadInv
<1> USE <1>3 DEF ToolGoes
<1>4. RejectStatus /\ tool \notin {"state", "report", "done"} => ReadInv'
  <2>1. "invalid" \in ReadingStates
    BY DEF ReadingStates
  <2>2. RejectStatus => out' \in Readings /\ out'.header = 0 /\ out'.core = 0 /\ out'.state = "invalid"
    <3> DEFINE rejected == [Unread EXCEPT !.state = "invalid"]
    <3>1. rejected \in Readings /\ rejected.header = Unread.header /\ rejected.core = Unread.core /\ rejected.state = "invalid"
      BY <2>1, WithState, UnreadFields, Zenon
    <3>2. RejectStatus => out' = rejected
      BY DEF RejectStatus
    <3> HIDE DEF rejected
    <3> QED
      BY <3>1, <3>2, UnreadFields
  <2> QED
    BY <2>2 DEF RejectStatus, ReadInv
<1>5. CASE ReadRejected
  BY <1>4, <1>5 DEF ReadRejected
<1>6. CASE CheckModule
  BY <1>4, <1>6 DEF CheckModule, observed, ReadInv
<1>7. CASE ReadIdentity
  <2>1. out' \in Readings /\ out'.core = out.core /\ out'.latched = out.latched /\ out'.state = out.state
    BY <1>0, <1>1, <1>7, WithHeader, Zenon DEF ReadIdentity
  <2> QED
    BY <1>7, <2>1 DEF ReadIdentity, ReadInv
<1>8. CASE Requalify
  BY <1>4, <1>8 DEF Requalify, observed, ReadInv
<1>9. CASE ReadHeader
  <2>1. (out.latched \/ words.latched) \in BOOLEAN
    OBVIOUS
  <2>2. out' \in Readings /\ out'.header = Instance /\ out'.core = out.core /\ out'.state = out.state
    <3>1. out \in Readings /\ Instance \in Nat
      BY <1>0, <1>1
    <3>2. out' = [out EXCEPT !.header = Instance, !.latched = (out.latched \/ words.latched)]
      BY <1>9 DEF ReadHeader
    <3>3. PICK h \in Nat, b \in BOOLEAN : h = Instance /\ b = (out.latched \/ words.latched)
      BY <3>1, <2>1
    <3> DEFINE read == [out EXCEPT !.header = h, !.latched = b]
    <3>4. out' = read
      BY <3>2, <3>3, Zenon
    <3>5. /\ read \in Readings /\ read.header = h /\ read.core = out.core /\ read.state = out.state
      BY <3>1, Zenon DEF Readings
    <3> HIDE DEF read
    <3> QED
      BY <3>3, <3>4, <3>5
  <2> QED
    BY <1>0, <1>1, <1>9, <2>2 DEF ReadHeader, ReadInv
<1>10. CASE ReadCore
  <2>1. tool = "core" /\ Mapped /\ UNCHANGED latchedAtGates
    BY <1>10 DEF ReadCore
  <2>2. CASE out' = [out EXCEPT !.core = loaded[Companion], !.ready = words.ready] /\ tool' = "again"
    <3>1. words.ready \in BOOLEAN
      BY DEF ReadInv, CompanionWords
    <3>2. /\ out' \in Readings /\ out'.core = loaded[Companion] /\ out'.header = out.header
          /\ out'.latched = out.latched /\ out'.state = out.state
      <4>1. out \in Readings /\ loaded[Companion] \in Nat
        BY <1>0
      <4>2. out' = [out EXCEPT !.core = loaded[Companion], !.ready = words.ready]
        BY <2>2
      <4>3. PICK n \in Nat, r \in BOOLEAN : n = loaded[Companion] /\ r = words.ready
        BY <4>1, <3>1
      <4> DEFINE read == [out EXCEPT !.core = n, !.ready = r]
      <4>4. out' = read
        BY <4>2, <4>3, Zenon
      <4>5. /\ read \in Readings /\ read.core = n /\ read.header = out.header
            /\ read.latched = out.latched /\ read.state = out.state
        BY <4>1, Zenon DEF Readings
      <4> HIDE DEF read
      <4> QED
        BY <4>3, <4>4, <4>5
    <3> QED
      BY <1>0, <2>1, <2>2, <3>2 DEF Mapped, ReadInv
  <2>3. CASE UNCHANGED out /\ tool' = "unchangedAfter"
    BY <2>1, <2>3 DEF ReadInv
  <2> QED
    BY <1>10, <2>2, <2>3 DEF ReadCore
<1>11. CASE ReadHeaderAgain
  BY <1>0, <1>1, <1>4, <1>11 DEF ReadHeaderAgain, SameHeader, Mapped, observed, ReadInv
<1>12. CASE ReadGates
  <2>1. (out.latched \/ words.latched) \in BOOLEAN
    OBVIOUS
  <2>2. /\ out' \in Readings /\ out'.header = out.header /\ out'.core = out.core /\ out'.state = out.state
    BY <1>0, <1>12, <2>1, WithLatched, Zenon DEF ReadGates
  <2> QED
    BY <1>12, <2>2 DEF ReadGates, ReadInv
<1>13. CASE FinalHeader
  BY <1>4, <1>13 DEF FinalHeader, observed, ReadInv
<1>14. CASE ReadSticky
  <2>1. (out.latched \/ words.latched) \in BOOLEAN
    OBVIOUS
  <2>2. /\ out' \in Readings /\ out'.header = out.header /\ out'.core = out.core /\ out'.state = out.state
        /\ out'.latched = (out.latched \/ words.latched)
    BY <1>0, <1>14, <2>1, WithLatched, Zenon DEF ReadSticky, AccumulateSticky
  <2>3. latchedAtGates' => out'.latched
    BY <1>14, <2>2 DEF ReadSticky
  <2> QED
    BY <1>14, <2>2, <2>3 DEF ReadSticky, ReadInv
<1>15. CASE ReportingState
  <2>1. PICK s \in ReadingStates : /\ out' = [out EXCEPT !.state = s]
                                   /\ s = "ready" => ~out.latched /\ out.core # 0
    BY <1>15, <1>0 DEF ReportingState, ReadingStates, Readings
  <2>2. /\ out' \in Readings /\ out'.header = out.header /\ out'.core = out.core
        /\ out'.latched = out.latched /\ out'.state = s
    <3>1. out \in Readings
      BY <1>0
    <3>2. out' = [out EXCEPT !.state = s]
      BY <2>1
    <3> QED
      BY <3>1, <3>2, WithState, Zenon
  <2> QED
    BY <1>15, <2>1, <2>2 DEF ReportingState, ReadInv
<1>16. CASE WriteRuntimeInventoryReport
  BY <1>16 DEF WriteRuntimeInventoryReport, observed, ReadInv
<1> QED
  BY <1>5, <1>6, <1>7, <1>8, <1>9, <1>10, <1>11, <1>12, <1>13, <1>14, <1>15, <1>16 DEF ReadStatus

\* The tool starts with nothing read.
LEMMA InventoryStarts == InventoryInit => InventoryInv
<1> SUFFICES ASSUME InventoryInit PROVE InventoryInv
  OBVIOUS
<1>1. 1 \in Nat /\ TRUE \in BOOLEAN /\ FALSE \in BOOLEAN
  OBVIOUS
<1>2. [id |-> 1, wanted |-> TRUE] \in [id : Nat, wanted : BOOLEAN] /\ [id |-> 1, wanted |-> TRUE].id = 1
  BY <1>1, Zenon
<1>3. [id |-> 1, wanted |-> TRUE] \in FileRecord
  BY <1>2 DEF FileRecord
<1>4. DiskInv
  BY <1>2, <1>3 DEF InventoryInit, DiskInv
<1>5. IsList(Empty) /\ DOMAIN Empty = {}
  BY DEF IsList, Empty
<1>6. CaptureInv
  BY <1>5 DEF InventoryInit, CaptureInv, CapturePlaces
<1>7. ValidateInv
  BY DEF InventoryInit, ValidateInv, ValidatePlaces, ArtifactPlaces
<1>8. NewStatus \in CompanionWords
  BY <1>1, Zenon DEF NewStatus, CompanionWords
<1>9. ReadInv
  BY <1>8, UnreadFields DEF InventoryInit, ReadInv
<1> QED
  BY <1>4, <1>6, <1>7, <1>9 DEF InventoryInv

\* No step of the process or of the tool breaks the invariant.
LEMMA InventoryStep ==
    ASSUME InventoryInv, [InventoryNext]_inventoryVars
    PROVE  InventoryInv'
<1>1. DiskInv /\ CaptureInv /\ ValidateInv /\ ReadInv
  BY DEF InventoryInv
<1>2. DiskInv'
  BY <1>1, DiskStep
<1>3. CASE Environment \/ UNCHANGED inventoryVars
  <2>1. ToolAside /\ UNCHANGED <<tool, observed>>
    BY <1>3 DEF Environment, Loads, Unloads, Replaces, Change, CompanionMoves, Exits, ToolAside, inventoryVars
  <2> QED
    BY <1>1, <1>2, <2>1, CaptureBeside, ValidateBeside, ReadBeside, InventoryAssumption DEF InventoryInv
<1>4. CASE Capture
  BY <1>1, <1>2, <1>4, CaptureRuns, ValidateStarts, ReadBefore DEF InventoryInv
<1>5. CASE Validation
  BY <1>1, <1>2, <1>5, CaptureAfter, ValidateRuns, ReadBefore DEF InventoryInv
<1>6. CASE ReadStatus \/ WriteRuntimeInventoryReport
  BY <1>1, <1>2, <1>6, CaptureAfter, ValidateAfter, ReadRuns, InventoryAssumption DEF InventoryInv
<1> QED
  BY <1>3, <1>4, <1>5, <1>6 DEF InventoryNext

\* The invariant of the tool and of the process it reports on
\* (runtime_inventory.cpp).
THEOREM InventoryInvariance == InventorySpec => []InventoryInv
<1> QED
  BY InventoryStarts, InventoryStep, PTL DEF InventorySpec

\* Whatever is loaded, unloaded and replaced while the tool looks: the inventory it
\* accepts was the truth at one instant, a pass is for the files of that inventory,
\* and a ready status was read from one companion.
THEOREM InventoryIsTrue == InventorySpec => []InventoryWasTrue
<1>1. InventoryInv => AcceptedWasTrue
  BY DEF InventoryInv, CaptureInv, AcceptedWasTrue
<1>2. InventoryInv => PassIsOfInventory
  BY DEF InventoryInv, ValidateInv, PassIsOfInventory
<1>3. InventoryInv => ReadyIsOfOne
  BY DEF InventoryInv, ReadInv, ReadyIsOfOne
<1>4. InventoryInv => InventoryWasTrue
  BY <1>1, <1>2, <1>3 DEF InventoryWasTrue
<1> QED
  BY <1>4, InventoryInvariance, PTL
=============================================================================
