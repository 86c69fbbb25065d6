------------------------------ MODULE Startup ------------------------------
(***************************************************************************)
(* From the host's call of X3DAudioInitialize to a running companion: the  *)
(* bootstrap loads it once, it qualifies the host, runs the recon          *)
(* correction (ReconFix), writes its marker file, starts the console line  *)
(* and the reporting, and the call returns.                                *)
(*                                                                         *)
(* One thread does all of this; beside it run the thread that writes the   *)
(* console line and, once prepared, the worker of the reporting.  Every    *)
(* call into the system may fail, and the process may be killed at any     *)
(* step, which leaves the files as they are.                               *)
(***************************************************************************)
EXTENDS ReconFix, Sequences

CONSTANT MaxCalls      \* bound on the host's calls

VARIABLES
    place,      \* of the startup thread
    calls,      \* made so far
    tried,      \* g_optionalAttempted
    held,       \* the loader's reference to the companion
    invoked,    \* RS2ServerFix_InitializeV3 was entered
    claim,      \* g_initializationState: 0, 1 running, 2 finished
    target,     \* the marker file being written
    good,       \* its operations so far succeeded
    files,      \* what each marker file holds
    wrote,      \* MarkerWriteResult
    result,     \* of RunCompanionInitialization
    reporter,   \* the console thread: idle, polling or done
    line,       \* the acceptance its line carries
    shown,      \* what the console shows
    stage,      \* StartReporting's next stage
    status,     \* the status block: initialized, revoked, disabled notice
    writer,     \* the native transport
    hooks,      \* the observer's cells are installed
    recovery    \* LeechRecovery: off, prepared or armed

bootstrap == <<tried, held, invoked, calls>>
marker    == <<target, good, files, wrote>>
console   == <<reporter, line, shown>>
report    == <<stage, status, writer, hooks, recovery>>
startupVars == <<vars, place, bootstrap, claim, marker, result, console, report>>

Files == {"primary", "fallback"}
NotWritten == [written |-> FALSE, file |-> "primary", final |-> FALSE, cleanup |-> FALSE]

StartupInit ==
    /\ Init
    /\ place = "outside" /\ calls = 0 /\ tried = FALSE /\ held = FALSE /\ invoked = FALSE
    /\ claim = 0 /\ target = "primary" /\ good = TRUE
    /\ files = [f \in Files |-> "none"] /\ wrote = NotWritten /\ result = "none"
    /\ reporter = "idle" /\ line = "none" /\ shown = "none"
    /\ stage = 1 /\ status = [ready |-> FALSE, revoked |-> FALSE, notice |-> FALSE]
    /\ writer = "none" /\ hooks = FALSE /\ recovery = "off"

At(p) == place = p
To(p) == place' = p
-----------------------------------------------------------------------------
(* The bootstrap: X3DAudioInitialize and LoadAndInitializeCompanion.       *)

\* The genuine library has been called first; then the gate, and one attempt.
X3DAudioInitialize ==
    /\ At("outside") /\ calls < MaxCalls /\ calls' = calls + 1
    /\ \/ UNCHANGED <<place, tried>>
       \/ IF tried THEN UNCHANGED <<place, tried>> ELSE tried' = TRUE /\ To("load")
    /\ UNCHANGED <<vars, held, invoked, claim, marker, result, console, report>>

LoadCompanion ==
    /\ At("load")
    /\ \/ held' = TRUE /\ To("candidate")
       \/ held' = FALSE /\ To("outside")
    /\ UNCHANGED <<vars, tried, invoked, calls, claim, marker, result, console, report>>

\* Its path, file identity, export and address: a reject releases the module.
Reject == held' = FALSE /\ To("outside")
JudgeCandidate ==
    /\ At("candidate")
    /\ \/ To("initialize") /\ invoked' = TRUE /\ UNCHANGED held
       \/ Reject /\ UNCHANGED invoked
    /\ UNCHANGED <<vars, tried, calls, claim, marker, result, console, report>>
-----------------------------------------------------------------------------
(* RunCompanionInitialization up to the recon correction.                  *)

Finish(r) == claim' = 2 /\ result' = r /\ To("outside")

ClaimInitialization ==
    /\ At("initialize") /\ claim = 0
    /\ \/ claim' = 1 /\ To("modules") /\ UNCHANGED result
       \/ Finish("InvalidContext")                  \* the gate once more
       \/ Finish("HostIdentityFailed")              \* workspace, host path
    /\ UNCHANGED <<vars, bootstrap, marker, console, report>>

\* The bootstrap and the companion beside the executable, the genuine library in
\* System32; then the host's file, opened, hashed and found unchanged.  Without
\* them the correction is disabled, as an unqualified image is.
Disqualified == Unqualified /\ To("create")
JudgeModules ==
    /\ At("modules")
    /\ \/ To("hash") /\ UNCHANGED vars
       \/ Disqualified
    /\ UNCHANGED <<bootstrap, claim, marker, result, console, report>>
AcquireHostHash ==
    /\ At("hash")
    /\ \/ To("recon") /\ UNCHANGED vars
       \/ Disqualified
    /\ UNCHANGED <<bootstrap, claim, marker, result, console, report>>

Recon ==
    /\ At("recon") /\ Transaction
    /\ UNCHANGED <<place, bootstrap, claim, marker, result, console, report>>
ReconDone ==
    /\ At("recon") /\ pc = "done" /\ To("create")
    /\ UNCHANGED <<vars, bootstrap, claim, marker, result, console, report>>

initializeResultLoose == IF outcome = "Fatal" THEN "FixDisabled" ELSE "Ok" \* mutant
initializeResult == IF outcome \in {"Passive", "Active"} THEN "Ok" ELSE "FixDisabled"
-----------------------------------------------------------------------------
(* WriteMarkerWithFallback.                                                *)

\* What a whole marker says.  A primary marker that could not be removed
\* prevents the acceptance of the fallback.
FallbackSays == IF wrote.cleanup THEN "MarkerWriteFailed" ELSE initializeResult
Says == IF target = "primary" THEN initializeResult ELSE FallbackSays
Whole == IF Says = "Ok" THEN "accepted" ELSE "refused"

\* The end of one file: the fallback is tried after the primary, if its path
\* can be built and is another one.
FileDone(ok, cleanup) ==
    /\ good' = TRUE
    /\ IF ok
       THEN /\ To("written") /\ UNCHANGED target
            /\ wrote' = [wrote EXCEPT !.written = TRUE, !.file = target, !.final = FALSE]
       ELSE IF target = "primary"
       THEN /\ To("create") /\ target' = "fallback"
            /\ wrote' = [wrote EXCEPT !.cleanup = cleanup]
       ELSE /\ To("written") /\ UNCHANGED target
            /\ wrote' = [wrote EXCEPT !.final = TRUE, !.cleanup = @ \/ cleanup]
MarkerOnly == UNCHANGED <<vars, bootstrap, claim, result, console, report>>

CreateMarker ==
    /\ At("create") /\ MarkerOnly
    /\ \/ To("write") /\ files' = [files EXCEPT ![target] = "partial"]
          /\ UNCHANGED <<target, good, wrote>>
       \/ FileDone(FALSE, FALSE) /\ UNCHANGED files
\* No workspace: nothing is tried.
NoWorkspace ==
    /\ At("create") /\ target = "primary" /\ To("written") /\ MarkerOnly
    /\ wrote' = [wrote EXCEPT !.final = TRUE] /\ UNCHANGED <<target, good, files>>
WriteMarker ==
    /\ At("write") /\ To("flush") /\ MarkerOnly
    /\ good' \in BOOLEAN
    /\ files' \in {[files EXCEPT ![target] = w] : w \in {Whole} \cup (IF good' THEN {} ELSE {"partial"})}
    /\ UNCHANGED <<target, wrote>>
FlushAndClose ==
    /\ At("flush") /\ MarkerOnly /\ UNCHANGED files
    /\ \/ good /\ FileDone(TRUE, FALSE)
       \/ To("remove") /\ UNCHANGED <<target, good, wrote>>
RemoveMarker ==
    /\ At("remove") /\ MarkerOnly
    /\ \/ files' = [files EXCEPT ![target] = "none"] /\ FileDone(FALSE, FALSE)
       \/ FileDone(FALSE, TRUE) /\ UNCHANGED files
-----------------------------------------------------------------------------
(* The end of the initialization: result, console line, reporting.         *)

MarkerOk == wrote.written /\ ~wrote.cleanup /\ ~wrote.final
Acceptance == IF MarkerOk /\ initializeResult = "Ok" THEN "passed" ELSE "failed"

\* Best effort, then FailFastRecon: the host never goes on.
ReportFatal ==
    /\ At("written") /\ outcome = "Fatal"
    /\ shown' \in {shown, Acceptance} /\ Conclude /\ To("ended")
    /\ UNCHANGED <<bootstrap, claim, marker, result, reporter, line, report>>
GoesOn == outcome # "Fatal"
StartReporter ==
    /\ At("written") /\ GoesOn /\ To("report")
    /\ result' = IF MarkerOk THEN initializeResult ELSE "MarkerWriteFailed"
    /\ \/ reporter' = "polling" /\ line' = Acceptance
       \/ UNCHANGED <<reporter, line>>
    /\ UNCHANGED <<vars, bootstrap, claim, marker, shown, report>>

\* RunConsoleReporter: polls for a console until its time is over, writes once.
RunConsoleReporter ==
    /\ reporter = "polling" /\ reporter' = "done" /\ shown' \in {shown, line}
    /\ UNCHANGED <<vars, place, bootstrap, claim, marker, result, line, report>>

Stages == <<"status", "config", "eligible", "host", "identity", "profile", "logging", "sdk",
            "pump", "resident", "ring", "writer", "record", "runtime", "nativeLog",
            "capture", "publish", "install">>
HasWriter == stage > 12
Eligible == outcome = "Active" /\ result = "Ok"

\* Reject: revoke, publish the fault, schedule the notice, stop the writer.
RejectKeepsWriter ==                                             \* mutant
    /\ status' = [status EXCEPT !.revoked = TRUE, !.notice = TRUE] /\ UNCHANGED writer
RejectReporting ==
    /\ status' = [status EXCEPT !.revoked = TRUE, !.notice = TRUE]
    /\ writer' = IF HasWriter THEN "stopped" ELSE writer

StagePasses ==
    /\ At("report") /\ stage < Len(Stages) /\ stage' = stage + 1
    /\ Stages[stage] = "eligible" => Eligible
    /\ status' = [status EXCEPT !.ready = TRUE]
    /\ writer' = IF Stages[stage] = "writer" THEN "prepared" ELSE writer
    /\ recovery' \in IF Stages[stage] = "capture" THEN {"off", "prepared"} ELSE {recovery}
    /\ UNCHANGED <<vars, place, bootstrap, claim, marker, result, console, hooks>>
StatusTaken ==
    /\ At("report") /\ Stages[stage] = "status" /\ To("finish")
    /\ UNCHANGED <<vars, bootstrap, claim, marker, result, console, report>>
StageFails ==
    /\ At("report") /\ Stages[stage] # "status" /\ RejectReporting
    /\ (To("finish") \/ (Stages[stage] = "install" /\ To("ended")))
    /\ UNCHANGED <<vars, bootstrap, claim, marker, result, console, stage, hooks, recovery>>
Install ==
    /\ At("report") /\ Stages[stage] = "install" /\ hooks' = TRUE /\ To("arm")
    /\ UNCHANGED <<vars, bootstrap, claim, marker, result, console, stage, status, writer,
                   recovery>>
Arm ==
    /\ At("arm") /\ writer' = "armed" /\ To("finish")
    /\ recovery' = IF recovery = "prepared" /\ ~status.revoked THEN "armed" ELSE recovery
    /\ UNCHANGED <<vars, bootstrap, claim, marker, result, console, stage, status, hooks>>
\* The worker may fail from the moment it is prepared.
WorkerRevokes ==
    /\ writer \in {"prepared", "armed"} /\ ~status.revoked
    /\ status' = [status EXCEPT !.revoked = TRUE]
    /\ UNCHANGED <<vars, place, bootstrap, claim, marker, result, console, stage, writer,
                   hooks, recovery>>

FinishInitialization ==
    /\ At("finish") /\ Finish(result)
    /\ host' = "running" /\ reporting' = hooks
    /\ UNCHANGED <<mode, image, attempted, pc, outcome, found, bootstrap, marker, console,
                   report>>

Killed ==
    /\ place # "ended" /\ To("ended")
    /\ UNCHANGED <<vars, bootstrap, claim, marker, result, console, report>>
-----------------------------------------------------------------------------
Thread ==
    \/ LoadCompanion \/ JudgeCandidate \/ ClaimInitialization \/ JudgeModules
    \/ AcquireHostHash \/ Recon \/ ReconDone
    \/ CreateMarker \/ NoWorkspace \/ WriteMarker \/ FlushAndClose \/ RemoveMarker
    \/ ReportFatal \/ StartReporter \/ StagePasses \/ StatusTaken \/ StageFails \/ Install
    \/ Arm \/ FinishInitialization
Alive == place # "ended"
StartupNext ==
    \/ X3DAudioInitialize \/ Thread \/ Killed
    \/ Alive /\ (RunConsoleReporter \/ WorkerRevokes)
StartupSpec == StartupInit /\ [][StartupNext]_startupVars /\ WF_startupVars(Thread)
-----------------------------------------------------------------------------
(* Properties.                                                             *)

\* The result, the marker on disk and the console tell one story: success means
\* exactly one accepted marker, the one reported; any other result means that
\* the reported one does not accept, and no console line ever says more.
OneStory ==
    At("outside") /\ result \notin {"none", "InvalidContext", "HostIdentityFailed"} =>
        /\ result = "Ok" <=> wrote.written /\ files[wrote.file] = "accepted"
        /\ result = "Ok" => \A f \in Files \ {wrote.file} : files[f] = "none"
        /\ "passed" \in {line, shown} => result = "Ok"

\* An accepted marker is never on disk before the correction is certain, not
\* even in a process killed at the worst moment; and it is all that is told.
MarkerIsTrue ==
    /\ "accepted" \in {files[f] : f \in Files} =>
           /\ pc = "done" /\ fetch = {bytes}
           /\ IF mode = "Active" THEN bytes = "corrected" /\ prot = "RX" ELSE OriginalState
    /\ OneStory

\* Outside the call the companion is whole or gone: loaded exactly when it was
\* entered, and its reporting hooked with an armed writer, or revoked, told
\* and with no writer left; the recovery console is armed only with hooks.
WholeOrNothing ==
    At("outside") =>
        /\ held = invoked
        /\ hooks => writer = "armed"
        /\ status.ready /\ ~hooks =>
              status.revoked /\ status.notice /\ writer \in {"none", "stopped"}
        /\ recovery = "armed" => hooks

\* The host's call comes back, or its process ends.
CallReturns == place # "outside" ~> place \in {"outside", "ended"}
=============================================================================
