---------------------------- MODULE ConsoleNotice -----------------------------
(***************************************************************************)
(* The console worker of the reporting status.  Owner, receipt worker and  *)
(* recovery publish; the worker polls, selects at most one notice of the   *)
(* reporting status and one of the recovery status, keeps the latest of    *)
(* each (no queue), and every second at most writes one line to a console  *)
(* whose writes may fail or block.  A selection superseded before it was   *)
(* ever attempted is counted as skipped.                                   *)
(***************************************************************************)
EXTENDS Naturals

CONSTANT MaxChanges          \* bound: publications, stalls and latches of a run

VARIABLES
    now,                     \* the time: the number of changes so far
    reporting,               \* the reporting status block
    recovery,                \* the recovery status block
    armed, closing,
    place,                   \* of the worker: idle, sample, chosen, write, ended
    seen, seenRecovery,      \* this cycle's coherent copies
    pick,                    \* the channel of this cycle's line
    normal, restart,         \* the two channels: latest selection, pending, attempted
    due,                     \* a second has passed since the last attempt
    skipped,
    owed,                    \* history: selections adopted, less those attempted
    told                     \* history: the last lines written, by channel

world  == <<now, reporting, recovery>>
life   == <<armed, closing>>
cycle  == <<seen, seenRecovery, pick>>
chans  == <<normal, restart, skipped, owed>>
wrote  == <<due, told>>
consoleVars == <<world, life, place, cycle, chans, wrote>>

None == [state |-> "none"]
NoChannel == [latest |-> None, pending |-> FALSE, attempted |-> FALSE]

ConsoleInit ==
    /\ now = 1
    /\ reporting = [state |-> "waiting", ready |-> FALSE, fresh |-> TRUE, revoked |-> FALSE, at |-> 1,
                    transition |-> 0, gate |-> FALSE, condition |-> FALSE, conditions |-> 0,
                    published |-> 0]
    /\ recovery = [state |-> "disabled", transition |-> 0, at |-> 0]
    /\ armed = FALSE /\ closing = FALSE /\ place = "idle"
    /\ seen = None /\ seenRecovery = None /\ pick = "none"
    /\ normal = NoChannel /\ restart = NoChannel
    /\ due = TRUE /\ skipped = 0 /\ owed = 0
    /\ told = [normal |-> "none", restart |-> "none"]
-----------------------------------------------------------------------------
(* The publishers.                                                         *)

Changes == now < MaxChanges /\ now' = now + 1 /\ UNCHANGED <<life, place, cycle, chans, wrote>>

\* The owner's transport waits, runs or pauses; the first pump that runs makes it ready.
OwnerTransition ==
    /\ Changes /\ UNCHANGED recovery
    /\ \E state \in {"running", "paused"} \ {reporting.state} :
           /\ state = "paused" => reporting.state = "running"
           /\ reporting' = [reporting EXCEPT !.state = state, !.ready = @ \/ state = "running", !.fresh = TRUE,
                              !.at = now', !.transition = @ + 1, !.published = @ + 1]
OwnerRefreshes ==
    /\ Changes /\ UNCHANGED recovery /\ ~reporting.fresh
    /\ reporting' = [reporting EXCEPT !.fresh = TRUE, !.published = @ + 1]
OwnerStalls ==
    /\ Changes /\ UNCHANGED recovery /\ reporting.fresh /\ reporting' = [reporting EXCEPT !.fresh = FALSE]
\* The receipt worker closes or opens its gate first, then publishes the condition.
WorkerGate ==
    /\ Changes /\ UNCHANGED recovery /\ reporting.gate = reporting.condition
    /\ reporting' = [reporting EXCEPT !.gate = ~@]
WorkerCondition ==
    /\ Changes /\ UNCHANGED recovery /\ reporting.gate # reporting.condition
    /\ reporting' = [reporting EXCEPT !.condition = ~@, !.conditions = @ + 1, !.published = @ + 1]
Revoke ==
    /\ Changes /\ UNCHANGED recovery /\ ~reporting.revoked /\ reporting' = [reporting EXCEPT !.revoked = TRUE]
RecoveryTransition ==
    /\ Changes /\ UNCHANGED reporting /\ recovery.state # "terminal"
    /\ \E state \in {"armed", "terminal"} :
           recovery' = [state |-> state, transition |-> recovery.transition + 1, at |-> now']

ArmReportingConsole ==
    /\ ~armed /\ armed' = TRUE /\ UNCHANGED <<world, closing, place, cycle, chans, wrote>>
StopReportingConsole ==
    /\ ~closing /\ closing' = TRUE /\ UNCHANGED <<world, armed, place, cycle, chans, wrote>>
SecondPasses == ~due /\ due' = TRUE /\ UNCHANGED <<world, life, place, cycle, chans, told>>

Environment == \/ OwnerTransition \/ OwnerRefreshes \/ OwnerStalls \/ WorkerGate \/ WorkerCondition
               \/ Revoke \/ RecoveryTransition \/ ArmReportingConsole \/ StopReportingConsole \/ SecondPasses
-----------------------------------------------------------------------------
(* Selection.                                                              *)

Holding(r) == IF r.ready THEN "paused" ELSE "waiting"
Notice(state, why, r) ==
    [state |-> state, why |-> why, transition |-> r.transition, conditions |-> r.conditions, at |-> r.at]
\* SelectReportingConsoleNotice: disabled over paused over ready.  A condition whose
\* publication is still under way is not yet named.
SelectReportingConsoleNotice(r) ==
    CASE r.revoked -> Notice("disabled", "fault", r)
      [] ~r.revoked /\ r.gate # r.condition ->
             [Notice(Holding(r), "worker", r) EXCEPT !.conditions = 0, !.at = now]
      [] ~r.revoked /\ r.gate /\ r.condition -> Notice(Holding(r), "worker", r)
      [] ~r.revoked /\ ~r.gate /\ ~r.condition /\ r.state # "running" -> Notice(Holding(r), "transport", r)
      [] ~r.revoked /\ ~r.gate /\ ~r.condition /\ r.state = "running" ->
             IF r.ready /\ r.fresh THEN Notice("ready", "transport", r) ELSE Notice(Holding(r), "runtime", r)

Same(a, b) == a = [b EXCEPT !.at = a.at]
Unattempted(channel) == channel.pending /\ ~channel.attempted
Changed(channel, notice) ==
    channel.latest.state = "none" \/ channel.latest.state # notice.state \/ ~Same(channel.latest, notice)
Superseded(channel) == Unattempted(channel)
\* A channel adopts a selection that differs; its last one is skipped if never attempted.
Adopted(channel, notice) ==
    IF Changed(channel, notice) THEN [latest |-> notice, pending |-> TRUE, attempted |-> FALSE] ELSE channel
Counts(channel, notice) ==
    LET new == Changed(channel, notice) IN
    /\ skipped' = skipped + (IF new /\ Superseded(channel) THEN 1 ELSE 0)
    /\ owed' = owed + (IF new THEN 1 ELSE 0)
-----------------------------------------------------------------------------
(* The worker: CycleReportingConsole.                                      *)

Stays == UNCHANGED <<world, life>>
Stopping == closing
ConsoleEnds == place' = "ended" /\ seen' = None /\ seenRecovery' = None /\ pick' = "none"
Rests == place' = "idle" /\ seen' = None /\ seenRecovery' = None /\ pick' = "none"

Finish == place \in {"idle", "chosen"} /\ Stopping /\ ConsoleEnds /\ Stays /\ UNCHANGED <<chans, wrote>>
\* The recovery status is read first, whatever becomes of the reporting status.
BeginCycle ==
    /\ place = "idle" /\ ~Stopping /\ armed /\ Stays /\ place' = "sample"
    /\ UNCHANGED <<seen, pick, normal, wrote>>
    /\ \/ seenRecovery' = None /\ UNCHANGED <<restart, skipped, owed>>       \* busy or disabled
       \/ /\ recovery.state # "disabled" /\ seenRecovery' = recovery
          /\ restart' = Adopted(restart, recovery) /\ Counts(restart, recovery)
Terminal(line) == line.state \in {"disabled", "terminal"}
\* The newer of the terminal ones, else of the two.
UseRecovery(notice) ==
    \/ ~normal'.pending \/ notice = None
    \/ Terminal(seenRecovery) /\ ~Terminal(notice)
    \/ Terminal(seenRecovery) = Terminal(notice) /\ seenRecovery.at >= notice.at
Choose(notice) ==
    LET report == notice # None /\ normal'.pending
        other  == seenRecovery # None /\ restart.pending IN
    IF (report \/ other) /\ due
    THEN /\ place' = "chosen" /\ pick' = (IF other /\ UseRecovery(notice) THEN "restart" ELSE "normal")
         /\ seen' = reporting /\ UNCHANGED seenRecovery
    ELSE Rests
SampleBusy ==
    /\ place = "sample" /\ Stays /\ UNCHANGED <<chans, wrote>> /\ Choose(None)
Sample ==
    /\ place = "sample" /\ Stays /\ UNCHANGED <<restart, wrote>>
    /\ LET notice == SelectReportingConsoleNotice(reporting) IN
       /\ normal' = Adopted(normal, notice) /\ Counts(normal, notice)
       /\ Choose(notice)

\* What was selected is attempted only if its block has not been published meanwhile.
StillCurrent ==
    IF pick = "restart" THEN recovery = seenRecovery
    ELSE [reporting EXCEPT !.fresh = seen.fresh, !.condition = seen.condition] = seen
\* A clock that fails ends the cycle, one that runs backwards the worker, before the
\* sample and once more before the attempt, which then stays due.
ClockFails ==
    /\ place = "sample" \/ (place = "chosen" /\ ~Stopping /\ StillCurrent)
    /\ (Rests \/ ConsoleEnds) /\ Stays /\ UNCHANGED <<chans, wrote>>
Attempting(channel) == [channel EXCEPT !.attempted = TRUE]
Stale == place = "chosen" /\ ~Stopping /\ ~StillCurrent /\ Rests /\ Stays /\ UNCHANGED <<chans, wrote>>
Attempt ==
    /\ place = "chosen" /\ ~Stopping /\ StillCurrent /\ Stays /\ place' = "write" /\ due' = FALSE
    /\ LET channel == IF pick = "restart" THEN restart ELSE normal IN
       /\ owed' = owed - (IF channel.attempted THEN 0 ELSE 1)
       /\ IF pick = "restart" THEN restart' = Attempting(restart) /\ UNCHANGED normal
          ELSE normal' = Attempting(normal) /\ UNCHANGED restart
    /\ UNCHANGED <<cycle, skipped, told>>

Written(channel) == [channel EXCEPT !.pending = FALSE]
FailedForgets(channel) == [channel EXCEPT !.pending = FALSE]     \* mutant
Failed(channel) == channel
Leaves == IF Stopping THEN ConsoleEnds ELSE Rests
WriteOk ==
    /\ place = "write" /\ Stays /\ Leaves /\ UNCHANGED <<due, skipped, owed>>
    /\ IF pick = "restart"
       THEN /\ restart' = Written(restart) /\ told' = [told EXCEPT !.restart = seenRecovery.state]
            /\ UNCHANGED normal
       ELSE LET state == SelectReportingConsoleNotice(seen).state IN
            /\ normal' = Written(normal) /\ told' = [told EXCEPT !.normal = state]
            /\ UNCHANGED restart
WriteFails ==
    /\ place = "write" /\ Stays /\ Leaves /\ UNCHANGED <<wrote, skipped, owed>>
    /\ IF pick = "restart" THEN restart' = Failed(restart) /\ UNCHANGED normal
       ELSE normal' = Failed(normal) /\ UNCHANGED restart
-----------------------------------------------------------------------------
ConsoleWorker == \/ Finish \/ BeginCycle \/ ClockFails \/ SampleBusy \/ Sample \/ Stale \/ Attempt
                 \/ WriteOk \/ WriteFails
NoticeNext == Environment \/ ConsoleWorker
ConsoleSpec == ConsoleInit /\ [][NoticeNext]_consoleVars
\* The worker runs, time passes, and neither a busy status, a failing clock nor a
\* console that refuses the line lasts forever.
ConsoleFairSpec ==
    /\ ConsoleSpec /\ WF_consoleVars(ConsoleWorker) /\ WF_consoleVars(SecondPasses)
    /\ SF_consoleVars(BeginCycle /\ seenRecovery' # None) /\ SF_consoleVars(Sample)
    /\ SF_consoleVars(Sample /\ seenRecovery # None) /\ SF_consoleVars(Attempt)
    /\ SF_consoleVars(WriteOk)
-----------------------------------------------------------------------------
(* Properties.                                                             *)

\* Every selection the worker ever adopted was attempted, is still waiting for its
\* first attempt, or is in the count of skipped ones: the log's count of what the
\* console never showed is exact.
SkippedIsExact ==
    owed = skipped + (IF Unattempted(normal) THEN 1 ELSE 0) + (IF Unattempted(restart) THEN 1 ELSE 0)

\* A fault that disables reporting, and a recovery's end, are told on the console,
\* whatever the other channel has to say, unless the worker is stopped.
TerminalLine ==
    /\ armed /\ reporting.revoked ~> told.normal = "disabled" \/ place = "ended"
    /\ armed /\ recovery.state = "terminal" ~> told.restart = "terminal" \/ place = "ended"

\* The console is told what ends, and what it is not told is counted.
TerminalIsTold == TerminalLine /\ []SkippedIsExact
=============================================================================
