----------------------------- MODULE TaskBinding -----------------------------
(***************************************************************************)
(* The reporting runtime redirects one builder pointer, in the slot of the *)
(* game's heartbeat task, and puts it back before it lets go of the task.  *)
(* The slots are the game's: it creates, runs and destroys tasks, numbers  *)
(* them with a counter that wraps, and selects one of them; other modules  *)
(* may hook the same pointer.  The binding has no hold on any of it.  It   *)
(* knows a task by its slot and number, reads everything anew, and writes  *)
(* by compare-and-swap only.                                               *)
(*                                                                         *)
(* `life' numbers the tasks without wrapping: what the code cannot see.    *)
(* A read yields one state of the table (the code reads it twice and       *)
(* compares) or nothing; between a read and a swap anything may happen.    *)
(***************************************************************************)
EXTENDS Naturals, FiniteSets

CONSTANTS
    Slots,        \* of the fixed task table (128)
    None,         \* no slot
    Width,        \* of the game's task counter (2^32)
    MaxTasks,     \* bound on the tasks created
    MaxEpochs     \* bound on the epochs

\* The counter has numbers to wrap through.
ASSUME WidthAssumption == Width \in Nat \ {0}

VARIABLES
    created,      \* tasks so far; the native counter is its lower bits
    tasks,        \* per slot: life, state, builder, and what a hook saved
    selected,     \* life of the selected task, 0 if none
    taskSourceReady, epoch,                  \* runtime: source, and both epochs
    phase, fault, stranded,              \* TaskBinding
    boundTask, taskEpoch, haveIdentity,     \* identity, epoch
    last, lastNativeCounter, haveHistory, continuing,
    pc, then,     \* the owner thread: place, and where the call goes on
    returned,     \* history: slots a foreign module gave our pointer back to
    adopted,      \* history: the life bound last
    known         \* history: `created' when the counter was last accepted

native  == <<created, tasks, selected, returned>>
runtime == <<taskSourceReady, epoch>>
binding == <<phase, fault, stranded, boundTask, taskEpoch, haveIdentity,
             last, lastNativeCounter, haveHistory, continuing, adopted, known>>
taskVars == <<native, runtime, binding, pc, then>>

Id(life) == life % Width
Counter == Id(created)
NoTask == [slot |-> None, id |-> 0]
Identity(s) == [slot |-> s, id |-> Id(tasks[s].life)]
Ours == tasks[boundTask.slot]
Free == [life |-> 0, state |-> "free", builder |-> "other", saved |-> "none"]

TaskInit ==
    /\ created = 0 /\ tasks = [s \in Slots |-> Free] /\ selected = 0 /\ returned = {}
    /\ taskSourceReady = FALSE /\ epoch = [source |-> 0, binding |-> 0]
    /\ phase = "Empty" /\ fault = FALSE /\ stranded = FALSE
    /\ boundTask = NoTask /\ taskEpoch = epoch /\ haveIdentity = FALSE
    /\ last = NoTask /\ lastNativeCounter = 0 /\ haveHistory = FALSE /\ continuing = FALSE
    /\ pc = "idle" /\ then = "idle" /\ adopted = 0 /\ known = 0
-----------------------------------------------------------------------------
(* The game, and other modules.                                            *)

Writes(s, task) == tasks' = [tasks EXCEPT ![s] = task]
Elsewhere == UNCHANGED <<runtime, binding, pc, then>>

\* Fewer tasks than the counter has values come between two accepted reads.
CreateTask(s, heartbeat) ==
    /\ tasks[s].state = "free" /\ created < MaxTasks /\ created < known + Width - 1
    /\ created' = created + 1 /\ returned' = returned \ {s}
    /\ Writes(s, [life |-> created', state |-> "queued", saved |-> "none",
                  builder |-> IF heartbeat THEN "original" ELSE "other"])
    /\ selected' = IF heartbeat THEN created' ELSE selected
    /\ Elsewhere
\* A destroyed task may leave its pointer behind.
DestroyTask(s) ==
    /\ tasks[s].state # "free" /\ UNCHANGED created
    /\ \/ Writes(s, [tasks[s] EXCEPT !.state = "free", !.life = 0]) /\ UNCHANGED returned
       \/ Writes(s, Free) /\ returned' = returned \ {s}
    /\ selected' = IF selected = tasks[s].life THEN 0 ELSE selected
    /\ Elsewhere
\* Only a heartbeat's state is ever asked for.
RunTask(s) ==
    /\ tasks[s].state \in {"queued", "running"} /\ tasks[s].builder # "other"
    /\ Writes(s, [tasks[s] EXCEPT !.state = IF @ = "queued" THEN "running" ELSE "queued"])
    /\ UNCHANGED <<created, selected, returned>> /\ Elsewhere
Select(s) ==
    /\ tasks[s].state # "free" /\ selected # tasks[s].life /\ selected' = tasks[s].life
    /\ UNCHANGED <<created, tasks, returned>> /\ Elsewhere
ForeignHook(s) ==
    /\ tasks[s].state # "free" /\ tasks[s].builder \in {"original", "wrapper"}
    /\ Writes(s, [tasks[s] EXCEPT !.saved = tasks[s].builder, !.builder = "foreign"])
    /\ UNCHANGED <<created, selected, returned>> /\ Elsewhere
ForeignUnhook(s) ==
    /\ tasks[s].builder = "foreign"
    /\ Writes(s, [tasks[s] EXCEPT !.builder = tasks[s].saved, !.saved = "none"])
    /\ returned' = IF tasks[s].saved = "wrapper" /\ ~(phase = "Armed" /\ boundTask.slot = s)
                   THEN returned \cup {s} ELSE returned
    /\ UNCHANGED <<created, selected>> /\ Elsewhere
Environment ==
    \E s \in Slots :
        \/ \E heartbeat \in BOOLEAN : CreateTask(s, heartbeat)
        \/ DestroyTask(s) \/ RunTask(s) \/ Select(s) \/ ForeignHook(s) \/ ForeignUnhook(s)
-----------------------------------------------------------------------------
(* What the owner reads.                                                   *)

OwnerGoes(p) == pc' = p

\* ReadTask without a bound identity: the one slot of the selected number.
Matching == {s \in Slots : tasks[s].state # "free" /\ Id(tasks[s].life) = Id(selected)}
Selected(s) == Id(selected) # 0 /\ Id(selected) <= Counter /\ Matching = {s}

\* ReadTask with one, and the counter's history.
CounterGoes == Counter # 0 /\ Counter >= lastNativeCounter /\ Id(selected) <= Counter
StillBound ==
    /\ Id(selected) = boundTask.id /\ boundTask.id # 0
    /\ Ours.state # "free" /\ Identity(boundTask.slot) = boundTask

HistoryOfTask(s) ==                                              \* mutant
    /\ Counter # 0 /\ Counter >= lastNativeCounter
    /\ haveHistory =>
          IF Id(tasks[s].life) = last.id THEN continuing /\ Identity(s) = last
          ELSE Id(tasks[s].life) > last.id
History(s) ==
    /\ Counter # 0 /\ Counter >= lastNativeCounter
    /\ haveHistory =>
          IF Id(tasks[s].life) = last.id THEN continuing /\ Identity(s) = last
          ELSE Id(tasks[s].life) > last.id /\ Id(tasks[s].life) > lastNativeCounter

\* Fault: Inert for good, and the inverse if it is asked for.
Fault(owns) ==
    /\ phase' = "Inert" /\ fault' = TRUE /\ stranded' = owns
    /\ OwnerGoes(IF owns THEN "inverse" ELSE "idle")
Known == UNCHANGED <<boundTask, taskEpoch, haveIdentity, last, haveHistory,
                     continuing, adopted>>
Uncounted == UNCHANGED <<lastNativeCounter, known>>
Faulting == Fault(haveIdentity) /\ Known
BindingFaulted == Faulting /\ Uncounted
-----------------------------------------------------------------------------
(* Inverse: read, swap, read again.                                        *)

\* A swap works, fails, or works and is reported as failed.
Swap(s, old, new) ==
    \/ /\ tasks[s].builder = old /\ Writes(s, [tasks[s] EXCEPT !.builder = new])
       /\ returned' = returned \ {s}
    \/ UNCHANGED <<tasks, returned>>
OwnerOnly == UNCHANGED runtime

InverseReads ==
    /\ pc = "inverse" /\ OwnerOnly /\ UNCHANGED <<native, then, phase, fault, lastNativeCounter, known>>
    /\ Known
    /\ \/ Ours.builder = "wrapper" /\ OwnerGoes("inverseSwap") /\ UNCHANGED stranded
       \/ Ours.builder # "wrapper" /\ OwnerGoes("idle") /\ stranded' = FALSE
       \/ OwnerGoes("idle") /\ UNCHANGED stranded               \* unreadable
InverseSwaps ==
    /\ pc = "inverseSwap" /\ OwnerGoes("inverseCheck") /\ OwnerOnly
    /\ Swap(boundTask.slot, "wrapper", "original")
    /\ UNCHANGED <<created, selected, binding, then>>
InverseChecks ==
    /\ pc = "inverseCheck" /\ OwnerGoes("idle") /\ OwnerOnly
    /\ stranded' \in {stranded, Ours.builder = "wrapper"}
    /\ UNCHANGED <<native, then, phase, fault, lastNativeCounter, known>> /\ Known
-----------------------------------------------------------------------------
(* RetireTaskBinding, for `then' to go on after it.  It says nothing of    *)
(* the counter, which a caller may have accepted just before.              *)

Retired == phase' = "Retired" /\ UNCHANGED <<fault, stranded>> /\ OwnerGoes(then')
Unmoved == UNCHANGED <<boundTask, taskEpoch, last, haveHistory, adopted>>

RetireUnbound ==
    /\ ~haveIdentity /\ Retired /\ Unmoved /\ UNCHANGED haveIdentity
    /\ continuing' \in {FALSE, continuing /\ tasks[last.slot].state # "free"
                                          /\ Identity(last.slot) = last
                                          /\ tasks[last.slot].builder = "original"}
\* Someone else's pointer: the slot is left alone.
RetireReplaced ==
    /\ haveIdentity /\ Ours.builder # "wrapper"
    /\ IF Ours.state # "free" /\ Identity(boundTask.slot).id = boundTask.id
       THEN Faulting
       ELSE /\ haveIdentity' = FALSE /\ continuing' = FALSE /\ Unmoved /\ Retired
RetireBound ==
    /\ haveIdentity /\ Ours.builder = "wrapper"
    /\ IF Identity(boundTask.slot) # boundTask \/ Ours.state = "free" THEN Faulting
       ELSE IF Ours.state = "running"                    \* TaskNotReady
       THEN OwnerGoes("idle") /\ Unmoved
            /\ UNCHANGED <<phase, fault, stranded, haveIdentity, continuing>>
       ELSE /\ phase' = "Retired" /\ OwnerGoes("retireSwap")
            /\ UNCHANGED <<fault, stranded, haveIdentity, continuing>> /\ Unmoved
Retire(next) ==
    \/ then' = next /\ (RetireUnbound \/ RetireReplaced \/ RetireBound)
    \/ then' = "idle" /\ haveIdentity /\ Faulting                   \* a failed read
RetireSwaps ==
    /\ pc = "retireSwap" /\ OwnerOnly /\ OwnerGoes("retireCheck")
    /\ Swap(boundTask.slot, "wrapper", "original")
    /\ UNCHANGED <<created, selected, binding, then>>
RetireChecks ==
    /\ pc = "retireCheck" /\ OwnerOnly /\ Uncounted /\ UNCHANGED native
    /\ \/ /\ Ours.builder = "original" /\ Ours.state = "queued"
          /\ Identity(boundTask.slot) = boundTask
          /\ haveIdentity' = FALSE /\ continuing' = TRUE /\ stranded' = FALSE
          /\ Unmoved /\ OwnerGoes(then) /\ UNCHANGED <<phase, fault, then>>
       \/ /\ phase' = "Inert" /\ fault' = TRUE /\ OwnerGoes("idle") /\ then' = "idle"
          /\ stranded' \in {TRUE, Ours.builder = "wrapper"}
          /\ UNCHANGED <<haveIdentity, continuing>> /\ Unmoved
-----------------------------------------------------------------------------
(* The runtime's uses: source, Bind, builder, cleanup.                     *)

TaskBegins == pc = "idle" /\ phase # "Inert"

TakeSource ==
    /\ TaskBegins /\ ~taskSourceReady /\ epoch.source < MaxEpochs
    /\ taskSourceReady' = TRUE /\ epoch' = [epoch EXCEPT !.source = @ + 1]
    /\ UNCHANGED <<native, binding, pc, then>>
DropSource ==
    /\ TaskBegins /\ taskSourceReady /\ taskSourceReady' = FALSE /\ Retire("idle")
    /\ Uncounted /\ UNCHANGED <<native, epoch>>

\* An armed binding is read again; it is kept only for its own source.
Reread == lastNativeCounter' = Counter /\ known' = created
BindArmed ==
    /\ TaskBegins /\ taskSourceReady /\ phase = "Armed" /\ OwnerOnly /\ UNCHANGED native
    /\ \/ ~CounterGoes /\ BindingFaulted /\ UNCHANGED then           \* TaskReused
       \/ /\ CounterGoes /\ StillBound
          /\ IF Ours.builder # "wrapper" THEN Fault(TRUE) /\ Known /\ Reread /\ UNCHANGED then
             ELSE IF taskEpoch.source = epoch.source
             THEN Reread /\ Known /\ UNCHANGED <<phase, fault, stranded, pc, then>>
             ELSE Retire("bind") /\ Reread
       \/ Retire("bind") /\ Uncounted                     \* no longer read as bound

Installs(s) ==
    /\ tasks[s].state = "queued" /\ epoch.binding < MaxEpochs
    /\ epoch' = [epoch EXCEPT !.binding = @ + 1]
    /\ IF tasks[s].builder = "wrapper"
       THEN /\ boundTask' = Identity(s) /\ haveIdentity' = TRUE /\ Fault(TRUE)
            /\ UNCHANGED <<taskEpoch, last, lastNativeCounter, haveHistory, continuing, adopted,
                           known>>
       ELSE IF tasks[s].builder # "original"
       THEN UNCHANGED binding /\ OwnerGoes("idle")
       ELSE IF ~History(s)
       THEN BindingFaulted
       ELSE /\ boundTask' = Identity(s) /\ haveIdentity' = TRUE /\ taskEpoch' = epoch'
            /\ Reread /\ phase' = "Preparing" /\ stranded' = FALSE /\ OwnerGoes("installSwap")
            /\ UNCHANGED <<fault, last, haveHistory, continuing, adopted>>
BindTask ==
    /\ phase \in {"Empty", "Retired"} /\ taskSourceReady /\ pc \in {"idle", "bind"}
    /\ then' = "idle" /\ UNCHANGED <<native, taskSourceReady>>
    /\ \/ \E s \in Slots : Selected(s) /\ Installs(s)
       \/ pc' = "idle" /\ UNCHANGED <<binding, epoch>>       \* nothing to be read
InstallSwaps ==
    /\ pc = "installSwap" /\ OwnerOnly /\ UNCHANGED <<created, selected, then>>
    /\ \/ /\ Ours.builder = "original"
          /\ Swap(boundTask.slot, "original", "wrapper") /\ tasks' # tasks
          /\ OwnerGoes("installCheck") /\ UNCHANGED binding
       \/ /\ Swap(boundTask.slot, "original", "wrapper") /\ BindingFaulted
InstallChecks ==
    /\ pc = "installCheck" /\ UNCHANGED <<native, runtime, then>>
    /\ \/ /\ Selected(boundTask.slot) /\ Identity(boundTask.slot) = boundTask
          /\ Counter = lastNativeCounter
          /\ Ours.builder = "wrapper" /\ Ours.state = "queued"
          /\ phase' = "Armed" /\ last' = boundTask /\ haveHistory' = TRUE /\ continuing' = FALSE
          /\ adopted' = Ours.life /\ OwnerGoes("idle")
          /\ UNCHANGED <<fault, stranded, boundTask, taskEpoch, haveIdentity, lastNativeCounter,
                         known>>
       \/ BindingFaulted

\* The wrapper was called: is it for the bound task, in the current epochs?
ValidateBuilderTask ==
    /\ TaskBegins /\ UNCHANGED <<native, runtime>>
    /\ phase = "Armed" /\ taskEpoch = epoch
    /\ IF ~CounterGoes THEN BindingFaulted /\ UNCHANGED then
       ELSE IF StillBound
       THEN IF Ours.state # "queued" \/ Ours.builder = "wrapper"
            THEN Reread /\ Known /\ UNCHANGED <<phase, fault, stranded, pc, then>>
            ELSE Fault(TRUE) /\ Known /\ Reread /\ UNCHANGED then
       ELSE /\ \E s \in Slots :
                  Selected(s) /\ (Counter < lastNativeCounter \/ Identity(s) # boundTask)
            /\ BindingFaulted /\ UNCHANGED then
CleanupRevoked ==
    /\ TaskBegins /\ BindingFaulted /\ OwnerOnly /\ UNCHANGED <<native, then>>

BindingOwner ==
    \/ InverseReads \/ InverseSwaps \/ InverseChecks \/ RetireSwaps \/ RetireChecks
    \/ TakeSource \/ DropSource \/ BindArmed \/ BindTask
    \/ InstallSwaps \/ InstallChecks \/ ValidateBuilderTask \/ CleanupRevoked
TaskNext == BindingOwner \/ Environment
TaskSpec == TaskInit /\ [][TaskNext]_taskVars
-----------------------------------------------------------------------------
(* Properties.                                                             *)

\* Our pointer is in no slot but the one of an armed binding, whatever failed:
\* unless the binding says that it is stranded there, or another module has
\* brought back what it had saved.
NoStrayWrapper ==
    pc = "idle" => \A s \in Slots \ returned :
        tasks[s].builder = "wrapper" => boundTask.slot = s /\ (phase = "Armed" \/ stranded)

\* A task taken up after another one was created after everything the binding
\* had seen of the old one, although both are known by reused slots and numbers.
AdoptsNewer ==
    [][phase' = "Preparing" /\ phase # "Preparing" =>
          LET life == tasks[boundTask'.slot].life IN
              adopted = 0 \/ life = adopted \/ life > known]_taskVars

\* Our pointer stays where the binding knows it, and what is bound next is newer.
BindsOneTask == []NoStrayWrapper /\ AdoptsNewer
=============================================================================
