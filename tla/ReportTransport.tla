--------------------------- MODULE ReportTransport ---------------------------
(***************************************************************************)
(* The report pipeline of the companion DLL: the game's owner thread       *)
(* enqueues numbered records into a ring, the receipt worker turns them    *)
(* into ready frames, the owner hands each frame to the game's own logger  *)
(* and the worker reads the log FILE back, line by line, to learn which    *)
(* records really arrived.  Only a record the worker has found in the file *)
(* and whose native call the owner has published as returned counts as     *)
(* observed, and only observed records give their capture credit back.     *)
(*                                                                         *)
(* Two threads share the words of StatusWireV3, the ring and the ready     *)
(* queue; the game's logger, which may buffer, and the file are the        *)
(* environment.  A record is its sequence number; frame 0 is the bootstrap *)
(* frame that opens the run.  Regions published under an odd/even sequence *)
(* are read here as one coherent value.  A read that meets the owner       *)
(* inside its publication retries; with "race" it may also give up, as the *)
(* code does after three attempts.                                         *)
(***************************************************************************)
EXTENDS Integers, Sequences, FiniteSets

CONSTANTS
    Capacity,        \* kReportRecordCapacity = kNativeLedgerCapacity (256)
    ControlReserve,  \* credits that only control records may use (256 - 254)
    Burst,           \* credits one management pump or builder reserves (9)
    ReadyCapacity,   \* kNativeReadyCapacity (8)
    ServiceFrames,   \* native calls per service opportunity (2)
    MaxRecords,      \* the largest sequence number, UINT64_MAX in the code
    MaxEpoch,        \* bound: logger identities the owner meets
    Recovery,        \* whether the leech recovery is configured
    Disturbances     \* what the logger and the file do to the pipeline

ASSUME ConstantsAssumption ==
    /\ Capacity \in Nat /\ ControlReserve \in 1..Capacity-1   \* data has credit too
    /\ Burst \in 1..Capacity
    /\ ReadyCapacity \in Nat \ {0}
    /\ ServiceFrames \in Nat \ {0}
    /\ MaxRecords \in Nat \ {0} /\ MaxEpoch \in Nat \ {0}
    /\ Recovery \in BOOLEAN
    /\ Disturbances \subseteq {"drop", "duplicate", "garble", "throw",
                               "suppressed", "unsafe", "unreadable", "truncated",
                               "race", "clock", "revoke", "stop"}

VARIABLES
    \* StatusWireV3
    faults,        \* the sticky masks: revoke and loss reasons
    fatal,         \* fatalTransportReason, or "None"
    stopping,      \* StopStatus
    workerPause,   \* the worker's own gate, workerPauseReason
    owner,         \* last coherent owner publication
    worker,        \* last coherent worker publication
    \* ReportRingV3
    slots, written, read,
    \* ready queue of NativePipeline
    ready, readyWrite, readyRead,
    \* the rest of NativePipeline and the ReceiptScanner, worker only
    ledger, ledgerRead, ledgerWrite, nextFormat, prepared, observed,
    startupObserved, held, offset, failed,
    \* NativeReceiptWorker and its thread
    wpc, wreason, request, qualified, lastCycle,
    \* Runtime and NativeLogService, owner only
    opc, epoch, serviced, served, generated, submitted, startup,
    reserved, credit, quota, anchor, state, boundary,
    reason,        \* the fatal reason in the owner's own counters, or "None"
    \* environment: the logger's buffer, the lines written to the file, whether
    \* the file was cut short or replaced, whether anything was mistreated
    buffer, file, cut, disturbed

wire   == <<faults, fatal, stopping, workerPause, owner, worker>>
ring   == <<slots, written, read>>
queue  == <<ready, readyWrite, readyRead>>
books  == <<ledger, ledgerRead, ledgerWrite, nextFormat, prepared>>
scan   == <<observed, startupObserved, held, offset, failed>>
thread == <<wpc, wreason, request, qualified, lastCycle>>
login  == <<epoch, serviced, served, submitted, startup>>
credits == <<reserved, credit, quota, anchor>>
mode   == <<state, boundary, reason>>
env    == <<buffer, file, cut, disturbed>>
vars   == <<wire, ring, queue, books, scan, thread, opc, login, generated,
            credits, mode, env>>

Worker == <<books, scan, thread>>
Owner  == <<opc, login, generated, credits, mode>>

PauseReasons == {"None", "AwaitingLogger", "ReceiptUnavailable", "ReaderBehind",
                 "ReceiptOverdue", "SameFileRequalification"}
FatalReasons == {"ReceiptGap", "FileTruncated", "ProfileUnsafe", "NativeLogException"}
NoFrame == [ticket |-> 0, seq |-> 0]
Empty   == [state |-> "Empty", seq |-> 0]
Garbled == MaxRecords + 1   \* a line of this run that is no frame of it
Slot(n) == n % Capacity
ReadySlot(n) == n % ReadyCapacity

Init ==
    \* InitFinished has emitted and published the SDK's state record.
    /\ faults = {} /\ fatal = "None" /\ stopping = FALSE /\ workerPause = "None"
    /\ owner = [generated |-> 1, submitted |-> 0, startup |-> FALSE, reason |-> "None"]
    /\ worker = [observed |-> 0, prepared |-> 0, startup |-> FALSE]
    /\ slots = [i \in 0..Capacity-1 |-> IF i = 0 THEN 1 ELSE 0]
    /\ written = 1 /\ read = 0
    /\ ready = [i \in 0..ReadyCapacity-1 |-> NoFrame]
    /\ readyWrite = 0 /\ readyRead = 0
    /\ ledger = [i \in 0..Capacity-1 |-> Empty]
    /\ ledgerRead = 0 /\ ledgerWrite = 0 /\ nextFormat = 0 /\ prepared = 0
    /\ observed = 0 /\ startupObserved = FALSE /\ held = FALSE
    /\ offset = 0 /\ failed = FALSE
    /\ wpc = "idle" /\ wreason = "None" /\ request = 0 /\ qualified = 0
    /\ lastCycle = FALSE
    /\ opc = "idle" /\ epoch = 0 /\ serviced = FALSE /\ served = 0
    /\ generated = 1 /\ submitted = 0 /\ startup = FALSE
    /\ reserved = 0 /\ credit = 0 /\ quota = 0 /\ anchor = 0
    /\ state = "WaitingLogger" /\ boundary = 0 /\ reason = "None"
    /\ buffer = <<>> /\ file = <<>> /\ cut = FALSE /\ disturbed = FALSE

-----------------------------------------------------------------------------
(* Status latches and the ring.                                            *)

Revoked == faults # {} \/ fatal # "None" \/ stopping
Latch(f) == faults' = faults \cup {f}

\* LatchTransportFault swaps the reason in, for the first caller only, and then
\* sets the mask that goes with its own reason: two steps of its thread.
ReportStores(r) == fatal' = r                              \* mutant
Report(r) == fatal' = IF fatal = "None" THEN r ELSE fatal
MaskOf(r) ==
    IF r = "ProfileUnsafe" THEN "ProfileMismatch"
    ELSE IF r = "NativeLogException" THEN "NativeUnwind" ELSE "RecordLoss"

\* ReserveCapture's arithmetic; the control reserve is what data may not use.
DataLimit == Capacity - ControlReserve
Outstanding == generated - worker.observed
CanReserveBlind(n, limit) == Outstanding + n <= limit   \* mutant
CanReserve(n, limit) == Outstanding + reserved + n <= limit
CountersAgree ==
    /\ worker.observed <= generated /\ Outstanding <= Capacity
    /\ reserved <= Capacity
CounterSpent(n) == n = MaxRecords

\* Enqueue by the owner: refused once revoked, a loss when full or exhausted.
Enqueue ==
    IF ~Revoked /\ written - read < Capacity /\ ~CounterSpent(written)
    THEN /\ slots' = [slots EXCEPT ![Slot(written)] = written + 1]
         /\ written' = written + 1
         /\ generated' = written + 1
         /\ UNCHANGED faults
    ELSE /\ IF Revoked THEN UNCHANGED faults
            ELSE Latch(IF CounterSpent(written) THEN "CounterOverflow" ELSE "RecordLoss")
         /\ UNCHANGED <<slots, written, generated>>

\* PauseRuntimeTransport: only a running transport pauses, and it announces it
\* with a control record whose credit must be there.
Pause ==
    \/ /\ state # "Running"
       /\ UNCHANGED <<mode, faults, slots, written, generated>>
    \/ /\ state = "Running"
       /\ state' = "Paused" /\ reason' = reason
       /\ IF CounterSpent(generated)
          THEN /\ Latch("CounterOverflow")
               /\ UNCHANGED <<boundary, slots, written, generated>>
          ELSE /\ boundary' = generated + 1
               /\ IF CanReserve(1, Capacity)
                  THEN Enqueue
                  ELSE Latch("RecordLoss") /\ UNCHANGED <<slots, written, generated>>

\* A refused reservation pauses the transport, unless the counters contradict
\* each other: then ReserveCapture has latched a loss.
PauseForCredit ==
    IF CountersAgree
    THEN Pause
    ELSE Latch("RecordLoss") /\ UNCHANGED <<mode, slots, written, generated>>

CaptureAdmission ==
    /\ ~Revoked /\ state = "Running"
    /\ startup /\ worker.startup
    /\ workerPause = "None"
-----------------------------------------------------------------------------
(* The owner thread: one pump call is service, refresh, manage, end.       *)

OwnerGoes(from, to) == opc = from /\ opc' = to

BeginPump ==
    /\ OwnerGoes("idle", IF Revoked THEN "end" ELSE "service")
    /\ served' = 0
    /\ UNCHANGED <<wire, ring, queue, Worker, epoch, serviced, submitted, startup,
                   generated, credits, mode, env>>

\* A builder call, or a pump whose quarter-second service interval has not
\* passed: management only.
BeginManagement ==
    /\ ~Revoked
    /\ OwnerGoes("idle", "manage")
    /\ UNCHANGED <<wire, ring, queue, Worker, login, generated, credits, mode, env>>

\* Qualify met an unavailable or a changed logger, or one the worker has not
\* qualified yet.
QualifyFails ==
    /\ OwnerGoes("service", "refresh")
    /\ \/ "suppressed" \in Disturbances /\ epoch' = epoch
       \/ epoch < MaxEpoch /\ epoch' = epoch + 1
       \/ epoch # 0 /\ qualified # epoch /\ epoch' = epoch
    /\ serviced' = FALSE
    /\ UNCHANGED <<wire, ring, queue, Worker, served, submitted, startup,
                   generated, credits, mode, env>>

\* The probe found the game's logger not as the profile knows it.
QualifyUnsafe ==
    /\ "unsafe" \in Disturbances
    /\ OwnerGoes("service", "unsafe")
    /\ Report("ProfileUnsafe")
    /\ serviced' = FALSE
    /\ UNCHANGED <<faults, stopping, workerPause, owner, worker, ring, queue, Worker,
                   epoch, served, submitted, startup, generated, credits, mode, env>>

FrontFrame == ready[ReadySlot(readyRead)]
\* NativeTransportFrame and the loop's own test before each frame.
FrameOffered ==
    /\ epoch # 0 /\ qualified = epoch /\ ~Revoked
    /\ served < ServiceFrames
    /\ readyRead < readyWrite
    /\ FrontFrame.seq # 0 => worker.startup
FrameInOrderByIndex ==                                     \* mutant
    FrontFrame.ticket = readyRead
FrameInOrder ==
    /\ FrontFrame.ticket = readyRead + 1
    /\ IF FrontFrame.seq = 0
       THEN ~startup
       ELSE startup /\ FrontFrame.seq = submitted + 1 /\ FrontFrame.seq <= generated

SubmitFrame ==
    /\ FrameOffered
    /\ OwnerGoes("service", IF FrameInOrder THEN "native" ELSE "refresh")
    /\ IF FrameInOrder
       THEN UNCHANGED <<faults, serviced>>
       ELSE Latch("RecordLoss") /\ serviced' = TRUE
    /\ UNCHANGED <<fatal, stopping, workerPause, owner, worker, ring, queue, Worker, epoch,
                   served, submitted, startup, generated, credits, mode, env>>

ServiceDone ==
    /\ epoch # 0 /\ (qualified = epoch \/ served > 0)
    /\ ~FrameOffered
    /\ OwnerGoes("service", "refresh")
    /\ serviced' = (qualified = epoch)
    /\ UNCHANGED <<wire, ring, queue, Worker, epoch, served, submitted, startup,
                   generated, credits, mode, env>>

\* RateAllows: eight calls in the last second, the frame waits.
RateLimited ==
    /\ FrameOffered /\ FrameInOrder
    /\ OwnerGoes("service", "refresh")
    /\ serviced' = TRUE
    /\ UNCHANGED <<wire, ring, queue, Worker, epoch, served, submitted, startup,
                   generated, credits, mode, env>>

\* The native logger takes the text of the slot as it is now.
LogAppend ==
    /\ OwnerGoes("native", "logged")
    /\ buffer' = Append(buffer, FrontFrame.seq)
    /\ UNCHANGED <<wire, ring, queue, Worker, login, generated, credits, mode,
                   file, cut, disturbed>>

\* A normal return: the local watermark first, then the slot goes back.
LogReturn ==
    /\ OwnerGoes("logged", "service")
    /\ IF FrontFrame.seq = 0
       THEN startup' = TRUE /\ submitted' = submitted
       ELSE startup' = startup /\ submitted' = FrontFrame.seq
    /\ readyRead' = FrontFrame.ticket
    /\ served' = served + 1
    /\ UNCHANGED <<wire, ring, ready, readyWrite, Worker, epoch, serviced, generated,
                   credits, mode, env>>

\* The native call unwinds, before or after it took the text.
LogThrow ==
    /\ "throw" \in Disturbances
    /\ opc \in {"native", "logged"} /\ opc' = "unwind"
    /\ Report("NativeLogException")
    /\ UNCHANGED <<faults, stopping, workerPause, owner, worker, ring, queue, Worker, login,
                   generated, credits, mode, env>>

\* The second half of the owner's LatchTransportFault.
OwnerMarks ==
    /\ \/ OwnerGoes("unwind", "end") /\ Latch(MaskOf("NativeLogException"))
       \/ OwnerGoes("unsafe", "refresh") /\ Latch(MaskOf("ProfileUnsafe"))
    /\ UNCHANGED <<fatal, stopping, workerPause, owner, worker, ring, queue, Worker, login,
                   generated, credits, mode, env>>

RefreshBlocked ==
    \/ ~serviced \/ workerPause # "None" \/ ~startup \/ ~worker.startup

RefreshPause ==
    /\ ~Revoked /\ RefreshBlocked
    /\ OwnerGoes("refresh", "manage")
    /\ Pause
    /\ UNCHANGED <<fatal, stopping, workerPause, owner, worker, read, queue, Worker, login,
                   credits, env>>

\* A paused transport resumes only once every record so far, its own pause
\* included, is observed and nobody holds credit.
ResumeDueAtPause ==                                        \* mutant
    state = "Paused" /\ worker.observed >= boundary /\ reserved = 0
ResumeDue ==
    /\ state = "Paused"
    /\ worker.observed >= generated /\ worker.observed >= boundary /\ reserved = 0

RefreshRun ==
    /\ IF Revoked
       THEN OwnerGoes("refresh", "end") /\ state' = state
       ELSE /\ ~RefreshBlocked
            /\ OwnerGoes("refresh", IF ResumeDue THEN "resume" ELSE "manage")
            /\ state' = IF state = "WaitingLogger" THEN "Running" ELSE state
    /\ UNCHANGED <<wire, ring, queue, Worker, login, generated, credits, boundary, reason,
                   env>>

\* The source and binding were read in between; the worker gate is read again.
Resume ==
    /\ OwnerGoes("resume", "manage")
    /\ workerPause = "None" /\ ~Revoked
    /\ IF CanReserve(1, Capacity)
       THEN Enqueue
       ELSE Latch("RecordLoss") /\ UNCHANGED <<slots, written, generated>>
    /\ state' = IF faults' = {} THEN "Running" ELSE state
    /\ UNCHANGED <<fatal, stopping, workerPause, owner, worker, read, queue, Worker, login,
                   credits, boundary, reason, env>>

\* The source, the binding, the gate or the status refuses.
ResumeRefused ==
    /\ OwnerGoes("resume", "manage")
    /\ UNCHANGED <<wire, ring, queue, Worker, login, generated, credits, mode, env>>

\* ManagePump, or a builder call: reserve first, pause when credit is short.
ManageReserve ==
    /\ CaptureAdmission /\ CanReserve(Burst, DataLimit)
    /\ OwnerGoes("manage", "emit")
    /\ credit' = Burst /\ reserved' = reserved + Burst
    /\ UNCHANGED <<wire, ring, queue, Worker, login, generated, quota, anchor, mode, env>>

ManagePressure ==
    /\ CaptureAdmission /\ ~CanReserve(Burst, DataLimit)
    /\ OwnerGoes("manage", "end")
    /\ PauseForCredit
    /\ UNCHANGED <<fatal, stopping, workerPause, owner, worker, read, queue, Worker, login,
                   credits, env>>

ManageSkip ==
    /\ OwnerGoes("manage", "end")
    /\ UNCHANGED <<wire, ring, queue, Worker, login, generated, credits, mode, env>>

EmitRecord ==
    /\ opc = "emit" /\ credit > 0
    /\ Enqueue
    /\ IF written' # written
       THEN credit' = credit - 1 /\ reserved' = reserved - 1 /\ opc' = opc
       ELSE credit' = credit /\ reserved' = reserved /\ opc' = "end"
    /\ UNCHANGED <<fatal, stopping, workerPause, owner, worker, read, queue, Worker, login,
                   quota, anchor, mode, env>>

EmitDone ==
    /\ OwnerGoes("emit", "end")
    /\ UNCHANGED <<wire, ring, queue, Worker, login, generated, credits, mode, env>>

\* Recovery's reservation outlives the pump that took it.
RecoveryReserve ==
    /\ Recovery /\ opc = "manage" /\ ~Revoked /\ quota = 0
    /\ IF CountersAgree
       THEN /\ \E n \in {1, Burst} :
                 /\ CanReserve(n, DataLimit)
                 /\ quota' = n /\ reserved' = reserved + n
            /\ UNCHANGED faults
       ELSE Latch("RecordLoss") /\ UNCHANGED <<quota, reserved>>
    /\ UNCHANGED <<fatal, stopping, workerPause, owner, worker, ring, queue, Worker, opc,
                   login, generated, credit, anchor, mode, env>>

RecoveryEmit ==
    /\ opc = "manage" /\ quota > 0
    /\ Enqueue
    /\ IF written' # written
       THEN quota' = quota - 1 /\ reserved' = reserved - 1
       ELSE quota' = quota /\ reserved' = reserved
    /\ UNCHANGED <<fatal, stopping, workerPause, owner, worker, read, queue, Worker, opc, login,
                   credit, anchor, mode, env>>

RecoveryRelease ==
    /\ opc = "manage" /\ quota > 0
    /\ quota' = 0 /\ reserved' = reserved - quota
    /\ UNCHANGED <<wire, ring, queue, Worker, opc, login, generated, credit, anchor,
                   mode, env>>

\* PublishRuntimeStatus: an anchor and its summary, on credit of their own.
AnchorReserve ==
    /\ CaptureAdmission /\ credit < 2
    /\ IF CanReserve(2, DataLimit)
       THEN /\ OwnerGoes("end", "anchor")
            /\ anchor' = 2 /\ reserved' = reserved + 2
            /\ UNCHANGED <<faults, slots, written, generated, mode>>
       ELSE /\ OwnerGoes("end", "publish")
            /\ PauseForCredit
            /\ UNCHANGED <<anchor, reserved>>
    /\ UNCHANGED <<fatal, stopping, workerPause, owner, worker, read, queue, Worker, login,
                   credit, quota, env>>

AnchorEmit ==
    /\ opc = "anchor"
    /\ Enqueue
    /\ LET left == anchor - (written' - written) IN
         IF left = 0 \/ written' = written
         THEN anchor' = 0 /\ reserved' = reserved - anchor /\ opc' = "publish"
         ELSE anchor' = left /\ reserved' = reserved - 1 /\ opc' = opc
    /\ UNCHANGED <<fatal, stopping, workerPause, owner, worker, read, queue, Worker, login,
                   credit, quota, mode, env>>

\* End: publish the coherent owner region, then release the pump's credit.  A
\* faulted transport shows the fatal reason of the wire, a stopping one does not
\* look for it.
EndPump ==
    /\ opc \in {"end", "publish"} /\ opc' = "idle"
    /\ reason' = IF fatal = "None" \/ stopping THEN reason ELSE fatal
    /\ IF \/ submitted > generated \/ generated < owner.generated
          \/ submitted < owner.submitted
       THEN Latch("StatusUnavailable") /\ UNCHANGED owner
       ELSE /\ owner' = [generated |-> generated, submitted |-> submitted,
                         startup |-> startup, reason |-> reason']
            /\ UNCHANGED faults
    /\ state' = IF stopping THEN "Stopping" ELSE IF Revoked THEN "Faulted" ELSE state
    /\ credit' = 0 /\ reserved' = reserved - credit
    /\ UNCHANGED <<fatal, stopping, workerPause, worker, ring, queue, Worker, login, generated,
                   quota, anchor, boundary, env>>
-----------------------------------------------------------------------------
(* The receipt worker: qualify, dequeue, format, acknowledge, scan, pause. *)

Piped == ledgerWrite > 0    \* NativePipeline.initialized
CycleStart == IF Revoked THEN "ack" ELSE "dequeue"
Front == ledger[Slot(ledgerRead)]
SubmittedBefore ==                            \* mutant
    IF Front.seq = 0 THEN owner.startup ELSE Front.seq < owner.submitted
Submitted == IF Front.seq = 0 THEN owner.startup ELSE Front.seq <= owner.submitted
ReadOwnerRaces == opc \in {"end", "publish"}

WorkerBegins ==
    /\ wpc = "idle"
    /\ IF stopping
       THEN /\ wpc' = IF Piped THEN "ack" ELSE "close"
            /\ lastCycle' = TRUE
            /\ UNCHANGED <<request, qualified, wreason, workerPause>>
       ELSE /\ lastCycle' = FALSE
            /\ IF ~Revoked /\ epoch # 0 /\ epoch # qualified
               THEN /\ wpc' = "qualify" /\ request' = epoch /\ qualified' = 0
                    /\ wreason' = IF Piped THEN "SameFileRequalification"
                                           ELSE "AwaitingLogger"
                    /\ workerPause' = wreason'
               ELSE /\ Piped
                    /\ wpc' = CycleStart
                    /\ UNCHANGED <<request, qualified, wreason, workerPause>>
    /\ UNCHANGED <<faults, fatal, stopping, owner, worker, ring, queue, books, scan, Owner, env>>

\* ReceiptAge: time already waited for the front of the ledger, once submitted.
AgeReasons ==
    IF ledgerRead # ledgerWrite /\ ReadOwnerRaces
    THEN IF "race" \in Disturbances THEN {wreason} ELSE {}
    ELSE IF ledgerRead # ledgerWrite /\ Submitted THEN {"None", "ReceiptOverdue"}
    ELSE {"None"}

\* Pause below ReceiptGap: the gate closes before anything is published.
PauseFor(r) ==
    /\ wreason' = r
    /\ workerPause' = IF r = "None" THEN workerPause ELSE r

QualifyFirst ==
    /\ wpc = "qualify" /\ ~Piped
    /\ ledger' = [ledger EXCEPT ![0] = [state |-> "Ready", seq |-> 0]]
    /\ ledgerWrite' = 1 /\ nextFormat' = 1
    /\ ready' = [ready EXCEPT ![0] = [ticket |-> 1, seq |-> 0]]
    /\ readyWrite' = 1
    /\ PauseFor("None")
    /\ wpc' = "publishQ"
    /\ UNCHANGED <<faults, fatal, stopping, owner, worker, ring, readyRead, ledgerRead,
                   prepared, scan, request, qualified, lastCycle, Owner, env>>

QualifyAgain ==
    /\ wpc = "qualify" /\ Piped /\ ~cut
    /\ \E r \in AgeReasons : PauseFor(r)
    /\ wpc' = "publishQ"
    /\ UNCHANGED <<faults, fatal, stopping, owner, worker, ring, queue, books, scan, request,
                   qualified, lastCycle, Owner, env>>

QualifyRejects ==
    /\ wpc = "qualify" /\ "unreadable" \in Disturbances
    /\ PauseFor("ReceiptUnavailable")
    /\ wpc' = IF Piped THEN CycleStart ELSE "idle"
    /\ UNCHANGED <<faults, fatal, stopping, owner, worker, ring, queue, books, scan, request,
                   qualified, lastCycle, Owner, env>>

\* The file the pipeline was set up on is another or a shorter one now.
QualifyCut ==
    /\ wpc = "qualify" /\ Piped /\ cut /\ wpc' = "cutQ"
    /\ UNCHANGED <<wire, ring, queue, books, scan, wreason, request, qualified, lastCycle,
                   Owner, env>>

WorkerLoss ==
    /\ Latch("RecordLoss") /\ wpc' = "publishC"

\* DequeueReport copies and scrubs the slot before it gives the slot back.
DequeueCopy ==
    /\ wpc = "dequeue"
    /\ ledgerWrite - ledgerRead < Capacity /\ read < written
    /\ IF /\ ledger[Slot(ledgerWrite)].state = "Empty"
          /\ slots[Slot(read)] = read + 1
       THEN /\ ledger' = [ledger EXCEPT ![Slot(ledgerWrite)] =
                            [state |-> "Reserved", seq |-> slots[Slot(read)]]]
            /\ slots' = [slots EXCEPT ![Slot(read)] = 0]
            /\ wpc' = "advance" /\ UNCHANGED faults
       ELSE WorkerLoss /\ UNCHANGED <<ledger, slots>>
    /\ UNCHANGED <<fatal, stopping, workerPause, owner, worker, written, read, queue,
                   ledgerRead, ledgerWrite, nextFormat, prepared, scan, wreason,
                   request, qualified, lastCycle, Owner, env>>

DequeueAdvance ==
    /\ wpc = "advance" /\ wpc' = "dequeue"
    /\ read' = read + 1
    /\ ledger' = [ledger EXCEPT ![Slot(ledgerWrite)].state = "Scalar"]
    /\ ledgerWrite' = ledgerWrite + 1
    /\ UNCHANGED <<wire, slots, written, queue, ledgerRead, nextFormat, prepared, scan,
                   wreason, request, qualified, lastCycle, Owner, env>>

\* No room, no record, or the batch is full: then something awaits formatting.
DequeueEnds ==
    /\ wpc = "dequeue" /\ wpc' = "format"
    /\ \/ ledgerWrite - ledgerRead = Capacity \/ read = written
       \/ nextFormat < ledgerWrite
    /\ UNCHANGED <<wire, ring, queue, books, scan, wreason, request, qualified, lastCycle,
                   Owner, env>>

ReadyRoomOver == readyWrite - readyRead <= ReadyCapacity    \* mutant
ReadyRoom == readyWrite - readyRead < ReadyCapacity

\* One frame: text and digest exist before the ready slot is published.
FormatFrame ==
    /\ wpc = "format"
    /\ nextFormat < ledgerWrite /\ ReadyRoom
    /\ LET i == Slot(nextFormat) IN
         IF ledger[i].state = "Scalar" /\ ledger[i].seq = prepared + 1
         THEN /\ ready' = [ready EXCEPT ![ReadySlot(readyWrite)] =
                             [ticket |-> readyWrite + 1, seq |-> ledger[i].seq]]
              /\ readyWrite' = readyWrite + 1
              /\ ledger' = [ledger EXCEPT ![i].state = "Ready"]
              /\ prepared' = ledger[i].seq
              /\ nextFormat' = nextFormat + 1
              /\ UNCHANGED <<faults, wpc>>
         ELSE WorkerLoss /\ UNCHANGED <<ready, readyWrite, ledger, prepared, nextFormat>>
    /\ UNCHANGED <<fatal, stopping, workerPause, owner, worker, ring, readyRead, ledgerRead,
                   ledgerWrite, scan, wreason, request, qualified, lastCycle, Owner, env>>

FormatEnds ==
    /\ wpc = "format" /\ wpc' = "ack"
    /\ nextFormat = ledgerWrite \/ ~ReadyRoom
    /\ UNCHANGED <<wire, ring, queue, books, scan, wreason, request, qualified, lastCycle,
                   Owner, env>>

\* AcknowledgeNativeReceipt: a matched line waits until the owner's coherent
\* publication says that the native call returned.
Acknowledge ==
    /\ wpc \in {"ack", "ackLine"} /\ held
    /\ ~ReadOwnerRaces /\ Submitted
    /\ IF /\ Front.state = "Matched"
          /\ Front.seq = 0 \/ (startupObserved /\ Front.seq = observed + 1)
       THEN /\ startupObserved' = TRUE
            /\ observed' = Front.seq
            /\ ledger' = [ledger EXCEPT ![Slot(ledgerRead)] = Empty]
            /\ ledgerRead' = ledgerRead + 1
            /\ held' = FALSE
            \* more lines than one cycle may read leave the worker behind
            /\ wpc' \in {"scan"} \cup
                  (IF wpc = "ackLine" /\ offset < Len(file) THEN {"behind"} ELSE {})
            /\ UNCHANGED faults
       ELSE /\ Latch("RecordLoss") /\ wpc' = "pause"
            /\ UNCHANGED <<startupObserved, observed, ledger, ledgerRead, held>>
    /\ UNCHANGED <<fatal, stopping, workerPause, owner, worker, ring, queue, ledgerWrite,
                   nextFormat, prepared, offset, failed, wreason, request, qualified,
                   lastCycle, Owner, env>>

AcknowledgeLater ==
    /\ wpc \in {"ack", "ackLine"}
    /\ wpc' = IF held THEN "pause" ELSE "scan"
    /\ held => IF ReadOwnerRaces THEN "race" \in Disturbances ELSE ~Submitted
    /\ UNCHANGED <<wire, ring, queue, books, scan, wreason, request, qualified, lastCycle,
                   Owner, env>>

\* MatchNativeReceipt: the front of the ledger, or a gap, or a foreign frame.
Hits(line) ==
    {t \in ledgerRead..nextFormat-1 :
        ledger[Slot(t)] = [state |-> "Ready", seq |-> line]}
MatchesAny(line) == Hits(line) # {}           \* mutant
MatchesFront(line) == ledgerRead \in Hits(line)

ScanLine ==
    /\ wpc = "scan" /\ ~failed /\ offset < Len(file)
    /\ offset' = offset + 1
    /\ IF MatchesFront(file[offset + 1])
       THEN /\ ledger' = [ledger EXCEPT ![Slot(ledgerRead)].state = "Matched"]
            /\ held' = TRUE
            /\ wpc' = "ackLine"
            /\ UNCHANGED failed
       ELSE failed' = TRUE /\ wpc' = "lost" /\ UNCHANGED <<ledger, held>>
    /\ UNCHANGED <<wire, ring, queue, ledgerRead, ledgerWrite, nextFormat, prepared,
                   observed, startupObserved, wreason, request, qualified, lastCycle,
                   Owner, env>>

ScanEnds ==
    /\ wpc = "scan" /\ wpc' = IF failed THEN "lost" ELSE "pause"
    /\ ~cut /\ (failed \/ offset = Len(file))
    /\ UNCHANGED <<wire, ring, queue, books, scan, wreason, request, qualified, lastCycle,
                   Owner, env>>

\* ReadNativeLogFile: the file cannot be read, or it has become shorter.  Lines
\* of the chunk read before that may still be matched.
ReadFails ==
    /\ wpc = "scan"
    /\ \/ "unreadable" \in Disturbances /\ wpc' = "unread"
       \/ cut /\ wpc' = "cut"
    /\ UNCHANGED <<wire, ring, queue, books, scan, wreason, request, qualified, lastCycle,
                   Owner, env>>

PauseWorker ==
    /\ \/ wpc = "pause" /\ \E r \in AgeReasons : PauseFor(r)
       \/ wpc = "behind" /\ PauseFor("ReaderBehind")
       \/ wpc = "unread" /\ PauseFor("ReceiptUnavailable")
    /\ wpc' = "publishC"
    /\ UNCHANGED <<faults, fatal, stopping, owner, worker, ring, queue, books, scan, request, qualified,
                   lastCycle, Owner, env>>

\* Pause from ReceiptGap on, and Run after a failed qualification: the worker's
\* LatchTransportFault, in its two steps.
WorkerReports ==
    /\ \/ wpc = "lost" /\ Report("ReceiptGap") /\ wpc' = "marking"
       \/ wpc = "cut" /\ Report("FileTruncated") /\ wpc' = "marking"
       \/ wpc = "cutQ" /\ Report("FileTruncated") /\ wpc' = "markingQ"
    /\ UNCHANGED <<faults, stopping, workerPause, owner, worker, ring, queue, books, scan,
                   wreason, request, qualified, lastCycle, Owner, env>>

WorkerMarks ==
    /\ wpc \in {"marking", "markingQ"}
    /\ Latch(MaskOf("ReceiptGap"))
    /\ wpc' = IF wpc = "marking" THEN "publishC" ELSE "ack"
    /\ UNCHANGED <<fatal, stopping, workerPause, owner, worker, ring, queue, books, scan,
                   wreason, request, qualified, lastCycle, Owner, env>>

AfterPublication ==
    IF wpc = "publishQ"
    THEN wpc' = CycleStart /\ qualified' = request
    ELSE /\ wpc' = IF wpc = "close" THEN "done"
                   ELSE IF lastCycle THEN "close" ELSE "idle"
         /\ qualified' = qualified

\* The worker may have prepared records the owner has not published yet.
WorkerRegion ==
    [observed |-> observed,
     prepared |-> IF prepared < owner.generated THEN prepared ELSE owner.generated,
     startup  |-> startupObserved]

\* PublishWorkerV3: the gate opens only after the condition-free words are out.
PublishWorker ==
    /\ wpc \in {"publishQ", "publishC", "close"} /\ ~ReadOwnerRaces
    /\ IF \/ observed > owner.submitted \/ observed > prepared
          \/ observed < worker.observed \/ prepared < worker.prepared
       THEN Latch("RecordLoss") /\ UNCHANGED <<workerPause, worker>>
       ELSE /\ worker' = WorkerRegion
            /\ workerPause' = wreason
            /\ UNCHANGED faults
    /\ AfterPublication
    /\ UNCHANGED <<fatal, stopping, owner, ring, queue, books, scan, wreason, request, lastCycle,
                   Owner, env>>

\* It gives up when it races the owner's publication; the next cycle retries.
PublishRaces ==
    /\ wpc \in {"publishQ", "publishC", "close"}
    /\ ReadOwnerRaces /\ "race" \in Disturbances
    /\ AfterPublication
    /\ UNCHANGED <<wire, ring, queue, books, scan, wreason, request, lastCycle, Owner, env>>

\* A clock that fails or runs backwards ends every later cycle; the thread
\* itself lives until it is stopped.
WorkerClockFails ==
    /\ "clock" \in Disturbances
    /\ wpc \in {"ack", "ackLine", "pause", "behind", "lost", "cut", "unread"}
    /\ Latch("ClockFailed")
    /\ wpc' = IF lastCycle THEN "close" ELSE "clockless"
    /\ UNCHANGED <<fatal, stopping, workerPause, owner, worker, ring, queue, books, scan,
                   wreason, request, qualified, lastCycle, Owner, env>>

ClocklessStops ==
    /\ wpc = "clockless" /\ stopping /\ wpc' = "close"
    /\ UNCHANGED <<wire, ring, queue, books, scan, wreason, request, qualified, lastCycle,
                   Owner, env>>
-----------------------------------------------------------------------------
(* The environment: the logger writes its buffer out, or mistreats it; any *)
(* other component may revoke reporting; the SDK shuts down.               *)

FlushLine ==
    /\ buffer # <<>>
    /\ file' = Append(file, Head(buffer)) /\ buffer' = Tail(buffer)
    /\ UNCHANGED <<wire, ring, queue, Worker, Owner, cut, disturbed>>

Disturb ==
    /\ buffer # <<>> /\ ~disturbed /\ disturbed' = TRUE
    /\ \/ "drop" \in Disturbances /\ buffer' = Tail(buffer) /\ file' = file
       \/ "duplicate" \in Disturbances /\ buffer' = buffer
          /\ file' = Append(file, Head(buffer))
       \/ "garble" \in Disturbances /\ buffer' = Tail(buffer)
          /\ file' = Append(file, Garbled)
    /\ UNCHANGED <<wire, ring, queue, Worker, Owner, cut>>

\* The file is cut short or replaced, and stays so.  Only the worker's look at
\* the file can tell, so it is enough that this happens just before one.
Truncate ==
    /\ "truncated" \in Disturbances /\ file # <<>> /\ ~disturbed
    /\ wpc \in {"qualify", "scan"}
    /\ cut' = TRUE /\ disturbed' = TRUE
    /\ UNCHANGED <<wire, ring, queue, Worker, Owner, buffer, file>>

RevokeFromOutside ==
    /\ "revoke" \in Disturbances /\ "Revoked" \notin faults
    /\ Latch("Revoked")
    /\ UNCHANGED <<fatal, stopping, workerPause, owner, worker, ring, queue, Worker, Owner, env>>

StopStatus ==
    /\ "stop" \in Disturbances /\ ~stopping /\ stopping' = TRUE
    /\ UNCHANGED <<faults, fatal, workerPause, owner, worker, ring, queue, Worker, Owner, env>>

OwnerNext ==
    \/ BeginPump \/ BeginManagement \/ QualifyFails \/ QualifyUnsafe \/ SubmitFrame
    \/ ServiceDone \/ RateLimited
    \/ LogAppend \/ LogReturn \/ LogThrow \/ OwnerMarks
    \/ RefreshPause \/ RefreshRun \/ Resume \/ ResumeRefused
    \/ ManageReserve \/ ManagePressure \/ ManageSkip \/ EmitRecord \/ EmitDone
    \/ RecoveryReserve \/ RecoveryEmit \/ RecoveryRelease
    \/ AnchorReserve \/ AnchorEmit \/ EndPump

WorkerNext ==
    \/ WorkerBegins \/ QualifyFirst \/ QualifyAgain \/ QualifyRejects \/ QualifyCut
    \/ DequeueCopy \/ DequeueAdvance \/ DequeueEnds \/ FormatFrame \/ FormatEnds
    \/ Acknowledge \/ AcknowledgeLater \/ ScanLine \/ ScanEnds \/ ReadFails
    \/ WorkerReports \/ WorkerMarks
    \/ PauseWorker \/ PublishWorker \/ PublishRaces \/ WorkerClockFails \/ ClocklessStops

EnvNext == FlushLine \/ Disturb \/ Truncate \/ RevokeFromOutside \/ StopStatus

Next == OwnerNext \/ WorkerNext \/ EnvNext

\* The game keeps pumping, its service falls due every quarter second and the
\* rate window slides, so a due service and a waiting frame are not put off for
\* ever; the logger writes its buffer out.  The worker polls on its own thread;
\* an owner that publishes again and again does not block its reads for ever,
\* since each publication is short and each cycle reads afresh.
Fairness ==
    /\ WF_vars(OwnerNext) /\ SF_vars(BeginPump) /\ SF_vars(SubmitFrame)
    /\ SF_vars(WorkerNext) /\ WF_vars(FlushLine)
Spec == Init /\ [][Next]_vars
FairSpec == Spec /\ Fairness
-----------------------------------------------------------------------------
(* Properties.                                                             *)

TypeOK ==
    /\ faults \subseteq {"RecordLoss", "CounterOverflow", "StatusUnavailable",
                         "NativeUnwind", "ProfileMismatch", "ClockFailed", "Revoked"}
    /\ fatal \in {"None"} \cup FatalReasons /\ reason \in {"None"} \cup FatalReasons
    /\ stopping \in BOOLEAN /\ workerPause \in PauseReasons
    /\ owner \in [generated : 0..MaxRecords, submitted : 0..MaxRecords, startup : BOOLEAN,
                  reason : {"None"} \cup FatalReasons]
    /\ worker \in [observed : 0..MaxRecords, prepared : 0..MaxRecords, startup : BOOLEAN]
    /\ slots \in [0..Capacity-1 -> 0..MaxRecords]
    /\ written \in 0..MaxRecords /\ read \in 0..MaxRecords
    /\ ready \in [0..ReadyCapacity-1 -> [ticket : 0..MaxRecords+1, seq : 0..MaxRecords]]
    /\ readyWrite \in 0..MaxRecords+1 /\ readyRead \in 0..MaxRecords+1
    /\ ledger \in [0..Capacity-1 ->
          [state : {"Empty", "Reserved", "Scalar", "Ready", "Matched"}, seq : 0..MaxRecords]]
    /\ ledgerRead \in 0..MaxRecords+1 /\ ledgerWrite \in 0..MaxRecords+1
    /\ nextFormat \in 0..MaxRecords+1
    /\ prepared \in 0..MaxRecords /\ observed \in 0..MaxRecords
    /\ startupObserved \in BOOLEAN /\ held \in BOOLEAN /\ failed \in BOOLEAN
    /\ offset \in 0..Len(file)
    /\ wpc \in {"idle", "qualify", "publishQ", "dequeue", "advance", "format", "ack",
                "ackLine", "scan", "pause", "behind", "unread", "lost", "cut", "cutQ",
                "marking", "markingQ", "publishC", "close", "clockless", "done"}
    /\ wreason \in PauseReasons
    /\ request \in 0..MaxEpoch /\ qualified \in 0..MaxEpoch /\ epoch \in 0..MaxEpoch
    /\ lastCycle \in BOOLEAN /\ serviced \in BOOLEAN /\ startup \in BOOLEAN
    /\ opc \in {"idle", "service", "native", "logged", "unwind", "unsafe", "refresh",
                "resume", "manage", "emit", "end", "anchor", "publish"}
    /\ served \in 0..ServiceFrames
    /\ generated \in 0..MaxRecords /\ submitted \in 0..MaxRecords
    /\ reserved \in 0..Capacity /\ credit \in 0..Burst /\ quota \in 0..Burst
    /\ anchor \in 0..2
    /\ state \in {"WaitingLogger", "Running", "Paused", "Faulted", "Stopping"}
    /\ boundary \in 0..MaxRecords

\* The pipeline never accuses itself: a record loss or an unusable status is
\* only ever latched after the logger or the file mistreated a line, whatever
\* the two threads interleave (LoseStatus in Enqueue, Dequeue,
\* PrepareNativeFrames, ServiceNativeLog, AcknowledgeNativeReceipt,
\* PublishWorkerV3, PauseRuntimeTransport).
NoSelfInflictedLoss ==
    faults \cap {"RecordLoss", "StatusUnavailable"} # {} => disturbed

\* An observed record is real even when lines were dropped, doubled or garbled:
\* the file holds the bootstrap and records 1..observed, each once and in order,
\* and the native call of each one returned (MatchNativeReceipt with
\* AcknowledgeNativeReceipt).
ObservedIsInFile ==
    startupObserved =>
        /\ startup /\ observed <= submitted
        /\ observed + 1 <= Len(file)
        /\ \A n \in 0..observed : file[n + 1] = n

\* What the wire shows never runs ahead of what happened, across both writers
\* (PublishOwnerV3, PublishWorkerV3).
PublishedInOrder ==
    /\ worker.observed <= owner.submitted /\ worker.observed <= observed
    /\ owner.submitted <= submitted /\ owner.generated <= generated
    /\ worker.observed <= worker.prepared /\ worker.prepared <= owner.generated

\* The receipt and the wire are true together, whatever the logger does to a line.
WireIsTrue == TypeOK /\ ObservedIsInFile /\ PublishedInOrder

\* Credit is conserved: what is reserved is exactly what the pump, the recovery
\* and the anchor still hold, and records in flight plus reservations never
\* exceed the ring (ReserveCapture, Emit, ReleaseCapture).
CreditConserved ==
    /\ reserved = credit + quota + anchor
    /\ generated - worker.observed + reserved <= Capacity

\* The slot the native logger is reading stays the frame the owner checked: the
\* worker cannot reuse it before ReleaseNativeFrame.
FrameHeldDuringCall ==
    opc \in {"native", "logged"} =>
        /\ FrontFrame.ticket = readyRead + 1
        /\ FrontFrame.seq = (IF startup THEN submitted + 1 ELSE 0)

\* Nothing the pause closed is reopened early: a transport that returns to
\* Running has every record up to then, its pause record included, in the file
\* (RefreshRuntimeTransport).
ResumeIsDrained ==
    [][state = "Paused" /\ state' = "Running" => observed = written /\ boundary <= observed]_vars

\* Each report of a fatal transport fault is kept, although two threads report
\* on their own and only the first of them finds the word empty
\* (LatchTransportFault, PublishRuntimeStatus): the first reason is never
\* replaced, neither by a later report nor by a stop, a reason the owner has told
\* the readers remains the one of the wire, and each report, the one that came too
\* late as well, has set its own mask or has its thread still at it.
Marking ==
    (IF wpc \in {"marking", "markingQ"} THEN {"RecordLoss"} ELSE {})
    \cup (IF opc = "unwind" THEN {"NativeUnwind"}
          ELSE IF opc = "unsafe" THEN {"ProfileMismatch"} ELSE {})
ReportsKept ==
    /\ {reason, owner.reason} \subseteq {"None", fatal}
    /\ fatal # "None" => MaskOf(fatal) \in faults \cup Marking
    /\ failed => \/ "RecordLoss" \in faults \cup Marking
                 \/ wpc = "lost" \/ "ClockFailed" \in faults
FirstReasonStands ==
    []ReportsKept /\ [][fatal # "None" => fatal' = fatal]_vars

\* Once the logger is stable, every generated record is eventually observed
\* and shown as such, or reporting is revoked.
RecordsArrive ==
    \A n \in 1..MaxRecords : generated >= n ~> (worker.observed >= n \/ Revoked)
=============================================================================
