------------------------ MODULE ReportTransportProofs ------------------------
(***************************************************************************)
(* What the report pipeline keeps for every capacity, burst, reserve and   *)
(* record limit, and whatever the logger, the file and the rest of the     *)
(* process do.                                                             *)
(*                                                                         *)
(* Ticket t of the ledger stands for record t and ready slot k for ticket  *)
(* k, so ring, ledger and ready queue are three windows of one sequence    *)
(* and every watermark is a position in it.  The file is tied to that      *)
(* sequence twice: the lines the scanner has matched are the frames up to  *)
(* the ledger's front, whatever was done to the file, and as long as no    *)
(* line was mistreated file and buffer are exactly the frames handed over. *)
(***************************************************************************)
EXTENDS ReportTransport, SequenceTheorems, TLAPS

Latches == {"RecordLoss", "CounterOverflow", "StatusUnavailable", "NativeUnwind",
            "ProfileMismatch", "ClockFailed", "Revoked"}
Reasons == {"None"} \cup FatalReasons
States == {"WaitingLogger", "Running", "Paused", "Faulted", "Stopping"}
OwnerPlaces == {"idle", "service", "native", "logged", "unwind", "unsafe", "refresh",
                "resume", "manage", "emit", "end", "anchor", "publish"}
WorkerPlaces == {"idle", "qualify", "publishQ", "dequeue", "advance", "format", "ack",
                 "ackLine", "scan", "pause", "behind", "unread", "lost", "cut", "cutQ",
                 "marking", "markingQ", "publishC", "close", "clockless", "done"}
\* Where a gap in the file, or another file, has brought the worker.
Losing == {"lost", "cut", "cutQ", "marking", "markingQ"}
Lines == 0..MaxRecords+1
Entries == [state : {"Empty", "Reserved", "Scalar", "Ready", "Matched"}, seq : 0..MaxRecords]

\* The types of what is no counter of the pipeline; the counters are natural
\* numbers, and their bounds follow from the other parts.
Types ==
    /\ faults \subseteq Latches /\ fatal \in Reasons /\ reason \in Reasons
    /\ owner \in [generated : Nat, submitted : Nat, startup : BOOLEAN, reason : Reasons]
    /\ worker \in [observed : Nat, prepared : Nat, startup : BOOLEAN]
    /\ slots \in [0..Capacity-1 -> 0..MaxRecords]
    /\ ready \in [0..ReadyCapacity-1 -> [ticket : Lines, seq : 0..MaxRecords]]
    /\ ledger \in [0..Capacity-1 ->
          [state : {"Empty", "Reserved", "Scalar", "Ready", "Matched"}, seq : 0..MaxRecords]]
    /\ wpc \in WorkerPlaces /\ opc \in OwnerPlaces /\ state \in States
    /\ startup \in BOOLEAN /\ startupObserved \in BOOLEAN
    /\ held \in BOOLEAN /\ failed \in BOOLEAN
    /\ served \in 0..ServiceFrames
    /\ credit \in 0..Burst /\ quota \in 0..Burst /\ anchor \in 0..2
    /\ reserved \in Nat /\ boundary \in 0..MaxRecords /\ submitted \in Nat
    /\ observed \in Nat /\ offset \in Nat
    /\ file \in Seq(Lines)
    /\ buffer \in Seq(Lines)

\* The words no other part speaks of.
Rest ==
    /\ stopping \in BOOLEAN /\ workerPause \in PauseReasons /\ wreason \in PauseReasons
    /\ request \in 0..MaxEpoch /\ qualified \in 0..MaxEpoch /\ epoch \in 0..MaxEpoch
    /\ lastCycle \in BOOLEAN /\ serviced \in BOOLEAN

\* The ring holds exactly the records that are generated and not yet dequeued.
RingHolds ==
    /\ written \in 0..MaxRecords /\ read \in Nat /\ generated = written
    /\ read <= written /\ written - read <= Capacity
    /\ wpc = "advance" => read < written
    /\ \A i \in read..written-1 :
          slots[Slot(i)] = IF i = read /\ wpc = "advance" THEN 0 ELSE i + 1

\* What the ledger says of ticket t, which stands for record t.
Entry(t) ==
    IF t < nextFormat
    THEN [state |-> IF t = ledgerRead /\ held THEN "Matched" ELSE "Ready", seq |-> t]
    ELSE IF t < ledgerWrite THEN [state |-> "Scalar", seq |-> t]
    ELSE IF t = ledgerWrite /\ wpc = "advance" THEN [state |-> "Reserved", seq |-> t]
    ELSE Empty

LedgerHolds ==
    /\ ledgerRead \in Nat /\ nextFormat \in Nat /\ ledgerWrite \in Nat
    /\ ledgerRead <= nextFormat /\ nextFormat <= ledgerWrite
    /\ ledgerWrite - ledgerRead <= Capacity
    /\ held => ledgerRead < nextFormat
    /\ wpc = "advance" => ledgerWrite - ledgerRead < Capacity
    /\ \A t \in ledgerRead..ledgerRead+Capacity-1 : ledger[Slot(t)] = Entry(t)

\* The pipeline's counters move together, and only once it has been set up.
InStep ==
    /\ prepared \in Nat
    /\ Piped => read = ledgerWrite - 1 /\ prepared = nextFormat - 1 /\ nextFormat > 0
    /\ ~Piped => /\ read = 0 /\ prepared = 0 /\ ~held
                 /\ wpc \in {"idle", "qualify", "close", "done"}
    /\ wpc = "ackLine" => held
    /\ wpc \in {"scan", "behind"} => ~held

\* A ready slot in use holds the frame its ticket says, until it is released.
ReadyHolds ==
    /\ readyRead \in Nat /\ readyWrite = nextFormat
    /\ readyRead <= readyWrite /\ readyWrite - readyRead <= ReadyCapacity
    /\ \A k \in readyRead..readyWrite-1 :
          ready[ReadySlot(k)] = [ticket |-> k + 1, seq |-> k]
    /\ opc \in {"native", "logged"} => readyRead < readyWrite /\ served < ServiceFrames

\* Each watermark follows the one before it.
Watermarks ==
    /\ IF startup THEN readyRead = submitted + 1 ELSE readyRead = 0 /\ submitted = 0
    /\ IF startupObserved THEN ledgerRead = observed + 1
                          ELSE ledgerRead = 0 /\ observed = 0
    /\ owner.startup => startup
    /\ startupObserved => owner.startup
    /\ worker.startup => startupObserved
    /\ observed <= owner.submitted /\ owner.submitted <= submitted
    /\ owner.submitted <= owner.generated /\ owner.generated <= generated
    /\ worker.observed <= observed /\ worker.observed <= worker.prepared
    /\ worker.prepared <= prepared /\ worker.prepared <= owner.generated

\* Reserved credit is what somebody holds, and while the transport takes
\* records one credit is left to announce the end of that.
Credits ==
    /\ reserved = credit + quota + anchor
    /\ Outstanding + reserved <= DataLimit + 1
    /\ state \in {"WaitingLogger", "Running"} => Outstanding + reserved <= DataLimit
    /\ credit # 0 => opc \in {"emit", "end", "anchor", "publish"}
    /\ anchor > 0 <=> opc = "anchor"
    /\ opc = "resume" => /\ state = "Paused" /\ reserved = 0
                         /\ worker.observed >= generated /\ worker.observed >= boundary

\* The file begins with the frames the scanner has matched, in order.
Scanned ==
    /\ offset <= Len(file)
    /\ offset = ledgerRead + (IF held THEN 1 ELSE 0) + (IF failed THEN 1 ELSE 0)
    /\ wpc = "lost" => failed
    /\ \A n \in 1..ledgerRead + (IF held THEN 1 ELSE 0) : file[n] = n - 1

\* As long as nothing was done to a line or the file, file and buffer hold the
\* frames given to the logger, and nobody has latched a loss or is about to.
Logged == Len(file) + Len(buffer)
Undisturbed ==
    ~disturbed =>
        /\ \A n \in 1..Len(file) : file[n] = n - 1
        /\ \A n \in 1..Len(buffer) : buffer[n] = Len(file) + n - 1
        /\ IF opc = "logged" THEN Logged = readyRead + 1
           ELSE opc # "unwind" /\ "NativeUnwind" \notin faults => Logged = readyRead
        /\ Logged <= readyRead + 1 /\ Logged <= readyWrite
        /\ ~failed /\ ~cut /\ wpc \notin Losing
        /\ faults \cap {"RecordLoss", "StatusUnavailable"} = {}
UnwindIsFinal == "NativeUnwind" \in faults => opc \in {"idle", "end"}

IInv == /\ Types /\ Rest /\ RingHolds /\ LedgerHolds /\ InStep /\ ReadyHolds
        /\ Watermarks /\ Credits /\ Scanned /\ disturbed \in BOOLEAN /\ Undisturbed
        /\ UnwindIsFinal
-----------------------------------------------------------------------------
(* Slots: tickets less than a capacity apart never share one.              *)

\* A remainder is below its divisor.
LEMMA ModRange ==
  ASSUME NEW n \in Nat, NEW c \in Nat \ {0}
  PROVE  n % c \in 0..c-1
OBVIOUS

\* Two numbers less than c apart differ modulo c.
LEMMA ModDistinct ==
  ASSUME NEW c \in Nat \ {0}, NEW a \in Nat, NEW b \in Nat, a < b, b - a < c
  PROVE  (a % c) # (b % c)
<1> SUFFICES ASSUME (a % c) = (b % c) PROVE FALSE
  OBVIOUS
<1> DEFINE p == a \div c
           q == b \div c
<1>1. p \in Int /\ a = c * p + (a % c)
  OBVIOUS
<1>2. q \in Int /\ b = c * q + (b % c)
  OBVIOUS
<1> HIDE DEF p, q
<1>3. b - a = c * q - c * p
  BY <1>1, <1>2
<1>4. b - a = c * (q - p)
  BY <1>1, <1>2, <1>3
<1>5. q - p >= 1
  <2> SUFFICES ASSUME q - p <= 0 PROVE FALSE
    BY <1>1, <1>2
  <2>1. c * (q - p) <= 0
    BY <1>1, <1>2
  <2> QED
    BY <2>1, <1>4
<1>6. c * (q - p) >= c
  BY <1>1, <1>2, <1>5
<1> QED
  BY <1>4, <1>6

\* Adding the divisor leaves the remainder alone.
LEMMA ModWraps ==
  ASSUME NEW n \in Nat, NEW c \in Nat \ {0}
  PROVE  ((n + c) % c) = (n % c)
<1> DEFINE p == n \div c
           q == (n + c) \div c
           r == n % c
           s == (n + c) % c
<1>1. p \in Int /\ n = c * p + r /\ r \in 0..c-1
  OBVIOUS
<1>2. q \in Int /\ n + c = c * q + s /\ s \in 0..c-1
  <2>1. n + c \in Nat
    OBVIOUS
  <2> QED
    BY <2>1
<1> SUFFICES s = r
  OBVIOUS
<1> HIDE DEF p, q, r, s
<1>3. c * (p + 1) + r = c * q + s
  <2>1. c * (p + 1) = c * p + c
    BY <1>1
  <2> QED
    BY <2>1, <1>1, <1>2
<1>4. c * (p + 1 - q) = s - r
  BY <1>1, <1>2, <1>3
<1>5. p + 1 - q = 0
  <2>1. CASE p + 1 - q >= 1
    <3>1. c * (p + 1 - q) >= c
      BY <1>1, <1>2, <2>1
    <3> QED
      BY <1>1, <1>2, <1>4, <3>1
  <2>2. CASE p + 1 - q <= -1
    <3>1. c * (p + 1 - q) <= -c
      BY <1>1, <1>2, <2>2
    <3> QED
      BY <1>1, <1>2, <1>4, <3>1
  <2> QED
    BY <1>1, <1>2, <2>1, <2>2
<1> QED
  BY <1>1, <1>2, <1>4, <1>5

\* Slots of the ring and of the ledger: in range, and apart for tickets less than a
\* capacity apart; the slot of the ticket one capacity on is the same.
LEMMA Slots ==
    /\ Slot(0) = 0
    /\ \A n \in Nat : Slot(n) \in 0..Capacity-1 /\ Slot(n + Capacity) = Slot(n)
    /\ \A a, b \in Nat : a < b /\ b - a < Capacity => Slot(a) # Slot(b)
<1>1. Capacity \in Nat \ {0}
  BY ConstantsAssumption
<1>2. Slot(0) = 0
  BY <1>1 DEF Slot
<1>3. \A n \in Nat : Slot(n) \in 0..Capacity-1 /\ Slot(n + Capacity) = Slot(n)
  BY <1>1, ModRange, ModWraps DEF Slot
<1>4. \A a, b \in Nat : a < b /\ b - a < Capacity => Slot(a) # Slot(b)
  BY <1>1, ModDistinct DEF Slot
<1> QED
  BY <1>2, <1>3, <1>4

\* The same of the ready queue's slots.
LEMMA ReadySlots ==
    /\ ReadySlot(0) = 0
    /\ \A n \in Nat : ReadySlot(n) \in 0..ReadyCapacity-1
    /\ \A a, b \in Nat : a < b /\ b - a < ReadyCapacity => ReadySlot(a) # ReadySlot(b)
<1>1. ReadyCapacity \in Nat \ {0}
  BY ConstantsAssumption
<1>2. ReadySlot(0) = 0
  BY <1>1 DEF ReadySlot
<1>3. \A n \in Nat : ReadySlot(n) \in 0..ReadyCapacity-1
  BY <1>1, ModRange DEF ReadySlot
<1>4. \A a, b \in Nat : a < b /\ b - a < ReadyCapacity => ReadySlot(a) # ReadySlot(b)
  BY <1>1, ModDistinct DEF ReadySlot
<1> QED
  BY <1>2, <1>3, <1>4

\* The counters are natural numbers.
LEMMA Naturals ==
  Types /\ RingHolds =>
    /\ Capacity \in Nat \ {0} /\ DataLimit \in Nat /\ DataLimit >= 1
    /\ DataLimit + 1 <= Capacity /\ MaxRecords \in Nat
    /\ written \in Nat /\ generated = written /\ generated \in Nat /\ written <= MaxRecords
    /\ read \in Nat /\ submitted \in Nat /\ observed \in Nat /\ offset \in Nat
    /\ owner.generated \in Nat /\ owner.submitted \in Nat
    /\ worker.observed \in Nat /\ worker.prepared \in Nat
    /\ reserved \in Nat /\ credit \in Nat /\ quota \in Nat /\ anchor \in Nat
    /\ served \in Nat /\ boundary \in Nat
<1> SUFFICES ASSUME Types, RingHolds
             PROVE  /\ Capacity \in Nat \ {0} /\ DataLimit \in Nat /\ DataLimit >= 1
                    /\ DataLimit + 1 <= Capacity /\ MaxRecords \in Nat
                    /\ written \in Nat /\ generated = written /\ generated \in Nat
                    /\ written <= MaxRecords
                    /\ read \in Nat /\ submitted \in Nat /\ observed \in Nat /\ offset \in Nat
                    /\ owner.generated \in Nat /\ owner.submitted \in Nat
                    /\ worker.observed \in Nat /\ worker.prepared \in Nat
                    /\ reserved \in Nat /\ credit \in Nat /\ quota \in Nat /\ anchor \in Nat
                    /\ served \in Nat /\ boundary \in Nat
  OBVIOUS
<1>1. /\ Capacity \in Nat \ {0} /\ DataLimit \in Nat /\ DataLimit >= 1
      /\ DataLimit + 1 <= Capacity /\ MaxRecords \in Nat /\ Burst \in Nat
      /\ ServiceFrames \in Nat
  BY ConstantsAssumption DEF DataLimit
<1>2. /\ written \in Nat /\ generated = written /\ generated \in Nat /\ written <= MaxRecords
      /\ read \in Nat
  BY <1>1 DEF RingHolds
<1>3. /\ submitted \in Nat /\ observed \in Nat /\ offset \in Nat /\ reserved \in Nat
      /\ owner.generated \in Nat /\ owner.submitted \in Nat
      /\ worker.observed \in Nat /\ worker.prepared \in Nat
  BY DEF Types
<1>4. /\ credit \in Nat /\ quota \in Nat /\ anchor \in Nat
      /\ served \in Nat /\ boundary \in Nat
  BY <1>1 DEF Types
<1> QED
  BY <1>1, <1>2, <1>3, <1>4
-----------------------------------------------------------------------------
(* What a step of each actor leaves alone.                                 *)

\* The owner changes only its own words, the ring's end, the latches, its
\* publication and the logger's buffer.
LEMMA OwnerFrame ==
  OwnerNext => UNCHANGED <<stopping, workerPause, worker, read, ready, readyWrite,
                           Worker, file, cut, disturbed>>
BY DEF OwnerNext, BeginPump, BeginManagement, QualifyFails, QualifyUnsafe, SubmitFrame,
       ServiceDone, RateLimited, LogAppend, LogReturn, LogThrow, OwnerMarks, RefreshPause,
       RefreshRun, Resume, ResumeRefused, ManageReserve, ManagePressure, ManageSkip,
       EmitRecord, EmitDone, RecoveryReserve, RecoveryEmit, RecoveryRelease,
       AnchorReserve, AnchorEmit, EndPump, wire, ring, queue, env

\* The ring's end either stays or takes one record that fits.
Appends ==
    /\ ~Revoked /\ written - read < Capacity /\ written # MaxRecords
    /\ slots' = [slots EXCEPT ![Slot(written)] = written + 1]
    /\ written' = written + 1 /\ generated' = written + 1
    /\ UNCHANGED faults
KeepsRing == UNCHANGED <<slots, written, generated>>

\* Enqueue adds one record, or leaves the ring alone.
LEMMA EnqueueEffect == Enqueue => KeepsRing \/ Appends
BY DEF Enqueue, KeepsRing, Appends, CounterSpent

\* So does the pause, whose announcement is a record like any other.
LEMMA PauseEffect == Pause => KeepsRing \/ Appends
BY EnqueueEffect DEF Pause, KeepsRing

\* So does every action of the owner.
LEMMA OwnerRing == OwnerNext => KeepsRing \/ Appends
<1> SUFFICES ASSUME OwnerNext PROVE KeepsRing \/ Appends
  OBVIOUS
<1>1. CASE RefreshPause \/ Resume \/ ManagePressure \/ EmitRecord \/ RecoveryEmit
           \/ AnchorReserve \/ AnchorEmit
  BY <1>1, EnqueueEffect, PauseEffect
     DEF RefreshPause, Resume, ManagePressure, PauseForCredit, EmitRecord, RecoveryEmit,
         AnchorReserve, AnchorEmit, KeepsRing
<1>2. CASE ~(RefreshPause \/ Resume \/ ManagePressure \/ EmitRecord \/ RecoveryEmit
           \/ AnchorReserve \/ AnchorEmit)
  BY <1>2 DEF OwnerNext, BeginPump, BeginManagement, QualifyFails, QualifyUnsafe,
              SubmitFrame, ServiceDone, RateLimited, LogAppend, LogReturn, LogThrow,
              OwnerMarks, RefreshRun, ResumeRefused, ManageReserve, ManageSkip, EmitDone,
              RecoveryReserve, RecoveryRelease, EndPump, ring, KeepsRing
<1> QED
  BY <1>1, <1>2

\* Only three actions touch the service's watermarks, the buffer or the
\* publication, and each of them one of these.
LEMMA OwnerService ==
  OwnerNext => /\ UNCHANGED <<submitted, startup, readyRead>> \/ LogReturn
               /\ UNCHANGED buffer \/ LogAppend
               /\ UNCHANGED owner \/ EndPump
BY DEF OwnerNext, BeginPump, BeginManagement, QualifyFails, QualifyUnsafe, SubmitFrame,
       ServiceDone, RateLimited, LogAppend, LogReturn, LogThrow, OwnerMarks, RefreshPause,
       RefreshRun, Resume, ResumeRefused, ManageReserve, ManagePressure, ManageSkip,
       EmitRecord, EmitDone, RecoveryReserve, RecoveryEmit, RecoveryRelease,
       AnchorReserve, AnchorEmit, EndPump, wire, ring, queue, env, login

\* The worker changes nothing of the owner, and nothing of the environment.
LEMMA WorkerFrame ==
  WorkerNext => UNCHANGED <<stopping, owner, written, readyRead, Owner, env>>
BY DEF WorkerNext, WorkerBegins, QualifyFirst, QualifyAgain, QualifyRejects, QualifyCut,
       DequeueCopy, DequeueAdvance, DequeueEnds, FormatFrame, FormatEnds, Acknowledge,
       AcknowledgeLater, ScanLine, ScanEnds, ReadFails, WorkerReports, WorkerMarks,
       PauseWorker, PublishWorker, PublishRaces, WorkerClockFails, ClocklessStops, wire,
       ring, queue

\* Six of its actions work on the pipeline, one publishes; the rest only move on.
WorkerMoves ==
    /\ UNCHANGED <<slots, read, ready, readyWrite, books, scan>>
    /\ wpc # "advance" /\ wpc' # "advance" /\ wpc' # "ackLine"
    /\ wpc' \in {"scan", "behind"} => ~held
    /\ wpc' = "lost" => wpc = "scan" /\ failed
    /\ ~Piped => wpc' \in {"idle", "qualify", "close", "done"}
    /\ UNCHANGED worker \/ PublishWorker

LEMMA WorkerKinds ==
  InStep /\ WorkerNext =>
      \/ QualifyFirst \/ DequeueCopy \/ DequeueAdvance \/ FormatFrame
      \/ Acknowledge \/ ScanLine \/ WorkerMoves
<1> SUFFICES ASSUME InStep,
                    \/ WorkerBegins \/ QualifyAgain \/ QualifyRejects \/ QualifyCut
                    \/ DequeueEnds \/ FormatEnds \/ AcknowledgeLater \/ ScanEnds
                    \/ ReadFails \/ WorkerReports \/ WorkerMarks \/ PauseWorker
                    \/ PublishWorker \/ PublishRaces \/ WorkerClockFails \/ ClocklessStops
             PROVE  WorkerMoves
  BY DEF WorkerNext
<1> USE DEF InStep, WorkerMoves, CycleStart, ring, queue, wire
<1>1. CASE WorkerBegins
  BY <1>1 DEF WorkerBegins
<1>2. CASE QualifyAgain \/ QualifyRejects \/ QualifyCut
  BY <1>2 DEF QualifyAgain, QualifyRejects, QualifyCut
<1>3. CASE DequeueEnds \/ FormatEnds \/ AcknowledgeLater \/ ScanEnds
  BY <1>3 DEF DequeueEnds, FormatEnds, AcknowledgeLater, ScanEnds
<1>4. CASE PauseWorker \/ WorkerClockFails \/ ClocklessStops
  BY <1>4 DEF PauseWorker, WorkerClockFails, ClocklessStops
<1>5. CASE PublishWorker \/ PublishRaces
  BY <1>5 DEF PublishWorker, PublishRaces, AfterPublication
<1>6. CASE ReadFails \/ WorkerReports \/ WorkerMarks
  BY <1>6 DEF ReadFails, WorkerReports, WorkerMarks
<1> QED
  BY <1>1, <1>2, <1>3, <1>4, <1>5, <1>6

\* Nothing but the file, the buffer and the latches changes in between.
LEMMA EnvFrame ==
  EnvNext => UNCHANGED <<workerPause, owner, worker, ring, queue, Worker, Owner>>
BY DEF EnvNext, FlushLine, Disturb, Truncate, RevokeFromOutside, StopStatus, wire
-----------------------------------------------------------------------------
(* The parts of the invariant, one by one.                                 *)

\* The copied slot is scrubbed before the read index moves, the new one is filled
\* before the write index does, and neither is the other's.
LEMMA RingKept ==
  Types /\ RingHolds /\ InStep /\ [Next]_vars => RingHolds'
<1> SUFFICES ASSUME Types, RingHolds, InStep, [Next]_vars PROVE RingHolds'
  OBVIOUS
<1>c. MaxRecords \in Nat /\ Capacity \in Nat
  BY ConstantsAssumption
<1>t. /\ written \in Nat /\ read \in Nat /\ slots \in [0..Capacity-1 -> 0..MaxRecords]
      /\ written <= MaxRecords
  BY <1>c DEF Types, RingHolds
<1>s. UNCHANGED <<slots, read, written, generated>> /\ (wpc' = "advance" <=> wpc = "advance")
        => RingHolds'
  BY <1>c, <1>t DEF RingHolds
<1>1. CASE Appends /\ UNCHANGED <<read, wpc>>
  <2>1. \A i \in read..written'-1 :
           slots'[Slot(i)] = IF i = read /\ wpc' = "advance" THEN 0 ELSE i + 1
    <3> SUFFICES ASSUME NEW i \in read..written
                 PROVE  slots'[Slot(i)] = IF i = read /\ wpc = "advance" THEN 0 ELSE i + 1
      BY <1>1, <1>t DEF Appends
    <3>0. i \in Nat
      BY <1>t
    <3>1. i \in Nat /\ Slot(i) \in 0..Capacity-1 /\ Slot(written) \in 0..Capacity-1
      BY <3>0, <1>t, Slots
    <3>2. CASE i = written
      BY <3>1, <3>2, <1>1, <1>t DEF Appends, RingHolds
    <3>3. CASE i # written
      <4>1. i \in read..written-1 /\ i < written /\ written - i < Capacity
        BY <3>3, <3>1, <1>1, <1>t, <1>c DEF Appends
      <4>2. Slot(i) # Slot(written)
        BY <4>1, <3>1, <1>t, Slots
      <4> QED
        BY <4>1, <4>2, <3>1, <1>1, <1>t DEF Appends, RingHolds
    <3> QED
      BY <3>2, <3>3
  <2> QED
    BY <2>1, <1>1, <1>c, <1>t DEF Appends, RingHolds
<1>2. CASE OwnerNext
  <2>1. UNCHANGED <<read, wpc>>
    BY <1>2, OwnerFrame DEF Worker, thread
  <2> QED
    BY <2>1, <1>1, <1>s, <1>2, OwnerRing DEF KeepsRing
<1>3. CASE DequeueCopy
  <2>1. CASE wpc' # "advance"
    BY <2>1, <1>3, <1>s DEF DequeueCopy, WorkerLoss, Owner
  <2>2. CASE wpc' = "advance"
    <3>1. /\ wpc = "dequeue" /\ wpc' = "advance" /\ UNCHANGED <<read, written, generated>>
          /\ read < written /\ slots' = [slots EXCEPT ![Slot(read)] = 0]
      BY <2>2, <1>3 DEF DequeueCopy, WorkerLoss, Owner
    <3>2. \A i \in read..written-1 : slots'[Slot(i)] = IF i = read THEN 0 ELSE i + 1
      <4> TAKE i \in read..written-1
      <4>0. i \in Nat
        BY <1>t
      <4>1. i \in Nat /\ Slot(i) \in 0..Capacity-1 /\ Slot(read) \in 0..Capacity-1
        BY <4>0, <1>t, Slots
      <4>2. i # read => Slot(i) # Slot(read)
        <5>1. i - read < Capacity
          BY <1>t, <1>c DEF RingHolds
        <5> QED
          BY <5>1, <4>1, <1>t, Slots
      <4> QED
        BY <4>1, <4>2, <3>1, <1>t DEF RingHolds
    <3> QED
      BY <3>1, <3>2, <1>t DEF RingHolds
  <2> QED
    BY <2>1, <2>2
<1>4. CASE DequeueAdvance
  <2>1. /\ wpc = "advance" /\ wpc' = "dequeue" /\ read' = read + 1
        /\ UNCHANGED <<slots, written, generated>>
    BY <1>4 DEF DequeueAdvance, Owner
  <2> QED
    BY <2>1, <1>t, <1>c DEF RingHolds
<1>5. CASE WorkerNext /\ ~DequeueCopy /\ ~DequeueAdvance
  <2>1. UNCHANGED <<slots, read>> /\ wpc # "advance" /\ wpc' # "advance"
    BY <1>5, WorkerKinds
       DEF QualifyFirst, FormatFrame, WorkerLoss, Acknowledge, ScanLine, WorkerMoves, ring
  <2> QED
    BY <2>1, <1>5, <1>s, WorkerFrame DEF Owner
<1>6. CASE EnvNext \/ UNCHANGED vars
  <2>1. UNCHANGED <<slots, read, written, generated, wpc>>
    BY <1>6, EnvFrame DEF ring, Worker, thread, Owner, vars
  <2> QED
    BY <2>1, <1>s
<1> QED
  BY <1>2, <1>3, <1>4, <1>5, <1>6 DEF Next

\* Every entry stays what its ticket's position among the three indices says.
LEMMA LedgerKept ==
  Types /\ RingHolds /\ LedgerHolds /\ InStep /\ [Next]_vars => LedgerHolds'
<1> SUFFICES ASSUME Types, RingHolds, LedgerHolds, InStep, [Next]_vars PROVE LedgerHolds'
  OBVIOUS
<1>c. Capacity \in Nat /\ Capacity >= 2
  BY ConstantsAssumption
<1> DEFINE Window == ledgerRead..ledgerRead+Capacity-1
<1>t. /\ ledgerRead \in Nat /\ nextFormat \in Nat /\ ledgerWrite \in Nat /\ held \in BOOLEAN
      /\ ledger \in [0..Capacity-1 ->
           [state : {"Empty", "Reserved", "Scalar", "Ready", "Matched"}, seq : 0..MaxRecords]]
      /\ ledgerRead <= nextFormat /\ nextFormat <= ledgerWrite
      /\ ledgerWrite - ledgerRead <= Capacity
      /\ \A t \in Window : ledger[Slot(t)] = Entry(t)
  BY DEF Types, LedgerHolds
<1>w. \A t \in Window : t \in Nat /\ Slot(t) \in 0..Capacity-1
  <2> TAKE t \in Window
  <2>1. t \in Nat
    BY <1>t, <1>c
  <2> QED
    BY <2>1, Slots
<1>d. \A t, u \in Window : t # u => Slot(t) # Slot(u)
  <2> TAKE t, u \in Window
  <2>1. t \in Nat /\ u \in Nat /\ t - u < Capacity /\ u - t < Capacity
    BY <1>t, <1>c
  <2> QED
    BY <2>1, Slots
<1> HIDE DEF Window
<1>s. /\ UNCHANGED <<ledger, ledgerRead, ledgerWrite, nextFormat, held>>
      /\ wpc' = "advance" <=> wpc = "advance"
      => LedgerHolds'
  BY DEF LedgerHolds, Entry
<1>1. CASE QualifyFirst
  <2>1. /\ ledgerRead = 0 /\ nextFormat = 0 /\ ledgerWrite = 0 /\ ~held /\ wpc = "qualify"
        /\ ledger' = [ledger EXCEPT ![0] = [state |-> "Ready", seq |-> 0]]
        /\ ledgerWrite' = 1 /\ nextFormat' = 1 /\ ledgerRead' = 0 /\ held' = FALSE
        /\ wpc' = "publishQ"
    BY <1>1, <1>t DEF QualifyFirst, InStep, Piped, scan
  <2>2. \A t \in Window : ledger'[Slot(t)] = Entry(t)'
    <3> TAKE t \in Window
    <3>1. 0 \in Window /\ Slot(0) = 0
      BY <2>1, <1>c, Slots DEF Window
    <3>2. CASE t = 0
      BY <3>1, <3>2, <2>1, <1>t, <1>w DEF Entry
    <3>3. CASE t # 0
      <4>1. ledger'[Slot(t)] = Entry(t)
        BY <3>1, <3>3, <2>1, <1>t, <1>w, <1>d
      <4>2. Entry(t) = Empty /\ Entry(t)' = Empty
        BY <3>3, <2>1, <1>w DEF Entry, Empty
      <4> QED
        BY <4>1, <4>2
    <3> QED
      BY <3>2, <3>3
  <2> QED
    BY <2>1, <2>2, <1>c DEF LedgerHolds, Window
<1>2. CASE DequeueCopy
  <2>1. CASE wpc' # "advance"
    BY <2>1, <1>2, <1>s DEF DequeueCopy, WorkerLoss, scan
  <2>2. CASE wpc' = "advance"
    <3>1. /\ wpc = "dequeue" /\ ledgerWrite - ledgerRead < Capacity
          /\ slots[Slot(read)] = read + 1
          /\ ledger' = [ledger EXCEPT ![Slot(ledgerWrite)] =
                          [state |-> "Reserved", seq |-> slots[Slot(read)]]]
          /\ UNCHANGED <<ledgerRead, ledgerWrite, nextFormat, held>>
      BY <2>2, <1>2 DEF DequeueCopy, WorkerLoss, scan
    <3>2. read + 1 = ledgerWrite
      BY <3>1, <1>t DEF InStep, Piped, RingHolds
    <3>3. ledgerWrite \in Window
      BY <3>1, <1>t, <1>c DEF Window
    <3>4. \A t \in Window : ledger'[Slot(t)] = Entry(t)'
      <4> TAKE t \in Window
      <4>1. CASE t = ledgerWrite
        BY <4>1, <3>1, <3>2, <3>3, <2>2, <1>t, <1>w DEF Entry
      <4>2. CASE t # ledgerWrite
        <5>1. ledger'[Slot(t)] = Entry(t)
          BY <4>2, <3>1, <3>3, <1>t, <1>w, <1>d
        <5>2. Entry(t)' = Entry(t)
          BY <4>2, <3>1, <2>2, <1>t, <1>w DEF Entry
        <5> QED
          BY <5>1, <5>2
      <4> QED
        BY <4>1, <4>2
    <3> QED
      BY <3>1, <3>4, <1>t, <2>2 DEF LedgerHolds, Window
  <2> QED
    BY <2>1, <2>2
<1>3. CASE DequeueAdvance
  <2>1. /\ wpc = "advance" /\ wpc' = "dequeue" /\ ledgerWrite' = ledgerWrite + 1
        /\ ledger' = [ledger EXCEPT ![Slot(ledgerWrite)].state = "Scalar"]
        /\ UNCHANGED <<ledgerRead, nextFormat, held>>
        /\ ledgerWrite - ledgerRead < Capacity
    BY <1>3 DEF DequeueAdvance, LedgerHolds, scan
  <2>2. ledgerWrite \in Window
    BY <2>1, <1>t, <1>c DEF Window
  <2>3. \A t \in Window : ledger'[Slot(t)] = Entry(t)'
    <3> TAKE t \in Window
    <3>1. CASE t = ledgerWrite
      <4>1. ledger[Slot(t)] = [state |-> "Reserved", seq |-> t]
        <5>1. ledger[Slot(t)] = Entry(t)
          BY <1>t
        <5> QED
          BY <5>1, <3>1, <2>1, <1>t, <1>w DEF Entry
      <4>2. ledger'[Slot(t)] = [state |-> "Scalar", seq |-> t]
        BY <4>1, <3>1, <2>1, <1>t, <1>w
      <4> QED
        BY <4>2, <3>1, <2>1, <1>t, <1>w DEF Entry
    <3>2. CASE t # ledgerWrite
      <4>1. ledger'[Slot(t)] = Entry(t)
        BY <3>2, <2>1, <2>2, <1>t, <1>w, <1>d
      <4>2. Entry(t)' = Entry(t)
        BY <3>2, <2>1, <1>t, <1>w DEF Entry
      <4> QED
        BY <4>1, <4>2
    <3> QED
      BY <3>1, <3>2
  <2> QED
    BY <2>1, <2>3, <1>t, <1>c DEF LedgerHolds, Window
<1>4. CASE FormatFrame
  <2>1. CASE UNCHANGED ledger /\ UNCHANGED nextFormat
    BY <2>1, <1>4, <1>s DEF FormatFrame, WorkerLoss, scan
  <2>2. CASE ~(UNCHANGED ledger /\ UNCHANGED nextFormat)
    <3>1. /\ wpc = "format" /\ wpc' = "format" /\ nextFormat' = nextFormat + 1
          /\ nextFormat < ledgerWrite
          /\ ledger' = [ledger EXCEPT ![Slot(nextFormat)].state = "Ready"]
          /\ UNCHANGED <<ledgerRead, ledgerWrite, held>>
      BY <2>2, <1>4 DEF FormatFrame, WorkerLoss, scan
    <3>2. nextFormat \in Window
      BY <3>1, <1>t, <1>c DEF Window
    <3>3. held => ledgerRead # nextFormat
      BY <1>t DEF LedgerHolds
    <3>4. \A t \in Window : ledger'[Slot(t)] = Entry(t)'
      <4> TAKE t \in Window
      <4>1. CASE t = nextFormat
        <5>1. ledger[Slot(t)] = [state |-> "Scalar", seq |-> t]
          <6>1. ledger[Slot(t)] = Entry(t)
            BY <1>t
          <6> QED
            BY <6>1, <4>1, <3>1, <1>t, <1>w DEF Entry
        <5>2. ledger'[Slot(t)] = [state |-> "Ready", seq |-> t]
          BY <5>1, <4>1, <3>1, <1>t, <1>w
        <5> QED
          BY <5>2, <4>1, <3>1, <3>3, <1>t, <1>w DEF Entry
      <4>2. CASE t # nextFormat
        <5>1. ledger'[Slot(t)] = Entry(t)
          BY <4>2, <3>1, <3>2, <1>t, <1>w, <1>d
        <5>2. Entry(t)' = Entry(t)
          BY <4>2, <3>1, <1>t, <1>w DEF Entry
        <5> QED
          BY <5>1, <5>2
      <4> QED
        BY <4>1, <4>2
    <3> QED
      BY <3>1, <3>4, <1>t DEF LedgerHolds, Window
  <2> QED
    BY <2>1, <2>2
<1>5. CASE Acknowledge
  <2>1. CASE UNCHANGED ledgerRead
    <3>1. wpc # "advance" /\ wpc' # "advance"
          /\ UNCHANGED <<ledger, ledgerRead, ledgerWrite, nextFormat, held>>
      <4>1. ledgerRead' # ledgerRead + 1
        BY <2>1, <1>t
      <4> QED
        BY <4>1, <1>5 DEF Acknowledge
    <3> QED
      BY <3>1, <1>s
  <2>2. CASE ~UNCHANGED ledgerRead
    <3>1. /\ wpc # "advance" /\ wpc' # "advance" /\ held /\ ~held'
          /\ ledgerRead' = ledgerRead + 1 /\ ledgerRead < nextFormat
          /\ ledger' = [ledger EXCEPT ![Slot(ledgerRead)] = Empty]
          /\ UNCHANGED <<ledgerWrite, nextFormat>>
      BY <2>2, <1>5 DEF Acknowledge, LedgerHolds
    <3>2. ledgerRead \in Window
      BY <1>t, <1>c DEF Window
    <3>3. \A t \in ledgerRead+1..ledgerRead+Capacity : ledger'[Slot(t)] = Entry(t)'
      <4> TAKE t \in ledgerRead+1..ledgerRead+Capacity
      <4>1. CASE t = ledgerRead + Capacity
        <5>1. Slot(t) = Slot(ledgerRead)
          BY <4>1, <1>t, Slots
        <5>2. ledger'[Slot(t)] = Empty
          BY <5>1, <3>1, <3>2, <1>t, <1>w
        <5>3. Entry(t)' = Empty
          BY <4>1, <3>1, <1>t, <1>c DEF Entry
        <5> QED
          BY <5>2, <5>3
      <4>2. CASE t # ledgerRead + Capacity
        <5>1. t \in Window /\ t # ledgerRead
          BY <4>2, <1>t, <1>c DEF Window
        <5>2. ledger'[Slot(t)] = Entry(t)
          BY <5>1, <3>1, <3>2, <1>t, <1>w, <1>d
        <5>3. Entry(t)' = Entry(t)
          BY <5>1, <3>1, <1>t, <1>w DEF Entry
        <5> QED
          BY <5>2, <5>3
      <4> QED
        BY <4>1, <4>2
    <3> QED
      BY <3>1, <3>3, <1>t, <1>c DEF LedgerHolds
  <2> QED
    BY <2>1, <2>2
<1>6. CASE ScanLine
  <2>1. CASE wpc' # "ackLine"
    BY <2>1, <1>6, <1>s DEF ScanLine
  <2>2. CASE wpc' = "ackLine"
    <3>1. /\ wpc = "scan" /\ ledgerRead < nextFormat /\ held'
          /\ ledger' = [ledger EXCEPT ![Slot(ledgerRead)].state = "Matched"]
          /\ UNCHANGED <<ledgerRead, ledgerWrite, nextFormat>>
      BY <2>2, <1>6, <1>t DEF ScanLine, MatchesFront, Hits
    <3>2. ledgerRead \in Window /\ ~held
      BY <3>1, <1>t, <1>c DEF Window, InStep
    <3>3. \A t \in Window : ledger'[Slot(t)] = Entry(t)'
      <4> TAKE t \in Window
      <4>1. CASE t = ledgerRead
        <5>1. ledger[Slot(t)] = [state |-> "Ready", seq |-> t]
          BY <4>1, <3>1, <3>2, <1>t, <1>w DEF Entry
        <5>2. ledger'[Slot(t)] = [state |-> "Matched", seq |-> t]
          BY <5>1, <4>1, <3>1, <1>t, <1>w
        <5> QED
          BY <5>2, <4>1, <3>1, <1>t, <1>w DEF Entry
      <4>2. CASE t # ledgerRead
        <5>1. ledger'[Slot(t)] = Entry(t)
          BY <4>2, <3>1, <3>2, <1>t, <1>w, <1>d
        <5>2. Entry(t)' = Entry(t)
          BY <4>2, <3>1, <2>2, <1>t, <1>w DEF Entry
        <5> QED
          BY <5>1, <5>2
      <4> QED
        BY <4>1, <4>2
    <3> QED
      BY <3>1, <3>3, <1>t, <2>2 DEF LedgerHolds, Window
  <2> QED
    BY <2>1, <2>2
<1>7. CASE WorkerMoves \/ OwnerNext \/ EnvNext \/ UNCHANGED vars
  <2>1. /\ UNCHANGED <<ledger, ledgerRead, ledgerWrite, nextFormat, held>>
        /\ wpc' = "advance" <=> wpc = "advance"
    BY <1>7, OwnerFrame, EnvFrame DEF WorkerMoves, Worker, books, scan, thread, vars
  <2> QED
    BY <2>1, <1>s
<1> QED
  BY <1>1, <1>2, <1>3, <1>4, <1>5, <1>6, <1>7, WorkerKinds DEF Next

\* Ledger and ring move together.
LEMMA InStepKept ==
  Types /\ RingHolds /\ LedgerHolds /\ InStep /\ [Next]_vars => InStep'
<1> SUFFICES ASSUME Types, RingHolds, LedgerHolds, InStep, [Next]_vars PROVE InStep'
  OBVIOUS
<1>t. /\ ledgerRead \in Nat /\ nextFormat \in Nat /\ ledgerWrite \in Nat /\ read \in Nat
      /\ ledgerRead <= nextFormat /\ nextFormat <= ledgerWrite /\ held \in BOOLEAN
      /\ prepared \in Nat
  BY DEF Types, LedgerHolds, RingHolds, InStep
<1> USE DEF InStep, Piped, scan, ring
<1>1. CASE QualifyFirst
  BY <1>1, <1>t DEF QualifyFirst
<1>2. CASE DequeueCopy
  BY <1>2, <1>t DEF DequeueCopy, WorkerLoss
<1>3. CASE DequeueAdvance
  BY <1>3, <1>t DEF DequeueAdvance
<1>4. CASE FormatFrame
  BY <1>4, <1>t DEF FormatFrame, WorkerLoss
<1>5. CASE Acknowledge
  <2>1. /\ wpc \in {"ack", "ackLine"} /\ held
        /\ UNCHANGED <<read, ledgerWrite, nextFormat, prepared>>
        /\ \/ UNCHANGED held /\ wpc' = "pause"
           \/ ~held' /\ wpc' \in {"scan", "behind"}
    BY <1>5 DEF Acknowledge
  <2> QED
    BY <2>1, <1>t
<1>6. CASE ScanLine
  BY <1>6, <1>t DEF ScanLine
<1>7. CASE WorkerMoves
  BY <1>7, <1>t DEF WorkerMoves, books
<1>8. CASE OwnerNext \/ EnvNext \/ UNCHANGED vars
  <2>1. UNCHANGED <<read, books, scan, wpc>>
    BY <1>8, OwnerFrame, EnvFrame DEF Worker, thread, vars
  <2> QED
    BY <2>1, <1>t DEF books
<1> QED
  BY <1>1, <1>2, <1>3, <1>4, <1>5, <1>6, <1>7, <1>8, WorkerKinds DEF Next

\* The front of the ready queue is the frame the owner is due to hand over.
LEMMA FrontIsDue ==
  ReadyHolds /\ readyRead < readyWrite /\ LedgerHolds
    => FrontFrame = [ticket |-> readyRead + 1, seq |-> readyRead]
BY DEF ReadyHolds, LedgerHolds, FrontFrame

\* Formatting fills the slot behind the last one in use and never one in use.
LEMMA ReadyKept ==
  Types /\ RingHolds /\ LedgerHolds /\ InStep /\ ReadyHolds /\ [Next]_vars => ReadyHolds'
<1> SUFFICES ASSUME Types, RingHolds, LedgerHolds, InStep, ReadyHolds, [Next]_vars
             PROVE  ReadyHolds'
  OBVIOUS
<1>c. ReadyCapacity \in Nat \ {0} /\ Capacity \in Nat \ {0} /\ ServiceFrames \in Nat
  BY ConstantsAssumption
<1>t. /\ nextFormat \in Nat /\ readyRead \in Nat /\ readyWrite \in Nat
      /\ readyWrite = nextFormat /\ readyRead <= readyWrite
      /\ ready \in [0..ReadyCapacity-1 -> [ticket : Lines, seq : 0..MaxRecords]]
      /\ served \in Nat
  <2>1. served \in Nat
    BY <1>c DEF Types
  <2> QED
    BY <2>1 DEF Types, LedgerHolds, ReadyHolds
<1>s. /\ UNCHANGED <<ready, readyWrite, readyRead, nextFormat>>
      /\ opc' \in {"native", "logged"} => readyRead < readyWrite /\ served' < ServiceFrames
      => ReadyHolds'
  BY DEF ReadyHolds
<1>1. CASE QualifyFirst
  <2>1. /\ readyRead = 0 /\ readyWrite = 0 /\ nextFormat' = 1 /\ readyWrite' = 1
        /\ ready' = [ready EXCEPT ![0] = [ticket |-> 1, seq |-> 0]] /\ readyRead' = 0
        /\ UNCHANGED <<opc, served>>
    BY <1>1, <1>t DEF QualifyFirst, Piped, LedgerHolds, Owner, login
  <2>2. ready'[ReadySlot(0)] = [ticket |-> 1, seq |-> 0]
    BY <2>1, <1>t, <1>c, ReadySlots
  <2>3. opc' \notin {"native", "logged"}
    BY <2>1, <1>t DEF ReadyHolds
  <2> QED
    BY <2>1, <2>2, <2>3, <1>c DEF ReadyHolds
<1>2. CASE FormatFrame
  <2>0. UNCHANGED <<readyRead, opc, served>>
    BY <1>2 DEF FormatFrame, Owner, login
  <2>1. CASE UNCHANGED readyWrite
    <3>1. UNCHANGED <<ready, readyWrite, nextFormat>>
      <4>1. readyWrite' # readyWrite + 1
        BY <2>1, <1>t
      <4> QED
        BY <4>1, <1>2 DEF FormatFrame
    <3> QED
      BY <3>1, <2>0, <1>s DEF ReadyHolds
  <2>2. CASE ~UNCHANGED readyWrite
    <3>1. /\ nextFormat < ledgerWrite /\ ReadyRoom
          /\ ready' = [ready EXCEPT ![ReadySlot(readyWrite)] =
                          [ticket |-> readyWrite + 1, seq |-> ledger[Slot(nextFormat)].seq]]
          /\ readyWrite' = readyWrite + 1 /\ nextFormat' = nextFormat + 1
      BY <2>2, <1>2 DEF FormatFrame
    <3>2. ledger[Slot(nextFormat)].seq = nextFormat
      <4>1. nextFormat \in ledgerRead..ledgerRead+Capacity-1
        BY <3>1, <1>c DEF LedgerHolds
      <4>2. ledger[Slot(nextFormat)] = Entry(nextFormat)
        BY <4>1 DEF LedgerHolds
      <4> QED
        BY <4>2, <3>1, <1>t DEF Entry
    <3>3. \A k \in readyRead..readyWrite : ready'[ReadySlot(k)] = [ticket |-> k + 1, seq |-> k]
      <4> TAKE k \in readyRead..readyWrite
      <4>0. k \in Nat /\ readyWrite - readyRead < ReadyCapacity
        BY <1>t, <3>1 DEF ReadyRoom
      <4>1. ReadySlot(k) \in 0..ReadyCapacity-1 /\ ReadySlot(readyWrite) \in 0..ReadyCapacity-1
        BY <4>0, <1>t, ReadySlots
      <4>2. CASE k = readyWrite
        BY <4>1, <4>2, <3>1, <3>2, <1>t
      <4>3. CASE k # readyWrite
        <5>1. k \in readyRead..readyWrite-1 /\ k < readyWrite /\ readyWrite - k < ReadyCapacity
          BY <4>0, <4>3, <1>t, <1>c
        <5>2. ReadySlot(k) # ReadySlot(readyWrite)
          BY <5>1, <4>0, <1>t, ReadySlots
        <5> QED
          BY <5>1, <5>2, <4>1, <3>1, <1>t DEF ReadyHolds
      <4> QED
        BY <4>2, <4>3
    <3> QED
      BY <2>0, <3>1, <3>3, <1>t, <1>c DEF ReadyHolds, ReadyRoom
  <2> QED
    BY <2>1, <2>2
<1>3. CASE LogReturn
  <2>1. /\ readyRead < readyWrite /\ opc' = "service"
        /\ UNCHANGED <<ready, readyWrite, nextFormat>> /\ readyRead' = readyRead + 1
    BY <1>3, FrontIsDue
       DEF LogReturn, OwnerGoes, ReadyHolds, Worker, books
  <2> QED
    BY <2>1, <1>t, <1>c DEF ReadyHolds
<1>4. CASE OwnerNext /\ ~LogReturn
  <2>1. UNCHANGED <<ready, readyWrite, readyRead, nextFormat>>
    BY <1>4, OwnerFrame, OwnerService DEF Worker, books
  <2>2. opc' \in {"native", "logged"} => readyRead < readyWrite /\ served' < ServiceFrames
    <3>1. CASE SubmitFrame \/ LogAppend
      BY <3>1, <1>c, <1>t DEF SubmitFrame, LogAppend, FrameOffered, OwnerGoes, ReadyHolds, login
    <3>2. CASE ~(SubmitFrame \/ LogAppend)
      BY <3>2, <1>4
         DEF OwnerNext, BeginPump, BeginManagement, QualifyFails, QualifyUnsafe,
             ServiceDone, RateLimited, LogThrow, OwnerMarks, RefreshPause, RefreshRun,
             Resume, ResumeRefused, ManageReserve, ManagePressure, ManageSkip, EmitRecord,
             EmitDone, RecoveryReserve, RecoveryEmit, RecoveryRelease, AnchorReserve,
             AnchorEmit, EndPump, OwnerGoes
    <3> QED
      BY <3>1, <3>2
  <2> QED
    BY <2>1, <2>2, <1>s
<1>5. CASE WorkerNext /\ ~QualifyFirst /\ ~FormatFrame
  <2>1. UNCHANGED <<ready, readyWrite, readyRead, nextFormat, opc, served>>
    BY <1>5, WorkerKinds, WorkerFrame
       DEF DequeueCopy, DequeueAdvance, Acknowledge, ScanLine, WorkerMoves, queue, books,
           Owner, login
  <2> QED
    BY <2>1, <1>s DEF ReadyHolds
<1>6. CASE EnvNext \/ UNCHANGED vars
  <2>1. UNCHANGED <<ready, readyWrite, readyRead, nextFormat, opc, served>>
    BY <1>6, EnvFrame DEF queue, Worker, books, Owner, login, vars
  <2> QED
    BY <2>1, <1>s DEF ReadyHolds
<1> QED
  BY <1>1, <1>2, <1>3, <1>4, <1>5, <1>6 DEF Next

\* The front of the ledger is the frame the receipt worker waits for.
LEMMA LedgerFront ==
  LedgerHolds /\ ledgerRead < ledgerWrite => Front = Entry(ledgerRead) /\ Front.seq = ledgerRead
<1> SUFFICES ASSUME LedgerHolds, ledgerRead < ledgerWrite
             PROVE  Front = Entry(ledgerRead) /\ Front.seq = ledgerRead
  OBVIOUS
<1>1. ledgerRead \in ledgerRead..ledgerRead+Capacity-1
  BY ConstantsAssumption DEF LedgerHolds
<1>2. Front = Entry(ledgerRead)
  BY <1>1 DEF LedgerHolds, Front
<1> QED
  BY <1>2 DEF LedgerHolds, Entry

\* What an acknowledgement does to the watermarks.
LEMMA AcknowledgeEffect ==
  LedgerHolds /\ Watermarks /\ Acknowledge =>
    /\ held /\ ~held' /\ UNCHANGED <<faults, slots, read, ready, readyWrite, worker>>
    /\ Front = [state |-> "Matched", seq |-> ledgerRead]
    /\ startupObserved' = TRUE /\ observed' = ledgerRead /\ ledgerRead' = ledgerRead + 1
    /\ IF ledgerRead = 0 THEN owner.startup
                         ELSE startupObserved /\ ledgerRead <= owner.submitted
    /\ wpc' \in {"scan", "behind"}
<1> SUFFICES ASSUME LedgerHolds, Watermarks, Acknowledge
             PROVE  /\ held /\ ~held'
                    /\ UNCHANGED <<faults, slots, read, ready, readyWrite, worker>>
                    /\ Front = [state |-> "Matched", seq |-> ledgerRead]
                    /\ startupObserved' = TRUE /\ observed' = ledgerRead
                    /\ ledgerRead' = ledgerRead + 1
                    /\ IF ledgerRead = 0 THEN owner.startup
                                         ELSE startupObserved /\ ledgerRead <= owner.submitted
                    /\ wpc' \in {"scan", "behind"}
  OBVIOUS
<1>1. held /\ ledgerRead < nextFormat /\ ledgerRead < ledgerWrite
  BY DEF Acknowledge, LedgerHolds
<1>2. Front = [state |-> "Matched", seq |-> ledgerRead]
  BY <1>1, LedgerFront DEF Entry
<1>3. Front.state = "Matched" /\ Front.seq = ledgerRead
  BY <1>2
<1>4. ledgerRead = 0 \/ (startupObserved /\ ledgerRead = observed + 1)
  BY DEF Watermarks
<1>5. IF ledgerRead = 0 THEN owner.startup ELSE ledgerRead <= owner.submitted
  BY <1>3 DEF Acknowledge, Submitted
<1>6. /\ startupObserved' = TRUE /\ observed' = Front.seq /\ ledgerRead' = ledgerRead + 1
      /\ held' = FALSE /\ UNCHANGED <<faults, worker, ring, queue>>
      /\ wpc' \in {"scan"} \cup (IF wpc = "ackLine" /\ offset < Len(file) THEN {"behind"}
                                                                       ELSE {})
  BY <1>3, <1>4 DEF Acknowledge
<1> QED
  BY <1>1, <1>2, <1>3, <1>4, <1>5, <1>6 DEF ring, queue

\* A watermark moves only after the one before it.
LEMMA MarksKept ==
  Types /\ RingHolds /\ LedgerHolds /\ InStep /\ ReadyHolds /\ Watermarks /\ [Next]_vars
    => Watermarks'
<1> SUFFICES ASSUME Types, RingHolds, LedgerHolds, InStep, ReadyHolds, Watermarks, [Next]_vars
             PROVE  Watermarks'
  OBVIOUS
<1>t. /\ readyRead \in Nat /\ submitted \in Nat /\ ledgerRead \in Nat /\ observed \in Nat
      /\ prepared \in Nat /\ generated \in Nat /\ startup \in BOOLEAN
      /\ startupObserved \in BOOLEAN
      /\ owner.generated \in Nat /\ owner.submitted \in Nat /\ owner.startup \in BOOLEAN
      /\ worker.observed \in Nat /\ worker.prepared \in Nat /\ worker.startup \in BOOLEAN
  BY ConstantsAssumption DEF Types, RingHolds, LedgerHolds, InStep, ReadyHolds
<1> DEFINE Sent == <<startup, readyRead, submitted>>
           Seen == <<startupObserved, ledgerRead, observed>>
<1>1. CASE OwnerNext
  <2>1. UNCHANGED <<Seen, worker, prepared>> /\ generated' \in Nat /\ generated <= generated'
    BY <1>1, <1>t, OwnerFrame, OwnerRing
       DEF Worker, scan, books, Appends, KeepsRing, RingHolds
  <2>2. CASE LogReturn
    <3>1. /\ FrontFrame.ticket = readyRead + 1 /\ FrontFrame.seq = readyRead
          /\ UNCHANGED owner
      BY <2>2, FrontIsDue DEF LogReturn, OwnerGoes, ReadyHolds, wire
    <3>2. /\ readyRead' = readyRead + 1
          /\ IF readyRead = 0 THEN startup' = TRUE /\ submitted' = submitted
                              ELSE startup' = startup /\ submitted' = readyRead
      BY <2>2, <3>1 DEF LogReturn
    <3> QED
      BY <3>1, <3>2, <2>1, <1>t DEF Watermarks
  <2>3. CASE EndPump
    <3>1. UNCHANGED Sent
      BY <2>3 DEF EndPump, queue, login
    <3>2. CASE UNCHANGED owner
      BY <3>1, <3>2, <2>1, <1>t DEF Watermarks
    <3>3. CASE ~UNCHANGED owner
      <4>1. /\ owner' = [generated |-> generated, submitted |-> submitted,
                         startup |-> startup, reason |-> reason']
            /\ ~(submitted > generated) /\ ~(generated < owner.generated)
            /\ ~(submitted < owner.submitted)
        BY <2>3, <3>3 DEF EndPump
      <4>2. /\ owner'.generated = generated /\ owner'.submitted = submitted
            /\ owner'.startup = startup
        BY <4>1
      <4> QED
        BY <4>1, <4>2, <3>1, <2>1, <1>t DEF Watermarks
    <3> QED
      BY <3>2, <3>3
  <2>4. CASE ~LogReturn /\ ~EndPump
    <3>1. UNCHANGED <<Sent, owner>>
      BY <1>1, <2>4, OwnerService
    <3> QED
      BY <3>1, <2>1, <1>t DEF Watermarks
  <2> QED
    BY <2>2, <2>3, <2>4
<1>2. CASE WorkerNext
  <2>1. UNCHANGED <<Sent, owner, generated>>
    BY <1>2, WorkerFrame DEF Owner, login
  <2>2. CASE Acknowledge
    <3>1. /\ startupObserved' = TRUE /\ observed' = ledgerRead /\ ledgerRead' = ledgerRead + 1
          /\ IF ledgerRead = 0 THEN owner.startup
                               ELSE startupObserved /\ ledgerRead <= owner.submitted
          /\ UNCHANGED <<worker, prepared>>
      BY <2>2, AcknowledgeEffect DEF Acknowledge
    <3> QED
      BY <3>1, <2>1, <1>t DEF Watermarks
  <2>3. CASE FormatFrame
    <3>1. UNCHANGED <<Seen, worker>>
      BY <2>3 DEF FormatFrame, scan
    <3>2. prepared' \in {prepared, prepared + 1}
      BY <2>3 DEF FormatFrame
    <3> QED
      BY <3>1, <3>2, <2>1, <1>t DEF Watermarks
  <2>4. CASE PublishWorker
    <3>1. UNCHANGED <<Seen, prepared>>
      BY <2>4 DEF PublishWorker, scan, books
    <3>2. CASE UNCHANGED worker
      BY <3>1, <3>2, <2>1, <1>t DEF Watermarks
    <3>3. CASE ~UNCHANGED worker
      <4>1. worker' = WorkerRegion /\ observed <= owner.submitted /\ observed <= prepared
        BY <2>4, <3>3, <1>t DEF PublishWorker
      <4>2. /\ worker'.observed = observed /\ worker'.startup = startupObserved
            /\ worker'.prepared = IF prepared < owner.generated THEN prepared
                                                                ELSE owner.generated
        BY <4>1 DEF WorkerRegion
      <4> QED
        BY <4>1, <4>2, <3>1, <2>1, <1>t DEF Watermarks
    <3> QED
      BY <3>2, <3>3
  <2>5. CASE ~Acknowledge /\ ~FormatFrame /\ ~PublishWorker
    <3>1. UNCHANGED <<Seen, worker, prepared>>
      BY <1>2, <2>5, WorkerKinds
         DEF QualifyFirst, DequeueCopy, DequeueAdvance, ScanLine, WorkerMoves, scan, books, wire
    <3> QED
      BY <3>1, <2>1, <1>t DEF Watermarks
  <2> QED
    BY <2>2, <2>3, <2>4, <2>5
<1>3. CASE EnvNext \/ UNCHANGED vars
  <2>1. UNCHANGED <<Sent, Seen, owner, worker, generated, prepared>>
    BY <1>3, EnvFrame DEF queue, Worker, books, scan, Owner, login, vars, wire
  <2> QED
    BY <2>1, <1>t DEF Watermarks
<1> QED
  BY <1>1, <1>2, <1>3 DEF Next

\* The published watermark of observed records only grows.
LEMMA ObservedGrows ==
  Types /\ InStep /\ [Next]_vars =>
      /\ worker'.observed \in Nat /\ worker.observed <= worker'.observed
      /\ worker.startup => worker'.startup \/ ~startupObserved
<1> SUFFICES ASSUME Types, InStep, [Next]_vars
             PROVE  /\ worker'.observed \in Nat /\ worker.observed <= worker'.observed
                    /\ worker.startup => worker'.startup \/ ~startupObserved
  OBVIOUS
<1>t. worker.observed \in Nat /\ observed \in Nat
  BY DEF Types
<1>1. CASE UNCHANGED worker
  BY <1>1, <1>t
<1>2. CASE ~UNCHANGED worker
  <2>1. PublishWorker
    BY <1>2, OwnerFrame, EnvFrame, WorkerKinds
       DEF Next, QualifyFirst, DequeueCopy, DequeueAdvance, FormatFrame, Acknowledge,
           ScanLine, WorkerMoves, wire, vars
  <2>2. worker' = WorkerRegion /\ ~(observed < worker.observed)
    BY <2>1, <1>2 DEF PublishWorker
  <2>3. worker'.observed = observed /\ worker'.startup = startupObserved
    BY <2>2 DEF WorkerRegion
  <2> QED
    BY <2>2, <2>3, <1>t
<1> QED
  BY <1>1, <1>2

\* Actions of the owner that neither hold nor move credit, nor change the mode.
OwnerIdles ==
    /\ UNCHANGED <<credits, state, boundary, generated>>
    /\ opc # "resume" /\ opc' # "resume" /\ opc' # "anchor" /\ opc # "anchor"
    /\ credit # 0 => opc' \in {"emit", "end", "anchor", "publish"}

\* Reserving, spending and releasing move the sum and its holders together.
LEMMA CreditsKept ==
  Types /\ RingHolds /\ InStep /\ Watermarks /\ Credits /\ [Next]_vars => Credits'
<1> SUFFICES ASSUME Types, RingHolds, InStep, Watermarks, Credits, [Next]_vars PROVE Credits'
  OBVIOUS
<1>c. Capacity \in Nat /\ DataLimit \in Nat /\ DataLimit >= 1 /\ Burst \in Nat \ {0}
  BY ConstantsAssumption DEF DataLimit
<1>t. /\ generated \in Nat /\ worker.observed \in Nat /\ reserved \in Nat
      /\ credit \in Nat /\ quota \in Nat /\ anchor \in Nat /\ boundary \in Nat
      /\ written = generated /\ worker.observed <= generated
  BY Naturals DEF Watermarks
<1> USE DEF Outstanding
<1>1. CASE WorkerNext \/ EnvNext \/ UNCHANGED vars
  <2>1. UNCHANGED <<credits, opc, generated, state, boundary>>
    BY <1>1, WorkerFrame, EnvFrame DEF Owner, mode, vars
  <2>2. worker'.observed \in Nat /\ worker.observed <= worker'.observed
    BY ObservedGrows
  <2> QED
    BY <2>1, <2>2, <1>t, <1>c DEF Credits, credits
<1>2. CASE OwnerNext
  <2>w. UNCHANGED worker
    BY <1>2, OwnerFrame
  <2>g. /\ generated' = generated \/ generated' = generated + 1
        /\ generated' \in Nat /\ written' = generated'
        /\ written' = written => UNCHANGED generated
    BY <1>2, <1>t, OwnerRing DEF KeepsRing, Appends
  <2>1. CASE BeginPump \/ BeginManagement \/ QualifyFails \/ QualifyUnsafe
             \/ SubmitFrame \/ ServiceDone \/ RateLimited \/ LogAppend \/ LogReturn
             \/ LogThrow \/ OwnerMarks \/ ManageSkip \/ EmitDone
    <3>1. OwnerIdles
      BY <2>1
         DEF OwnerIdles, BeginPump, BeginManagement, QualifyFails, QualifyUnsafe,
             SubmitFrame, ServiceDone, RateLimited, LogAppend, LogReturn, LogThrow,
             OwnerMarks, ManageSkip, EmitDone, OwnerGoes, mode, Credits
    <3> QED
      BY <3>1, <2>w, <1>t DEF OwnerIdles, Credits, credits
  <2>2. CASE RefreshPause \/ ManagePressure
    <3>1. /\ Pause \/ UNCHANGED <<state, generated>>
          /\ UNCHANGED credits
          /\ opc \in {"refresh", "manage"} /\ opc' \in {"manage", "end"}
      BY <2>2 DEF RefreshPause, ManagePressure, PauseForCredit, OwnerGoes, mode
    <3>2. CASE state # "Running" \/ ~Pause
      <4>1. UNCHANGED <<state, generated>>
        BY <3>1, <3>2 DEF Pause, mode
      <4> QED
        BY <4>1, <3>1, <2>w, <1>t DEF Credits, credits
    <3>3. CASE state = "Running" /\ Pause
      <4>1. state' = "Paused"
        BY <3>3 DEF Pause
      <4> QED
        BY <4>1, <3>1, <3>3, <2>w, <2>g, <1>t, <1>c DEF Credits, credits
    <3> QED
      BY <3>2, <3>3
  <2>3. CASE RefreshRun
    <3>1. /\ UNCHANGED <<credits, generated, boundary>> /\ opc = "refresh"
          /\ opc' \in {"end", "manage", "resume"}
          /\ opc' = "resume" => ResumeDue
          /\ state' = state \/ (state = "WaitingLogger" /\ state' = "Running")
      BY <2>3 DEF RefreshRun, OwnerGoes
    <3> QED
      BY <3>1, <2>w, <1>t DEF Credits, credits, ResumeDue
  <2>4. CASE Resume \/ ResumeRefused
    <3>1. /\ opc = "resume" /\ opc' = "manage" /\ UNCHANGED credits
          /\ state' \in {"Running", state}
      BY <2>4 DEF Resume, ResumeRefused, OwnerGoes, mode
    <3>2. reserved = 0 /\ generated = worker.observed
      BY <3>1, <1>t DEF Credits
    <3> QED
      BY <3>1, <3>2, <2>w, <2>g, <1>t, <1>c DEF Credits, credits
  <2>5. CASE ManageReserve
    <3>1. /\ opc = "manage" /\ opc' = "emit" /\ UNCHANGED <<generated, state, quota, anchor>>
          /\ credit' = Burst /\ reserved' = reserved + Burst
          /\ generated - worker.observed + reserved + Burst <= DataLimit
      BY <2>5 DEF ManageReserve, OwnerGoes, CanReserve, mode
    <3> QED
      BY <3>1, <2>w, <1>t, <1>c DEF Credits
  <2>6. CASE EmitRecord
    <3>1. /\ opc = "emit" /\ credit > 0 /\ opc' \in {"emit", "end"}
          /\ UNCHANGED <<state, quota, anchor>>
          /\ IF written' # written THEN credit' = credit - 1 /\ reserved' = reserved - 1
                                   ELSE credit' = credit /\ reserved' = reserved
      BY <2>6 DEF EmitRecord, mode
    <3> QED
      BY <3>1, <2>w, <2>g, <1>t, <1>c DEF Credits
  <2>7. CASE RecoveryReserve
    <3>1. /\ opc = "manage" /\ quota = 0
          /\ UNCHANGED <<opc, generated, state, credit, anchor>>
      BY <2>7 DEF RecoveryReserve, mode
    <3>2. CASE CountersAgree
      <4>1. PICK n \in {1, Burst} : /\ generated - worker.observed + reserved + n <= DataLimit
                                    /\ quota' = n /\ reserved' = reserved + n
        BY <2>7, <3>2 DEF RecoveryReserve, CanReserve
      <4> QED
        BY <3>1, <4>1, <2>w, <1>t, <1>c DEF Credits
    <3>3. CASE ~CountersAgree
      <4>1. UNCHANGED <<quota, reserved>>
        BY <2>7, <3>3 DEF RecoveryReserve
      <4> QED
        BY <3>1, <4>1, <2>w, <1>t DEF Credits
    <3> QED
      BY <3>2, <3>3
  <2>8. CASE RecoveryEmit
    <3>1. /\ opc = "manage" /\ quota > 0 /\ UNCHANGED <<opc, state, credit, anchor>>
          /\ IF written' # written THEN quota' = quota - 1 /\ reserved' = reserved - 1
                                   ELSE quota' = quota /\ reserved' = reserved
      BY <2>8 DEF RecoveryEmit, mode
    <3> QED
      BY <3>1, <2>w, <2>g, <1>t, <1>c DEF Credits
  <2>9. CASE RecoveryRelease
    <3>1. /\ opc = "manage" /\ UNCHANGED <<opc, generated, state, credit, anchor>>
          /\ quota' = 0 /\ reserved' = reserved - quota
      BY <2>9 DEF RecoveryRelease, mode
    <3> QED
      BY <3>1, <2>w, <1>t, <1>c DEF Credits
  <2>10. CASE AnchorReserve
    <3>1. opc = "end" /\ UNCHANGED <<credit, quota>>
      BY <2>10 DEF AnchorReserve, OwnerGoes
    <3>2. CASE opc' = "anchor"
      <4>1. /\ anchor' = 2 /\ reserved' = reserved + 2 /\ UNCHANGED <<generated, state>>
            /\ generated - worker.observed + reserved + 2 <= DataLimit
        BY <2>10, <3>2 DEF AnchorReserve, OwnerGoes, CanReserve, mode
      <4> QED
        BY <4>1, <3>1, <3>2, <2>w, <1>t, <1>c DEF Credits
    <3>3. CASE opc' # "anchor"
      <4>1. /\ opc' = "publish" /\ state = "Running" /\ UNCHANGED <<anchor, reserved>>
            /\ state' = "Paused" \/ UNCHANGED <<state, generated>>
        BY <2>10, <3>3
           DEF AnchorReserve, OwnerGoes, PauseForCredit, Pause, CaptureAdmission, mode
      <4> QED
        BY <4>1, <3>1, <2>w, <2>g, <1>t, <1>c DEF Credits
    <3> QED
      BY <3>2, <3>3
  <2>11. CASE AnchorEmit
    <3>1. opc = "anchor" /\ UNCHANGED <<state, credit, quota>> /\ anchor > 0
      BY <2>11 DEF AnchorEmit, mode, Credits
    <3>2. CASE anchor' = 0 /\ reserved' = reserved - anchor /\ opc' = "publish"
      <4>1. generated' - generated <= anchor
        <5>1. CASE generated' = generated
          BY <5>1, <3>1, <1>t
        <5>2. CASE generated' = generated + 1
          BY <5>2, <3>1, <1>t
        <5> QED
          BY <5>1, <5>2, <2>g
      <4> QED
        BY <4>1, <3>1, <3>2, <2>w, <2>g, <1>t, <1>c DEF Credits
    <3>3. CASE ~(anchor' = 0 /\ reserved' = reserved - anchor /\ opc' = "publish")
      <4>1. /\ written' # written /\ anchor - (written' - written) # 0
            /\ anchor' = anchor - (written' - written) /\ reserved' = reserved - 1
            /\ opc' = opc
        BY <2>11, <3>3 DEF AnchorEmit
      <4>2. anchor' = anchor - 1 /\ anchor' > 0 /\ generated' = generated + 1
        <5>1. generated' # generated
          BY <4>1, <2>g, <1>t
        <5>2. generated' = generated + 1
          BY <5>1, <2>g
        <5>3. written' - written = 1
          BY <5>2, <2>g, <1>t
        <5> QED
          BY <5>2, <5>3, <4>1, <3>1, <1>t
      <4> QED
        BY <4>1, <4>2, <3>1, <2>w, <1>t, <1>c DEF Credits
    <3> QED
      BY <3>2, <3>3
  <2>12. CASE EndPump
    <3>1. /\ opc \in {"end", "publish"} /\ opc' = "idle"
          /\ UNCHANGED <<generated, quota, anchor>>
          /\ state' \in {"Stopping", "Faulted", state}
          /\ credit' = 0 /\ reserved' = reserved - credit
      BY <2>12 DEF EndPump
    <3> QED
      BY <3>1, <2>w, <1>t, <1>c DEF Credits
  <2> QED
    BY <1>2, <2>1, <2>2, <2>3, <2>4, <2>5, <2>6, <2>7, <2>8, <2>9, <2>10, <2>11, <2>12
       DEF OwnerNext
<1> QED
  BY <1>1, <1>2 DEF Next

\* A line is matched only as the frame at the ledger's front.
LEMMA ScannedKept ==
  Types /\ LedgerHolds /\ InStep /\ Watermarks /\ Scanned /\ [Next]_vars => Scanned'
<1> SUFFICES ASSUME Types, LedgerHolds, InStep, Watermarks, Scanned, [Next]_vars
             PROVE  Scanned'
  OBVIOUS
<1>t. /\ ledgerRead \in Nat /\ offset \in Nat /\ held \in BOOLEAN /\ failed \in BOOLEAN
      /\ file \in Seq(Lines) /\ Len(file) \in Nat
  BY DEF Types, LedgerHolds
<1> DEFINE Books == <<ledgerRead, held, failed, offset>>
<1>s. ASSUME UNCHANGED Books, wpc' = "lost" => failed, UNCHANGED file PROVE Scanned'
  BY <1>s DEF Scanned
<1>1. CASE ScanLine
  <2>1. /\ wpc = "scan" /\ ~failed /\ ~held /\ offset < Len(file) /\ offset' = offset + 1
        /\ UNCHANGED <<file, ledgerRead>> /\ offset = ledgerRead
    BY <1>1, <1>t DEF ScanLine, env, Scanned, InStep
  <2>2. CASE MatchesFront(file[offset + 1])
    <3>1. held' = TRUE /\ failed' = failed /\ wpc' = "ackLine"
      BY <1>1, <2>2 DEF ScanLine
    <3>2. /\ ledgerRead < nextFormat
          /\ ledger[Slot(ledgerRead)] = [state |-> "Ready", seq |-> file[offset + 1]]
      BY <2>2, <1>t DEF MatchesFront, Hits, LedgerHolds
    <3>3. Front.seq = ledgerRead
      BY <3>2, LedgerFront, <1>t DEF LedgerHolds
    <3>4. file[offset + 1] = ledgerRead
      BY <3>2, <3>3 DEF Front
    <3> QED
      BY <2>1, <3>1, <3>4, <1>t DEF Scanned
  <2>3. CASE ~MatchesFront(file[offset + 1])
    <3>1. held' = held /\ failed' = TRUE
      BY <1>1, <2>3 DEF ScanLine
    <3> QED
      BY <2>1, <3>1, <1>t DEF Scanned
  <2> QED
    BY <2>2, <2>3
<1>2. CASE Acknowledge
  <2>1. /\ held /\ ~held' /\ ledgerRead' = ledgerRead + 1 /\ wpc' \in {"scan", "behind"}
        /\ UNCHANGED <<file, offset, failed>>
    BY <1>2, AcknowledgeEffect DEF Acknowledge, env
  <2> QED
    BY <2>1, <1>t DEF Scanned
<1>3. CASE QualifyFirst \/ DequeueCopy \/ DequeueAdvance \/ FormatFrame
  <2>1. UNCHANGED Books /\ wpc' # "lost" /\ UNCHANGED file
    BY <1>3 DEF QualifyFirst, DequeueCopy, DequeueAdvance, FormatFrame, WorkerLoss, scan, env
  <2> QED
    BY <2>1, <1>s
<1>4. CASE WorkerMoves /\ WorkerNext
  <2>1. UNCHANGED Books /\ wpc' = "lost" => failed
    BY <1>4 DEF WorkerMoves, books, scan
  <2>2. UNCHANGED Books /\ UNCHANGED file
    BY <1>4, WorkerFrame DEF WorkerMoves, books, scan, env
  <2> QED
    BY <2>1, <2>2, <1>s
<1>5. CASE OwnerNext \/ UNCHANGED vars
  <2>1. UNCHANGED Books /\ UNCHANGED wpc /\ UNCHANGED file
    BY <1>5, OwnerFrame DEF Worker, books, scan, thread, vars, env
  <2> QED
    BY <2>1, <1>s DEF Scanned
<1>6. CASE EnvNext
  <2>1. UNCHANGED Books /\ UNCHANGED wpc
    BY <1>6, EnvFrame DEF Worker, books, scan, thread
  <2>2. CASE UNCHANGED file
    BY <2>1, <2>2, <1>s DEF Scanned
  <2>3. CASE ~UNCHANGED file
    <3>1. \E x : file' = Append(file, x)
      BY <1>6, <2>3 DEF EnvNext, FlushLine, Disturb, Truncate, RevokeFromOutside, StopStatus, env
    <3>2. Len(file') = Len(file) + 1 /\ \A n \in 1..Len(file) : file'[n] = file[n]
      BY <3>1, <1>t
    <3>3. \A n \in 1..ledgerRead + (IF held THEN 1 ELSE 0) : n \in 1..Len(file)
      BY <1>t DEF Scanned
    <3> QED
      BY <2>1, <3>2, <3>3, <1>t DEF Scanned
  <2> QED
    BY <2>2, <2>3
<1> QED
  BY <1>1, <1>2, <1>3, <1>4, <1>5, <1>6, WorkerKinds DEF Next

-----------------------------------------------------------------------------
(* Latches: none is ever cleared, and none accuses the pipeline.           *)

\* A latch is only ever added to, and the owner whose call unwound is the only
\* source of that call's latch.
LEMMA LatchesGrow ==
  [Next]_vars => /\ faults \subseteq faults' /\ faults' \subseteq faults \cup Latches
                 /\ "NativeUnwind" \in faults' =>
                      "NativeUnwind" \in faults \/ (OwnerMarks /\ opc' = "end")
<1> DEFINE Grows == /\ faults \subseteq faults' /\ faults' \subseteq faults \cup Latches
                    /\ "NativeUnwind" \in faults' =>
                      "NativeUnwind" \in faults \/ (OwnerMarks /\ opc' = "end")
<1> SUFFICES ASSUME [Next]_vars PROVE Grows
  OBVIOUS
<1>s. faults' = faults => Grows
  OBVIOUS
<1>l. ASSUME NEW f \in Latches \ {"NativeUnwind"}, Latch(f) PROVE Grows
  BY <1>l DEF Latch
<1> HIDE DEF Grows
<1>e. Enqueue => Grows
  BY <1>s, <1>l DEF Enqueue, Latches
<1>p. Pause => Grows
  BY <1>e, <1>s, <1>l DEF Pause, Latches
<1>c. PauseForCredit => Grows
  BY <1>p, <1>l DEF PauseForCredit, Latches
<1>1. CASE RefreshPause \/ ManagePressure \/ EmitRecord \/ RecoveryEmit \/ AnchorEmit
  BY <1>1, <1>e, <1>p, <1>c
     DEF RefreshPause, ManagePressure, EmitRecord, RecoveryEmit, AnchorEmit
<1>2. CASE Resume \/ AnchorReserve \/ RecoveryReserve
  BY <1>2, <1>e, <1>c, <1>s, <1>l DEF Resume, AnchorReserve, RecoveryReserve, Latches
<1>3. CASE SubmitFrame \/ EndPump
  BY <1>3, <1>s, <1>l DEF SubmitFrame, EndPump, Latches
<1>4. CASE OwnerMarks
  <2>1. CASE opc' = "end"
    BY <1>4, <2>1 DEF OwnerMarks, OwnerGoes, MaskOf, Latch, Latches, Grows
  <2>2. CASE opc' # "end"
    BY <1>4, <2>2, <1>l DEF OwnerMarks, OwnerGoes, MaskOf, Latches
  <2> QED
    BY <2>1, <2>2
<1>5. CASE DequeueCopy \/ FormatFrame \/ Acknowledge
  BY <1>5, <1>s, <1>l DEF DequeueCopy, FormatFrame, Acknowledge, WorkerLoss, Latches
<1>6. CASE WorkerMarks \/ PublishWorker \/ WorkerClockFails \/ RevokeFromOutside
  BY <1>6, <1>s, <1>l DEF WorkerMarks, MaskOf, PublishWorker, WorkerClockFails,
                          RevokeFromOutside, Latches
<1>7. CASE UNCHANGED faults
  BY <1>7, <1>s
<1>8. [Next]_vars =>
        \/ RefreshPause \/ ManagePressure \/ EmitRecord \/ RecoveryEmit \/ AnchorEmit
        \/ Resume \/ AnchorReserve \/ RecoveryReserve \/ SubmitFrame \/ EndPump
        \/ OwnerMarks \/ DequeueCopy \/ FormatFrame \/ Acknowledge
        \/ WorkerMarks \/ PublishWorker \/ WorkerClockFails \/ RevokeFromOutside
        \/ UNCHANGED faults
  BY DEF Next, OwnerNext, WorkerNext, EnvNext, BeginPump, BeginManagement, QualifyFails,
         QualifyUnsafe, ServiceDone, RateLimited, LogAppend, LogReturn, LogThrow,
         RefreshRun, ResumeRefused, ManageReserve, ManageSkip, EmitDone, RecoveryRelease,
         WorkerBegins, QualifyFirst, QualifyAgain, QualifyRejects, QualifyCut,
         DequeueAdvance, DequeueEnds, FormatEnds, AcknowledgeLater, ScanLine, ScanEnds,
         ReadFails, WorkerReports, PauseWorker, PublishRaces, ClocklessStops, FlushLine,
         Disturb, Truncate, StopStatus, wire, vars
<1> QED
  BY <1>1, <1>2, <1>3, <1>4, <1>5, <1>6, <1>7, <1>8

\* Every report finds the word empty or leaves it alone, and has its mask still to set.
LEMMA FatalIsFirst ==
  [Next]_vars => \/ UNCHANGED fatal
                 \/ fatal = "None" /\ fatal' \in FatalReasons /\ MaskOf(fatal') \in Marking'
<1> SUFFICES ASSUME [Next]_vars, fatal' # fatal
             PROVE  fatal = "None" /\ fatal' \in FatalReasons /\ MaskOf(fatal') \in Marking'
  OBVIOUS
<1>1. QualifyUnsafe \/ LogThrow \/ WorkerReports
  BY DEF Next, OwnerNext, BeginPump, BeginManagement, QualifyFails, SubmitFrame, ServiceDone,
         RateLimited, LogAppend, LogReturn, OwnerMarks, RefreshPause, RefreshRun, Resume,
         ResumeRefused, ManageReserve, ManagePressure, ManageSkip, EmitRecord, EmitDone,
         RecoveryReserve, RecoveryEmit, RecoveryRelease, AnchorReserve, AnchorEmit, EndPump,
         WorkerNext, WorkerBegins, QualifyFirst, QualifyAgain, QualifyRejects, QualifyCut,
         DequeueCopy, DequeueAdvance, DequeueEnds, FormatFrame, FormatEnds, Acknowledge,
         AcknowledgeLater, ScanLine, ScanEnds, ReadFails, WorkerMarks, PauseWorker,
         PublishWorker, PublishRaces, WorkerClockFails, ClocklessStops,
         EnvNext, FlushLine, Disturb, Truncate, RevokeFromOutside, StopStatus, wire, vars
<1>2. CASE QualifyUnsafe
  BY <1>2 DEF QualifyUnsafe, OwnerGoes, Report, MaskOf, Marking, FatalReasons
<1>3. CASE LogThrow
  BY <1>3 DEF LogThrow, Report, MaskOf, Marking, FatalReasons
<1>4. CASE WorkerReports
  BY <1>4 DEF WorkerReports, Report, MaskOf, Marking, FatalReasons
<1> QED
  BY <1>1, <1>2, <1>3, <1>4

\* A call that unwound is the last one.
LEMMA UnwindKept == UnwindIsFinal /\ [Next]_vars => UnwindIsFinal'
<1> SUFFICES ASSUME UnwindIsFinal, [Next]_vars, "NativeUnwind" \in faults'
             PROVE  opc' \in {"idle", "end"}
  BY DEF UnwindIsFinal
<1>1. CASE opc' = "end"
  BY <1>1
<1>2. CASE opc' # "end"
  <2>1. "NativeUnwind" \in faults /\ opc \in {"idle", "end"} /\ Revoked
    BY <1>2, LatchesGrow DEF UnwindIsFinal, Revoked
  <2>2. CASE OwnerNext
    BY <2>1, <2>2
       DEF OwnerNext, BeginPump, BeginManagement, QualifyFails, QualifyUnsafe,
           SubmitFrame, ServiceDone, RateLimited, LogAppend, LogReturn, LogThrow,
           OwnerMarks, RefreshPause, RefreshRun, Resume, ResumeRefused, ManageReserve,
           ManagePressure, ManageSkip, EmitRecord, EmitDone, RecoveryReserve,
           RecoveryEmit, RecoveryRelease, AnchorReserve, AnchorEmit, EndPump, OwnerGoes,
           CaptureAdmission
  <2>3. CASE WorkerNext \/ EnvNext \/ UNCHANGED vars
    <3>1. UNCHANGED opc
      BY <2>3, WorkerFrame, EnvFrame DEF Owner, vars
    <3> QED
      BY <3>1, <2>1
  <2> QED
    BY <2>2, <2>3 DEF Next
<1> QED
  BY <1>1, <1>2

Blame == {"RecordLoss", "StatusUnavailable"}
Blameless == faults' \cap Blame \subseteq faults

\* Nothing is counted as observed that the worker has not dequeued.
LEMMA ReadAhead ==
  Types /\ RingHolds /\ LedgerHolds /\ InStep /\ Watermarks
    => worker.observed <= observed /\ observed <= read
BY SMTT(30) DEF Types, RingHolds, LedgerHolds, InStep, Piped, Watermarks

\* With a credit in hand the ring has room.
LEMMA EnqueueFits ==
  ASSUME Types, RingHolds, LedgerHolds, InStep, Watermarks, Enqueue,
         Outstanding < Capacity
  PROVE  Blameless
<1>1. written - read < Capacity
  BY ReadAhead, Naturals DEF Outstanding
<1> QED
  BY <1>1 DEF Enqueue, Latch, Blameless, Blame

\* A running transport has kept the credit its pause record needs.
LEMMA PauseFits ==
  ASSUME Types, RingHolds, LedgerHolds, InStep, Watermarks, Credits, Pause
  PROVE  Blameless
<1>1. CASE state # "Running" \/ CounterSpent(generated)
  BY <1>1 DEF Pause, Latch, Blameless, Blame
<1>2. CASE state = "Running" /\ ~CounterSpent(generated)
  <2>1. Outstanding + reserved + 1 <= Capacity /\ Outstanding < Capacity
    BY <1>2, Naturals DEF Credits, Outstanding
  <2>2. Enqueue
    BY <2>1, <1>2 DEF Pause, CanReserve
  <2> QED
    BY <2>1, <2>2, EnqueueFits
<1> QED
  BY <1>1, <1>2

\* The counters agree, so a refused reservation is only ever a pause.
LEMMA CountersFit ==
  ASSUME Types, RingHolds, LedgerHolds, InStep, Watermarks, Credits
  PROVE  CountersAgree /\ (PauseForCredit => Blameless)
<1>1. CountersAgree
  BY ReadAhead, Naturals DEF CountersAgree, Outstanding, Credits, RingHolds
<1> QED
  BY <1>1, PauseFits DEF PauseForCredit

\* What the owner latches is never a loss of its own making.
LEMMA OwnerBlameless ==
  ASSUME Types, RingHolds, LedgerHolds, InStep, ReadyHolds, Watermarks, Credits, OwnerNext
  PROVE  Blameless
<1>c. Capacity \in Nat /\ DataLimit \in Nat /\ DataLimit + 1 <= Capacity
  BY ConstantsAssumption DEF DataLimit
<1>t. /\ generated \in Nat /\ worker.observed \in Nat /\ reserved \in Nat
      /\ credit \in Nat /\ quota \in Nat /\ anchor \in Nat
      /\ readyRead \in Nat /\ readyWrite \in Nat /\ submitted \in Nat
  BY Naturals DEF ReadyHolds, LedgerHolds
<1>s. UNCHANGED faults => Blameless
  BY DEF Blameless
<1>o. readyWrite <= generated + 1
  BY ConstantsAssumption, <1>t DEF ReadyHolds, LedgerHolds, InStep, Piped, RingHolds
<1>1. CASE RefreshPause \/ ManagePressure \/ AnchorReserve \/ RecoveryReserve
  BY <1>1, <1>s, PauseFits, CountersFit
     DEF RefreshPause, ManagePressure, AnchorReserve, RecoveryReserve
<1>2. CASE EmitRecord \/ RecoveryEmit \/ AnchorEmit
  <2>1. Enqueue /\ reserved >= 1
    BY <1>2, <1>t DEF EmitRecord, RecoveryEmit, AnchorEmit, Credits
  <2>2. Outstanding < Capacity
    BY <2>1, <1>t, <1>c DEF Credits, Outstanding
  <2> QED
    BY <2>1, <2>2, EnqueueFits
<1>3. CASE Resume
  <2>1. worker.observed >= generated /\ reserved = 0
    BY <1>3 DEF Resume, OwnerGoes, Credits
  <2>2. Outstanding < Capacity /\ CanReserve(1, Capacity)
    BY <2>1, <1>t, ConstantsAssumption DEF CanReserve, Outstanding
  <2>3. Enqueue
    BY <2>2, <1>3 DEF Resume
  <2> QED
    BY <2>2, <2>3, EnqueueFits
<1>4. CASE SubmitFrame
  <2>1. readyRead < readyWrite
    BY <1>4 DEF SubmitFrame, FrameOffered
  <2>2. FrontFrame = [ticket |-> readyRead + 1, seq |-> readyRead]
    BY <2>1, FrontIsDue
  <2>3. FrameInOrder
    <3>1. FrontFrame.ticket = readyRead + 1 /\ FrontFrame.seq = readyRead
      BY <2>2
    <3>2. CASE readyRead = 0
      BY <3>1, <3>2, <1>t DEF FrameInOrder, Watermarks
    <3>3. CASE readyRead # 0
      BY <3>1, <3>3, <2>1, <1>t, <1>o DEF FrameInOrder, Watermarks
    <3> QED
      BY <3>2, <3>3
  <2> QED
    BY <2>3, <1>4, <1>s DEF SubmitFrame
<1>5. CASE OwnerMarks
  BY <1>5 DEF OwnerMarks, MaskOf, Latch, Blameless, Blame
<1>6. CASE EndPump
  <2>1. ~(submitted > generated)
    BY <1>o, <1>t DEF Watermarks, ReadyHolds
  <2>2. ~(generated < owner.generated) /\ ~(submitted < owner.submitted)
    BY <1>t, Naturals DEF Watermarks
  <2> QED
    BY <2>1, <2>2, <1>6, <1>s DEF EndPump
<1>7. CASE UNCHANGED faults
  BY <1>7, <1>s
<1> QED
  BY <1>1, <1>2, <1>3, <1>4, <1>5, <1>6, <1>7
     DEF OwnerNext, BeginPump, BeginManagement, QualifyFails, QualifyUnsafe, ServiceDone,
         RateLimited, LogAppend, LogReturn, LogThrow, RefreshRun, ResumeRefused,
         ManageReserve, ManageSkip, EmitDone, RecoveryRelease, wire

\* Nor is what the worker latches, unless its scanner or the file has failed it.
LEMMA WorkerBlameless ==
  ASSUME Types, RingHolds, LedgerHolds, InStep, Watermarks, wpc \notin Losing, WorkerNext
  PROVE  Blameless
<1>c. Capacity \in Nat
  BY ConstantsAssumption
<1>t. /\ ledgerRead \in Nat /\ nextFormat \in Nat /\ ledgerWrite \in Nat /\ read \in Nat
      /\ written \in Nat /\ observed \in Nat /\ prepared \in Nat
      /\ owner.submitted \in Nat /\ owner.generated \in Nat
      /\ worker.observed \in Nat /\ worker.prepared \in Nat
  BY ConstantsAssumption DEF Types, RingHolds, LedgerHolds, InStep
<1>s. UNCHANGED faults => Blameless
  BY DEF Blameless
<1>1. CASE DequeueCopy
  <2>1. /\ wpc = "dequeue" /\ ledgerWrite - ledgerRead < Capacity /\ read < written
    BY <1>1 DEF DequeueCopy
  <2>2. slots[Slot(read)] = read + 1
    <3>1. read \in read..written-1
      BY <2>1, <1>t
    <3> QED
      BY <3>1, <2>1 DEF RingHolds
  <2>3. ledger[Slot(ledgerWrite)] = Empty
    <3>1. ledgerWrite \in ledgerRead..ledgerRead+Capacity-1
      BY <2>1, <1>t, <1>c DEF LedgerHolds
    <3>2. ledger[Slot(ledgerWrite)] = Entry(ledgerWrite)
      BY <3>1 DEF LedgerHolds
    <3> QED
      BY <3>2, <2>1, <1>t DEF Entry, LedgerHolds
  <2> QED
    BY <2>2, <2>3, <1>1, <1>s DEF DequeueCopy, Empty
<1>2. CASE FormatFrame
  <2>1. nextFormat < ledgerWrite
    BY <1>2 DEF FormatFrame
  <2>2. ledger[Slot(nextFormat)] = [state |-> "Scalar", seq |-> nextFormat]
    <3>1. nextFormat \in ledgerRead..ledgerRead+Capacity-1
      BY <2>1, <1>t, <1>c DEF LedgerHolds
    <3>2. ledger[Slot(nextFormat)] = Entry(nextFormat)
      BY <3>1 DEF LedgerHolds
    <3> QED
      BY <3>2, <2>1, <1>t DEF Entry
  <2>3. /\ ledger[Slot(nextFormat)].state = "Scalar"
        /\ ledger[Slot(nextFormat)].seq = prepared + 1
    BY <2>1, <2>2, <1>t DEF InStep, Piped
  <2> QED
    BY <2>3, <1>2, <1>s DEF FormatFrame
<1>3. CASE Acknowledge
  BY <1>3, <1>s, AcknowledgeEffect
<1>4. CASE WorkerMarks
  BY <1>4 DEF WorkerMarks, Losing
<1>5. CASE PublishWorker
  <2>1. observed <= owner.submitted /\ worker.observed <= observed /\ worker.prepared <= prepared
    BY DEF Watermarks
  <2>2. observed <= prepared
    BY <1>t DEF Watermarks, LedgerHolds, InStep, Piped
  <2> QED
    BY <2>1, <2>2, <1>t, <1>5, <1>s DEF PublishWorker
<1>6. CASE WorkerClockFails
  BY <1>6 DEF WorkerClockFails, Latch, Blameless, Blame
<1>7. CASE UNCHANGED faults
  BY <1>7, <1>s
<1> QED
  BY <1>1, <1>2, <1>3, <1>4, <1>5, <1>6, <1>7
     DEF WorkerNext, WorkerBegins, QualifyFirst, QualifyAgain, QualifyRejects, QualifyCut,
         DequeueAdvance, DequeueEnds, FormatEnds, AcknowledgeLater, ScanLine, ScanEnds,
         ReadFails, WorkerReports, PauseWorker, PublishRaces, ClocklessStops, wire

\* Nothing but a failed scan or a failed file leads the worker to a loss.
LEMMA LosingFrom ==
  ASSUME WorkerNext, wpc \notin Losing, ~failed, ~failed', ~cut
  PROVE  wpc' \notin Losing
BY DEF Losing, WorkerNext, WorkerBegins, QualifyFirst, QualifyAgain, QualifyRejects,
       QualifyCut, DequeueCopy, DequeueAdvance, DequeueEnds, FormatFrame, FormatEnds,
       Acknowledge, AcknowledgeLater, ScanLine, ScanEnds, ReadFails, WorkerReports,
       WorkerMarks, PauseWorker, PublishWorker, PublishRaces, WorkerClockFails,
       ClocklessStops, CycleStart, AfterPublication, WorkerLoss

\* The file and the logger's buffer are one queue: the logger moves its head,
\* the owner adds to its end, and nothing is mistreated before Disturb.
InOrder ==
    /\ \A n \in 1..Len(file) : file[n] = n - 1
    /\ \A n \in 1..Len(buffer) : buffer[n] = Len(file) + n - 1

\* The logger writing one line out moves it from buffer to file.
LEMMA QueueMoves ==
  ASSUME Types, InOrder, FlushLine
  PROVE  InOrder' /\ Logged' = Logged
<1>t. /\ file \in Seq(Lines) /\ buffer \in Seq(Lines) /\ buffer # <<>>
      /\ Len(file) \in Nat /\ Len(buffer) \in Nat /\ Len(buffer) >= 1
  BY DEF Types, FlushLine
<1>1. file' = Append(file, Head(buffer)) /\ buffer' = Tail(buffer)
  BY DEF FlushLine
<1>2. /\ Len(file') = Len(file) + 1 /\ file'[Len(file) + 1] = buffer[1]
      /\ \A n \in 1..Len(file) : file'[n] = file[n]
  BY <1>1, <1>t
<1>3. /\ Len(buffer') = Len(buffer) - 1
      /\ \A n \in 1..Len(buffer) - 1 : buffer'[n] = buffer[n + 1]
  BY <1>1, <1>t
<1>4. buffer[1] = Len(file)
  BY <1>t DEF InOrder
<1>5. \A n \in 1..Len(file') : file'[n] = n - 1
  BY <1>2, <1>4, <1>t DEF InOrder
<1>6. \A n \in 1..Len(buffer') : buffer'[n] = Len(file') + n - 1
  <2> TAKE n \in 1..Len(buffer')
  <2>1. n + 1 \in 1..Len(buffer) /\ n \in 1..Len(buffer) - 1
    BY <1>3, <1>t
  <2>2. buffer'[n] = Len(file) + (n + 1) - 1
    BY <2>1, <1>3 DEF InOrder
  <2> QED
    BY <2>2, <1>2, <1>t, <2>1
<1> QED
  BY <1>2, <1>3, <1>5, <1>6, <1>t DEF InOrder, Logged

\* The owner's call adds the next frame at the end.
LEMMA QueueGrows ==
  ASSUME Types, InOrder, file' = file, buffer' = Append(buffer, Logged)
  PROVE  InOrder' /\ Logged' = Logged + 1
<1>t. /\ file \in Seq(Lines) /\ buffer \in Seq(Lines)
      /\ Len(file) \in Nat /\ Len(buffer) \in Nat
  BY DEF Types
<1>1. /\ Len(buffer') = Len(buffer) + 1 /\ buffer'[Len(buffer) + 1] = Logged
      /\ \A n \in 1..Len(buffer) : buffer'[n] = buffer[n]
  BY <1>t
<1>2. \A n \in 1..Len(buffer') : buffer'[n] = Len(file) + n - 1
  <2> TAKE n \in 1..Len(buffer')
  <2>1. CASE n = Len(buffer) + 1
    BY <2>1, <1>1, <1>t DEF Logged
  <2>2. CASE n # Len(buffer) + 1
    <3>1. n \in 1..Len(buffer)
      BY <2>2, <1>1, <1>t
    <3> QED
      BY <3>1, <1>1 DEF InOrder
  <2> QED
    BY <2>1, <2>2
<1> QED
  BY <1>1, <1>2, <1>t DEF InOrder, Logged

\* File and buffer go on holding exactly the frames handed over.
LEMMA UndisturbedKept ==
  Types /\ RingHolds /\ LedgerHolds /\ InStep /\ ReadyHolds /\ Watermarks /\ Credits
  /\ Scanned /\ disturbed \in BOOLEAN /\ Undisturbed /\ UnwindIsFinal /\ [Next]_vars
    => Undisturbed'
<1> SUFFICES ASSUME Types, RingHolds, LedgerHolds, InStep, ReadyHolds, Watermarks, Credits,
                    Scanned, disturbed \in BOOLEAN, Undisturbed, UnwindIsFinal, [Next]_vars,
                    ~disturbed'
             PROVE  Undisturbed'
  BY DEF Undisturbed
<1>0. ~disturbed
  BY OwnerFrame, WorkerFrame DEF Next, EnvNext, FlushLine, Disturb, Truncate,
                                 RevokeFromOutside, StopStatus, vars, env
<1>u. /\ InOrder /\ ~failed /\ ~cut /\ wpc \notin Losing /\ faults \cap Blame = {}
      /\ Logged <= readyRead + 1 /\ Logged <= readyWrite
      /\ IF opc = "logged" THEN Logged = readyRead + 1
         ELSE opc # "unwind" /\ "NativeUnwind" \notin faults => Logged = readyRead
  BY <1>0 DEF Undisturbed, InOrder, Blame
<1>t. /\ readyRead \in Nat /\ readyWrite \in Nat /\ Logged \in Nat
      /\ Len(file) \in Nat /\ Len(buffer) \in Nat
  BY DEF Types, ReadyHolds, LedgerHolds, Logged
<1>f. faults \subseteq faults'
  BY LatchesGrow
<1>g. /\ InOrder' /\ ~failed' /\ ~cut' /\ wpc' \notin Losing /\ Blameless
      /\ Logged' <= readyRead' + 1 /\ Logged' <= readyWrite'
      /\ IF opc' = "logged" THEN Logged' = readyRead' + 1
         ELSE opc' # "unwind" /\ "NativeUnwind" \notin faults' => Logged' = readyRead'
      => Undisturbed'
  BY <1>u DEF Undisturbed, InOrder, Blameless, Blame
<1>1. CASE OwnerNext
  <2>1. UNCHANGED <<failed, cut, wpc, file, readyWrite>> /\ Blameless
    BY <1>1, OwnerFrame, OwnerBlameless DEF Worker, scan, thread
  <2>2. CASE LogAppend
    <3>1. opc = "native" /\ opc' = "logged" /\ UNCHANGED readyRead
      BY <2>2 DEF LogAppend, OwnerGoes, queue
    <3>2. Logged = readyRead /\ readyRead < readyWrite
      BY <3>1, <1>u DEF UnwindIsFinal, ReadyHolds
    <3>3. FrontFrame.seq = readyRead
      BY <3>2, FrontIsDue
    <3>4. buffer' = Append(buffer, Logged)
      BY <3>2, <3>3, <2>2 DEF LogAppend
    <3>5. InOrder' /\ Logged' = Logged + 1
      BY <3>4, <2>1, <1>u, QueueGrows
    <3> QED
      BY <3>1, <3>2, <3>5, <2>1, <1>u, <1>g, <1>t
  <2>3. CASE ~LogAppend
    <3>0. UNCHANGED buffer
      BY <1>1, <2>3, OwnerService
    <3>1. InOrder' /\ Logged' = Logged
      BY <2>1, <3>0, <1>u DEF InOrder, Logged
    <3>2. CASE LogReturn
      <4>1. opc = "logged" /\ opc' = "service" /\ readyRead' = FrontFrame.ticket
        BY <3>2 DEF LogReturn, OwnerGoes
      <4>2. readyRead' = readyRead + 1 /\ readyRead < readyWrite
        BY <4>1, FrontIsDue DEF ReadyHolds
      <4> QED
        BY <4>1, <4>2, <3>1, <2>1, <1>u, <1>g, <1>t
    <3>3. CASE LogThrow
      <4>1. opc' = "unwind" /\ UNCHANGED readyRead
        BY <3>3 DEF LogThrow, queue
      <4> QED
        BY <4>1, <3>1, <2>1, <1>u, <1>g
    <3>4. CASE OwnerMarks
      <4>1. UNCHANGED readyRead /\ opc' # "logged" /\ opc # "logged"
        BY <3>4 DEF OwnerMarks, OwnerGoes, queue
      <4>2. opc = "unwind" => "NativeUnwind" \in faults'
        BY <3>4 DEF OwnerMarks, OwnerGoes, MaskOf, Latch
      <4> QED
        BY <4>1, <4>2, <3>1, <2>1, <1>u, <1>g, <1>f
    <3>5. CASE ~LogReturn /\ ~LogThrow /\ ~OwnerMarks
      <4>1. UNCHANGED readyRead
        BY <1>1, <3>5, OwnerService
      <4>2. opc # "logged" /\ opc' # "logged" /\ opc # "unwind"
        BY <1>1, <2>3, <3>5
           DEF OwnerNext, BeginPump, BeginManagement, QualifyFails, QualifyUnsafe,
               SubmitFrame, ServiceDone, RateLimited, RefreshPause, RefreshRun, Resume,
               ResumeRefused, ManageReserve, ManagePressure, ManageSkip, EmitRecord,
               EmitDone, RecoveryReserve, RecoveryEmit, RecoveryRelease, AnchorReserve,
               AnchorEmit, EndPump, OwnerGoes
      <4> QED
        BY <4>1, <4>2, <3>1, <2>1, <1>u, <1>g, <1>f
    <3> QED
      BY <3>2, <3>3, <3>4, <3>5
  <2> QED
    BY <2>2, <2>3
<1>2. CASE WorkerNext
  <2>1. UNCHANGED <<file, buffer, cut, opc, readyRead>> /\ Blameless
    BY <1>2, <1>u, WorkerFrame, WorkerBlameless DEF env, Owner
  <2>2. InOrder' /\ Logged' = Logged
    BY <2>1, <1>u DEF InOrder, Logged
  <2>3. readyWrite <= readyWrite'
    <3>1. CASE QualifyFirst \/ FormatFrame
      BY <3>1, <1>t DEF QualifyFirst, FormatFrame, Piped, ReadyHolds, LedgerHolds
    <3>2. CASE ~QualifyFirst /\ ~FormatFrame
      <4>1. UNCHANGED readyWrite
        BY <1>2, <3>2, WorkerKinds
           DEF DequeueCopy, DequeueAdvance, Acknowledge, ScanLine, WorkerMoves, queue
      <4> QED
        BY <4>1, <1>t
    <3> QED
      BY <3>1, <3>2
  <2>4. ~failed'
    <3>1. CASE ScanLine
      <4>1. wpc = "scan" /\ ~held /\ offset < Len(file)
        BY <3>1 DEF ScanLine, InStep
      <4>2. offset = ledgerRead /\ offset \in Nat
        BY <4>1, <1>u, Naturals DEF Scanned, LedgerHolds
      <4>3. file[offset + 1] = ledgerRead
        BY <4>1, <4>2, <1>u, <1>t DEF InOrder
      <4>4. ledgerRead < nextFormat
        BY <4>1, <4>2, <1>u, <1>t DEF ReadyHolds, Logged, LedgerHolds
      <4>5. ledger[Slot(ledgerRead)] = [state |-> "Ready", seq |-> ledgerRead]
        BY <4>1, <4>4, LedgerFront DEF LedgerHolds, Front, Entry
      <4>6. MatchesFront(file[offset + 1])
        BY <4>3, <4>4, <4>5 DEF MatchesFront, Hits, LedgerHolds
      <4> QED
        BY <4>6, <3>1, <1>u DEF ScanLine
    <3>2. CASE ~ScanLine
      BY <1>2, <1>u, <3>2, WorkerKinds
         DEF QualifyFirst, DequeueCopy, DequeueAdvance, FormatFrame, Acknowledge,
             WorkerMoves, scan
    <3> QED
      BY <3>1, <3>2
  <2>6. wpc' \notin Losing
    BY <1>2, <1>u, <2>4, LosingFrom
  <2>5. readyWrite' \in Nat /\ Logged' <= readyWrite'
    <3>1. readyWrite' \in Nat
      BY ReadyKept, LedgerKept DEF ReadyHolds, LedgerHolds
    <3> QED
      BY <3>1, <2>2, <2>3, <1>u, <1>t
  <2> QED
    BY <2>1, <2>2, <2>4, <2>5, <2>6, <1>u, <1>g, <1>f
<1>3. CASE EnvNext
  <2>1. UNCHANGED <<failed, wpc, opc, readyRead, readyWrite, cut>>
    BY <1>3, <1>0, ~disturbed', EnvFrame
       DEF EnvNext, FlushLine, Disturb, Truncate, RevokeFromOutside, StopStatus, Worker,
           scan, thread, Owner, queue, env
  <2>2. InOrder' /\ Logged' = Logged
    <3>1. CASE FlushLine
      BY <3>1, <1>u, QueueMoves
    <3>2. CASE ~FlushLine
      <4>1. UNCHANGED <<file, buffer>>
        BY <1>3, <3>2, <1>0 DEF EnvNext, Disturb, Truncate, RevokeFromOutside, StopStatus, env
      <4> QED
        BY <4>1, <1>u DEF InOrder, Logged
    <3> QED
      BY <3>1, <3>2
  <2>3. Blameless
    BY <1>3 DEF EnvNext, FlushLine, Disturb, Truncate, RevokeFromOutside, StopStatus, Latch,
                Blameless, Blame, wire
  <2> QED
    BY <2>1, <2>2, <2>3, <1>u, <1>g, <1>f
<1>4. CASE UNCHANGED vars
  <2>1. UNCHANGED <<failed, cut, wpc, opc, readyRead, readyWrite, file, buffer, faults>>
    BY <1>4 DEF vars, scan, thread, queue, wire, env
  <2> QED
    BY <2>1, <1>u, <1>g DEF InOrder, Logged, Blameless
<1> QED
  BY <1>1, <1>2, <1>3, <1>4 DEF Next
-----------------------------------------------------------------------------
(* Types.                                                                  *)

\* The owner's own words, and what it writes of the shared ones.
OwnerTypes ==
    /\ owner \in [generated : Nat, submitted : Nat, startup : BOOLEAN, reason : Reasons]
    /\ reason \in Reasons
    /\ opc \in OwnerPlaces /\ state \in States /\ startup \in BOOLEAN
    /\ served \in 0..ServiceFrames /\ submitted \in Nat /\ boundary \in 0..MaxRecords
    /\ credit \in 0..Burst /\ quota \in 0..Burst /\ anchor \in 0..2 /\ reserved \in Nat

\* The worker's.
WorkerTypes ==
    /\ worker \in [observed : Nat, prepared : Nat, startup : BOOLEAN]
    /\ ready \in [0..ReadyCapacity-1 -> [ticket : Lines, seq : 0..MaxRecords]]
    /\ ledger \in [0..Capacity-1 -> Entries]
    /\ wpc \in WorkerPlaces
    /\ startupObserved \in BOOLEAN /\ held \in BOOLEAN /\ failed \in BOOLEAN
    /\ observed \in Nat /\ offset \in Nat

\* The owner keeps its types.
LEMMA OwnerTypesKept ==
  ASSUME Types, RingHolds, LedgerHolds, ReadyHolds, Watermarks, Credits, OwnerNext
  PROVE  OwnerTypes'
<1>t. OwnerTypes /\ fatal \in Reasons
  BY DEF Types, OwnerTypes
<1>n. /\ Burst \in Nat \ {0} /\ MaxRecords \in Nat /\ ServiceFrames \in Nat
      /\ generated \in Nat /\ generated <= MaxRecords /\ DataLimit \in Nat
  BY Naturals, ConstantsAssumption
<1> USE DEF OwnerTypes, OwnerPlaces, States, OwnerGoes, login, credits, mode, wire
<1>p. Pause => state' \in States /\ boundary' \in 0..MaxRecords /\ UNCHANGED reason
  BY <1>t, <1>n DEF Pause, CounterSpent
<1>q. PauseForCredit => state' \in States /\ boundary' \in 0..MaxRecords /\ UNCHANGED reason
  BY <1>t, <1>p DEF PauseForCredit
<1>1. CASE BeginPump \/ BeginManagement \/ QualifyFails \/ QualifyUnsafe
           \/ SubmitFrame \/ ServiceDone \/ RateLimited \/ LogAppend \/ LogThrow
           \/ OwnerMarks \/ RefreshRun \/ Resume \/ ResumeRefused \/ ManageSkip \/ EmitDone
  BY <1>1, <1>t, <1>n, SMTT(30)
     DEF BeginPump, BeginManagement, QualifyFails, QualifyUnsafe, SubmitFrame,
         ServiceDone, RateLimited, LogAppend, LogThrow, OwnerMarks, RefreshRun, Resume,
         ResumeRefused, ManageSkip, EmitDone
<1>2. CASE LogReturn
  <2>1. FrontFrame.seq = readyRead /\ readyRead \in Nat /\ served < ServiceFrames
    BY <1>2, FrontIsDue DEF LogReturn, ReadyHolds, LedgerHolds
  <2>2. submitted' \in Nat /\ startup' \in BOOLEAN
    BY <2>1, <1>2, <1>t DEF LogReturn
  <2>3. served' \in 0..ServiceFrames
    BY <2>1, <1>2, <1>t, <1>n DEF LogReturn
  <2>4. /\ opc' = "service"
        /\ UNCHANGED <<owner, reason, state, boundary, credit, quota, anchor, reserved>>
    BY <1>2 DEF LogReturn
  <2> QED
    BY <2>2, <2>3, <2>4, <1>t
<1>3. CASE RefreshPause \/ ManagePressure
  BY <1>3, <1>t, <1>p, <1>q DEF RefreshPause, ManagePressure
<1>4. CASE ManageReserve \/ RecoveryReserve
  BY <1>4, <1>t, <1>n DEF ManageReserve, RecoveryReserve
<1>5. CASE EmitRecord
  <2>1. reserved >= 1
    BY <1>5, <1>t DEF EmitRecord, Credits
  <2> QED
    BY <2>1, <1>5, <1>t, <1>n DEF EmitRecord
<1>6. CASE RecoveryEmit
  <2>1. reserved >= 1
    BY <1>6, <1>t DEF RecoveryEmit, Credits
  <2> QED
    BY <2>1, <1>6, <1>t, <1>n DEF RecoveryEmit
<1>7. CASE RecoveryRelease
  <2>1. reserved - quota \in Nat
    BY <1>t, <1>n DEF Credits
  <2> QED
    BY <2>1, <1>7, <1>t, <1>n DEF RecoveryRelease
<1>8. CASE AnchorReserve
  BY <1>8, <1>t, <1>n, <1>q DEF AnchorReserve
<1>9. CASE AnchorEmit
  <2>1. anchor > 0 /\ reserved - anchor \in Nat /\ reserved - 1 \in Nat
    BY <1>9, <1>t, <1>n DEF AnchorEmit, Credits
  <2>2. written' - written \in {0, 1}
    BY <1>9, OwnerRing, <1>n, Naturals DEF KeepsRing, Appends, OwnerNext
  <2> QED
    BY <2>1, <2>2, <1>9, <1>t, <1>n DEF AnchorEmit
<1>10. CASE EndPump
  <2>1. reserved - credit \in Nat
    BY <1>t, <1>n DEF Credits
  <2> QED
    BY <2>1, <1>10, <1>t, <1>n DEF EndPump
<1> QED
  BY <1>1, <1>2, <1>3, <1>4, <1>5, <1>6, <1>7, <1>8, <1>9, <1>10 DEF OwnerNext


\* A ledger stays one when an entry's state moves on, or an entry is replaced.
LEMMA LedgerTyped ==
  ASSUME ledger \in [0..Capacity-1 -> Entries], NEW i \in Nat
  PROVE  /\ \A e \in Entries : [ledger EXCEPT ![Slot(i)] = e] \in [0..Capacity-1 -> Entries]
         /\ \A x \in {"Scalar", "Ready", "Matched"} :
               [ledger EXCEPT ![Slot(i)].state = x] \in [0..Capacity-1 -> Entries]
<1>1. Slot(i) \in 0..Capacity-1
  BY Slots
<1>2. ledger[Slot(i)] \in Entries
  BY <1>1
<1>3. \A x \in {"Scalar", "Ready", "Matched"} : [ledger[Slot(i)] EXCEPT !.state = x] \in Entries
  BY <1>2 DEF Entries
<1>4. \A e \in Entries : [ledger EXCEPT ![Slot(i)] = e] \in [0..Capacity-1 -> Entries]
  OBVIOUS
<1>5. ASSUME NEW x \in {"Scalar", "Ready", "Matched"}
      PROVE  [ledger EXCEPT ![Slot(i)].state = x] \in [0..Capacity-1 -> Entries]
  <2>1. [ledger EXCEPT ![Slot(i)] = [ledger[Slot(i)] EXCEPT !.state = x]]
          \in [0..Capacity-1 -> Entries]
    BY <1>3, <1>4
  <2>2. [ledger EXCEPT ![Slot(i)].state = x]
          = [ledger EXCEPT ![Slot(i)] = [ledger[Slot(i)] EXCEPT !.state = x]]
    OBVIOUS
  <2> QED
    BY <2>1, <2>2
<1> QED
  BY <1>4, <1>5

\* No frame is prepared that was never generated.
LEMMA FormatBound ==
  Types /\ RingHolds /\ LedgerHolds /\ InStep => ledgerWrite <= written + 1
BY Naturals DEF LedgerHolds, InStep, Piped, RingHolds

\* The worker keeps its types.
LEMMA WorkerTypesKept ==
  ASSUME Types, RingHolds, LedgerHolds, InStep, ReadyHolds, Watermarks, WorkerNext
  PROVE  WorkerTypes'
<1>t. WorkerTypes
  BY DEF Types, WorkerTypes, Entries
<1>n. /\ MaxRecords \in Nat /\ written \in Nat /\ written <= MaxRecords /\ read \in Nat
      /\ nextFormat \in Nat /\ ledgerWrite \in Nat /\ readyWrite = nextFormat
      /\ ledgerRead \in Nat /\ ledgerWrite <= written + 1
      /\ owner.generated \in Nat /\ prepared \in Nat
  BY Naturals, FormatBound DEF LedgerHolds, ReadyHolds, InStep
<1>s. /\ UNCHANGED <<worker, ready, ledger, startupObserved, held, failed, observed, offset>>
      /\ wpc' \in WorkerPlaces
      => WorkerTypes'
  BY <1>t DEF WorkerTypes
<1>l. /\ \A k \in Nat, e \in Entries :
            [ledger EXCEPT ![Slot(k)] = e] \in [0..Capacity-1 -> Entries]
      /\ \A k \in Nat, x \in {"Scalar", "Ready", "Matched"} :
            [ledger EXCEPT ![Slot(k)].state = x] \in [0..Capacity-1 -> Entries]
  BY <1>t, LedgerTyped DEF WorkerTypes
<1>r. \A k \in 0..ReadyCapacity-1, tk \in Lines, n \in 0..MaxRecords :
         [ready EXCEPT ![k] = [ticket |-> tk, seq |-> n]]
           \in [0..ReadyCapacity-1 -> [ticket : Lines, seq : 0..MaxRecords]]
  BY <1>t DEF WorkerTypes
<1>1. CASE QualifyFirst
  <2>1. /\ ledger' = [ledger EXCEPT ![Slot(0)] = [state |-> "Ready", seq |-> 0]]
        /\ ready' = [ready EXCEPT ![ReadySlot(0)] = [ticket |-> 1, seq |-> 0]]
        /\ wpc' = "publishQ" /\ UNCHANGED <<worker, scan>>
    BY <1>1, Slots, ReadySlots DEF QualifyFirst
  <2>2. [state |-> "Ready", seq |-> 0] \in Entries /\ 1 \in Lines /\ 0 \in 0..MaxRecords
    BY <1>n DEF Entries, Lines
  <2>3. /\ ledger' \in [0..Capacity-1 -> Entries]
        /\ ready' \in [0..ReadyCapacity-1 -> [ticket : Lines, seq : 0..MaxRecords]]
    BY <2>1, <2>2, <1>l, <1>r, ReadySlots
  <2> QED
    BY <2>1, <2>3, <1>t DEF WorkerTypes, WorkerPlaces, scan
<1>2. CASE DequeueCopy
  <2>1. UNCHANGED <<worker, ready, scan>> /\ wpc' \in {"advance", "publishC"}
    BY <1>2 DEF DequeueCopy, WorkerLoss, queue
  <2>2. CASE UNCHANGED ledger
    BY <2>1, <2>2, <1>s, <1>t DEF WorkerPlaces, scan
  <2>3. CASE ~UNCHANGED ledger
    <3>1. ledger' = [ledger EXCEPT ![Slot(ledgerWrite)] =
                        [state |-> "Reserved", seq |-> read + 1]]
      BY <1>2, <2>3 DEF DequeueCopy
    <3>2. read + 1 \in 0..MaxRecords
      BY <1>2, <1>n DEF DequeueCopy
    <3>3. [state |-> "Reserved", seq |-> read + 1] \in Entries
      BY <3>2 DEF Entries
    <3> QED
      BY <3>1, <3>3, <2>1, <1>l, <1>n, <1>t DEF WorkerTypes, WorkerPlaces, scan
  <2> QED
    BY <2>2, <2>3
<1>3. CASE DequeueAdvance
  <2>1. /\ UNCHANGED <<worker, ready, scan>> /\ wpc' = "dequeue"
        /\ ledger' = [ledger EXCEPT ![Slot(ledgerWrite)].state = "Scalar"]
    BY <1>3 DEF DequeueAdvance, wire, queue
  <2>2. ledger' \in [0..Capacity-1 -> Entries]
    BY <2>1, <1>l, <1>n
  <2> QED
    BY <2>1, <2>2, <1>t DEF WorkerTypes, WorkerPlaces, scan
<1>4. CASE FormatFrame
  <2>1. UNCHANGED <<worker, scan>> /\ wpc' \in {wpc, "publishC"}
    BY <1>4 DEF FormatFrame, WorkerLoss
  <2>2. CASE UNCHANGED <<ledger, ready>>
    BY <2>1, <2>2, <1>s, <1>t DEF WorkerTypes, WorkerPlaces, scan
  <2>3. CASE ~UNCHANGED <<ledger, ready>>
    <3>1. /\ ledger' = [ledger EXCEPT ![Slot(nextFormat)].state = "Ready"]
          /\ ready' = [ready EXCEPT ![ReadySlot(readyWrite)] =
                          [ticket |-> readyWrite + 1, seq |-> ledger[Slot(nextFormat)].seq]]
          /\ nextFormat < ledgerWrite
      BY <1>4, <2>3 DEF FormatFrame
    <3>2. ledger[Slot(nextFormat)].seq \in 0..MaxRecords
      BY <1>t, <1>n, Slots DEF WorkerTypes, Entries
    <3>3. readyWrite + 1 \in Lines
      BY <3>1, <1>n DEF Lines
    <3>4. ready' \in [0..ReadyCapacity-1 -> [ticket : Lines, seq : 0..MaxRecords]]
      BY <3>1, <3>2, <3>3, <1>r, <1>n, ReadySlots
    <3>5. ledger' \in [0..Capacity-1 -> Entries]
      BY <3>1, <1>l, <1>n
    <3> QED
      BY <3>4, <3>5, <2>1, <1>t DEF WorkerTypes, WorkerPlaces, scan
  <2> QED
    BY <2>2, <2>3
<1>5. CASE Acknowledge
  <2>1. observed' = ledgerRead /\ startupObserved' = TRUE /\ wpc' \in WorkerPlaces
    BY <1>5, AcknowledgeEffect DEF WorkerPlaces
  <2>2. /\ UNCHANGED <<worker, ready, failed, offset>>
        /\ held' = held \/ held' = FALSE
        /\ ledger' = ledger \/ ledger' = [ledger EXCEPT ![Slot(ledgerRead)] = Empty]
    BY <1>5 DEF Acknowledge, queue
  <2>3. Empty \in Entries
    BY <1>n DEF Empty, Entries
  <2>4. [ledger EXCEPT ![Slot(ledgerRead)] = Empty] \in [0..Capacity-1 -> Entries]
    BY <2>3, <1>l, <1>n
  <2>5. ledger' \in [0..Capacity-1 -> Entries]
    BY <2>2, <2>4, <1>t DEF WorkerTypes
  <2>6. held' \in BOOLEAN
    BY <2>2, <1>t DEF WorkerTypes
  <2> QED
    BY <2>1, <2>2, <2>5, <2>6, <1>t, <1>n DEF WorkerTypes
<1>6. CASE ScanLine
  <2>1. /\ UNCHANGED <<worker, ready, observed, startupObserved>>
        /\ wpc' \in {"ackLine", "lost"} /\ offset' = offset + 1
        /\ ledger' = ledger \/ ledger' = [ledger EXCEPT ![Slot(ledgerRead)].state = "Matched"]
        /\ held' = held \/ held' = TRUE
        /\ failed' = failed \/ failed' = TRUE
    BY <1>6 DEF ScanLine, wire, queue
  <2>2. ledger' \in [0..Capacity-1 -> Entries]
    BY <2>1, <1>l, <1>n, <1>t DEF WorkerTypes
  <2>3. held' \in BOOLEAN /\ failed' \in BOOLEAN
    BY <2>1, <1>t DEF WorkerTypes
  <2> QED
    BY <2>1, <2>2, <2>3, <1>t DEF WorkerTypes, WorkerPlaces
<1>7. CASE WorkerMoves
  <2>1. wpc' \in WorkerPlaces
    BY <1>t, WorkerNext
       DEF WorkerTypes, WorkerPlaces, WorkerNext, WorkerBegins, QualifyFirst,
           QualifyAgain, QualifyRejects, QualifyCut, DequeueCopy, DequeueAdvance,
           DequeueEnds, FormatFrame, FormatEnds, Acknowledge, AcknowledgeLater, ScanLine,
           ScanEnds, ReadFails, WorkerReports, WorkerMarks, PauseWorker, PublishWorker,
           PublishRaces, WorkerClockFails, ClocklessStops, CycleStart, AfterPublication,
           WorkerLoss
  <2>2. UNCHANGED <<ready, ledger, startupObserved, held, failed, observed, offset>>
    BY <1>7 DEF WorkerMoves, books, scan
  <2>3. worker' \in [observed : Nat, prepared : Nat, startup : BOOLEAN]
    <3>1. worker' = worker \/ worker' = WorkerRegion
      BY <1>7 DEF WorkerMoves, PublishWorker
    <3>2. WorkerRegion \in [observed : Nat, prepared : Nat, startup : BOOLEAN]
      BY <1>t, <1>n DEF WorkerRegion, WorkerTypes
    <3> QED
      BY <3>1, <3>2, <1>t DEF WorkerTypes
  <2> QED
    BY <2>1, <2>2, <2>3, <1>t DEF WorkerTypes
<1> QED
  BY <1>1, <1>2, <1>3, <1>4, <1>5, <1>6, <1>7, WorkerKinds

\* Every step keeps the types.
LEMMA TypesKept ==
  Types /\ RingHolds /\ LedgerHolds /\ InStep /\ ReadyHolds /\ Watermarks /\ Credits
  /\ [Next]_vars => Types'
<1> SUFFICES ASSUME Types, RingHolds, LedgerHolds, InStep, ReadyHolds, Watermarks, Credits,
                    [Next]_vars
             PROVE  Types'
  OBVIOUS
<1>n. /\ Capacity \in Nat /\ MaxRecords \in Nat /\ written \in Nat /\ written <= MaxRecords
      /\ readyRead \in Nat
  BY Naturals DEF ReadyHolds
<1>1. faults' \subseteq Latches /\ fatal' \in Reasons
  BY LatchesGrow, FatalIsFirst DEF Types, Reasons
<1>2. slots' \in [0..Capacity-1 -> 0..MaxRecords]
  <2>1. slots \in [0..Capacity-1 -> 0..MaxRecords]
    BY DEF Types
  <2>2. CASE Appends
    <3>1. written + 1 \in 0..MaxRecords
      BY <2>2, <1>n DEF Appends
    <3> QED
      BY <3>1, <2>1, <2>2 DEF Appends
  <2>3. CASE DequeueCopy
    BY <2>1, <2>3, <1>n DEF DequeueCopy
  <2>4. CASE ~Appends /\ ~DequeueCopy
    <3>1. UNCHANGED slots
      BY <2>4, OwnerRing, WorkerKinds, EnvFrame
         DEF Next, KeepsRing, QualifyFirst, DequeueAdvance, FormatFrame, Acknowledge,
             ScanLine, WorkerMoves, ring, vars
    <3> QED
      BY <3>1, <2>1
  <2> QED
    BY <2>2, <2>3, <2>4
<1>3. OwnerTypes'
  <2>1. CASE OwnerNext
    BY <2>1, OwnerTypesKept
  <2>2. CASE ~OwnerNext
    <3>1. UNCHANGED <<owner, Owner>>
      BY <2>2, WorkerFrame, EnvFrame DEF Next, vars, wire, Owner
    <3> QED
      BY <3>1 DEF Types, OwnerTypes, Owner, login, credits, mode
  <2> QED
    BY <2>1, <2>2
<1>4. WorkerTypes'
  <2>1. CASE WorkerNext
    BY <2>1, WorkerTypesKept
  <2>2. CASE ~WorkerNext
    <3>1. UNCHANGED <<worker, ready, Worker>>
      BY <2>2, OwnerFrame, EnvFrame DEF Next, vars, wire, queue, Worker
    <3> QED
      BY <3>1 DEF Types, WorkerTypes, Entries, Worker, books, scan, thread
  <2> QED
    BY <2>1, <2>2
<1>5. file' \in Seq(Lines) /\ buffer' \in Seq(Lines)
  <2>1. file \in Seq(Lines) /\ buffer \in Seq(Lines)
    BY DEF Types
  <2>2. CASE LogAppend
    <3>1. ready[ReadySlot(readyRead)] \in [ticket : Lines, seq : 0..MaxRecords]
      BY <1>n, ReadySlots DEF Types
    <3>2. FrontFrame.seq \in Lines
      BY <3>1, <1>n DEF FrontFrame, Lines
    <3> QED
      BY <3>2, <2>1, <2>2 DEF LogAppend
  <2>3. CASE FlushLine \/ Disturb
    <3>1. buffer # <<>>
      BY <2>3 DEF FlushLine, Disturb
    <3>2. Head(buffer) \in Lines /\ Tail(buffer) \in Seq(Lines)
      BY <3>1, <2>1
    <3>3. Garbled \in Lines
      BY <1>n DEF Lines, Garbled
    <3>4. /\ file' \in {file, Append(file, Head(buffer)), Append(file, Garbled)}
          /\ buffer' \in {buffer, Tail(buffer)}
      BY <2>3 DEF FlushLine, Disturb
    <3>5. Append(file, Head(buffer)) \in Seq(Lines) /\ Append(file, Garbled) \in Seq(Lines)
      BY <3>2, <3>3, <2>1
    <3> QED
      BY <3>2, <3>4, <3>5, <2>1
  <2>4. CASE ~LogAppend /\ ~FlushLine /\ ~Disturb
    <3>1. UNCHANGED <<file, buffer>>
      BY <2>4, OwnerFrame, OwnerService, WorkerFrame
         DEF Next, EnvNext, Truncate, RevokeFromOutside, StopStatus, env, vars
    <3> QED
      BY <3>1, <2>1
  <2> QED
    BY <2>2, <2>3, <2>4
<1> QED
  BY <1>1, <1>2, <1>3, <1>4, <1>5 DEF Types, OwnerTypes, WorkerTypes, Entries

\* The words no other part needs.
LEMMA RestKept == Rest /\ [Next]_vars => Rest'
<1> SUFFICES ASSUME Rest, [Next]_vars PROVE Rest'
  OBVIOUS
<1> USE DEF Rest
<1>r. {"None", "AwaitingLogger", "ReceiptUnavailable", "ReaderBehind", "ReceiptOverdue",
       "SameFileRequalification"} \subseteq PauseReasons
  BY DEF PauseReasons
<1>p. \A r \in PauseReasons :
         PauseFor(r) => wreason' \in PauseReasons /\ workerPause' \in PauseReasons
  BY DEF PauseFor
<1>a. AgeReasons \subseteq PauseReasons
  BY <1>r DEF AgeReasons
<1>1. CASE OwnerNext
  <2>1. UNCHANGED <<stopping, workerPause, wreason, request, qualified, lastCycle>>
    BY <1>1, OwnerFrame DEF Worker, thread
  <2>2. epoch' \in 0..MaxEpoch
    BY <1>1, ConstantsAssumption
       DEF OwnerNext, BeginPump, BeginManagement, QualifyFails, QualifyUnsafe,
           SubmitFrame, ServiceDone, RateLimited, LogAppend, LogReturn, LogThrow,
           OwnerMarks, RefreshPause, RefreshRun, Resume, ResumeRefused, ManageReserve,
           ManagePressure, ManageSkip, EmitRecord, EmitDone, RecoveryReserve,
           RecoveryEmit, RecoveryRelease, AnchorReserve, AnchorEmit, EndPump, login
  <2>3. serviced' \in {serviced, TRUE, FALSE, qualified = epoch}
    BY <1>1
       DEF OwnerNext, BeginPump, BeginManagement, QualifyFails, QualifyUnsafe,
           SubmitFrame, ServiceDone, RateLimited, LogAppend, LogReturn, LogThrow,
           OwnerMarks, RefreshPause, RefreshRun, Resume, ResumeRefused, ManageReserve,
           ManagePressure, ManageSkip, EmitRecord, EmitDone, RecoveryReserve,
           RecoveryEmit, RecoveryRelease, AnchorReserve, AnchorEmit, EndPump, login
  <2>4. serviced' \in BOOLEAN
    BY <2>3, Zenon
  <2> QED
    BY <2>1, <2>2, <2>4
<1>2. CASE WorkerNext
  <2>1. UNCHANGED <<stopping, epoch, serviced>>
    BY <1>2, WorkerFrame DEF Owner, login
  <2>2. CASE WorkerBegins
    <3>1. /\ request' \in {request, epoch} /\ qualified' \in {qualified, 0}
          /\ lastCycle' \in {TRUE, FALSE}
      BY <2>2 DEF WorkerBegins
    <3>2. wreason' \in {wreason, "SameFileRequalification", "AwaitingLogger"}
      BY <2>2 DEF WorkerBegins
    <3>3. workerPause' \in {workerPause, wreason'}
      BY <2>2 DEF WorkerBegins
    <3>4. request' \in 0..MaxEpoch /\ qualified' \in 0..MaxEpoch
      BY <3>1, ConstantsAssumption
    <3>5. wreason' \in PauseReasons /\ workerPause' \in PauseReasons
      BY <3>2, <3>3, <1>r
    <3> QED
      BY <2>1, <3>1, <3>4, <3>5
  <2>3. CASE QualifyFirst \/ QualifyAgain \/ QualifyRejects
    <3>1. /\ \E r \in PauseReasons : PauseFor(r)
          /\ UNCHANGED <<request, qualified, lastCycle>>
      BY <2>3, <1>a, <1>r DEF QualifyFirst, QualifyAgain, QualifyRejects
    <3> QED
      BY <3>1, <2>1, <1>p
  <2>4. CASE PauseWorker
    <3>1. /\ (\E r \in PauseReasons : PauseFor(r)) \/ UNCHANGED <<wreason, workerPause>>
          /\ UNCHANGED <<request, qualified, lastCycle>>
      BY <2>4, <1>a, <1>r DEF PauseWorker
    <3> QED
      BY <3>1, <2>1, <1>p
  <2>5. CASE PublishWorker \/ PublishRaces
    <3>1. qualified' \in {qualified, request} /\ UNCHANGED <<request, lastCycle, wreason>>
      BY <2>5 DEF PublishWorker, PublishRaces, AfterPublication
    <3>2. workerPause' \in {workerPause, wreason}
      BY <2>5 DEF PublishWorker, PublishRaces, wire
    <3> QED
      BY <3>1, <3>2, <2>1
  <2>6. CASE ~WorkerBegins /\ ~QualifyFirst /\ ~QualifyAgain /\ ~QualifyRejects
             /\ ~PauseWorker /\ ~PublishWorker /\ ~PublishRaces
    <3>1. UNCHANGED <<workerPause, wreason, request, qualified, lastCycle>>
      BY <1>2, <2>6
         DEF WorkerNext, QualifyCut, DequeueCopy, DequeueAdvance, DequeueEnds, FormatFrame,
             FormatEnds, Acknowledge, AcknowledgeLater, ScanLine, ScanEnds, ReadFails,
             WorkerReports, WorkerMarks, WorkerClockFails, ClocklessStops, wire
    <3> QED
      BY <3>1, <2>1
  <2> QED
    BY <2>2, <2>3, <2>4, <2>5, <2>6
<1>3. CASE EnvNext \/ UNCHANGED vars
  <2>1. UNCHANGED <<workerPause, wreason, request, qualified, lastCycle, epoch, serviced>>
    BY <1>3, EnvFrame DEF Worker, thread, Owner, login, vars, wire
  <2>2. stopping' \in {stopping, TRUE}
    BY <1>3 DEF EnvNext, FlushLine, Disturb, Truncate, RevokeFromOutside, StopStatus, wire, vars
  <2> QED
    BY <2>1, <2>2
<1> QED
  BY <1>1, <1>2, <1>3 DEF Next
-----------------------------------------------------------------------------
\* The pipeline starts with the SDK's state record in the ring and nothing else.
LEMMA InitHolds == Init => IInv
<1> SUFFICES ASSUME Init PROVE IInv
  OBVIOUS
<1>c. /\ Capacity \in Nat /\ Capacity >= 2 /\ MaxRecords \in Nat \ {0} /\ Burst \in Nat
      /\ ReadyCapacity \in Nat /\ ServiceFrames \in Nat /\ MaxEpoch \in Nat
      /\ DataLimit \in Nat /\ DataLimit >= 1
  BY ConstantsAssumption DEF DataLimit
<1>1. Types
  <2>1. slots \in [0..Capacity-1 -> 0..MaxRecords]
    BY <1>c DEF Init
  <2>2. ready \in [0..ReadyCapacity-1 -> [ticket : Lines, seq : 0..MaxRecords]]
    BY <1>c DEF Init, NoFrame, Lines
  <2>3. ledger \in [0..Capacity-1 -> Entries]
    BY <1>c DEF Init, Empty, Entries
  <2>4. /\ owner \in [generated : Nat, submitted : Nat, startup : BOOLEAN, reason : Reasons]
        /\ fatal \in Reasons /\ reason \in Reasons
        /\ worker \in [observed : Nat, prepared : Nat, startup : BOOLEAN]
    BY DEF Init, Reasons
  <2>5. file \in Seq(Lines) /\ buffer \in Seq(Lines)
    BY DEF Init
  <2>6. /\ faults = {} /\ wpc = "idle" /\ opc = "idle" /\ state = "WaitingLogger"
        /\ startup = FALSE /\ startupObserved = FALSE /\ held = FALSE /\ failed = FALSE
        /\ served = 0 /\ credit = 0 /\ quota = 0 /\ anchor = 0 /\ reserved = 0
        /\ boundary = 0 /\ submitted = 0 /\ observed = 0 /\ offset = 0
    BY DEF Init
  <2>7. /\ startup \in BOOLEAN /\ startupObserved \in BOOLEAN /\ held \in BOOLEAN
        /\ failed \in BOOLEAN
    BY <2>6, Zenon
  <2>8. /\ served \in 0..ServiceFrames /\ credit \in 0..Burst /\ quota \in 0..Burst
        /\ anchor \in 0..2 /\ reserved \in Nat /\ boundary \in 0..MaxRecords
        /\ submitted \in Nat /\ observed \in Nat /\ offset \in Nat
    BY <2>6, <1>c
  <2>9. /\ faults \subseteq Latches /\ wpc \in WorkerPlaces /\ opc \in OwnerPlaces
        /\ state \in States
    BY <2>6 DEF WorkerPlaces, OwnerPlaces, States
  <2> QED
    BY <2>1, <2>2, <2>3, <2>4, <2>5, <2>7, <2>8, <2>9
       DEF Types, Entries
<1>2. Rest
  <2>1. /\ stopping = FALSE /\ workerPause = "None" /\ wreason = "None" /\ request = 0
        /\ qualified = 0 /\ epoch = 0 /\ lastCycle = FALSE /\ serviced = FALSE
    BY DEF Init
  <2>2. stopping \in BOOLEAN /\ lastCycle \in BOOLEAN /\ serviced \in BOOLEAN
    BY <2>1, Zenon
  <2> QED
    BY <2>1, <2>2, <1>c DEF Rest, PauseReasons
<1>3. RingHolds
  BY <1>c, Slots DEF Init, RingHolds
<1>4. LedgerHolds
  <2>1. \A t \in 0..Capacity-1 : ledger[Slot(t)] = Entry(t)
    <3> TAKE t \in 0..Capacity-1
    <3>1. t \in Nat /\ Slot(t) \in 0..Capacity-1
      BY <1>c, Slots
    <3>2. ledger[Slot(t)] = Empty
      BY <3>1 DEF Init
    <3>3. Entry(t) = Empty
      BY <3>1 DEF Init, Entry
    <3> QED
      BY <3>2, <3>3
  <2>2. /\ ledgerRead = 0 /\ nextFormat = 0 /\ ledgerWrite = 0 /\ held = FALSE
        /\ wpc = "idle"
    BY DEF Init
  <2> QED
    BY <2>1, <2>2, <1>c DEF LedgerHolds
<1>5. InStep /\ ReadyHolds /\ Watermarks
  BY <1>c DEF Init, InStep, Piped, ReadyHolds, Watermarks
<1>6. Credits
  BY <1>c DEF Init, Credits, Outstanding
<1>7. Scanned /\ Undisturbed /\ UnwindIsFinal /\ disturbed \in BOOLEAN
  <2>1. /\ file = <<>> /\ buffer = <<>> /\ offset = 0 /\ ledgerRead = 0 /\ held = FALSE
        /\ failed = FALSE /\ cut = FALSE /\ wpc = "idle" /\ opc = "idle" /\ faults = {}
        /\ disturbed = FALSE /\ readyRead = 0 /\ readyWrite = 0
    BY DEF Init
  <2>2. Len(file) = 0 /\ Len(buffer) = 0
    BY <2>1
  <2>3. Logged = 0
    BY <2>2 DEF Logged
  <2>4. Scanned
    BY <2>1, <2>2 DEF Scanned
  <2>5. Undisturbed
    BY <2>1, <2>2, <2>3 DEF Undisturbed, Losing
  <2> QED
    BY <2>1, <2>4, <2>5 DEF UnwindIsFinal
<1> QED
  BY <1>1, <1>2, <1>3, <1>4, <1>5, <1>6, <1>7 DEF IInv

\* The invariant is inductive.
LEMMA NextKeeps == IInv /\ [Next]_vars => IInv'
<1> SUFFICES ASSUME IInv, [Next]_vars PROVE IInv'
  OBVIOUS
<1>1. disturbed' \in BOOLEAN
  <2>1. disturbed' \in {disturbed, TRUE}
    BY OwnerFrame, WorkerFrame
       DEF Next, EnvNext, FlushLine, Disturb, Truncate, RevokeFromOutside, StopStatus, env, vars
  <2> QED
    BY <2>1 DEF IInv
<1> QED
  BY <1>1, TypesKept, RestKept, RingKept, LedgerKept, InStepKept, ReadyKept, MarksKept,
     CreditsKept, ScannedKept, UndisturbedKept, UnwindKept DEF IInv

\* The three windows, the watermarks, the credit and the file stay in step for
\* ever, whatever the two threads interleave and the logger does (EnqueueReport,
\* PrepareNativeFrames, ServiceNativeLog, MatchNativeReceipt and
\* AcknowledgeNativeReceipt, each working on indices another one moves).
THEOREM Invariant == Spec => []IInv
BY InitHolds, NextKeeps, PTL DEF Spec

\* The bounds of the type invariant follow from the watermarks.
LEMMA TypesFollow == IInv => TypeOK
<1> SUFFICES ASSUME IInv PROVE TypeOK
  OBVIOUS
<1> USE DEF IInv
<1>n. /\ MaxRecords \in Nat /\ written \in Nat /\ written <= MaxRecords /\ read \in Nat
      /\ generated = written /\ Capacity \in Nat /\ DataLimit + 1 <= Capacity
      /\ submitted \in Nat /\ observed \in Nat /\ offset \in Nat /\ reserved \in Nat
      /\ owner.generated \in Nat /\ owner.submitted \in Nat
      /\ worker.observed \in Nat /\ worker.prepared \in Nat /\ DataLimit \in Nat
      /\ ledgerRead \in Nat /\ nextFormat \in Nat /\ ledgerWrite \in Nat
      /\ readyRead \in Nat /\ readyWrite \in Nat /\ prepared \in Nat
      /\ ledgerWrite <= written + 1
  BY Naturals, FormatBound DEF LedgerHolds, ReadyHolds, InStep
<1>1. /\ read \in 0..MaxRecords /\ written \in 0..MaxRecords /\ generated \in 0..MaxRecords
  BY <1>n DEF RingHolds
<1>2. /\ readyWrite \in 0..MaxRecords+1 /\ readyRead \in 0..MaxRecords+1
      /\ ledgerRead \in 0..MaxRecords+1 /\ ledgerWrite \in 0..MaxRecords+1
      /\ nextFormat \in 0..MaxRecords+1
  BY <1>n DEF LedgerHolds, ReadyHolds
<1>3. prepared \in 0..MaxRecords /\ submitted \in 0..MaxRecords /\ observed \in 0..MaxRecords
  <2>1. prepared \in 0..MaxRecords
    BY <1>n, <1>2 DEF InStep, Piped
  <2>2. submitted \in 0..MaxRecords
    BY <1>n, <1>2 DEF Watermarks
  <2>3. observed \in 0..MaxRecords
    BY <1>n, <1>2 DEF Watermarks
  <2> QED
    BY <2>1, <2>2, <2>3
<1>4. owner \in [generated : 0..MaxRecords, submitted : 0..MaxRecords, startup : BOOLEAN,
                  reason : Reasons]
  <2>1. owner.generated \in 0..MaxRecords /\ owner.submitted \in 0..MaxRecords
    BY <1>n, <1>1, <1>3 DEF Watermarks
  <2>2. /\ owner = [generated |-> owner.generated, submitted |-> owner.submitted,
                   startup |-> owner.startup, reason |-> owner.reason]
        /\ owner.startup \in BOOLEAN /\ owner.reason \in Reasons
    BY DEF Types
  <2> QED
    BY <2>1, <2>2
<1>5. worker \in [observed : 0..MaxRecords, prepared : 0..MaxRecords, startup : BOOLEAN]
  <2>1. worker.observed \in 0..MaxRecords /\ worker.prepared \in 0..MaxRecords
    BY <1>n, <1>3 DEF Watermarks
  <2>2. /\ worker = [observed |-> worker.observed, prepared |-> worker.prepared,
                    startup |-> worker.startup]
        /\ worker.startup \in BOOLEAN
    BY DEF Types
  <2> QED
    BY <2>1, <2>2
<1>6. offset \in 0..Len(file)
  <2>1. Len(file) \in Nat
    BY DEF Types
  <2> QED
    BY <2>1, <1>n DEF Scanned
<1>7. reserved \in 0..Capacity
  BY <1>n DEF Credits, Outstanding, Watermarks
<1> QED
  BY <1>1, <1>2, <1>3, <1>4, <1>5, <1>6, <1>7
     DEF TypeOK, Types, Rest, Latches, Reasons, WorkerPlaces, OwnerPlaces, States, Lines

\* The receipt and the wire are true together, and the types hold: a record that
\* AcknowledgeNativeReceipt counted is in the file, in its place, and its native
\* call returned, even when the logger dropped, doubled or garbled lines; and what
\* PublishOwnerV3 and PublishWorkerV3 show never runs ahead of what happened.
THEOREM WireTruth == Spec => []WireIsTrue
<1>1. IInv => ObservedIsInFile
  <2> SUFFICES ASSUME IInv, startupObserved
               PROVE  /\ startup /\ observed <= submitted
                      /\ observed + 1 <= Len(file)
                      /\ \A n \in 0..observed : file[n + 1] = n
    BY DEF ObservedIsInFile
  <2> USE DEF IInv
  <2>1. observed \in Nat /\ ledgerRead = observed + 1 /\ Len(file) \in Nat /\ submitted \in Nat
        /\ owner.submitted \in Nat
    BY Naturals DEF Watermarks, Types
  <2>2. startup /\ observed <= submitted
    BY <2>1 DEF Watermarks
  <2>3. observed + 1 <= Len(file)
    <3>1. offset >= ledgerRead /\ offset <= Len(file) /\ offset \in Nat
      <4>1. held \in BOOLEAN /\ failed \in BOOLEAN /\ offset \in Nat
        BY DEF Types
      <4> QED
        BY <4>1, <2>1 DEF Scanned
    <3> QED
      BY <3>1, <2>1
  <2>4. \A n \in 0..observed : file[n + 1] = n
    <3> TAKE n \in 0..observed
    <3>1. n + 1 \in 1..ledgerRead + (IF held THEN 1 ELSE 0)
      BY <2>1 DEF Types
    <3>2. file[n + 1] = (n + 1) - 1
      BY <3>1 DEF Scanned
    <3> QED
      BY <3>2
  <2> QED
    BY <2>2, <2>3, <2>4
<1>2. IInv => PublishedInOrder
  BY Naturals DEF IInv, Watermarks, PublishedInOrder
<1>3. IInv => WireIsTrue
  BY <1>1, <1>2, TypesFollow DEF WireIsTrue
<1> QED
  BY <1>3, Invariant, PTL

\* What ReserveCapture has given out is exactly what pump, recovery and anchor
\* hold, and with the records in flight it never exceeds the ring.
THEOREM CreditIsConserved == Spec => []CreditConserved
<1>1. IInv => CreditConserved
  BY Naturals DEF IInv, Credits, Outstanding, CreditConserved
<1> QED
  BY <1>1, Invariant, PTL

\* The frame the logger reads stays the frame NativeTransportFrame checked until
\* ReleaseNativeFrame, for every number of ready slots.
THEOREM FrameIsHeld == Spec => []FrameHeldDuringCall
<1>1. IInv => FrameHeldDuringCall
  <2> SUFFICES ASSUME IInv, opc \in {"native", "logged"}
               PROVE  /\ FrontFrame.ticket = readyRead + 1
                      /\ FrontFrame.seq = (IF startup THEN submitted + 1 ELSE 0)
    BY DEF FrameHeldDuringCall
  <2>1. FrontFrame = [ticket |-> readyRead + 1, seq |-> readyRead]
    BY FrontIsDue DEF IInv, ReadyHolds
  <2> QED
    BY <2>1 DEF IInv, Watermarks
<1> QED
  BY <1>1, Invariant, PTL

\* No interleaving of owner and worker reaches a LoseStatus of the pipeline or of
\* its publications: such a latch means that a line was mistreated.
THEOREM BlamesNobody == Spec => []NoSelfInflictedLoss
<1>1. IInv => NoSelfInflictedLoss
  BY DEF IInv, Undisturbed, NoSelfInflictedLoss
<1> QED
  BY <1>1, Invariant, PTL

\* A transport that RefreshRuntimeTransport lets run again has every record so
\* far, the one that announced the pause included, observed in the file.
THEOREM ResumesDrained == Spec => ResumeIsDrained
<1>1. IInv /\ [Next]_vars =>
        [state = "Paused" /\ state' = "Running" => observed = written /\ boundary <= observed]_vars
  <2> SUFFICES ASSUME IInv, [Next]_vars, state = "Paused", state' = "Running"
               PROVE  observed = written /\ boundary <= observed
    BY DEF vars
  <2>1. Resume
    <3>1. OwnerNext
      BY WorkerFrame, EnvFrame DEF Next, Owner, mode, vars
    <3> QED
      BY <3>1
         DEF OwnerNext, BeginPump, BeginManagement, QualifyFails, QualifyUnsafe,
             SubmitFrame, ServiceDone, RateLimited, LogAppend, LogReturn, LogThrow,
             OwnerMarks, RefreshPause, RefreshRun, Pause, PauseForCredit, ResumeRefused,
             ManageReserve, ManagePressure, ManageSkip, EmitRecord, EmitDone, RecoveryReserve,
             RecoveryEmit, RecoveryRelease, AnchorReserve, AnchorEmit, EndPump, mode
  <2>2. worker.observed >= generated /\ worker.observed >= boundary
    BY <2>1 DEF Resume, OwnerGoes, IInv, Credits
  <2>3. worker.observed <= observed /\ observed <= read /\ read <= written
    BY ReadAhead DEF IInv, RingHolds
  <2> QED
    BY <2>2, <2>3, Naturals DEF IInv
<1> QED
  BY <1>1, Invariant, PTL DEF Spec, ResumeIsDrained

\* A mask that is set, or that its thread is about to set, stays.
LEMMA MarksStay == [Next]_vars => faults \cup Marking \subseteq faults' \cup Marking'
<1> SUFFICES ASSUME [Next]_vars PROVE faults \cup Marking \subseteq faults' \cup Marking'
  OBVIOUS
<1>1. faults \subseteq faults'
  BY LatchesGrow
<1>2. CASE UNCHANGED <<opc, wpc>>
  BY <1>1, <1>2 DEF Marking
<1>3. CASE OwnerMarks
  <2>1. UNCHANGED wpc
    BY <1>3 DEF OwnerMarks, Worker, thread
  <2> QED
    BY <1>1, <1>3, <2>1 DEF OwnerMarks, OwnerGoes, MaskOf, Latch, Marking
<1>4. CASE WorkerMarks
  <2>1. UNCHANGED opc
    BY <1>4 DEF WorkerMarks, Owner
  <2> QED
    BY <1>1, <1>4, <2>1 DEF WorkerMarks, MaskOf, Latch, Marking
<1>5. CASE OwnerNext /\ ~OwnerMarks
  <2>1. UNCHANGED wpc
    BY <1>5, OwnerFrame DEF Worker, thread
  <2>2. opc \notin {"unwind", "unsafe"}
    BY <1>5
       DEF OwnerNext, BeginPump, BeginManagement, QualifyFails, QualifyUnsafe,
           SubmitFrame, ServiceDone, RateLimited, LogAppend, LogReturn, LogThrow,
           RefreshPause, RefreshRun, Resume, ResumeRefused, ManageReserve, ManagePressure,
           ManageSkip, EmitRecord, EmitDone, RecoveryReserve, RecoveryEmit,
           RecoveryRelease, AnchorReserve, AnchorEmit, EndPump, OwnerGoes
  <2> QED
    BY <1>1, <2>1, <2>2 DEF Marking
<1>6. CASE WorkerNext /\ ~WorkerMarks
  <2>1. UNCHANGED opc
    BY <1>6, WorkerFrame DEF Owner
  <2>2. wpc \notin {"marking", "markingQ"}
    BY <1>6
       DEF WorkerNext, WorkerBegins, QualifyFirst, QualifyAgain, QualifyRejects, QualifyCut,
           DequeueCopy, DequeueAdvance, DequeueEnds, FormatFrame, FormatEnds, Acknowledge,
           AcknowledgeLater, ScanLine, ScanEnds, ReadFails, WorkerReports, PauseWorker,
           PublishWorker, PublishRaces, WorkerClockFails, ClocklessStops
  <2> QED
    BY <1>1, <2>1, <2>2 DEF Marking
<1>7. CASE EnvNext \/ UNCHANGED vars
  <2>1. UNCHANGED <<opc, wpc>>
    BY <1>7, EnvFrame DEF Worker, thread, Owner, vars
  <2> QED
    BY <2>1, <1>2
<1> QED
  BY <1>3, <1>4, <1>5, <1>6, <1>7 DEF Next

\* What is known of the reports is kept by every step of either thread.
LEMMA ReportsStay == ReportsKept /\ [Next]_vars => ReportsKept'
<1> SUFFICES ASSUME ReportsKept, [Next]_vars PROVE ReportsKept'
  OBVIOUS
<1>1. {reason', owner'.reason} \subseteq {"None", fatal'}
  <2>1. CASE EndPump
    <3>1. /\ UNCHANGED fatal /\ reason' \in {reason, fatal}
          /\ owner'.reason \in {owner.reason, reason'}
      BY <2>1 DEF EndPump
    <3> QED
      BY <3>1 DEF ReportsKept
  <2>2. CASE ~EndPump
    <3>1. UNCHANGED owner
      BY <2>2, OwnerService, WorkerFrame, EnvFrame DEF Next, vars, wire
    <3>2. UNCHANGED reason
      <4>1. CASE OwnerNext
        BY <4>1, <2>2
           DEF OwnerNext, BeginPump, BeginManagement, QualifyFails, QualifyUnsafe,
               SubmitFrame, ServiceDone, RateLimited, LogAppend, LogReturn, LogThrow,
               OwnerMarks, RefreshPause, RefreshRun, Resume, ResumeRefused, ManageReserve,
               ManagePressure, PauseForCredit, Pause, ManageSkip, EmitRecord, EmitDone,
               RecoveryReserve, RecoveryEmit, RecoveryRelease, AnchorReserve, AnchorEmit,
               mode
      <4>2. CASE ~OwnerNext
        BY <4>2, WorkerFrame, EnvFrame DEF Next, Owner, mode, vars
      <4> QED
        BY <4>1, <4>2
    <3>3. fatal' = fatal \/ fatal = "None"
      BY FatalIsFirst
    <3> QED
      BY <3>1, <3>2, <3>3 DEF ReportsKept
  <2> QED
    BY <2>1, <2>2
<1>2. fatal' # "None" => MaskOf(fatal') \in faults' \cup Marking'
  <2>1. CASE fatal' = fatal
    <3>1. MaskOf(fatal') = MaskOf(fatal)
      BY <2>1
    <3> QED
      BY <2>1, <3>1, MarksStay DEF ReportsKept
  <2>2. CASE fatal' # fatal
    BY <2>2, FatalIsFirst
  <2> QED
    BY <2>1, <2>2
<1>3. failed' => \/ "RecordLoss" \in faults' \cup Marking'
                 \/ wpc' = "lost" \/ "ClockFailed" \in faults'
  <2>1. faults \subseteq faults' /\ faults \cup Marking \subseteq faults' \cup Marking'
    BY LatchesGrow, MarksStay
  <2>2. CASE ScanLine
    BY <2>1, <2>2 DEF ScanLine, ReportsKept
  <2>3. CASE WorkerReports
    BY <2>3 DEF WorkerReports, Marking
  <2>4. CASE WorkerClockFails
    BY <2>4 DEF WorkerClockFails, Latch
  <2>5. CASE WorkerNext /\ ~ScanLine /\ ~WorkerReports /\ ~WorkerClockFails
    <3>1. UNCHANGED failed /\ wpc # "lost"
      BY <2>5
         DEF WorkerNext, WorkerBegins, QualifyFirst, QualifyAgain, QualifyRejects,
             QualifyCut, DequeueCopy, DequeueAdvance, DequeueEnds, FormatFrame,
             FormatEnds, Acknowledge, AcknowledgeLater, ScanEnds, ReadFails, WorkerMarks,
             PauseWorker, PublishWorker, PublishRaces, ClocklessStops, scan
    <3> QED
      BY <3>1, <2>1 DEF ReportsKept
  <2>6. CASE ~WorkerNext
    <3>1. UNCHANGED <<failed, wpc>>
      BY <2>6, OwnerFrame, EnvFrame DEF Next, Worker, scan, thread, vars
    <3> QED
      BY <3>1, <2>1 DEF ReportsKept
  <2> QED
    BY <2>2, <2>3, <2>4, <2>5, <2>6
<1> QED
  BY <1>1, <1>2, <1>3 DEF ReportsKept

\* The first fatal reason is the one that stands, whatever the other thread reports
\* later and whenever the process stops; what the owner has told the readers is that
\* one; and no report, the late one included, loses its mask (LatchTransportFault's
\* two steps on two threads, PublishRuntimeStatus, NativeReceiptWorker::Pause).
THEOREM FirstReasonKept == Spec => FirstReasonStands
<1>1. Init => ReportsKept
  BY DEF Init, ReportsKept
<1>2. [Next]_vars => [fatal # "None" => fatal' = fatal]_vars
  BY FatalIsFirst
<1> QED
  BY <1>1, <1>2, ReportsStay, PTL DEF Spec, FirstReasonStands
=============================================================================
