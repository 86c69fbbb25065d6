------------------------------ MODULE EventLog ------------------------------
(***************************************************************************)
(* The observer's event log: wrappers on any thread of the host publish    *)
(* events into a bounded queue they never wait for, and one writer thread  *)
(* takes them in batches, appends them to a file of limited size and ends  *)
(* it with a footer when something fails.  The startup thread prepares the *)
(* writer, installs the wrappers, and then arms the writer or stops it.    *)
(*                                                                         *)
(* The queue's lock is a variable; what happens between an acquisition and *)
(* the release is one step.  A line has a length and a place in the file;  *)
(* its text is left out.  A write may fail or fall short after any number  *)
(* of bytes, and a call whose clock says so comes due at any time.  This   *)
(* is the log of the observer: a Writer with no reportStatus.              *)
(***************************************************************************)
EXTENDS Integers, Sequences, FiniteSets

CONSTANTS
    Producers,       \* threads of the host that publish events
    QueueCapacity,   \* kQueueCapacity
    BatchCount,      \* kBatchCount (256)
    Batches,         \* batches of one pump (4)
    Limit,           \* Writer.limit, in bytes
    FooterReserve,   \* kFooterReserve = kAnchorBytes
    EventBytes,      \* kEventBytes
    MaxEvents        \* bound on the events the host offers

\* Prepare refuses a limit without room for the first lines and the footer.
ASSUME LogAssumption ==
    /\ IsFiniteSet(Producers) /\ {"free", "writer"} \cap Producers = {}
    /\ {QueueCapacity, BatchCount, Batches, Limit, FooterReserve, EventBytes, MaxEvents}
         \subseteq Nat \ {0}
    /\ Limit >= 2 * FooterReserve

VARIABLES
    installed,             \* StartObserver: qualified, pending, armed its gate, or declined
    status, armed, stop,   \* words of the Writer
    lock,                  \* the holder of queueLock
    queue, sequence,       \* queue[head..head+count), nextQueueSequence
    count,                 \* eventsWritten, abandoned, droppedContention, droppedFull
    wpc, batch, taken,     \* the writer thread: place, batch in hand, batches of this pump
    started, footerWritten, closed,
    noticed,               \* noticedBound, noticedCalls and the notices of a single place
    partialTail, file, bytesWritten,   \* the lines of the file, and its length as counted
    ppc,                   \* each producer's place in Publish
    offered                \* history: events offered so far

signals   == <<installed, armed, stop>>
ring      == <<lock, queue, sequence>>
hand      == <<batch, taken>>
lifetime      == <<started, footerWritten, closed, noticed>>
output    == <<partialTail, file, bytesWritten>>
producers == <<ppc, offered>>
logVars == <<status, signals, ring, count, wpc, hand, lifetime, output, producers>>

\* StartObserver qualified the profile and has a dispatch state: no writer yet,
\* and no wrapper is called.
LogInit ==
    /\ installed = "qualified" /\ wpc = "none"
    /\ status = "Prepared" /\ armed = FALSE /\ stop = FALSE
    /\ lock = "free" /\ queue = <<>> /\ sequence = 0
    /\ count = [written |-> 0, abandoned |-> 0, contention |-> 0, full |-> 0]
    /\ batch = <<>> /\ taken = 0
    /\ started = FALSE /\ footerWritten = FALSE /\ closed = FALSE /\ noticed = {}
    /\ partialTail = FALSE /\ file = <<>> /\ bytesWritten = 0
    /\ ppc = [p \in Producers |-> "out"] /\ offered = 0

Open == status \in {"Prepared", "Recording"}
Counts(what, n) == count' = [count EXCEPT ![what] = @ + n]
-----------------------------------------------------------------------------
(* Publish, on a thread of the host.                                       *)

Steps(p, from, to) == ppc[p] = from /\ ppc' = [ppc EXCEPT ![p] = to]

\* A wrapper tells events only once the gate is Armed.  The first look at the
\* status is without the lock.
PublishEvent(p) ==
    /\ installed = "armed" /\ offered < MaxEvents /\ offered' = offered + 1
    /\ \/ Open /\ Steps(p, "out", "try") /\ UNCHANGED count
       \/ ~Open /\ ppc[p] = "out" /\ Counts("abandoned", 1) /\ UNCHANGED ppc
    /\ UNCHANGED <<status, signals, ring, wpc, hand, lifetime, output>>

TryQueueLock(p) ==
    /\ \/ lock = "free" /\ lock' = p /\ Steps(p, "try", "locked") /\ UNCHANGED count
       \/ lock # "free" /\ Steps(p, "try", "out") /\ Counts("contention", 1) /\ UNCHANGED lock
    /\ UNCHANGED <<status, signals, queue, sequence, wpc, hand, lifetime, output, offered>>

\* The second look, under the lock, which the writer does not take to end the log.
StillOpen == Open
LookAgain(p) ==
    /\ lock = p
    /\ \/ StillOpen /\ Steps(p, "locked", "room") /\ UNCHANGED <<lock, count>>
       \/ ~StillOpen /\ Steps(p, "locked", "out") /\ lock' = "free" /\ Counts("abandoned", 1)
    /\ UNCHANGED <<status, signals, queue, sequence, wpc, hand, lifetime, output, offered>>

Enqueue(p) ==
    /\ Steps(p, "room", "out") /\ lock = p /\ lock' = "free"
    /\ \/ Len(queue) = QueueCapacity /\ Counts("full", 1) /\ UNCHANGED <<queue, sequence>>
       \/ /\ Len(queue) < QueueCapacity /\ sequence' = sequence + 1
          /\ queue' = Append(queue, sequence') /\ UNCHANGED count
    /\ UNCHANGED <<status, signals, wpc, hand, lifetime, output, offered>>
-----------------------------------------------------------------------------
(* Records of the file.                                                    *)

FailLog(s) == status' = IF Open THEN s ELSE status
Entry(kind, seq) == [kind |-> kind, seq |-> seq]

LogRoom(footer) == Limit - (IF footer THEN 0 ELSE FooterReserve)
Fits(n, footer) == n <= LogRoom(footer) /\ bytesWritten <= LogRoom(footer) - n

\* WriteRecord where it appends the whole line, where it finds no room, and
\* where the write fails: w bytes of the line went out, or more than there are.
Writes(kind, seq, n, footer) ==
    /\ Fits(n, footer) /\ bytesWritten' = bytesWritten + n
    /\ file' = Append(file, Entry(kind, seq))
    /\ UNCHANGED <<status, partialTail>>
NoRoom(n, footer) ==
    /\ ~Fits(n, footer)
    /\ IF footer THEN UNCHANGED status ELSE FailLog("Truncated")
    /\ UNCHANGED output

TailIsPartial(w, n) == w # 0 /\ w # n
WriteFails(kind, seq, n, footer) ==
    /\ Fits(n, footer) /\ FailLog("Failed")
    /\ \/ \E w \in 0..n :
             /\ partialTail' = TailIsPartial(w, n)
             /\ bytesWritten' = bytesWritten + w
             /\ file' = IF w = 0 THEN file
                        ELSE Append(file, Entry(IF w = n THEN kind ELSE "partial", seq))
       \/ /\ partialTail' = TRUE /\ UNCHANGED bytesWritten
          /\ file' = Append(file, Entry("partial", seq))

\* The line could not be formatted (its buffer, or the token of an event).
Unformatted == FailLog("Failed") /\ UNCHANGED output

Loses(kind, seq, n, footer) ==
    Unformatted \/ NoRoom(n, footer) \/ WriteFails(kind, seq, n, footer)
-----------------------------------------------------------------------------
(* WriterThread and Pump.                                                  *)

WriterGoes(from, to) == wpc = from /\ wpc' = to
Notice(which) == noticed' = noticed \cup which

WakeStopped ==
    /\ stop /\ WriterGoes("idle", "abandon") /\ status' = "Stopped"
    /\ UNCHANGED <<signals, ring, count, hand, lifetime, output, producers>>

BeginPump ==
    /\ ~stop /\ armed /\ WriterGoes("idle", IF started THEN "batches" ELSE "startup")
    /\ taken' = 0 /\ started' = TRUE
    /\ status' = IF started THEN status ELSE "Recording"
    /\ UNCHANGED <<signals, ring, count, batch, footerWritten, closed, noticed, output, producers>>

\* The startup line, whose length is not bounded by that of an anchor.
WriteStartup ==
    /\ \E n \in 1..Limit :
          \/ WriterGoes("startup", "batches") /\ Writes("mark", 0, n, FALSE) /\ Notice({"armed"})
          \/ WriterGoes("startup", "abandon") /\ Loses("mark", 0, n, FALSE) /\ Notice({})
    /\ UNCHANGED <<signals, ring, count, hand, started, footerWritten, closed, producers>>

\* TakeBatch, for a pump and for AbandonQueue, which goes on until it is empty.
LockQueue(from, to) ==
    /\ WriterGoes(from, to) /\ lock = "free" /\ lock' = "writer"
    /\ UNCHANGED <<status, signals, queue, sequence, count, hand, lifetime, output, producers>>
Batch == IF Len(queue) < BatchCount THEN Len(queue) ELSE BatchCount
TakeBatch ==
    /\ queue' = SubSeq(queue, Batch + 1, Len(queue))
    /\ lock = "writer" /\ lock' = "free"
    /\ UNCHANGED <<status, signals, sequence, lifetime, output, producers>>

AcquireBatch == taken < Batches /\ status = "Recording" /\ LockQueue("batches", "take")
TakeForPump ==
    /\ WriterGoes("take", IF Batch = 0 THEN "after" ELSE "format") /\ TakeBatch
    /\ batch' = SubSeq(queue, 1, Batch) /\ taken' = taken + 1
    /\ UNCHANGED count

FormatEvent ==
    /\ wpc = "format" /\ batch # <<>>
    /\ \E n \in 1..EventBytes : Writes("event", Head(batch), n, FALSE)
    /\ batch' = Tail(batch) /\ Counts("written", 1)
    /\ wpc' = IF batch' = <<>> THEN "batches" ELSE "format"
    /\ UNCHANGED <<signals, ring, taken, lifetime, producers>>

\* What is left of the batch, the event that failed included, is given up.
RestButOne == Len(batch) - 1                                     \* mutant
Rest == Len(batch)
FormatFails ==
    /\ WriterGoes("format", "batches") /\ batch # <<>>
    /\ \E n \in 1..EventBytes : Loses("event", Head(batch), n, FALSE)
    /\ Counts("abandoned", Rest) /\ batch' = <<>>
    /\ UNCHANGED <<signals, ring, taken, lifetime, producers>>

EndBatches ==
    /\ (taken = Batches \/ status # "Recording") /\ WriterGoes("batches", "after")
    /\ UNCHANGED <<status, signals, ring, count, hand, lifetime, output, producers>>

\* The end of a pump tells, once each, of a first binding and of a first call.
EndPump == wpc' = "idle" /\ \E which \in SUBSET {"bound", "calls"} : Notice(which)

\* Anchor and flush come due together: lastAnchor and lastFlush start as one and
\* are set to the same clock reading.
AfterBatches ==
    /\ wpc = "after"
    /\ \/ status # "Recording" /\ wpc' = "abandon" /\ UNCHANGED noticed
       \/ status = "Recording" /\ wpc' = "anchor" /\ UNCHANGED noticed
       \/ status = "Recording" /\ EndPump
    /\ UNCHANGED <<status, signals, ring, count, hand, started, footerWritten, closed, output,
                   producers>>
WriteAnchor ==
    /\ \E n \in 1..FooterReserve :
          \/ WriterGoes("anchor", "flush") /\ Writes("mark", 0, n, FALSE)
          \/ WriterGoes("anchor", "abandon") /\ Loses("mark", 0, n, FALSE)
    /\ UNCHANGED <<signals, ring, count, hand, lifetime, producers>>
Flush ==
    /\ wpc = "flush"
    /\ \/ EndPump /\ UNCHANGED status
       \/ wpc' = "abandon" /\ FailLog("Failed") /\ UNCHANGED noticed
    /\ UNCHANGED <<signals, ring, count, hand, started, footerWritten, closed, output, producers>>

(* AbandonQueue, Terminal and CloseResources.                              *)

AcquireAbandon == LockQueue("abandon", "abandoning")
\* A stopped writer closes without the rest of Terminal.
TakeToAbandon ==
    /\ TakeBatch /\ Counts("abandoned", Batch)
    /\ WriterGoes("abandoning", IF Batch > 0 THEN "abandon"
                          ELSE IF status = "Stopped" THEN "close" ELSE "footer")
    /\ UNCHANGED hand

\* The footer fits into what no other line may use.
FooterDue == ~footerWritten /\ ~partialTail /\ started
WriteFooter ==
    /\ WriterGoes("footer", "close") /\ Notice({"terminal"})
    /\ \/ /\ FooterDue /\ footerWritten' = TRUE
          /\ \E n \in 1..FooterReserve :
                Writes("footer", 0, n, TRUE) \/ Loses("footer", 0, n, TRUE)
       \/ ~FooterDue /\ UNCHANGED <<footerWritten, status, output>>
    /\ UNCHANGED <<signals, ring, count, hand, started, closed, producers>>
CloseResources ==
    /\ WriterGoes("close", "ended") /\ closed' = TRUE
    /\ UNCHANGED <<status, signals, ring, count, hand, started, footerWritten, noticed, output,
                   producers>>
-----------------------------------------------------------------------------
(* StartObserver, from the preparation of the writer.                      *)

\* PrepareWriter: directories, keys, the file, the writer thread.  Where any of
\* them fails the resources are closed, and the observer starts without wrappers.
PrepareWriter ==
    /\ installed = "qualified"
    /\ \/ installed' = "pending" /\ WriterGoes("none", "idle") /\ UNCHANGED lifetime
       \/ /\ installed' = "absent" /\ closed' = TRUE
          /\ UNCHANGED <<wpc, started, footerWritten, noticed>>
    /\ UNCHANGED <<status, armed, stop, ring, count, hand, output, producers>>

Installs == UNCHANGED <<status, ring, count, wpc, hand, lifetime, output, producers>>

\* PublishDispatch and InstallObserver: the last instruction of one that succeeds
\* arms the gate, and one that does not leaves no wrapper behind.
InstallObserver ==
    /\ installed = "pending" /\ installed' \in {"armed", "declined"}
    /\ Installs /\ UNCHANGED <<armed, stop>>
ArmWriter ==
    /\ installed = "armed" /\ ~armed /\ armed' = TRUE
    /\ Installs /\ UNCHANGED <<installed, stop>>
StopUnarmedWriter ==
    /\ installed = "declined" /\ ~armed /\ ~stop /\ stop' = TRUE
    /\ Installs /\ UNCHANGED <<installed, armed>>

Publish(p) == PublishEvent(p) \/ TryQueueLock(p) \/ LookAgain(p) \/ Enqueue(p)
Pump ==
    \/ BeginPump \/ WriteStartup \/ AcquireBatch \/ TakeForPump \/ FormatEvent \/ FormatFails
    \/ EndBatches \/ AfterBatches \/ WriteAnchor \/ Flush
Terminal == AcquireAbandon \/ TakeToAbandon \/ WriteFooter \/ CloseResources
LogNext ==
    \/ \E p \in Producers : Publish(p)
    \/ WakeStopped \/ Pump \/ Terminal
    \/ PrepareWriter \/ InstallObserver \/ ArmWriter \/ StopUnarmedWriter

LogSpec == LogInit /\ [][LogNext]_logVars
-----------------------------------------------------------------------------
(* Properties.                                                             *)

\* Every event a wrapper offered is written, counted under the one reason it
\* was lost for, or still on its way: Publish's three counters and Pump's
\* "count - complete" between them forget none and count none twice.
NoneForgotten ==
    offered = count.written + count.abandoned + count.contention + count.full
              + Len(queue) + Len(batch) + Cardinality({p \in Producers : ppc[p] # "out"})

\* WriteRecord's promise to whoever reads the file back: its events are the
\* first k that were queued, in order and without a gap; the counter is exact,
\* except that a write reported as failed may have been complete; what is cut
\* short, and the footer, are the end of it ("Never retry a partial append or
\* append a footer onto its unfinished JSON line"); the limit is kept.
IsEvent(i) == file[i].kind = "event"
InFile == {file[i].seq : i \in {j \in DOMAIN file : IsEvent(j)}}
WholePrefix ==
    /\ \/ InFile = 1..count.written
       \/ status = "Failed" /\ InFile = 1..(count.written + 1)
    /\ \A i, j \in DOMAIN file : IsEvent(i) /\ IsEvent(j) /\ i < j => file[i].seq < file[j].seq
    /\ \A i \in DOMAIN file : file[i].kind \in {"partial", "footer"} => i = Len(file)
    /\ bytesWritten <= Limit

\* Once AbandonQueue found the queue empty it stays empty ("The terminal status
\* is already visible, so producers cannot replenish it"), and the footer that
\* Terminal still owes has the room kFooterReserve keeps for it.
ClosedForGood ==
    wpc \in {"footer", "close", "ended"} =>
        /\ queue = <<>>
        /\ wpc = "footer" /\ FooterDue => \A n \in 1..FooterReserve : Fits(n, TRUE)

\* What the reader of a log and of its counters may rely on, whenever the
\* process ends: no event forgotten (Publish, Pump), a whole prefix of them in the
\* file (WriteRecord), and a closed log that stays closed (Terminal).
EventsAccounted == NoneForgotten /\ WholePrefix /\ ClosedForGood
=============================================================================
