--------------------------- MODULE EventLogProofs ----------------------------
(***************************************************************************)
(* The event log accounts for every event, for any finite set of threads   *)
(* of the host and any sizes of queue, batch, file and footer reserve.     *)
(*                                                                         *)
(* As long as the log is open, the events of the file, the batch in hand   *)
(* and the queue are one sequence of consecutive numbers.  A record that   *)
(* is lost ends the log; what follows a lost record is therefore never     *)
(* another event, and the footer goes only after a whole line, into the    *)
(* room every other record has left for it.                                *)
(***************************************************************************)
EXTENDS EventLog, FiniteSetTheorems, SequenceTheorems, TLAPS

Kinds == {"mark", "event", "footer", "partial"}
Places == {"none", "idle", "startup", "batches", "take", "format", "after", "anchor", "flush",
           "abandon", "abandoning", "footer", "close", "ended"}

LogTyped ==
    /\ installed \in {"qualified", "absent", "pending", "armed", "declined"} /\ armed \in BOOLEAN /\ stop \in BOOLEAN
    /\ status \in {"Prepared", "Recording", "Truncated", "Failed", "Stopped"}
    /\ lock \in {"free", "writer"} \cup Producers
    /\ queue \in Seq(Nat) /\ sequence \in Nat /\ batch \in Seq(Nat) /\ taken \in Nat
    /\ count \in [written : Nat, abandoned : Nat, contention : Nat, full : Nat]
    /\ wpc \in Places
    /\ started \in BOOLEAN /\ footerWritten \in BOOLEAN /\ closed \in BOOLEAN
    /\ partialTail \in BOOLEAN /\ bytesWritten \in Nat
    /\ file \in Seq([kind : Kinds, seq : Nat])
    /\ ppc \in [Producers -> {"out", "try", "locked", "room"}] /\ offered \in Nat

\* Whoever is between an acquisition of the queue's lock and its release has it.
LockHeld ==
    /\ \A p \in Producers : ppc[p] \in {"locked", "room"} <=> lock = p
    /\ lock = "writer" <=> wpc \in {"take", "abandoning"}

\* What the status is at each place of the writer, which alone changes it.
StatusAt ==
    /\ wpc \in {"startup", "take", "format", "anchor", "flush"} => status = "Recording"
    /\ wpc \in {"none", "idle"} => Open
    /\ wpc \in {"batches", "after"} => status # "Prepared"
    /\ wpc \in {"abandon", "abandoning", "footer", "close", "ended"} => ~Open
    /\ batch # <<>> => wpc = "format"
    /\ started => status # "Prepared"

\* While the log is open its lines, the batch in hand and the queue continue each
\* other, and nothing in the file is cut short.
Consecutive ==
    Open =>
        /\ InFile = 1..count.written
        /\ \A i \in 1..Len(batch) : batch[i] = count.written + i
        /\ \A i \in 1..Len(queue) : queue[i] = count.written + Len(batch) + i
        /\ sequence = count.written + Len(batch) + Len(queue)
        /\ ~partialTail

\* The footer is written once, last of all, into the room kept for it.
FooterLast ==
    /\ footerWritten => wpc \in {"close", "ended"}
    /\ bytesWritten <= Limit /\ (~footerWritten => bytesWritten <= Limit - FooterReserve)
    /\ \A i \in DOMAIN file : /\ file[i].kind = "partial" => partialTail
                              /\ file[i].kind = "footer" => footerWritten

\* Nobody is about to fill a queue that was emptied for good.
QueueShut ==
    wpc \in {"footer", "close", "ended"} => queue = <<>> /\ \A p \in Producers : ppc[p] # "room"

LogInv ==
    /\ LogTyped /\ LockHeld /\ StatusAt /\ Consecutive /\ FooterLast /\ QueueShut
    /\ NoneForgotten /\ WholePrefix
Lines == [kind : Kinds, seq : Nat]
Ending == {"Truncated", "Failed"}

-----------------------------------------------------------------------------
(* What a record does to the file (WriteRecord).                           *)

\* The lines of a file to which one was added.
LEMMA LineAdded ==
    ASSUME LogTyped, NEW e \in Lines, file' = Append(file, e)
    PROVE  /\ file' \in Seq(Lines) /\ Len(file') = Len(file) + 1 /\ Len(file) \in Nat
           /\ DOMAIN file = 1..Len(file) /\ DOMAIN file' = 1..(Len(file) + 1)
           /\ \A i \in DOMAIN file : file'[i] = file[i]
           /\ file'[Len(file) + 1] = e
BY DEF LogTyped, Lines

LEMMA EntryIsLine ==
    ASSUME NEW kind \in Kinds, NEW seq \in Nat
    PROVE  Entry(kind, seq) \in Lines /\ Entry(kind, seq).kind = kind /\ Entry(kind, seq).seq = seq
BY DEF Entry, Lines

\* A line that is no event leaves the events as they were.
LEMMA OtherLineAdded ==
    ASSUME LogTyped, NEW e \in Lines, e.kind # "event", file' = Append(file, e)
    PROVE  InFile' = InFile
<1>1. /\ DOMAIN file = 1..Len(file) /\ DOMAIN file' = 1..(Len(file) + 1) /\ Len(file) \in Nat
      /\ \A i \in DOMAIN file : file'[i] = file[i]
      /\ file'[Len(file) + 1] = e
  BY LineAdded
<1>2. {j \in DOMAIN file' : file'[j].kind = "event"} = {j \in DOMAIN file : file[j].kind = "event"}
  BY <1>1
<1> QED
  BY <1>1, <1>2 DEF InFile, IsEvent

LEMMA EventLineAdded ==
    ASSUME LogTyped, NEW e \in Lines, e.kind = "event", file' = Append(file, e)
    PROVE  InFile' = InFile \cup {e.seq}
<1>1. /\ DOMAIN file = 1..Len(file) /\ DOMAIN file' = 1..(Len(file) + 1) /\ Len(file) \in Nat
      /\ \A i \in DOMAIN file : file'[i] = file[i]
      /\ file'[Len(file) + 1] = e
  BY LineAdded
<1>2. {j \in DOMAIN file' : file'[j].kind = "event"}
          = {j \in DOMAIN file : file[j].kind = "event"} \cup {Len(file) + 1}
  BY <1>1
<1>3. \A i \in {j \in DOMAIN file : file[j].kind = "event"} : file'[i].seq = file[i].seq
  BY <1>1
<1>4. {file'[i].seq : i \in {j \in DOMAIN file : file[j].kind = "event"} \cup {Len(file) + 1}}
          = {file[i].seq : i \in {j \in DOMAIN file : file[j].kind = "event"}} \cup {file'[Len(file) + 1].seq}
  BY <1>3
<1> QED
  BY <1>1, <1>2, <1>4 DEF InFile, IsEvent

\* The events stay in order when what is added is no event or has a later number.
InOrder == \A i, j \in DOMAIN file : IsEvent(i) /\ IsEvent(j) /\ i < j => file[i].seq < file[j].seq
LEMMA OrderAdded ==
    ASSUME LogTyped, InOrder, NEW e \in Lines, file' = Append(file, e),
           e.kind = "event" => \A s \in InFile : s < e.seq
    PROVE  InOrder'
<1>1. /\ DOMAIN file = 1..Len(file) /\ DOMAIN file' = 1..(Len(file) + 1) /\ Len(file) \in Nat
      /\ \A i \in DOMAIN file : file'[i] = file[i]
      /\ file'[Len(file) + 1] = e
  BY LineAdded
<1>2. SUFFICES ASSUME NEW i \in DOMAIN file', NEW j \in DOMAIN file', i < j,
                      file'[i].kind = "event", file'[j].kind = "event"
               PROVE  file'[i].seq < file'[j].seq
  BY DEF InOrder, IsEvent
<1>3. i \in DOMAIN file /\ file[i].kind = "event"
  BY <1>1, <1>2
<1>4. CASE j \in DOMAIN file
  BY <1>1, <1>2, <1>3, <1>4 DEF InOrder, IsEvent
<1>5. CASE j = Len(file) + 1
  <2>1. file[i].seq \in InFile
    BY <1>3 DEF InFile, IsEvent
  <2> QED
    BY <1>1, <1>2, <1>3, <1>5, <2>1
<1> QED
  BY <1>1, <1>2, <1>4, <1>5

\* What a record that is not written whole, or not at all, may leave behind.
NothingOut == UNCHANGED <<partialTail, file, bytesWritten>>
NoByteOut == UNCHANGED <<file, bytesWritten>> /\ partialTail' = FALSE
AllOut(kind, seq, n) ==
    /\ file' = Append(file, Entry(kind, seq)) /\ bytesWritten' = bytesWritten + n
    /\ partialTail' = FALSE
CutShort(seq, n) ==
    /\ file' = Append(file, Entry("partial", seq)) /\ partialTail' = TRUE
    /\ bytesWritten' \in bytesWritten..(bytesWritten + n)

LEMMA LosesStatus ==
    ASSUME NEW kind, NEW seq, NEW n, NEW footer \in BOOLEAN,
           Loses(kind, seq, n, footer)
    PROVE  /\ status' \in {status} \cup Ending
           /\ Open /\ ~footer => status' \in Ending
           /\ ~Open => status' = status
BY DEF Loses, Unformatted, NoRoom, WriteFails, FailLog, Ending

LEMMA LosesOutput ==
    ASSUME LogTyped, NEW kind, NEW seq, NEW n \in Nat, NEW footer \in BOOLEAN,
           Loses(kind, seq, n, footer)
    PROVE  \/ NothingOut
           \/ /\ Fits(n, footer) /\ (Open => status' = "Failed")
              /\ NoByteOut \/ AllOut(kind, seq, n) \/ CutShort(seq, n)
<1>1. CASE Unformatted \/ NoRoom(n, footer)
  BY <1>1 DEF Unformatted, NoRoom, NothingOut, output
<1>2. CASE WriteFails(kind, seq, n, footer)
  <2>1. Fits(n, footer) /\ (Open => status' = "Failed")
    BY <1>2 DEF WriteFails, FailLog
  <2>2. CASE /\ partialTail' = TRUE /\ UNCHANGED bytesWritten
             /\ file' = Append(file, Entry("partial", seq))
    <3>1. bytesWritten' \in bytesWritten..(bytesWritten + n)
      BY <2>2 DEF LogTyped
    <3>2. CutShort(seq, n)
      BY <2>2, <3>1 DEF CutShort
    <3> QED
      BY <2>1, <3>2
  <2>3. CASE \E w \in 0..n :
                /\ partialTail' = TailIsPartial(w, n)
                /\ bytesWritten' = bytesWritten + w
                /\ file' = IF w = 0 THEN file
                           ELSE Append(file, Entry(IF w = n THEN kind ELSE "partial", seq))
    <3>1. PICK w \in 0..n : /\ partialTail' = TailIsPartial(w, n)
                            /\ bytesWritten' = bytesWritten + w
                            /\ file' = IF w = 0 THEN file
                                       ELSE Append(file, Entry(IF w = n THEN kind ELSE "partial", seq))
      BY <2>3
    <3>2. CASE w = 0
      <4>1. ~TailIsPartial(w, n)
        BY <3>2 DEF TailIsPartial
      <4>2. partialTail' = FALSE
        BY <3>1, <4>1, Zenon DEF TailIsPartial
      <4>3. UNCHANGED <<file, bytesWritten>>
        BY <3>1, <3>2 DEF LogTyped
      <4> QED
        BY <2>1, <4>2, <4>3 DEF NoByteOut
    <3>3. CASE w # 0 /\ w = n
      <4>1. ~TailIsPartial(w, n)
        BY <3>3 DEF TailIsPartial
      <4>2. partialTail' = FALSE
        BY <3>1, <4>1, Zenon DEF TailIsPartial
      <4>3. file' = Append(file, Entry(kind, seq)) /\ bytesWritten' = bytesWritten + n
        BY <3>1, <3>3
      <4> QED
        BY <2>1, <4>2, <4>3 DEF AllOut
    <3>4. CASE w # 0 /\ w # n
      <4>1. TailIsPartial(w, n)
        BY <3>4 DEF TailIsPartial
      <4>2. partialTail' = TRUE
        BY <3>1, <4>1, Zenon DEF TailIsPartial
      <4>3. file' = Append(file, Entry("partial", seq))
        BY <3>1, <3>4
      <4>4. bytesWritten' \in bytesWritten..(bytesWritten + n)
        BY <3>1 DEF LogTyped
      <4> QED
        BY <2>1, <4>2, <4>3, <4>4 DEF CutShort
    <3> QED
      BY <3>2, <3>3, <3>4
  <2> QED
    BY <1>2, <2>2, <2>3 DEF WriteFails
<1> QED
  BY <1>1, <1>2 DEF Loses

-----------------------------------------------------------------------------
(* Types.                                                                  *)

LEMMA RecordTyped ==
    ASSUME LogTyped, NEW kind \in Kinds, NEW seq \in Nat, NEW n \in Nat, NEW footer \in BOOLEAN,
           Writes(kind, seq, n, footer) \/ Loses(kind, seq, n, footer)
    PROVE  /\ status' \in {"Prepared", "Recording", "Truncated", "Failed", "Stopped"}
           /\ partialTail' \in BOOLEAN /\ bytesWritten' \in Nat /\ file' \in Seq(Lines)
<1>1. Entry(kind, seq) \in Lines /\ Entry("partial", seq) \in Lines
  BY EntryIsLine DEF Kinds
<1>2. CASE Writes(kind, seq, n, footer)
  BY <1>1, <1>2 DEF Writes, LogTyped, Lines
<1>3. CASE Loses(kind, seq, n, footer)
  <2>1. status' \in {"Prepared", "Recording", "Truncated", "Failed", "Stopped"}
    BY <1>3, LosesStatus DEF LogTyped, Ending
  <2>2. NothingOut \/ NoByteOut \/ AllOut(kind, seq, n) \/ CutShort(seq, n)
    BY <1>3, LosesOutput
  <2>3. partialTail' \in BOOLEAN
    <3>1. partialTail' = partialTail \/ partialTail' = TRUE \/ partialTail' = FALSE
      BY <2>2 DEF NothingOut, NoByteOut, AllOut, CutShort
    <3> QED
      BY <3>1, Zenon DEF LogTyped
  <2>4. bytesWritten' \in Nat
    BY <2>2 DEF NothingOut, NoByteOut, AllOut, CutShort, LogTyped
  <2>5. file' \in Seq(Lines)
    <3>1. file \in Seq(Lines)
      BY DEF LogTyped, Lines
    <3>2. \A e \in Lines : Append(file, e) \in Seq(Lines)
      BY <3>1, AppendProperties
    <3>3. file' = file \/ file' = Append(file, Entry(kind, seq)) \/ file' = Append(file, Entry("partial", seq))
      BY <2>2 DEF NothingOut, NoByteOut, AllOut, CutShort
    <3> QED
      BY <1>1, <3>1, <3>2, <3>3
  <2> QED
    BY <2>1, <2>3, <2>4, <2>5
<1> QED
  BY <1>2, <1>3

\* What a taken batch and the rest of the queue are.
LEMMA BatchSplits ==
    ASSUME LogAssumption, LogTyped
    PROVE  /\ Batch \in 0..Len(queue) /\ Len(queue) \in Nat
           /\ SubSeq(queue, 1, Batch) \in Seq(Nat) /\ Len(SubSeq(queue, 1, Batch)) = Batch
           /\ \A i \in 1..Batch : SubSeq(queue, 1, Batch)[i] = queue[i]
           /\ SubSeq(queue, Batch + 1, Len(queue)) \in Seq(Nat)
           /\ Len(SubSeq(queue, Batch + 1, Len(queue))) = Len(queue) - Batch
           /\ \A i \in 1..(Len(queue) - Batch) : SubSeq(queue, Batch + 1, Len(queue))[i] = queue[Batch + i]
           /\ (Batch = 0 <=> queue = <<>>)
<1>1. /\ Batch \in 0..Len(queue) /\ Len(queue) \in Nat /\ Batch \in Int /\ Len(queue) \in Int
      /\ Batch + 1 \in Int /\ 1 \in Int /\ (Batch = 0 <=> queue = <<>>)
  <2>1. Len(queue) \in Nat /\ BatchCount \in Nat \ {0} /\ (Len(queue) = 0 <=> queue = <<>>)
    BY DEF LogTyped, LogAssumption
  <2> QED
    BY <2>1 DEF Batch
<1>2. \A i \in 1..Len(queue) : queue[i] \in Nat
  <2>1. queue \in Seq(Nat)
    BY DEF LogTyped
  <2> QED
    BY <2>1, ElementOfSeq
<1> HIDE DEF Batch
<1>3. (\A i \in 1..Batch : queue[i] \in Nat) /\ (\A i \in (Batch + 1)..Len(queue) : queue[i] \in Nat)
  BY <1>1, <1>2, SMTT(30)
<1>4. /\ SubSeq(queue, 1, Batch) \in Seq(Nat)
      /\ Len(SubSeq(queue, 1, Batch)) = IF 1 <= Batch THEN Batch - 1 + 1 ELSE 0
      /\ \A i \in 1..(Batch - 1 + 1) : SubSeq(queue, 1, Batch)[i] = queue[1 + i - 1]
  BY <1>1, <1>3, SubSeqProperties
<1>5. /\ SubSeq(queue, Batch + 1, Len(queue)) \in Seq(Nat)
      /\ Len(SubSeq(queue, Batch + 1, Len(queue)))
             = IF Batch + 1 <= Len(queue) THEN Len(queue) - (Batch + 1) + 1 ELSE 0
      /\ \A i \in 1..(Len(queue) - (Batch + 1) + 1) :
             SubSeq(queue, Batch + 1, Len(queue))[i] = queue[(Batch + 1) + i - 1]
  BY <1>1, <1>3, SubSeqProperties
<1>6. Batch - 1 + 1 = Batch /\ \A i \in 1..Batch : 1 + i - 1 = i
  BY <1>1
<1>7. /\ Len(queue) - (Batch + 1) + 1 = Len(queue) - Batch
      /\ \A i \in 1..(Len(queue) - Batch) : (Batch + 1) + i - 1 = Batch + i
  BY <1>1
<1>8. Len(SubSeq(queue, 1, Batch)) = Batch
  BY <1>1, <1>4
<1>9. Len(SubSeq(queue, Batch + 1, Len(queue))) = Len(queue) - Batch
  BY <1>1, <1>5
<1>10. \A i \in 1..Batch : SubSeq(queue, 1, Batch)[i] = queue[i]
  BY <1>4, <1>6
<1>11. \A i \in 1..(Len(queue) - Batch) : SubSeq(queue, Batch + 1, Len(queue))[i] = queue[Batch + i]
  BY <1>5, <1>7
<1> QED
  BY <1>1, <1>4, <1>5, <1>8, <1>9, <1>10, <1>11, Zenon

LEMMA RestOfBatch ==
    ASSUME LogTyped, batch # <<>>
    PROVE  /\ Head(batch) \in Nat /\ Head(batch) = batch[1] /\ Tail(batch) \in Seq(Nat)
           /\ Len(batch) \in Nat \ {0} /\ Len(Tail(batch)) = Len(batch) - 1
           /\ \A i \in 1..(Len(batch) - 1) : Tail(batch)[i] = batch[i + 1]
<1>1. batch \in Seq(Nat)
  BY DEF LogTyped
<1>2. /\ Head(batch) \in Nat /\ Tail(batch) \in Seq(Nat) /\ Len(Tail(batch)) = Len(batch) - 1
      /\ \A i \in 1..Len(Tail(batch)) : Tail(batch)[i] = batch[i + 1]
  BY <1>1, HeadTailProperties
<1>3. Len(batch) \in Nat \ {0} /\ Head(batch) = batch[1]
  BY <1>1
<1> QED
  BY <1>2, <1>3

LEMMA CountTyped ==
    ASSUME LogTyped, NEW what \in {"written", "abandoned", "contention", "full"}, NEW n \in Nat,
           Counts(what, n)
    PROVE  /\ count' \in [written : Nat, abandoned : Nat, contention : Nat, full : Nat]
           /\ count'[what] = count[what] + n
           /\ \A w \in {"written", "abandoned", "contention", "full"} : w # what => count'[w] = count[w]
BY DEF LogTyped, Counts

LEMMA PublishTyped ==
    ASSUME LogAssumption, LogTyped, NEW p \in Producers, Publish(p)
    PROVE  LogTyped'
<1>1. \A from, to \in {"out", "try", "locked", "room"} :
          Steps(p, from, to) => ppc' \in [Producers -> {"out", "try", "locked", "room"}]
  BY DEF Steps, LogTyped
<1>2. \A what \in {"abandoned", "contention", "full"} :
          Counts(what, 1) => count' \in [written : Nat, abandoned : Nat, contention : Nat, full : Nat]
  BY CountTyped
<1>3. CASE PublishEvent(p)
  <2>1. /\ ppc' \in [Producers -> {"out", "try", "locked", "room"}]
        /\ count' \in [written : Nat, abandoned : Nat, contention : Nat, full : Nat]
        /\ offered' \in Nat
    BY <1>1, <1>2, <1>3, SMTT(30) DEF PublishEvent, LogTyped
  <2>2. UNCHANGED <<status, signals, ring, wpc, hand, lifetime, output>>
    BY <1>3 DEF PublishEvent
  <2> QED
    BY <2>1, <2>2 DEF LogTyped, signals, ring, hand, lifetime, output
<1>4. CASE TryQueueLock(p)
  <2>1. /\ ppc' \in [Producers -> {"out", "try", "locked", "room"}]
        /\ count' \in [written : Nat, abandoned : Nat, contention : Nat, full : Nat]
        /\ lock' \in {"free", "writer"} \cup Producers
    BY <1>1, <1>2, <1>4 DEF TryQueueLock, LogTyped
  <2>2. UNCHANGED <<status, signals, queue, sequence, wpc, hand, lifetime, output, offered>>
    BY <1>4 DEF TryQueueLock
  <2> QED
    BY <2>1, <2>2 DEF LogTyped, signals, hand, lifetime, output
<1>5. CASE LookAgain(p)
  <2>1. /\ ppc' \in [Producers -> {"out", "try", "locked", "room"}]
        /\ count' \in [written : Nat, abandoned : Nat, contention : Nat, full : Nat]
        /\ lock' \in {"free", "writer"} \cup Producers
    BY <1>1, <1>2, <1>5 DEF LookAgain, LogTyped
  <2>2. UNCHANGED <<status, signals, queue, sequence, wpc, hand, lifetime, output, offered>>
    BY <1>5 DEF LookAgain
  <2> QED
    BY <2>1, <2>2 DEF LogTyped, signals, hand, lifetime, output
<1>6. CASE Enqueue(p)
  <2>1. ppc' \in [Producers -> {"out", "try", "locked", "room"}] /\ lock' = "free"
    BY <1>1, <1>6 DEF Enqueue
  <2>2. /\ queue' \in Seq(Nat) /\ sequence' \in Nat
        /\ count' \in [written : Nat, abandoned : Nat, contention : Nat, full : Nat]
    <3>1. CASE Counts("full", 1) /\ UNCHANGED <<queue, sequence>>
      BY <1>2, <3>1 DEF LogTyped
    <3>2. CASE /\ sequence' = sequence + 1 /\ queue' = Append(queue, sequence') /\ UNCHANGED count
      BY <3>2 DEF LogTyped
    <3> QED
      BY <1>6, <3>1, <3>2 DEF Enqueue
  <2>3. UNCHANGED <<status, signals, wpc, hand, lifetime, output, offered>>
    BY <1>6 DEF Enqueue
  <2> QED
    BY <2>1, <2>2, <2>3 DEF LogTyped, signals, hand, lifetime, output
<1> QED
  BY <1>3, <1>4, <1>5, <1>6 DEF Publish

LEMMA PumpTyped ==
    ASSUME LogAssumption, LogTyped, Pump
    PROVE  LogTyped'
<1> USE DEF LogTyped, signals, ring, hand, lifetime, producers, WriterGoes, Places
<1>0. 1..FooterReserve \subseteq Nat /\ 1..EventBytes \subseteq Nat /\ 1..Limit \subseteq Nat
  <2>1. FooterReserve \in Nat /\ EventBytes \in Nat /\ Limit \in Nat
    BY DEF LogAssumption
  <2> QED
    BY <2>1
<1>1. CASE BeginPump
  BY <1>1 DEF BeginPump, output
<1>2. CASE WriteStartup
  <2>1. PICK n \in Nat : /\ Writes("mark", 0, n, FALSE) \/ Loses("mark", 0, n, FALSE)
                         /\ wpc' \in {"batches", "abandon"}
    BY <1>2, <1>0 DEF WriteStartup
  <2>2. /\ status' \in {"Prepared", "Recording", "Truncated", "Failed", "Stopped"}
        /\ partialTail' \in BOOLEAN /\ bytesWritten' \in Nat /\ file' \in Seq(Lines)
    BY <2>1, RecordTyped DEF Kinds
  <2>3. UNCHANGED <<signals, ring, count, hand, started, footerWritten, closed, producers>>
    BY <1>2 DEF WriteStartup
  <2> QED
    BY <2>1, <2>2, <2>3, SMTT(30) DEF Lines
<1>3. CASE AcquireBatch
  BY <1>3 DEF AcquireBatch, LockQueue, output
<1>4. CASE TakeForPump
  <2>1. /\ SubSeq(queue, 1, Batch) \in Seq(Nat) /\ SubSeq(queue, Batch + 1, Len(queue)) \in Seq(Nat)
    BY BatchSplits
  <2> QED
    <3>1. wpc' \in Places /\ taken' \in Nat /\ lock' = "free"
      BY <1>4 DEF TakeForPump, TakeBatch
    <3>2. batch' \in Seq(Nat) /\ queue' \in Seq(Nat)
      BY <1>4, <2>1 DEF TakeForPump, TakeBatch
    <3>3. UNCHANGED <<status, signals, sequence, lifetime, output, producers, count>>
      BY <1>4 DEF TakeForPump, TakeBatch
    <3> QED
      BY <3>1, <3>2, <3>3 DEF output
<1>5. CASE FormatEvent
  <2>1. batch # <<>> /\ batch' = Tail(batch) /\ Counts("written", 1)
    BY <1>5 DEF FormatEvent
  <2>2. Head(batch) \in Nat /\ batch' \in Seq(Nat)
    BY <2>1, RestOfBatch
  <2>3. PICK n \in Nat : Writes("event", Head(batch), n, FALSE)
    BY <1>5, <1>0 DEF FormatEvent
  <2>4. /\ status' \in {"Prepared", "Recording", "Truncated", "Failed", "Stopped"}
        /\ partialTail' \in BOOLEAN /\ bytesWritten' \in Nat /\ file' \in Seq(Lines)
    BY <2>2, <2>3, RecordTyped DEF Kinds
  <2>5. count' \in [written : Nat, abandoned : Nat, contention : Nat, full : Nat]
    BY <2>1, CountTyped
  <2>6. UNCHANGED <<signals, ring, taken, lifetime, producers>> /\ wpc' \in {"batches", "format"}
    BY <1>5 DEF FormatEvent
  <2> QED
    BY <2>2, <2>4, <2>5, <2>6, ZenonT(40) DEF Lines
<1>6. CASE FormatFails
  <2>1. batch # <<>> /\ batch' = <<>> /\ Counts("abandoned", Rest) /\ Rest \in Nat
    BY <1>6 DEF FormatFails, Rest
  <2>2. Head(batch) \in Nat /\ batch' \in Seq(Nat)
    BY <2>1, RestOfBatch
  <2>3. PICK n \in Nat : Loses("event", Head(batch), n, FALSE)
    BY <1>6, <1>0 DEF FormatFails
  <2>4. /\ status' \in {"Prepared", "Recording", "Truncated", "Failed", "Stopped"}
        /\ partialTail' \in BOOLEAN /\ bytesWritten' \in Nat /\ file' \in Seq(Lines)
    BY <2>2, <2>3, RecordTyped DEF Kinds
  <2>5. count' \in [written : Nat, abandoned : Nat, contention : Nat, full : Nat]
    BY <2>1, CountTyped
  <2>6. UNCHANGED <<signals, ring, taken, lifetime, producers>> /\ wpc' = "batches"
    BY <1>6 DEF FormatFails
  <2> QED
    BY <2>2, <2>4, <2>5, <2>6 DEF Lines
<1>7. CASE EndBatches
  BY <1>7 DEF EndBatches, output
<1>8. CASE AfterBatches
  BY <1>8, SMTT(30) DEF AfterBatches, EndPump, output
<1>9. CASE WriteAnchor
  <2>1. PICK n \in Nat : /\ Writes("mark", 0, n, FALSE) \/ Loses("mark", 0, n, FALSE)
                         /\ wpc' \in {"flush", "abandon"}
    BY <1>9, <1>0 DEF WriteAnchor
  <2>2. /\ status' \in {"Prepared", "Recording", "Truncated", "Failed", "Stopped"}
        /\ partialTail' \in BOOLEAN /\ bytesWritten' \in Nat /\ file' \in Seq(Lines)
    BY <2>1, RecordTyped DEF Kinds
  <2>3. UNCHANGED <<signals, ring, count, hand, lifetime, producers>>
    BY <1>9 DEF WriteAnchor
  <2> QED
    BY <2>1, <2>2, <2>3, SMTT(30) DEF Lines
<1>10. CASE Flush
  <2>1. status' \in {"Prepared", "Recording", "Truncated", "Failed", "Stopped"} /\ wpc' \in {"idle", "abandon"}
    BY <1>10 DEF Flush, FailLog, EndPump
  <2> QED
    BY <1>10, <2>1, SMTT(30) DEF Flush, output
<1> QED
  BY <1>1, <1>2, <1>3, <1>4, <1>5, <1>6, <1>7, <1>8, <1>9, <1>10 DEF Pump

LEMMA EndTyped ==
    ASSUME LogAssumption, LogTyped,
           WakeStopped \/ Terminal \/ PrepareWriter \/ InstallObserver \/ ArmWriter \/ StopUnarmedWriter
    PROVE  LogTyped'
<1> USE DEF LogTyped, signals, ring, hand, lifetime, producers, WriterGoes, Places
<1>1. CASE WakeStopped
  BY <1>1 DEF WakeStopped, output
<1>2. CASE AcquireAbandon
  BY <1>2 DEF AcquireAbandon, LockQueue, output
<1>3. CASE TakeToAbandon
  <2>1. SubSeq(queue, Batch + 1, Len(queue)) \in Seq(Nat) /\ Batch \in Nat
    BY BatchSplits, SMTT(30)
  <2>2. count' \in [written : Nat, abandoned : Nat, contention : Nat, full : Nat]
    BY <1>3, <2>1, CountTyped DEF TakeToAbandon
  <2> QED
    BY <1>3, <2>1, <2>2, ZenonT(40) DEF TakeToAbandon, TakeBatch, output
<1>4. CASE WriteFooter
  <2>1. UNCHANGED <<signals, ring, count, hand, started, closed, producers>> /\ wpc' = "close"
    BY <1>4 DEF WriteFooter
  <2>2. CASE FooterDue
    <3>1. PICK n \in 1..FooterReserve : Writes("footer", 0, n, TRUE) \/ Loses("footer", 0, n, TRUE)
      BY <1>4, <2>2 DEF WriteFooter
    <3>2. n \in Nat
      BY <3>1, SMTT(30) DEF LogAssumption
    <3>3. /\ status' \in {"Prepared", "Recording", "Truncated", "Failed", "Stopped"}
          /\ partialTail' \in BOOLEAN /\ bytesWritten' \in Nat /\ file' \in Seq(Lines)
      BY <3>1, <3>2, RecordTyped DEF Kinds
    <3>4. footerWritten' = TRUE
      BY <1>4, <2>2 DEF WriteFooter
    <3> QED
      BY <2>1, <3>3, <3>4 DEF Lines
  <2>3. CASE ~FooterDue
    <3>1. UNCHANGED <<footerWritten, status, output>>
      BY <1>4, <2>3 DEF WriteFooter
    <3> QED
      BY <2>1, <3>1 DEF output
  <2> QED
    BY <2>2, <2>3
<1>5. CASE CloseResources
  BY <1>5 DEF CloseResources, output
<1>6. CASE PrepareWriter
  <2>1. closed' \in BOOLEAN
    <3>1. closed' = closed \/ closed' = TRUE
      BY <1>6 DEF PrepareWriter
    <3> QED
      BY <3>1, Zenon
  <2>2. wpc' \in Places /\ installed' \in {"pending", "absent"}
    BY <1>6 DEF PrepareWriter
  <2>3. UNCHANGED <<status, armed, stop, ring, count, hand, output, producers, started, footerWritten>>
    BY <1>6 DEF PrepareWriter
  <2> QED
    BY <2>1, <2>2, <2>3, SMTT(30) DEF output
<1>7. CASE InstallObserver
  BY <1>7, SMTT(30) DEF InstallObserver, Installs, output
<1>8. CASE ArmWriter
  BY <1>8 DEF ArmWriter, Installs, output
<1>9. CASE StopUnarmedWriter
  BY <1>9 DEF StopUnarmedWriter, Installs, output
<1> QED
  BY <1>1, <1>2, <1>3, <1>4, <1>5, <1>6, <1>7, <1>8, <1>9 DEF Terminal

-----------------------------------------------------------------------------
(* The lock, the status at each place, and the footer.                     *)

WriterSteps ==
    WakeStopped \/ Pump \/ Terminal \/ PrepareWriter \/ InstallObserver \/ ArmWriter \/ StopUnarmedWriter

\* What the steps of the writer thread leave to the producers, and they to it.
LEMMA StepsApart ==
    /\ \A p \in Producers : Publish(p) => UNCHANGED <<status, signals, wpc, hand, lifetime, output>>
    /\ WriterSteps => UNCHANGED <<sequence, producers>>
<1>1. ASSUME NEW p \in Producers, Publish(p)
      PROVE  UNCHANGED <<status, signals, wpc, hand, lifetime, output>>
  BY <1>1 DEF Publish, PublishEvent, TryQueueLock, LookAgain, Enqueue
<1>2. ASSUME WriterSteps PROVE UNCHANGED <<sequence, producers>>
  <2>1. ASSUME Pump PROVE UNCHANGED <<sequence, producers>>
    BY <2>1 DEF Pump, BeginPump, WriteStartup, AcquireBatch, LockQueue, TakeForPump, TakeBatch, FormatEvent,
       FormatFails, EndBatches, AfterBatches, WriteAnchor, Flush, ring
  <2>2. ASSUME Terminal PROVE UNCHANGED <<sequence, producers>>
    BY <2>2 DEF Terminal, AcquireAbandon, LockQueue, TakeToAbandon, TakeBatch, WriteFooter, CloseResources, ring
  <2>3. ASSUME WakeStopped \/ PrepareWriter \/ InstallObserver \/ ArmWriter \/ StopUnarmedWriter
        PROVE  UNCHANGED <<sequence, producers>>
    BY <2>3 DEF WakeStopped, PrepareWriter, InstallObserver, ArmWriter, StopUnarmedWriter, Installs, ring
  <2> QED
    BY <1>2, <2>1, <2>2, <2>3 DEF WriterSteps
<1> QED
  BY <1>1, <1>2

\* Where the writer has the queue's lock.
Locking == {"take", "abandoning"}
LEMMA WriterLocks ==
    ASSUME WriterSteps
    PROVE  \/ wpc \notin Locking /\ wpc' \notin Locking /\ UNCHANGED <<lock, queue>>
           \/ /\ wpc \notin Locking /\ wpc' \in Locking /\ lock = "free" /\ lock' = "writer"
              /\ UNCHANGED <<queue, output, batch, count, footerWritten>>
           \/ /\ wpc \in Locking /\ wpc' \notin Locking /\ lock = "writer" /\ lock' = "free"
              /\ UNCHANGED <<output, footerWritten>>
           \/ UNCHANGED <<wpc, lock, queue>>
<1> USE DEF Locking, WriterGoes
<1>1. CASE AcquireBatch \/ AcquireAbandon
  BY <1>1 DEF AcquireBatch, AcquireAbandon, LockQueue, hand, lifetime
<1>2. CASE TakeForPump \/ TakeToAbandon
  BY <1>2 DEF TakeForPump, TakeToAbandon, TakeBatch, lifetime
<1>3. CASE BeginPump \/ WriteStartup \/ FormatEvent \/ FormatFails
  BY <1>3 DEF BeginPump, WriteStartup, FormatEvent, FormatFails, ring
<1>4. CASE EndBatches \/ AfterBatches \/ WriteAnchor \/ Flush
  BY <1>4 DEF EndBatches, AfterBatches, WriteAnchor, Flush, ring, EndPump
<1>5. CASE WakeStopped \/ WriteFooter \/ CloseResources \/ PrepareWriter
  BY <1>5 DEF WakeStopped, WriteFooter, CloseResources, PrepareWriter, ring
<1>6. CASE InstallObserver \/ ArmWriter \/ StopUnarmedWriter
  BY <1>6 DEF InstallObserver, ArmWriter, StopUnarmedWriter, Installs, ring
<1> QED
  BY <1>1, <1>2, <1>3, <1>4, <1>5, <1>6 DEF WriterSteps, Pump, Terminal

LEMMA LockKept ==
    ASSUME LogAssumption, LogTyped, LockHeld, LogNext
    PROVE  LockHeld'
<1>0. \A p \in Producers : p # "free" /\ p # "writer"
  BY DEF LogAssumption
<1>1. ASSUME NEW q \in Producers, Publish(q) PROVE LockHeld'
  <2>1. wpc' = wpc
    BY <1>1, StepsApart
  <2>2. CASE PublishEvent(q)
    BY <1>0, <2>1, <2>2 DEF PublishEvent, Steps, LockHeld, LogTyped, ring
  <2>3. CASE TryQueueLock(q)
    BY <1>0, <2>1, <2>3 DEF TryQueueLock, Steps, LockHeld, LogTyped
  <2>4. CASE LookAgain(q)
    <3>1. CASE UNCHANGED lock
      BY <1>0, <2>1, <2>4, <3>1 DEF LookAgain, Steps, LockHeld, LogTyped
    <3>2. CASE lock' = "free" /\ Steps(q, "locked", "out")
      <4>1. lock = q /\ ppc' = [ppc EXCEPT ![q] = "out"] /\ ppc \in [Producers -> {"out", "try", "locked", "room"}]
        BY <2>4, <3>2 DEF LookAgain, Steps, LogTyped
      <4>2. \A p \in Producers : ppc'[p] \notin {"locked", "room"} /\ lock' # p
        BY <1>0, <3>2, <4>1 DEF LockHeld
      <4> QED
        BY <1>0, <2>1, <3>2, <4>1, <4>2 DEF LockHeld
    <3> QED
      BY <2>4, <3>1, <3>2 DEF LookAgain
  <2>5. CASE Enqueue(q)
    BY <1>0, <2>1, <2>5 DEF Enqueue, Steps, LockHeld, LogTyped
  <2> QED
    BY <1>1, <2>2, <2>3, <2>4, <2>5 DEF Publish
<1>2. ASSUME WriterSteps PROVE LockHeld'
  <2>1. ppc' = ppc
    BY <1>2, StepsApart DEF producers
  <2> QED
    BY <1>0, <1>2, <2>1, WriterLocks DEF LockHeld, Locking
<1> QED
  BY <1>1, <1>2 DEF LogNext, WriterSteps

LEMMA StatusKept ==
    ASSUME LogAssumption, LogTyped, StatusAt, LogNext
    PROVE  StatusAt'
<1> USE DEF StatusAt, Open, WriterGoes, hand, lifetime
<1>1. ASSUME NEW q \in Producers, Publish(q) PROVE StatusAt'
  BY <1>1, StepsApart DEF hand
<1>2. CASE WakeStopped
  BY <1>2 DEF WakeStopped, hand
<1>3. CASE BeginPump
  <2>1. /\ wpc = "idle" /\ wpc' = IF started THEN "batches" ELSE "startup"
        /\ status' = IF started THEN status ELSE "Recording"
        /\ batch' = batch
    BY <1>3 DEF BeginPump
  <2>2. batch' = <<>>
    BY <2>1
  <2>3. CASE started
    <3>1. wpc' = "batches" /\ status' = status /\ status # "Prepared"
      BY <2>1, <2>3
    <3> QED
      BY <2>1, <2>2, <3>1
  <2>4. CASE ~started
    <3>1. wpc' = "startup" /\ status' = "Recording"
      BY <2>1, <2>4
    <3> QED
      BY <2>2, <3>1
  <2> QED
    BY <2>3, <2>4
<1>4. CASE WriteStartup
  <2>1. CASE \E n \in 1..Limit : WriterGoes("startup", "batches") /\ Writes("mark", 0, n, FALSE)
    BY <1>4, <2>1 DEF WriteStartup, Writes, hand
  <2>2. CASE \E n \in 1..Limit : WriterGoes("startup", "abandon") /\ Loses("mark", 0, n, FALSE)
    BY <1>4, <2>2, LosesStatus DEF WriteStartup, hand, Ending
  <2> QED
    BY <1>4, <2>1, <2>2 DEF WriteStartup
<1>5. CASE AcquireBatch
  BY <1>5 DEF AcquireBatch, LockQueue, hand
<1>6. CASE TakeForPump
  <2>1. Batch = 0 => batch' = <<>>
    <3>1. Len(SubSeq(queue, 1, Batch)) = Batch /\ SubSeq(queue, 1, Batch) \in Seq(Nat)
      BY BatchSplits
    <3>2. batch' = SubSeq(queue, 1, Batch)
      BY <1>6 DEF TakeForPump
    <3> QED
      BY <3>1, <3>2
  <2> QED
    BY <1>6, <2>1 DEF TakeForPump, TakeBatch
<1>7. CASE FormatEvent
  BY <1>7 DEF FormatEvent, Writes
<1>8. CASE FormatFails
  <2>1. PICK n \in 1..EventBytes : Loses("event", Head(batch), n, FALSE)
    BY <1>8 DEF FormatFails
  <2>2. Open => status' \in Ending
    BY <2>1, LosesStatus
  <2> QED
    BY <1>8, <2>2 DEF FormatFails, Ending
<1>9. CASE EndBatches
  BY <1>9 DEF EndBatches, hand
<1>10. CASE AfterBatches
  BY <1>10 DEF AfterBatches, EndPump, hand
<1>11. CASE WriteAnchor
  <2>1. CASE \E n \in 1..FooterReserve : WriterGoes("anchor", "flush") /\ Writes("mark", 0, n, FALSE)
    BY <1>11, <2>1 DEF WriteAnchor, Writes, hand
  <2>2. CASE \E n \in 1..FooterReserve : WriterGoes("anchor", "abandon") /\ Loses("mark", 0, n, FALSE)
    BY <1>11, <2>2, LosesStatus DEF WriteAnchor, hand, Ending
  <2> QED
    BY <1>11, <2>1, <2>2 DEF WriteAnchor
<1>12. CASE Flush
  BY <1>12 DEF Flush, EndPump, FailLog, hand
<1>13. CASE AcquireAbandon \/ CloseResources
  BY <1>13 DEF AcquireAbandon, CloseResources, LockQueue, hand
<1>14. CASE TakeToAbandon
  BY <1>14 DEF TakeToAbandon, TakeBatch, hand
<1>15. CASE WriteFooter
  <2>1. status' = status
    <3>1. CASE FooterDue
      <4>1. PICK n \in 1..FooterReserve : Writes("footer", 0, n, TRUE) \/ Loses("footer", 0, n, TRUE)
        BY <1>15, <3>1 DEF WriteFooter
      <4>2. ~Open
        BY <1>15 DEF WriteFooter
      <4> QED
        BY <4>1, <4>2, LosesStatus DEF Writes
    <3>2. CASE ~FooterDue
      BY <1>15, <3>2 DEF WriteFooter
    <3> QED
      BY <3>1, <3>2
  <2> QED
    BY <1>15, <2>1 DEF WriteFooter, hand
<1>16. CASE PrepareWriter
  BY <1>16 DEF PrepareWriter, hand
<1>17. CASE InstallObserver \/ ArmWriter \/ StopUnarmedWriter
  BY <1>17 DEF InstallObserver, ArmWriter, StopUnarmedWriter, Installs, hand
<1> QED
  BY <1>1, <1>2, <1>3, <1>4, <1>5, <1>6, <1>7, <1>8, <1>9, <1>10, <1>11, <1>12, <1>13, <1>14, <1>15, <1>16,
     <1>17 DEF LogNext, Pump, Terminal

\* Nobody fills a queue the writer is about to close: a producer that holds the
\* lock looked at the status under it.
LEMMA ShutKept ==
    ASSUME LogAssumption, LogTyped, LockHeld, StatusAt, QueueShut, LogNext
    PROVE  QueueShut'
<1>0. \A p \in Producers : p # "free" /\ p # "writer"
  BY DEF LogAssumption
<1>1. ASSUME NEW q \in Producers, Publish(q), wpc' \in {"footer", "close", "ended"}
      PROVE  queue' = <<>> /\ \A p \in Producers : ppc'[p] # "room"
  <2>1. wpc' = wpc /\ ~Open
    BY <1>1, StepsApart DEF StatusAt
  <2>2. queue = <<>> /\ \A p \in Producers : ppc[p] # "room"
    BY <1>1, <2>1 DEF QueueShut
  <2>3. CASE PublishEvent(q)
    BY <2>1, <2>2, <2>3 DEF PublishEvent, Steps, LogTyped, ring
  <2>4. CASE TryQueueLock(q)
    BY <2>1, <2>2, <2>4 DEF TryQueueLock, Steps, LogTyped
  <2>5. CASE LookAgain(q)
    BY <2>1, <2>2, <2>5 DEF LookAgain, StillOpen, Steps, LogTyped
  <2>6. CASE Enqueue(q)
    BY <2>2, <2>6 DEF Enqueue, Steps
  <2> QED
    BY <1>1, <2>3, <2>4, <2>5, <2>6 DEF Publish
<1>2. ASSUME WriterSteps, wpc' \in {"footer", "close", "ended"}
      PROVE  queue' = <<>> /\ \A p \in Producers : ppc'[p] # "room"
  <2>1. ppc' = ppc
    BY <1>2, StepsApart DEF producers
  <2>2. CASE TakeToAbandon
    <3>1. Batch = 0
      <4>1. Batch \in Nat
        BY BatchSplits
      <4> QED
        BY <1>2, <2>2, <4>1 DEF TakeToAbandon, WriterGoes
    <3>2. queue' = SubSeq(queue, Batch + 1, Len(queue)) /\ lock = "writer"
      BY <2>2 DEF TakeToAbandon, TakeBatch
    <3>3. queue = <<>> /\ queue' \in Seq(Nat) /\ Len(queue') = Len(queue) - Batch
      BY <3>1, <3>2, BatchSplits
    <3>4. queue' = <<>>
      BY <3>1, <3>3
    <3>5. \A p \in Producers : ppc[p] # "room"
      BY <1>0, <3>2 DEF LockHeld
    <3> QED
      BY <2>1, <3>4, <3>5
  <2>3. CASE WriteFooter \/ CloseResources
    BY <2>1, <2>3 DEF WriteFooter, CloseResources, WriterGoes, QueueShut, ring
  <2>4. CASE PrepareWriter
    BY <1>2, <2>1, <2>4 DEF PrepareWriter, WriterGoes, QueueShut, ring
  <2>5. CASE InstallObserver \/ ArmWriter \/ StopUnarmedWriter
    BY <1>2, <2>1, <2>5 DEF InstallObserver, ArmWriter, StopUnarmedWriter, Installs, QueueShut, ring
  <2>6. CASE WakeStopped \/ Pump \/ AcquireAbandon
    <3>1. wpc' \notin {"footer", "close", "ended"}
      BY <2>6 DEF WakeStopped, Pump, BeginPump, WriteStartup, AcquireBatch, LockQueue, TakeForPump, FormatEvent,
         FormatFails, EndBatches, AfterBatches, EndPump, WriteAnchor, Flush, AcquireAbandon, WriterGoes
    <3> QED
      BY <1>2, <3>1
  <2> QED
    BY <1>2, <2>2, <2>3, <2>4, <2>5, <2>6 DEF WriterSteps, Terminal
<1> QED
  BY <1>1, <1>2 DEF LogNext, WriterSteps, QueueShut

-----------------------------------------------------------------------------
(* No event is forgotten.                                                  *)

Busy == {p \in Producers : ppc[p] # "out"}
Settled == count.written + count.abandoned + count.contention + count.full

LEMMA SettledGrows ==
    ASSUME LogTyped, NEW what \in {"written", "abandoned", "contention", "full"}, NEW n \in Nat,
           Counts(what, n)
    PROVE  Settled' = Settled + n
<1>1. /\ count'[what] = count[what] + n
      /\ \A w \in {"written", "abandoned", "contention", "full"} : w # what => count'[w] = count[w]
  BY CountTyped
<1>2. \A w \in {"written", "abandoned", "contention", "full"} : count[w] \in Nat
  BY DEF LogTyped
<1>3. /\ count["written"] \in Nat /\ count["abandoned"] \in Nat
      /\ count["contention"] \in Nat /\ count["full"] \in Nat
  BY <1>2
<1>4. CASE what = "written"
  BY <1>1, <1>3, <1>4 DEF Settled
<1>5. CASE what = "abandoned"
  BY <1>1, <1>3, <1>5 DEF Settled
<1>6. CASE what = "contention"
  BY <1>1, <1>3, <1>6 DEF Settled
<1>7. CASE what = "full"
  BY <1>1, <1>3, <1>7 DEF Settled
<1> QED
  BY <1>4, <1>5, <1>6, <1>7

LEMMA BusyFinite ==
    ASSUME LogAssumption
    PROVE  IsFiniteSet(Busy) /\ Cardinality(Busy) \in Nat
<1>1. IsFiniteSet(Producers) /\ Busy \in SUBSET Producers
  BY DEF LogAssumption, Busy
<1>2. IsFiniteSet(Busy)
  BY <1>1, FS_Subset
<1> QED
  BY <1>2, FS_CardinalityType

LEMMA BusyChanges ==
    ASSUME LogAssumption, LogTyped, NEW p \in Producers, NEW from, NEW to, Steps(p, from, to)
    PROVE  /\ from = "out" /\ to # "out" => Cardinality(Busy') = Cardinality(Busy) + 1
           /\ from # "out" /\ to = "out" => Cardinality(Busy') = Cardinality(Busy) - 1
           /\ from # "out" /\ to # "out" => Busy' = Busy
<1>1. /\ ppc[p] = from /\ ppc'[p] = to
      /\ \A q \in Producers : q # p => ppc'[q] = ppc[q]
  BY DEF Steps, LogTyped
<1>2. CASE from = "out" /\ to # "out"
  <2>1. Busy' = Busy \cup {p} /\ p \notin Busy
    BY <1>1, <1>2 DEF Busy
  <2> QED
    BY <1>2, <2>1, BusyFinite, FS_AddElement
<1>3. CASE from # "out" /\ to = "out"
  <2>1. Busy' = Busy \ {p} /\ p \in Busy
    BY <1>1, <1>3 DEF Busy
  <2> QED
    BY <1>3, <2>1, BusyFinite, FS_RemoveElement
<1>4. CASE from # "out" /\ to # "out"
  BY <1>1, <1>4 DEF Busy
<1> QED
  BY <1>2, <1>3, <1>4

\* Appending a number keeps the numbers before it and ends with it.
LEMMA AppendKeeps ==
    ASSUME NEW q \in Seq(Nat), NEW n \in Nat
    PROVE  /\ Len(Append(q, n)) = Len(q) + 1 /\ Append(q, n)[Len(q) + 1] = n
           /\ \A i \in 1..Len(q) : Append(q, n)[i] = q[i]
<1>1. /\ Len(Append(q, n)) = Len(q) + 1 /\ Append(q, n)[Len(q) + 1] = n
      /\ \A i \in 1..Len(q) : Append(q, n)[i] = q[i]
  BY AppendProperties
<1> QED
  BY <1>1

LEMMA Sums ==
    ASSUME LogAssumption, LogTyped
    PROVE  /\ Settled \in Nat /\ Len(queue) \in Nat /\ Len(batch) \in Nat /\ offered \in Nat
           /\ Cardinality(Busy) \in Nat
           /\ NoneForgotten <=> offered = Settled + Len(queue) + Len(batch) + Cardinality(Busy)
<1>1. Settled \in Nat
  <2>1. count.written \in Nat /\ count.abandoned \in Nat /\ count.contention \in Nat /\ count.full \in Nat
    BY DEF LogTyped
  <2> QED
    BY <2>1 DEF Settled
<1>2. Len(queue) \in Nat /\ Len(batch) \in Nat /\ offered \in Nat
  BY SMTT(30) DEF LogTyped
<1>3. NoneForgotten <=> offered = Settled + Len(queue) + Len(batch) + Cardinality(Busy)
  BY DEF NoneForgotten, Settled, Busy
<1> QED
  BY <1>1, <1>2, <1>3, BusyFinite

LEMMA PublishedCounted ==
    ASSUME LogAssumption, LogTyped, NoneForgotten, NEW p \in Producers, Publish(p), LogTyped'
    PROVE  NoneForgotten'
<1>1. offered = Settled + Len(queue) + Len(batch) + Cardinality(Busy)
  BY Sums
<1>2. /\ Settled \in Nat /\ Len(queue) \in Nat /\ Len(batch) \in Nat /\ offered \in Nat
      /\ Cardinality(Busy) \in Nat
  BY Sums
<1>3. batch' = batch
  BY StepsApart DEF hand
<1>4. UNCHANGED count => Settled' = Settled
  BY DEF Settled
<1>5. UNCHANGED ppc => Busy' = Busy
  BY DEF Busy
<1>6. \A what \in {"abandoned", "contention", "full"} : Counts(what, 1) => Settled' = Settled + 1
  BY SettledGrows
<1>7. (NoneForgotten)' <=> offered' = Settled' + Len(queue') + Len(batch') + Cardinality(Busy')
  BY DEF NoneForgotten, Settled, Busy
<1> HIDE DEF Settled, Busy
<1>8. CASE PublishEvent(p)
  <2>1. offered' = offered + 1 /\ queue' = queue
    BY <1>8 DEF PublishEvent, ring
  <2>2. CASE Steps(p, "out", "try") /\ UNCHANGED count
    <3>1. Cardinality(Busy') = Cardinality(Busy) + 1
      BY <2>2, BusyChanges
    <3>2. Settled' = Settled
      BY <1>4, <2>2
    <3>3. Len(batch') = Len(batch) /\ Len(queue') = Len(queue)
      BY <1>3, <2>1
    <3>4. offered' = Settled' + Len(queue') + Len(batch') + Cardinality(Busy')
      BY <1>1, <1>2, <2>1, <3>1, <3>2, <3>3, SMTT(30)
    <3> QED
      BY <1>7, <3>4
  <2>3. CASE Counts("abandoned", 1) /\ UNCHANGED ppc
    <3>1. Settled' = Settled + 1 /\ Busy' = Busy
      BY <1>5, <1>6, <2>3
    <3>2. Len(batch') = Len(batch) /\ Len(queue') = Len(queue)
      BY <1>3, <2>1
    <3>3. offered' = Settled' + Len(queue') + Len(batch') + Cardinality(Busy')
      BY <1>1, <1>2, <2>1, <3>1, <3>2, SMTT(30)
    <3> QED
      BY <1>7, <3>3
  <2> QED
    BY <1>8, <2>2, <2>3 DEF PublishEvent
<1>9. CASE TryQueueLock(p)
  <2>1. offered' = offered /\ queue' = queue
    BY <1>9 DEF TryQueueLock
  <2>2. CASE Steps(p, "try", "locked") /\ UNCHANGED count
    <3>1. Busy' = Busy
      BY <2>2, BusyChanges
    <3>2. Settled' = Settled
      BY <1>4, <2>2
    <3>3. Len(batch') = Len(batch) /\ Len(queue') = Len(queue)
      BY <1>3, <2>1
    <3>4. offered' = Settled' + Len(queue') + Len(batch') + Cardinality(Busy')
      BY <1>1, <1>2, <2>1, <3>1, <3>2, <3>3
    <3> QED
      BY <1>7, <3>4
  <2>3. CASE Steps(p, "try", "out") /\ Counts("contention", 1)
    <3>1. Cardinality(Busy') = Cardinality(Busy) - 1
      BY <2>3, BusyChanges
    <3>2. Settled' = Settled + 1
      BY <1>6, <2>3
    <3>3. Len(batch') = Len(batch) /\ Len(queue') = Len(queue)
      BY <1>3, <2>1
    <3>4. offered' = Settled' + Len(queue') + Len(batch') + Cardinality(Busy')
      BY <1>1, <1>2, <2>1, <3>1, <3>2, <3>3, SMTT(30)
    <3> QED
      BY <1>7, <3>4
  <2> QED
    BY <1>9, <2>2, <2>3 DEF TryQueueLock
<1>10. CASE LookAgain(p)
  <2>1. offered' = offered /\ queue' = queue
    BY <1>10 DEF LookAgain
  <2>2. CASE Steps(p, "locked", "room") /\ UNCHANGED count
    <3>1. Busy' = Busy
      BY <2>2, BusyChanges
    <3>2. Settled' = Settled
      BY <1>4, <2>2
    <3>3. Len(batch') = Len(batch) /\ Len(queue') = Len(queue)
      BY <1>3, <2>1
    <3>4. offered' = Settled' + Len(queue') + Len(batch') + Cardinality(Busy')
      BY <1>1, <1>2, <2>1, <3>1, <3>2, <3>3
    <3> QED
      BY <1>7, <3>4
  <2>3. CASE Steps(p, "locked", "out") /\ Counts("abandoned", 1)
    <3>1. Cardinality(Busy') = Cardinality(Busy) - 1
      BY <2>3, BusyChanges
    <3>2. Settled' = Settled + 1
      BY <1>6, <2>3
    <3>3. Len(batch') = Len(batch) /\ Len(queue') = Len(queue)
      BY <1>3, <2>1
    <3>4. offered' = Settled' + Len(queue') + Len(batch') + Cardinality(Busy')
      BY <1>1, <1>2, <2>1, <3>1, <3>2, <3>3, SMTT(30)
    <3> QED
      BY <1>7, <3>4
  <2> QED
    BY <1>10, <2>2, <2>3 DEF LookAgain
<1>11. CASE Enqueue(p)
  <2>1. offered' = offered
    BY <1>11 DEF Enqueue
  <2>2. Cardinality(Busy') = Cardinality(Busy) - 1
    BY <1>11, BusyChanges DEF Enqueue
  <2>3. CASE Counts("full", 1) /\ queue' = queue
    <3>1. Settled' = Settled + 1
      BY <1>6, <2>3
    <3>2. Len(batch') = Len(batch) /\ Len(queue') = Len(queue)
      BY <1>3, <2>3
    <3>3. offered' = Settled' + Len(queue') + Len(batch') + Cardinality(Busy')
      BY <1>1, <1>2, <2>1, <2>2, <3>1, <3>2, SMTT(30)
    <3> QED
      BY <1>7, <3>3
  <2>4. CASE queue' = Append(queue, sequence') /\ sequence' = sequence + 1 /\ UNCHANGED count
    <3>1. Len(queue') = Len(queue) + 1
      BY <2>4 DEF LogTyped
    <3>2. Settled' = Settled
      BY <1>4, <2>4
    <3>3. Len(batch') = Len(batch)
      BY <1>3
    <3>4. offered' = Settled' + Len(queue') + Len(batch') + Cardinality(Busy')
      BY <1>1, <1>2, <2>1, <2>2, <3>1, <3>2, <3>3, SMTT(30)
    <3> QED
      BY <1>7, <3>4
  <2> QED
    BY <1>11, <2>3, <2>4 DEF Enqueue
<1> QED
  BY <1>8, <1>9, <1>10, <1>11 DEF Publish

LEMMA WriterCounts ==
    ASSUME LogAssumption, LogTyped, StatusAt, NoneForgotten, WriterSteps
    PROVE  NoneForgotten'
<1>1. offered = Settled + Len(queue) + Len(batch) + Cardinality(Busy)
  BY Sums
<1>2. /\ Settled \in Nat /\ Len(queue) \in Nat /\ Len(batch) \in Nat /\ offered \in Nat
      /\ Cardinality(Busy) \in Nat
  BY Sums
<1>3. Busy' = Busy /\ offered' = offered
  BY StepsApart DEF producers, Busy
<1>4. UNCHANGED count => Settled' = Settled
  BY DEF Settled
<1>5. (NoneForgotten)' <=> offered' = Settled' + Len(queue') + Len(batch') + Cardinality(Busy')
  BY DEF NoneForgotten, Settled, Busy
<1> HIDE DEF Settled, Busy
<1>6. CASE UNCHANGED <<count, queue, batch>>
  BY <1>1, <1>2, <1>3, <1>4, <1>5, <1>6
<1>7. CASE TakeForPump
  <2>1. batch = <<>> /\ UNCHANGED count
    BY <1>7 DEF TakeForPump, StatusAt, WriterGoes
  <2>2. Len(batch) = 0
    BY <2>1
  <2>3. queue' = SubSeq(queue, Batch + 1, Len(queue)) /\ batch' = SubSeq(queue, 1, Batch)
    BY <1>7 DEF TakeForPump, TakeBatch
  <2>4. Batch \in Nat /\ Len(batch') = Batch /\ Len(queue') = Len(queue) - Batch
    BY <2>3, BatchSplits
  <2> HIDE DEF Batch
  <2> QED
    BY <1>1, <1>2, <1>3, <1>4, <1>5, <2>1, <2>2, <2>4
<1>8. CASE FormatEvent
  <2>1. batch # <<>> /\ batch' = Tail(batch) /\ Counts("written", 1) /\ queue' = queue
    BY <1>8 DEF FormatEvent, ring
  <2>2. Len(batch') = Len(batch) - 1
    BY <2>1, RestOfBatch
  <2>3. Settled' = Settled + 1
    BY <2>1, SettledGrows
  <2> QED
    BY <1>1, <1>2, <1>3, <1>5, <2>1, <2>2, <2>3
<1>9. CASE FormatFails
  <2>1. batch' = <<>> /\ Counts("abandoned", Rest) /\ queue' = queue
    BY <1>9 DEF FormatFails, ring
  <2>2. Len(batch') = 0 /\ Rest = Len(batch)
    BY <2>1 DEF Rest
  <2>3. Settled' = Settled + Rest
    BY <1>2, <2>1, <2>2, SettledGrows
  <2> QED
    BY <1>1, <1>2, <1>3, <1>5, <2>1, <2>2, <2>3
<1>10. CASE TakeToAbandon
  <2>1. queue' = SubSeq(queue, Batch + 1, Len(queue)) /\ batch' = batch /\ Counts("abandoned", Batch)
    BY <1>10 DEF TakeToAbandon, TakeBatch, hand
  <2>2. Batch \in Nat /\ Len(queue') = Len(queue) - Batch
    BY <2>1, BatchSplits
  <2> HIDE DEF Batch
  <2>3. Settled' = Settled + Batch
    BY <2>1, <2>2, SettledGrows
  <2>4. Len(batch') = Len(batch)
    BY <2>1
  <2>5. offered' = Settled' + Len(queue') + Len(batch') + Cardinality(Busy')
    BY <1>1, <1>2, <1>3, <2>2, <2>3, <2>4
  <2> QED
    BY <1>5, <2>5
<1>11. CASE BeginPump \/ WriteStartup \/ EndBatches \/ AfterBatches \/ WriteAnchor \/ Flush
  <2>1. UNCHANGED <<count, queue, batch>>
    BY <1>11 DEF BeginPump, WriteStartup, EndBatches, AfterBatches, WriteAnchor, Flush, ring, hand
  <2> QED
    BY <1>6, <2>1
<1>12. CASE WakeStopped \/ AcquireBatch \/ AcquireAbandon \/ WriteFooter \/ CloseResources
  <2>1. UNCHANGED <<count, queue, batch>>
    BY <1>12 DEF WakeStopped, AcquireBatch, AcquireAbandon, LockQueue, WriteFooter, CloseResources, ring, hand
  <2> QED
    BY <1>6, <2>1
<1>13. CASE PrepareWriter \/ InstallObserver \/ ArmWriter \/ StopUnarmedWriter
  <2>1. UNCHANGED <<count, queue, batch>>
    BY <1>13 DEF PrepareWriter, InstallObserver, ArmWriter, StopUnarmedWriter, Installs, ring, hand
  <2> QED
    BY <1>6, <2>1
<1> QED
  BY <1>7, <1>8, <1>9, <1>10, <1>11, <1>12, <1>13 DEF WriterSteps, Pump, Terminal

-----------------------------------------------------------------------------
(* The file: a whole prefix, whose end is final.                           *)

FileEnds == \A i \in DOMAIN file : file[i].kind \in {"partial", "footer"} => i = Len(file)
FileKinds == \A i \in DOMAIN file : /\ file[i].kind = "partial" => partialTail
                                    /\ file[i].kind = "footer" => footerWritten

\* One record, written or lost, on a file whose last line is whole and no footer.
LEMMA RecordKeepsFile ==
    ASSUME LogAssumption, LogTyped, FileKinds, ~partialTail, ~footerWritten,
           bytesWritten <= Limit - FooterReserve,
           NEW kind \in {"mark", "event", "footer"}, NEW seq \in Nat, NEW n \in Nat, NEW footer \in BOOLEAN,
           footer <=> kind = "footer", footerWritten' = footer,
           Writes(kind, seq, n, footer) \/ Loses(kind, seq, n, footer)
    PROVE  /\ FileKinds' /\ FileEnds'
           /\ bytesWritten' <= Limit /\ (~footer => bytesWritten' <= Limit - FooterReserve)
<1>0. /\ Limit \in Nat /\ FooterReserve \in Nat /\ bytesWritten \in Nat
      /\ Limit >= 2 * FooterReserve
  BY DEF LogAssumption, LogTyped
<1>1. /\ Entry(kind, seq) \in Lines /\ Entry(kind, seq).kind = kind
      /\ Entry("partial", seq) \in Lines /\ Entry("partial", seq).kind = "partial"
  BY EntryIsLine DEF Kinds
<1>2. \A i \in DOMAIN file : file[i].kind # "partial" /\ file[i].kind # "footer"
  BY DEF FileKinds
<1>3. ASSUME NothingOut \/ NoByteOut
      PROVE  FileKinds' /\ FileEnds' /\ bytesWritten' = bytesWritten
  <2>1. file' = file /\ bytesWritten' = bytesWritten
    BY <1>3 DEF NothingOut, NoByteOut
  <2> QED
    BY <1>2, <2>1 DEF FileKinds, FileEnds
<1>4. ASSUME NEW e \in Lines, file' = Append(file, e), e.kind = "partial" => partialTail',
             e.kind = "footer" => footer
      PROVE  FileKinds' /\ FileEnds'
  <2>1. /\ Len(file') = Len(file) + 1 /\ Len(file) \in Nat
        /\ DOMAIN file = 1..Len(file) /\ DOMAIN file' = 1..(Len(file) + 1)
        /\ \A i \in DOMAIN file : file'[i] = file[i]
        /\ file'[Len(file) + 1] = e
    BY <1>4, LineAdded
  <2>2. \A i \in DOMAIN file' : i \in DOMAIN file \/ i = Len(file) + 1
    BY <2>1, SMTT(30)
  <2>3. \A i \in DOMAIN file : file'[i].kind # "partial" /\ file'[i].kind # "footer"
    BY <1>2, <2>1
  <2>4. FileEnds'
    BY <2>1, <2>2, <2>3 DEF FileEnds
  <2>5. footer => footerWritten'
    OBVIOUS
  <2>6. FileKinds'
    BY <1>4, <2>1, <2>2, <2>3, <2>5 DEF FileKinds
  <2> QED
    BY <2>4, <2>6
<1>5. CASE Writes(kind, seq, n, footer)
  <2>1. file' = Append(file, Entry(kind, seq)) /\ bytesWritten' = bytesWritten + n /\ Fits(n, footer)
    BY <1>5 DEF Writes
  <2>2. FileKinds' /\ FileEnds'
    BY <1>1, <1>4, <2>1
  <2> QED
    BY <1>0, <2>1, <2>2, SMTT(30) DEF Fits, LogRoom
<1>6. CASE Loses(kind, seq, n, footer)
  <2>1. CASE NothingOut \/ NoByteOut
    BY <1>0, <1>3, <2>1
  <2>2. CASE Fits(n, footer) /\ AllOut(kind, seq, n)
    <3>1. file' = Append(file, Entry(kind, seq)) /\ bytesWritten' = bytesWritten + n
      BY <2>2 DEF AllOut
    <3>2. FileKinds' /\ FileEnds'
      BY <1>1, <1>4, <3>1
    <3> QED
      BY <1>0, <2>2, <3>1, <3>2 DEF Fits, LogRoom
  <2>3. CASE Fits(n, footer) /\ CutShort(seq, n)
    <3>1. /\ file' = Append(file, Entry("partial", seq)) /\ partialTail' = TRUE
          /\ bytesWritten' \in bytesWritten..(bytesWritten + n)
      BY <2>3 DEF CutShort
    <3>2. FileKinds' /\ FileEnds'
      BY <1>1, <1>4, <3>1
    <3> QED
      BY <1>0, <2>3, <3>1, <3>2 DEF Fits, LogRoom
  <2> QED
    BY <1>6, <2>1, <2>2, <2>3, LosesOutput
<1> QED
  BY <1>5, <1>6

\* The steps that write no record leave the file and what is said of its end.
Records == WriteStartup \/ FormatEvent \/ FormatFails \/ WriteAnchor \/ (WriteFooter /\ FooterDue)
LEMMA OthersLeaveFile ==
    ASSUME LogNext, ~Records
    PROVE  UNCHANGED <<partialTail, file, bytesWritten, footerWritten>>
<1> USE DEF output, lifetime
<1>1. \A p \in Producers : Publish(p) => UNCHANGED <<partialTail, file, bytesWritten, footerWritten>>
  BY StepsApart
<1>2. CASE WakeStopped \/ BeginPump \/ AcquireBatch \/ TakeForPump \/ EndBatches
  BY <1>2 DEF WakeStopped, BeginPump, AcquireBatch, LockQueue, TakeForPump, TakeBatch, EndBatches
<1>3. CASE AfterBatches \/ Flush \/ AcquireAbandon \/ TakeToAbandon \/ CloseResources
  BY <1>3 DEF AfterBatches, Flush, AcquireAbandon, LockQueue, TakeToAbandon, TakeBatch, CloseResources
<1>4. CASE PrepareWriter \/ InstallObserver \/ ArmWriter \/ StopUnarmedWriter
  BY <1>4 DEF PrepareWriter, InstallObserver, ArmWriter, StopUnarmedWriter, Installs
<1>5. CASE WriteFooter /\ ~FooterDue
  BY <1>5 DEF WriteFooter
<1> QED
  BY <1>1, <1>2, <1>3, <1>4, <1>5 DEF LogNext, Pump, Terminal, Records

\* What each record is, and that its line goes after a whole one.
LEMMA RecordsAre ==
    ASSUME LogAssumption, LogTyped, StatusAt, Consecutive, FooterLast, Records
    PROVE  \E kind \in {"mark", "event", "footer"}, seq \in Nat, n \in Nat, footer \in BOOLEAN :
               /\ ~partialTail /\ ~footerWritten /\ (footer <=> kind = "footer") /\ footerWritten' = footer
               /\ Writes(kind, seq, n, footer) \/ Loses(kind, seq, n, footer)
               /\ kind # "event" => UNCHANGED count
               /\ kind = "event" => (FormatEvent \/ FormatFails) /\ seq = Head(batch) /\ Open
               /\ footer => ~Open
<1>0. 1..FooterReserve \subseteq Nat /\ 1..EventBytes \subseteq Nat /\ 1..Limit \subseteq Nat
  <2>1. FooterReserve \in Nat /\ EventBytes \in Nat /\ Limit \in Nat
    BY DEF LogAssumption
  <2> QED
    BY <2>1
<1>1. ASSUME wpc \in {"startup", "format", "anchor"}
      PROVE  Open /\ ~partialTail /\ footerWritten = FALSE
  <2>1. Open
    BY <1>1 DEF StatusAt, Open
  <2>2. ~partialTail /\ ~footerWritten
    BY <1>1, <2>1 DEF Consecutive, FooterLast
  <2> QED
    BY <2>1, <2>2, Zenon DEF LogTyped
<1>2. CASE WriteStartup \/ WriteAnchor
  <2>1. PICK n \in Nat : Writes("mark", 0, n, FALSE) \/ Loses("mark", 0, n, FALSE)
    BY <1>0, <1>2 DEF WriteStartup, WriteAnchor
  <2>2. wpc \in {"startup", "anchor"} /\ footerWritten' = footerWritten /\ UNCHANGED count
    BY <1>2 DEF WriteStartup, WriteAnchor, WriterGoes, lifetime
  <2>3. 0 \in Nat /\ FALSE \in BOOLEAN /\ "mark" \in {"mark", "event", "footer"} /\ "mark" # "footer" /\ "mark" # "event"
    OBVIOUS
  <2>4. footerWritten' = FALSE /\ ~partialTail /\ ~footerWritten
    BY <1>1, <2>2
  <2> QED
    BY <2>1, <2>2, <2>3, <2>4, Zenon
<1>3. CASE FormatEvent \/ FormatFails
  <2>1. PICK n \in Nat : Writes("event", Head(batch), n, FALSE) \/ Loses("event", Head(batch), n, FALSE)
    BY <1>0, <1>3 DEF FormatEvent, FormatFails
  <2>2. wpc = "format" /\ footerWritten' = footerWritten /\ batch # <<>>
    BY <1>3 DEF FormatEvent, FormatFails, WriterGoes, lifetime
  <2>3. Head(batch) \in Nat
    BY <2>2, RestOfBatch
  <2>4. footerWritten' = FALSE /\ ~partialTail /\ ~footerWritten /\ Open
    BY <1>1, <2>2
  <2>5. FALSE \in BOOLEAN /\ "event" \in {"mark", "event", "footer"} /\ "event" # "footer"
    OBVIOUS
  <2> QED
    BY <1>3, <2>1, <2>3, <2>4, <2>5, Zenon
<1>4. CASE WriteFooter /\ FooterDue
  <2>1. PICK n \in Nat : Writes("footer", 0, n, TRUE) \/ Loses("footer", 0, n, TRUE)
    BY <1>0, <1>4 DEF WriteFooter
  <2>2. ~footerWritten /\ ~partialTail /\ footerWritten' = TRUE /\ UNCHANGED count
    BY <1>4 DEF WriteFooter, FooterDue
  <2>3. ~Open
    BY <1>4 DEF WriteFooter, WriterGoes, StatusAt
  <2>4. 0 \in Nat /\ TRUE \in BOOLEAN /\ "footer" \in {"mark", "event", "footer"} /\ "footer" # "event"
    OBVIOUS
  <2> QED
    BY <2>1, <2>2, <2>3, <2>4, Zenon
<1> QED
  BY <1>2, <1>3, <1>4 DEF Records

LEMMA EndKept ==
    ASSUME LogAssumption, LogTyped, StatusAt, Consecutive, FooterLast, FileEnds, LogNext
    PROVE  FooterLast' /\ FileEnds'
<1>1. FooterLast <=> /\ footerWritten => wpc \in {"close", "ended"}
                     /\ bytesWritten <= Limit /\ (~footerWritten => bytesWritten <= Limit - FooterReserve)
                     /\ FileKinds
  BY DEF FooterLast, FileKinds
<1>2. (FooterLast)' <=> /\ footerWritten' => wpc' \in {"close", "ended"}
                        /\ bytesWritten' <= Limit /\ (~footerWritten' => bytesWritten' <= Limit - FooterReserve)
                        /\ FileKinds'
  BY DEF FooterLast, FileKinds
<1>3. CASE Records
  <2>1. PICK kind \in {"mark", "event", "footer"}, seq \in Nat, n \in Nat, footer \in BOOLEAN :
               /\ ~partialTail /\ ~footerWritten /\ (footer <=> kind = "footer") /\ footerWritten' = footer
               /\ Writes(kind, seq, n, footer) \/ Loses(kind, seq, n, footer)
               /\ kind = "event" => (FormatEvent \/ FormatFails)
    BY <1>3, RecordsAre
  <2>2. FileKinds /\ bytesWritten <= Limit - FooterReserve
    BY <1>1, <2>1
  <2>3. /\ FileKinds' /\ FileEnds'
        /\ bytesWritten' <= Limit /\ (~footer => bytesWritten' <= Limit - FooterReserve)
    BY <2>1, <2>2, RecordKeepsFile
  <2>4. footerWritten' => wpc' \in {"close", "ended"}
    <3>1. CASE WriteFooter
      BY <3>1 DEF WriteFooter, WriterGoes
    <3>2. CASE ~WriteFooter
      BY <1>3, <2>1, <3>2 DEF Records, WriteStartup, FormatEvent, FormatFails, WriteAnchor, lifetime
    <3> QED
      BY <3>1, <3>2
  <2> QED
    BY <1>2, <2>1, <2>3, <2>4
<1>4. CASE ~Records
  <2>1. UNCHANGED <<partialTail, file, bytesWritten, footerWritten>>
    BY <1>4, OthersLeaveFile
  <2>2. FileKinds' /\ FileEnds'
    BY <1>1, <2>1 DEF FileKinds, FileEnds
  <2>3. ASSUME footerWritten PROVE wpc' \in {"close", "ended"}
    <3>1. wpc \in {"close", "ended"}
      BY <1>1, <2>3
    <3>2. \A p \in Producers : Publish(p) => wpc' = wpc
      BY StepsApart
    <3>3. Pump => FALSE
      BY <3>1 DEF Pump, BeginPump, WriteStartup, AcquireBatch, LockQueue, TakeForPump, FormatEvent,
         FormatFails, EndBatches, AfterBatches, WriteAnchor, Flush, WriterGoes
    <3>4. WakeStopped \/ Terminal \/ PrepareWriter => wpc' \in {"close", "ended"}
      BY <3>1 DEF WakeStopped, Terminal, AcquireAbandon, LockQueue, TakeToAbandon, WriteFooter, CloseResources,
         PrepareWriter, WriterGoes
    <3>5. InstallObserver \/ ArmWriter \/ StopUnarmedWriter => wpc' = wpc
      BY DEF InstallObserver, ArmWriter, StopUnarmedWriter, Installs
    <3> QED
      BY <3>1, <3>2, <3>3, <3>4, <3>5 DEF LogNext
  <2> QED
    BY <1>1, <1>2, <2>1, <2>2, <2>3
<1> QED
  BY <1>3, <1>4

\* The events of the file, after a record of each kind.
LEMMA EventsOfFile ==
    ASSUME LogTyped, NEW kind \in {"mark", "event", "footer"}, NEW seq \in Nat, NEW n \in Nat,
           NEW footer \in BOOLEAN
    PROVE  /\ Writes(kind, seq, n, footer) =>
                  InFile' = IF kind = "event" THEN InFile \cup {seq} ELSE InFile
           /\ Loses(kind, seq, n, footer) =>
                  \/ InFile' = InFile
                  \/ kind = "event" /\ InFile' = InFile \cup {seq} /\ (Open => status' = "Failed")
           /\ (Writes(kind, seq, n, footer) \/ Loses(kind, seq, n, footer)) /\ InOrder
                  /\ (kind = "event" => \A s \in InFile : s < seq) => InOrder'
<1>1. /\ Entry(kind, seq) \in Lines /\ Entry(kind, seq).kind = kind /\ Entry(kind, seq).seq = seq
      /\ Entry("partial", seq) \in Lines /\ Entry("partial", seq).kind = "partial"
  BY EntryIsLine DEF Kinds
<1>2. ASSUME file' = file PROVE InFile' = InFile /\ (InOrder => InOrder')
  BY <1>2 DEF InFile, IsEvent, InOrder
<1>3. ASSUME file' = Append(file, Entry(kind, seq))
      PROVE  /\ InFile' = IF kind = "event" THEN InFile \cup {seq} ELSE InFile
             /\ InOrder /\ (kind = "event" => \A s \in InFile : s < seq) => InOrder'
  <2>1. CASE kind = "event"
    BY <1>1, <1>3, <2>1, EventLineAdded, OrderAdded
  <2>2. CASE kind # "event"
    BY <1>1, <1>3, <2>2, OtherLineAdded, OrderAdded
  <2> QED
    BY <2>1, <2>2
<1>4. ASSUME file' = Append(file, Entry("partial", seq))
      PROVE  InFile' = InFile /\ (InOrder => InOrder')
  BY <1>1, <1>4, OtherLineAdded, OrderAdded
<1>5. ASSUME Writes(kind, seq, n, footer) PROVE file' = Append(file, Entry(kind, seq))
  BY <1>5 DEF Writes
<1>6. ASSUME Loses(kind, seq, n, footer)
      PROVE  \/ file' = file
             \/ file' = Append(file, Entry(kind, seq)) /\ (Open => status' = "Failed")
             \/ file' = Append(file, Entry("partial", seq))
  BY <1>6, LosesOutput DEF NothingOut, NoByteOut, AllOut, CutShort
<1>7. ASSUME Loses(kind, seq, n, footer)
      PROVE  \/ InFile' = InFile
             \/ kind = "event" /\ InFile' = InFile \cup {seq} /\ (Open => status' = "Failed")
  <2>1. CASE file' = file \/ file' = Append(file, Entry("partial", seq))
    BY <1>2, <1>4, <2>1
  <2>2. CASE file' = Append(file, Entry(kind, seq)) /\ (Open => status' = "Failed")
    BY <1>3, <2>2
  <2> QED
    BY <1>6, <1>7, <2>1, <2>2
<1>8. ASSUME Writes(kind, seq, n, footer) \/ Loses(kind, seq, n, footer), InOrder,
             kind = "event" => \A s \in InFile : s < seq
      PROVE  InOrder'
  <2>1. \/ file' = file
        \/ file' = Append(file, Entry(kind, seq))
        \/ file' = Append(file, Entry("partial", seq))
    BY <1>5, <1>6, <1>8
  <2> QED
    BY <1>2, <1>3, <1>4, <1>8, <2>1
<1> QED
  BY <1>3, <1>5, <1>7, <1>8

\* The status leaves a closed state never, and every step but a record's leaves
\* what the file has of the events.
LEMMA StatusCloses ==
    ASSUME LogAssumption, LogTyped, StatusAt, LogNext, ~Open
    PROVE  status' = status
<1>1. \A p \in Producers : Publish(p) => status' = status
  BY StepsApart
<1>2. CASE WakeStopped \/ BeginPump \/ WriteStartup \/ WriteAnchor \/ FormatEvent \/ FormatFails \/ Flush
  BY <1>2 DEF WakeStopped, BeginPump, WriteStartup, WriteAnchor, FormatEvent, FormatFails, Flush, WriterGoes,
     StatusAt, Open
<1>3. CASE AcquireBatch \/ TakeForPump \/ EndBatches \/ AfterBatches
  BY <1>3 DEF AcquireBatch, LockQueue, TakeForPump, TakeBatch, EndBatches, AfterBatches
<1>4. CASE AcquireAbandon \/ TakeToAbandon \/ CloseResources
  BY <1>4 DEF AcquireAbandon, LockQueue, TakeToAbandon, TakeBatch, CloseResources
<1>5. CASE WriteFooter
  <2>1. CASE FooterDue
    <3>1. PICK n : Writes("footer", 0, n, TRUE) \/ Loses("footer", 0, n, TRUE)
      BY <1>5, <2>1 DEF WriteFooter
    <3> QED
      BY <3>1, LosesStatus DEF Writes
  <2>2. CASE ~FooterDue
    BY <1>5, <2>2 DEF WriteFooter
  <2> QED
    BY <2>1, <2>2
<1>6. CASE PrepareWriter \/ InstallObserver \/ ArmWriter \/ StopUnarmedWriter
  BY <1>6 DEF PrepareWriter, InstallObserver, ArmWriter, StopUnarmedWriter, Installs
<1> QED
  BY <1>1, <1>2, <1>3, <1>4, <1>5, <1>6 DEF LogNext, Pump, Terminal

LEMMA WrittenStays ==
    ASSUME LogAssumption, LogTyped, LogNext, ~FormatEvent
    PROVE  count'.written = count.written
<1>1. \A what \in {"abandoned", "contention", "full"}, n \in Nat :
          Counts(what, n) => count'.written = count.written
  BY CountTyped
<1>2. ASSUME NEW p \in Producers, Publish(p) PROVE count'.written = count.written
  BY <1>1, <1>2 DEF Publish, PublishEvent, TryQueueLock, LookAgain, Enqueue
<1>3. CASE FormatFails \/ TakeToAbandon
  <2>1. Rest \in Nat /\ Batch \in Nat
    <3>1. Len(batch) \in Nat /\ Len(queue) \in Nat /\ BatchCount \in Nat
      BY SMTT(30) DEF LogTyped, LogAssumption
    <3> QED
      BY <3>1 DEF Rest, Batch
  <2> QED
    BY <1>1, <1>3, <2>1 DEF FormatFails, TakeToAbandon
<1>4. CASE WakeStopped \/ BeginPump \/ WriteStartup \/ WriteAnchor \/ Flush
  BY <1>4 DEF WakeStopped, BeginPump, WriteStartup, WriteAnchor, Flush
<1>5. CASE AcquireBatch \/ TakeForPump \/ EndBatches \/ AfterBatches
  BY <1>5 DEF AcquireBatch, LockQueue, TakeForPump, TakeBatch, EndBatches, AfterBatches
<1>6. CASE AcquireAbandon \/ WriteFooter \/ CloseResources
  BY <1>6 DEF AcquireAbandon, LockQueue, WriteFooter, CloseResources
<1>7. CASE PrepareWriter \/ InstallObserver \/ ArmWriter \/ StopUnarmedWriter
  BY <1>7 DEF PrepareWriter, InstallObserver, ArmWriter, StopUnarmedWriter, Installs
<1> QED
  BY <1>2, <1>3, <1>4, <1>5, <1>6, <1>7 DEF LogNext, Pump, Terminal

\* The events of the file are those counted, or one more that was reported failed.
PrefixCounted == \/ InFile = 1..count.written
                 \/ status = "Failed" /\ InFile = 1..(count.written + 1)

LEMMA PrefixKept ==
    ASSUME LogAssumption, LogTyped, StatusAt, Consecutive, FooterLast, PrefixCounted, InOrder, LogNext
    PROVE  /\ PrefixCounted' /\ InOrder'
           /\ Open' /\ FormatEvent => InFile' = 1..count'.written
           /\ Open' /\ ~FormatEvent => InFile' = InFile
<1>0. count.written \in Nat
  BY DEF LogTyped
<1>1. CASE Records
  <2>1. PICK kind \in {"mark", "event", "footer"}, seq \in Nat, n \in Nat, footer \in BOOLEAN :
               /\ (footer <=> kind = "footer")
               /\ Writes(kind, seq, n, footer) \/ Loses(kind, seq, n, footer)
               /\ kind # "event" => UNCHANGED count
               /\ kind = "event" => (FormatEvent \/ FormatFails) /\ seq = Head(batch) /\ Open
               /\ footer => ~Open
    BY <1>1, RecordsAre
  <2>2. CASE kind # "event"
    <3>1. InFile' = InFile /\ InOrder' /\ count' = count
      BY <2>1, <2>2, EventsOfFile
    <3>2. status = "Failed" => status' = "Failed"
      BY StatusCloses DEF Open
    <3>3. ASSUME FormatEvent PROVE FALSE
      BY <3>3, <2>1, <2>2, <1>0, CountTyped, SMTT(30) DEF FormatEvent
    <3> QED
      BY <3>1, <3>2, <3>3 DEF PrefixCounted
  <2>3. CASE kind = "event"
    <3>1. batch # <<>> /\ Open /\ seq = Head(batch)
      BY <2>1, <2>3 DEF FormatEvent, FormatFails
    <3>2. Len(batch) \in Nat \ {0} /\ seq = batch[1]
      BY <3>1, RestOfBatch
    <3>3. seq = count.written + 1 /\ InFile = 1..count.written
      BY <3>1, <3>2 DEF Consecutive
    <3>4. \A s \in InFile : s < seq
      BY <1>0, <3>3
    <3>5. InOrder'
      BY <2>1, <3>4, EventsOfFile
    <3>6. InFile \cup {seq} = 1..(count.written + 1)
      BY <1>0, <3>3
    <3>7. CASE FormatEvent
      <4>1. PICK m \in 1..EventBytes : Writes("event", seq, m, FALSE)
        BY <3>1, <3>7 DEF FormatEvent
      <4>2. m \in Nat
        BY DEF LogAssumption
      <4>3. InFile' = InFile \cup {seq}
        BY <2>1, <4>1, <4>2, EventsOfFile
      <4>4. count'.written = count.written + 1
        BY <3>7, CountTyped DEF FormatEvent
      <4> QED
        BY <3>5, <3>6, <3>7, <4>3, <4>4 DEF PrefixCounted
    <3>8. CASE FormatFails /\ ~FormatEvent
      <4>1. PICK m \in 1..EventBytes : Loses("event", seq, m, FALSE)
        BY <3>1, <3>8 DEF FormatFails
      <4>2. m \in Nat
        BY DEF LogAssumption
      <4>3. \/ InFile' = InFile
            \/ InFile' = InFile \cup {seq} /\ status' = "Failed"
        BY <3>1, <2>1, <4>1, <4>2, EventsOfFile
      <4>4. count'.written = count.written
        BY <3>8, WrittenStays
      <4>5. ~Open'
        BY <3>1, <4>1, LosesStatus DEF Open, Ending
      <4> QED
        BY <3>3, <3>5, <3>6, <3>8, <4>3, <4>4, <4>5 DEF PrefixCounted
    <3> QED
      BY <2>1, <2>3, <3>7, <3>8
  <2> QED
    BY <2>2, <2>3
<1>2. CASE ~Records
  <2>1. file' = file /\ ~FormatEvent
    BY <1>2, OthersLeaveFile DEF Records
  <2>2. InFile' = InFile /\ InOrder'
    BY <2>1 DEF InFile, IsEvent, InOrder
  <2>3. count'.written = count.written
    BY <2>1, WrittenStays
  <2>4. status = "Failed" => status' = "Failed"
    BY StatusCloses DEF Open
  <2> QED
    BY <2>1, <2>2, <2>3, <2>4 DEF PrefixCounted
<1> QED
  BY <1>1, <1>2

LEMMA ConsecutiveKept ==
    ASSUME LogAssumption, LogTyped, LockHeld, StatusAt, Consecutive, FooterLast, PrefixCounted, InOrder, LogNext
    PROVE  Consecutive'
<1>1. SUFFICES ASSUME Open'
               PROVE  /\ InFile' = 1..count'.written
                      /\ \A i \in 1..Len(batch') : batch'[i] = count'.written + i
                      /\ \A i \in 1..Len(queue') : queue'[i] = count'.written + Len(batch') + i
                      /\ sequence' = count'.written + Len(batch') + Len(queue')
                      /\ ~partialTail'
  BY DEF Consecutive
<1>2. Open
  BY <1>1, StatusCloses DEF Open
<1>3. /\ InFile = 1..count.written
      /\ \A i \in 1..Len(batch) : batch[i] = count.written + i
      /\ \A i \in 1..Len(queue) : queue[i] = count.written + Len(batch) + i
      /\ sequence = count.written + Len(batch) + Len(queue)
      /\ ~partialTail
  BY <1>2 DEF Consecutive
<1>4. count.written \in Nat /\ Len(queue) \in Nat /\ Len(batch) \in Nat /\ sequence \in Nat
  BY SMTT(30) DEF LogTyped
<1>5. InFile' = 1..count'.written
  <2>1. CASE FormatEvent
    BY <1>1, <2>1, PrefixKept
  <2>2. CASE ~FormatEvent
    BY <1>1, <1>3, <2>2, PrefixKept, WrittenStays
  <2> QED
    BY <2>1, <2>2
<1>6. ~partialTail'
  <2>1. CASE Records
    <3>1. PICK kind \in {"mark", "event", "footer"}, seq \in Nat, n \in Nat, footer \in BOOLEAN :
               /\ Writes(kind, seq, n, footer) \/ Loses(kind, seq, n, footer)
               /\ footer => ~Open
      BY <2>1, RecordsAre
    <3>2. CASE Writes(kind, seq, n, footer)
      BY <1>3, <3>2 DEF Writes
    <3>3. CASE Loses(kind, seq, n, footer)
      <4>1. status' \in Ending
        BY <1>2, <3>1, <3>3, LosesStatus
      <4> QED
        BY <1>1, <4>1 DEF Open, Ending
    <3> QED
      BY <3>1, <3>2, <3>3
  <2>2. CASE ~Records
    BY <1>3, <2>2, OthersLeaveFile
  <2> QED
    BY <2>1, <2>2
<1>7. CASE FormatEvent
  <2>1. batch # <<>> /\ batch' = Tail(batch) /\ queue' = queue /\ sequence' = sequence
    BY <1>7 DEF FormatEvent, ring
  <2>2. count'.written = count.written + 1
    BY <1>7, CountTyped DEF FormatEvent
  <2>3. /\ Len(batch) \in Nat \ {0} /\ Len(batch') = Len(batch) - 1
        /\ \A i \in 1..(Len(batch) - 1) : batch'[i] = batch[i + 1]
    BY <2>1, RestOfBatch
  <2>4. \A i \in 1..Len(batch') : batch'[i] = count'.written + i
    <3>1. TAKE i \in 1..Len(batch')
    <3>2. i \in 1..(Len(batch) - 1) /\ i + 1 \in 1..Len(batch)
      BY <1>4, <2>3
    <3>3. batch'[i] = count.written + (i + 1)
      BY <1>3, <2>3, <3>2
    <3>4. count.written + (i + 1) = (count.written + 1) + i
      <4>1. \A w, k \in Nat : w + (k + 1) = (w + 1) + k
        OBVIOUS
      <4>2. i \in Nat /\ count.written \in Nat
        BY <1>4, <3>2
      <4> QED
        BY <4>1, <4>2, Zenon
    <3> QED
      BY <2>2, <3>3, <3>4
  <2>5. \A i \in 1..Len(queue') : queue'[i] = count'.written + Len(batch') + i
    <3>1. TAKE i \in 1..Len(queue')
    <3>2. queue'[i] = count.written + Len(batch) + i /\ i \in Nat
      BY <1>3, <1>4, <2>1
    <3> QED
      BY <1>4, <2>2, <2>3, <3>2, SMTT(30)
  <2>6. sequence' = count'.written + Len(batch') + Len(queue')
    BY <1>3, <1>4, <2>1, <2>2, <2>3, SMTT(30)
  <2> QED
    BY <1>5, <1>6, <2>4, <2>5, <2>6
<1>8. CASE ~FormatEvent /\ UNCHANGED <<batch, queue, sequence>>
  BY <1>3, <1>5, <1>6, <1>8, WrittenStays
<1>9. CASE TakeForPump
  <2>1. batch = <<>> /\ ~FormatEvent /\ sequence' = sequence
    BY <1>9 DEF TakeForPump, TakeBatch, StatusAt, WriterGoes, FormatEvent
  <2>2. Len(batch) = 0 /\ count'.written = count.written
    BY <2>1, WrittenStays
  <2>3. queue' = SubSeq(queue, Batch + 1, Len(queue)) /\ batch' = SubSeq(queue, 1, Batch)
    BY <1>9 DEF TakeForPump, TakeBatch
  <2>4. /\ Batch \in 0..Len(queue) /\ Len(batch') = Batch /\ Len(queue') = Len(queue) - Batch
        /\ \A i \in 1..Batch : batch'[i] = queue[i]
        /\ \A i \in 1..(Len(queue) - Batch) : queue'[i] = queue[Batch + i]
    BY <2>3, BatchSplits
  <2> HIDE DEF Batch
  <2>5. \A i \in 1..Len(batch') : batch'[i] = count'.written + i
    <3>1. TAKE i \in 1..Len(batch')
    <3>2. i \in 1..Batch /\ i \in 1..Len(queue)
      BY <1>4, <2>4
    <3>3. batch'[i] = count.written + 0 + i
      BY <1>3, <2>2, <2>4, <3>2
    <3> QED
      BY <1>4, <2>2, <3>2, <3>3
  <2>6. \A i \in 1..Len(queue') : queue'[i] = count'.written + Len(batch') + i
    <3>1. TAKE i \in 1..Len(queue')
    <3>2. i \in 1..(Len(queue) - Batch) /\ Batch + i \in 1..Len(queue)
      BY <1>4, <2>4, SMTT(30)
    <3>3. queue'[i] = queue[Batch + i]
      BY <2>4, <3>2
    <3>4. queue'[i] = count.written + 0 + (Batch + i)
      BY <1>3, <2>2, <3>2, <3>3
    <3> QED
      BY <1>4, <2>2, <2>4, <3>2, <3>4, SMTT(30)
  <2>7. sequence' = count'.written + Len(batch') + Len(queue')
    BY <1>3, <1>4, <2>1, <2>2, <2>4, SMTT(30)
  <2> QED
    BY <1>5, <1>6, <2>5, <2>6, <2>7
<1>10. CASE FormatFails /\ ~FormatEvent
  <2>1. PICK n \in 1..EventBytes : Loses("event", Head(batch), n, FALSE)
    BY <1>10 DEF FormatFails
  <2>2. status' \in Ending
    BY <1>2, <2>1, LosesStatus
  <2> QED
    BY <1>1, <2>2 DEF Open, Ending
<1>11. CASE TakeToAbandon
  BY <1>2, <1>11 DEF TakeToAbandon, WriterGoes, StatusAt
<1>12. CASE \E p \in Producers : Enqueue(p)
  <2>1. PICK p \in Producers : Enqueue(p)
    BY <1>12
  <2>2. UNCHANGED <<batch, wpc, file>>
    BY <2>1 DEF Enqueue, hand, output
  <2>3. CASE UNCHANGED <<queue, sequence>>
    BY <1>7, <1>8, <2>2, <2>3
  <2>4. CASE sequence' = sequence + 1 /\ queue' = Append(queue, sequence') /\ UNCHANGED count
    <3>1. queue \in Seq(Nat) /\ sequence' \in Nat
      <4>1. queue \in Seq(Nat) /\ sequence \in Nat
        BY Zenon DEF LogTyped
      <4>2. sequence' = sequence + 1
        BY <2>4
      <4> QED
        BY <4>1, <4>2
    <3>2. /\ Len(queue') = Len(queue) + 1 /\ queue'[Len(queue) + 1] = sequence'
          /\ \A i \in 1..Len(queue) : queue'[i] = queue[i]
      <4>1. queue' = Append(queue, sequence')
        BY <2>4
      <4>2. /\ Len(Append(queue, sequence')) = Len(queue) + 1
            /\ Append(queue, sequence')[Len(queue) + 1] = sequence'
            /\ \A i \in 1..Len(queue) : Append(queue, sequence')[i] = queue[i]
        BY <3>1, AppendKeeps, Zenon
      <4> QED
        BY <4>1, <4>2, Zenon
    <3>5. count'.written = count.written /\ Len(batch') = Len(batch) /\ sequence' = sequence + 1
      BY <2>2, <2>4
    <3>6. sequence + 1 = count.written + Len(batch) + (Len(queue) + 1)
      <4>1. PICK w \in Nat : w = count.written
        BY <1>4
      <4>2. sequence = w + Len(batch) + Len(queue)
        BY <1>3, <4>1
      <4>3. Len(batch) \in Nat /\ Len(queue) \in Nat /\ sequence \in Nat
        BY <1>4
      <4>4. sequence + 1 = w + Len(batch) + (Len(queue) + 1)
        BY <4>2, <4>3
      <4> QED
        BY <4>1, <4>4
    <3>3. \A i \in 1..Len(queue') : queue'[i] = count'.written + Len(batch') + i
      <4>1. TAKE i \in 1..Len(queue')
      <4>2. i \in 1..Len(queue) \/ i = Len(queue) + 1
        BY <1>4, <3>2
      <4>3. CASE i \in 1..Len(queue)
        <5>1. queue'[i] = count.written + Len(batch) + i
          BY <1>3, <3>2, <4>3
        <5> QED
          BY <3>5, <5>1
      <4>4. CASE i = Len(queue) + 1
        <5>1. queue'[i] = sequence + 1
          BY <3>2, <3>5, <4>4
        <5> QED
          BY <3>5, <3>6, <4>4, <5>1
      <4> QED
        BY <4>2, <4>3, <4>4
    <3>4. sequence' = count'.written + Len(batch') + Len(queue')
      <4>1. Len(queue') = Len(queue) + 1
        BY <3>2
      <4> QED
        BY <3>5, <3>6, <4>1, Zenon
    <3> QED
      BY <1>3, <1>5, <1>6, <2>2, <2>4, <3>3, <3>4
  <2> QED
    BY <2>1, <2>3, <2>4 DEF Enqueue
<1>13. ASSUME NEW p \in Producers, PublishEvent(p) \/ TryQueueLock(p) \/ LookAgain(p)
       PROVE  UNCHANGED <<batch, queue, sequence>>
  BY <1>13 DEF PublishEvent, TryQueueLock, LookAgain, ring, hand
<1>14. CASE WakeStopped \/ BeginPump \/ WriteStartup \/ AcquireBatch \/ EndBatches \/ AfterBatches \/ WriteAnchor \/ Flush
  <2>1. UNCHANGED <<batch, queue, sequence>>
    BY <1>14 DEF WakeStopped, BeginPump, WriteStartup, AcquireBatch, LockQueue, EndBatches, AfterBatches,
       WriteAnchor, Flush, ring, hand
  <2> QED
    BY <1>7, <1>8, <2>1
<1>15. CASE AcquireAbandon \/ WriteFooter \/ CloseResources
  <2>1. UNCHANGED <<batch, queue, sequence>>
    BY <1>15 DEF AcquireAbandon, LockQueue, WriteFooter, CloseResources, ring, hand
  <2> QED
    BY <1>7, <1>8, <2>1
<1>16. CASE PrepareWriter \/ InstallObserver \/ ArmWriter \/ StopUnarmedWriter
  <2>1. UNCHANGED <<batch, queue, sequence>>
    BY <1>16 DEF PrepareWriter, InstallObserver, ArmWriter, StopUnarmedWriter, Installs, ring, hand
  <2> QED
    BY <1>7, <1>8, <2>1
<1>17. ASSUME NEW p \in Producers, Publish(p)
       PROVE  Enqueue(p) \/ UNCHANGED <<batch, queue, sequence>>
  BY <1>13, <1>17 DEF Publish
<1> QED
  BY <1>7, <1>8, <1>9, <1>10, <1>11, <1>12, <1>14, <1>15, <1>16, <1>17 DEF LogNext, Pump, Terminal

-----------------------------------------------------------------------------
LEMMA PrefixParts ==
    WholePrefix <=> PrefixCounted /\ InOrder /\ FileEnds /\ bytesWritten <= Limit
BY DEF WholePrefix, PrefixCounted, InOrder, FileEnds

LEMMA LogStarts ==
    ASSUME LogAssumption, LogInit
    PROVE  LogInv
<1> USE DEF LogInit
<1>1. LogTyped
  <2>1. queue \in Seq(Nat) /\ batch \in Seq(Nat) /\ file \in Seq([kind : Kinds, seq : Nat])
    OBVIOUS
  <2>2. /\ armed \in BOOLEAN /\ stop \in BOOLEAN /\ started \in BOOLEAN /\ footerWritten \in BOOLEAN
        /\ closed \in BOOLEAN /\ partialTail \in BOOLEAN
    BY Zenon
  <2>3. count \in [written : Nat, abandoned : Nat, contention : Nat, full : Nat]
    OBVIOUS
  <2>4. ppc \in [Producers -> {"out", "try", "locked", "room"}]
    OBVIOUS
  <2> QED
    BY <2>1, <2>2, <2>3, <2>4 DEF LogTyped, Places
<1>2. LockHeld
  BY DEF LockHeld, LogAssumption
<1>3. StatusAt
  BY DEF StatusAt, Open
<1>4. InFile = {}
  BY DEF InFile
<1>5. count.written = 0 /\ Len(batch) = 0 /\ Len(queue) = 0 /\ 1..0 = {} /\ DOMAIN file = {}
  OBVIOUS
<1>6. Consecutive
  BY <1>4, <1>5 DEF Consecutive
<1>7. FooterLast
  BY <1>5 DEF FooterLast, LogAssumption
<1>8. QueueShut
  BY DEF QueueShut
<1>9. NoneForgotten
  <2>1. {p \in Producers : ppc[p] # "out"} = {}
    OBVIOUS
  <2>2. Cardinality({p \in Producers : ppc[p] # "out"}) = 0
    BY <2>1, FS_EmptySet
  <2>3. count.written = 0 /\ count.abandoned = 0 /\ count.contention = 0 /\ count.full = 0 /\ offered = 0
    OBVIOUS
  <2> QED
    BY <1>5, <2>2, <2>3 DEF NoneForgotten
<1>10. WholePrefix
  BY <1>4, <1>5 DEF WholePrefix, LogAssumption
<1> QED
  BY <1>1, <1>2, <1>3, <1>6, <1>7, <1>8, <1>9, <1>10 DEF LogInv

LEMMA LogInvKept ==
    ASSUME LogAssumption, LogInv, [LogNext]_logVars
    PROVE  LogInv'
<1> USE DEF LogInv
<1>1. CASE LogNext
  <2>1. LogTyped'
    BY <1>1, PublishTyped, PumpTyped, EndTyped DEF LogNext
  <2>2. NoneForgotten'
    BY <1>1, <2>1, PublishedCounted, WriterCounts DEF LogNext, WriterSteps
  <2>3. LockHeld' /\ StatusAt' /\ QueueShut'
    BY <1>1, LockKept, StatusKept, ShutKept
  <2>4. FooterLast' /\ FileEnds'
    BY <1>1, PrefixParts, EndKept
  <2>5. PrefixCounted' /\ InOrder'
    BY <1>1, PrefixParts, PrefixKept
  <2>6. Consecutive'
    BY <1>1, PrefixParts, ConsecutiveKept
  <2>7. (WholePrefix)' <=> PrefixCounted' /\ InOrder' /\ FileEnds' /\ bytesWritten' <= Limit
    BY DEF WholePrefix, PrefixCounted, InOrder, FileEnds
  <2>8. WholePrefix'
    BY <2>4, <2>5, <2>7 DEF FooterLast
  <2> QED
    BY <2>1, <2>2, <2>3, <2>4, <2>6, <2>8
<1>2. CASE UNCHANGED logVars
  <2>1. UNCHANGED <<status, installed, armed, stop, lock, queue, sequence, count, wpc, batch, taken, started,
                    footerWritten, closed, partialTail, file, bytesWritten, ppc, offered>>
    BY <1>2 DEF logVars, signals, ring, hand, lifetime, output, producers
  <2>2. LogTyped'
    BY <2>1 DEF LogTyped
  <2>3. LockHeld' /\ StatusAt' /\ QueueShut'
    BY <2>1 DEF LockHeld, StatusAt, Open, QueueShut
  <2>4. Consecutive' /\ FooterLast'
    BY <2>1 DEF Consecutive, Open, InFile, IsEvent, FooterLast
  <2>5. (NoneForgotten)' /\ (WholePrefix)'
    BY <2>1 DEF NoneForgotten, WholePrefix, InFile, IsEvent
  <2> QED
    BY <2>2, <2>3, <2>4, <2>5
<1> QED
  BY <1>1, <1>2

LEMMA LogInvTells ==
    ASSUME LogAssumption, LogInv
    PROVE  EventsAccounted
<1>1. ASSUME wpc \in {"footer", "close", "ended"}
      PROVE  queue = <<>>
  BY <1>1 DEF LogInv, QueueShut
<1>2. ASSUME wpc = "footer", NEW n \in 1..FooterReserve
      PROVE  Fits(n, TRUE)
  <2>1. ~footerWritten
    BY <1>2 DEF LogInv, FooterLast
  <2>2. bytesWritten <= Limit - FooterReserve /\ bytesWritten \in Nat
    BY <2>1 DEF LogInv, FooterLast, LogTyped
  <2>3. Limit \in Nat /\ FooterReserve \in Nat /\ Limit >= 2 * FooterReserve
    BY DEF LogAssumption
  <2> QED
    BY <2>2, <2>3 DEF Fits, LogRoom
<1> QED
  BY <1>1, <1>2 DEF LogInv, EventsAccounted, ClosedForGood

\* The inductive invariant of the event log: the lines of the file, the batch in
\* hand and the queue are one sequence as long as the log is open, each place of
\* the writer has its status, and a footer finds its room (Publish, Pump, Terminal).
THEOREM LogInvariant == LogSpec => []LogInv
<1>1. LogInit => LogInv
  BY LogAssumption, LogStarts
<1>2. LogInv /\ [LogNext]_logVars => LogInv'
  BY LogAssumption, LogInvKept
<1> QED
  BY <1>1, <1>2, PTL DEF LogSpec

\* No event a wrapper offered is forgotten or counted twice, the file holds a
\* whole prefix of them within its limit, and a closed log stays closed, whatever
\* writes fail and however producers and writer interleave.
THEOREM LogAccountsForEvents == LogSpec => []EventsAccounted
<1>1. LogInv => EventsAccounted
  BY LogAssumption, LogInvTells
<1> QED
  BY <1>1, LogInvariant, PTL
=============================================================================
