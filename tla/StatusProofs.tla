---------------------------- MODULE StatusProofs -----------------------------
(***************************************************************************)
(* The two status blocks and their readers, for blocks of any length, any  *)
(* payloads, any number of attempts of a read and any number of records.   *)
(*                                                                         *)
(* RecoveryStatus implements AtomicStatus: the sequence word only grows    *)
(* and is odd exactly while the owner writes, so a reader that finds it    *)
(* even and unchanged around its loads ran beside no store at all, and     *)
(* holds the payload published last.                                       *)
(*                                                                         *)
(* StatusBlock keeps SnapshotIsHonest: an even sequence names one          *)
(* publication, so two reads of a region under the same number saw the     *)
(* same words, and nothing was published between them.  That makes the     *)
(* owner's region of a snapshot the one that was current while the         *)
(* worker's was read, and what both writers keep true of their             *)
(* publications is then true of the snapshot.                              *)
(***************************************************************************)
EXTENDS RecoveryStatus, StatusBlock, SequenceTheorems, TLAPS

-----------------------------------------------------------------------------
(* The recovery status block.                                              *)

Payloads == [1..Words -> Contents]
OwnerPlaces  == {"start", "header", "words", "ready", "open"}
ReaderPlaces == {"idle", "ready", "header", "payload"}

TypeOK ==
    /\ headerReady \in 0..2 /\ header \in {"blank", "filled"}
    /\ ownerSequence \in Nat /\ payload \in Payloads
    /\ opc \in OwnerPlaces /\ todo \in 1..Words + 1 /\ writing \in Valid
    /\ rpc \in ReaderPlaces /\ attempt \in 1..Attempts /\ published \in BOOLEAN
    /\ highest \in Nat /\ before \in Nat /\ at \in 1..Words + 1 /\ copy \in Payloads
    /\ history \in Seq(Valid)

\* The header is complete before the owner first says so, and stays.
HeaderFirst ==
    /\ opc = "start" => headerReady = 0
    /\ opc = "header" => headerReady = 2
    /\ opc = "ready" => headerReady = 2
    /\ opc = "words" => headerReady # 0
    /\ opc = "open" <=> headerReady = 1 /\ opc # "words"
    /\ opc \in {"words", "ready", "open"} => header = "filled"

\* The sequence is odd while payload words are stored; between publications the
\* block holds the payload published last.
OwnerCoherent ==
    /\ opc \in {"start", "header"} => ownerSequence = 0
    /\ opc = "words" => /\ Odd(ownerSequence)
                        /\ headerReady = 1 => ownerSequence > 2
                        /\ \A i \in 1..Words : i < todo => payload[i] = writing[i]
    /\ opc \in {"ready", "open"} => /\ ~Odd(ownerSequence) /\ ownerSequence # 0
                                    /\ history # <<>> /\ payload = history[Len(history)]

\* What a reader has in hand is no later than the block, and what it copied is
\* what the block holds as long as the sequence it started from stands.
ReaderCoherent ==
    /\ highest <= ownerSequence
    /\ published \/ rpc \in {"header", "payload"} => headerReady = 1
    /\ rpc = "payload" =>
          /\ ~Odd(before) /\ before <= ownerSequence
          /\ Unchanged => \A i \in 1..Words : i < at => copy[i] = payload[i]

\* A window is open exactly while a read is, and holds what is current.
WindowOpen ==
    /\ rpc = "idle" => window = {}
    /\ rpc # "idle" => Current(history) \in window

IInv == TypeOK /\ HeaderFirst /\ OwnerCoherent /\ ReaderCoherent /\ WindowOpen
-----------------------------------------------------------------------------
\* OddEven alternates.
LEMMA OddEven == ~Odd(0) /\ Odd(1) /\ \A n \in Nat : Odd(n + 1) <=> ~Odd(n)
BY DEF Odd

\* Every step keeps the types.
LEMMA TypeStep == TypeOK /\ [Next]_vars => TypeOK'
<1> SUFFICES ASSUME TypeOK, [Next]_vars PROVE TypeOK'
  OBVIOUS
<1> USE StatusAssumption DEF TypeOK, OwnerPlaces, ReaderPlaces, Payloads, block, owner, reader
<1>1. CASE ClaimHeader
  BY <1>1 DEF ClaimHeader, OwnerGoes
<1>2. CASE FillHeader
  BY <1>2 DEF FillHeader, OwnerGoes
<1>3. CASE PublishRecoveryStatus
  BY <1>3 DEF PublishRecoveryStatus, OwnerGoes
<1>4. CASE StorePayload
  <2>1. todo \in 1..Words /\ writing[todo] \in Contents
    BY <1>4 DEF StorePayload
  <2>2. payload' \in [1..Words -> Contents]
    BY <2>1, <1>4 DEF StorePayload
  <2> QED
    BY <2>1, <2>2, <1>4 DEF StorePayload
<1>5. CASE EndPublication
  <2>1. history' \in Seq(Valid)
    BY <1>5, AppendProperties DEF EndPublication
  <2> QED
    BY <2>1, <1>5 DEF EndPublication
<1>6. CASE PublishHeader
  BY <1>6 DEF PublishHeader, OwnerGoes
<1>7. CASE BeginRead
  <2>1. published' \in BOOLEAN
    BY <1>7, Zenon DEF BeginRead
  <2> QED
    BY <2>1, <1>7 DEF BeginRead
<1>8. CASE ReadReady
  BY <1>8 DEF ReadReady, Retries, Ends
<1>9. CASE ReadHeader
  <2>1. published' \in BOOLEAN
    BY <1>9, Zenon DEF ReadHeader
  <2> QED
    BY <2>1, <1>9 DEF ReadHeader, Retries, Ends
<1>10. CASE ReadWord
  <2>1. at \in 1..Words /\ payload[at] \in Contents
    BY <1>10 DEF ReadWord
  <2> QED
    BY <2>1, <1>10 DEF ReadWord
<1>11. CASE ReadAfter
  BY <1>11 DEF ReadAfter, Retries, Ends
<1>12. CASE ReadFails
  BY <1>12 DEF ReadFails, Ends
<1>13. CASE UNCHANGED vars
  BY <1>13 DEF vars
<1> QED
  BY <1>1, <1>2, <1>3, <1>4, <1>5, <1>6, <1>7, <1>8, <1>9, <1>10, <1>11, <1>12, <1>13
     DEF Next, Owner, Reader

\* The reader changes nothing of the block or of the owner.
LEMMA ReaderOnlyReads == Reader => UNCHANGED <<block, owner, history>>
BY DEF Reader, BeginRead, ReadReady, ReadHeader, ReadWord, ReadAfter, ReadFails, block, owner

\* The owner changes nothing of the reader, and of its window only what is current.
LEMMA OwnerOnlyWrites ==
  Owner => UNCHANGED reader /\ (UNCHANGED <<history, window>> \/ EndPublication)
BY DEF Owner, ClaimHeader, FillHeader, PublishRecoveryStatus, StorePayload, EndPublication,
       PublishHeader, reader

\* The header goes through its three states once.
LEMMA HeaderStep == TypeOK /\ HeaderFirst /\ [Next]_vars => HeaderFirst'
<1> SUFFICES ASSUME TypeOK, HeaderFirst, [Next]_vars PROVE HeaderFirst'
  OBVIOUS
<1> USE DEF HeaderFirst, TypeOK, OwnerPlaces
<1>1. CASE UNCHANGED vars
  BY <1>1 DEF vars, block, owner
<1>2. CASE Reader
  BY <1>2, ReaderOnlyReads DEF block, owner
<1>3. CASE Owner
  <2>1. CASE ClaimHeader \/ FillHeader \/ PublishHeader
    BY <2>1 DEF ClaimHeader, FillHeader, PublishHeader, OwnerGoes
  <2>2. CASE PublishRecoveryStatus \/ StorePayload
    BY <2>2 DEF PublishRecoveryStatus, StorePayload, OwnerGoes
  <2>3. CASE EndPublication
    BY <2>3 DEF EndPublication, Advance
  <2> QED
    BY <1>3, <2>1, <2>2, <2>3 DEF Owner
<1> QED
  BY <1>1, <1>2, <1>3 DEF Next

\* What is stored word by word is what is then called published.
LEMMA OwnerStep ==
  TypeOK /\ HeaderFirst /\ OwnerCoherent /\ [Next]_vars => OwnerCoherent'
<1> SUFFICES ASSUME TypeOK, HeaderFirst, OwnerCoherent, [Next]_vars PROVE OwnerCoherent'
  OBVIOUS
<1>1. CASE UNCHANGED vars \/ Reader
  BY <1>1, ReaderOnlyReads DEF OwnerCoherent, vars, block, owner, Odd
<1>2. CASE ClaimHeader
  BY <1>2 DEF ClaimHeader, OwnerGoes, OwnerCoherent
<1>3. CASE FillHeader
  BY <1>3, OddEven DEF FillHeader, OwnerGoes, OwnerCoherent, HeaderFirst, TypeOK
<1>4. CASE PublishRecoveryStatus
  BY <1>4, OddEven DEF PublishRecoveryStatus, OwnerGoes, OwnerCoherent, TypeOK
<1>5. CASE StorePayload
  <2>1. \A i \in 1..Words : i < todo + 1 => payload'[i] = writing[i]
    BY <1>5 DEF StorePayload, OwnerCoherent, TypeOK, Payloads
  <2> QED
    BY <2>1, <1>5 DEF StorePayload, OwnerCoherent, Odd
<1>6. CASE EndPublication
  <2> opc = "words" /\ todo = Words + 1
    BY <1>6 DEF EndPublication, Advance
  <2>1. \A i \in 1..Words : payload[i] = writing[i]
    BY StatusAssumption DEF OwnerCoherent
  <2>2. payload = writing
    BY <2>1, StatusAssumption DEF TypeOK, Payloads
  <2>3. history' # <<>> /\ history'[Len(history')] = writing
    BY <1>6, AppendProperties DEF EndPublication, TypeOK
  <2>4. ~Odd(ownerSequence') /\ ownerSequence' # 0
    BY <1>6, OddEven DEF EndPublication, Advance, OwnerCoherent, TypeOK
  <2> QED
    BY <2>2, <2>3, <2>4, <1>6 DEF EndPublication, OwnerCoherent
<1>7. CASE PublishHeader
  BY <1>7 DEF PublishHeader, OwnerGoes, OwnerCoherent, Odd
<1> QED
  BY <1>1, <1>2, <1>3, <1>4, <1>5, <1>6, <1>7 DEF Next, Owner

\* The owner never moves the sequence back, never takes the header away, and
\* stores a word only while the sequence is odd.
LEMMA OwnerAdvances ==
  ASSUME TypeOK, HeaderFirst, OwnerCoherent, Owner
  PROVE  /\ ownerSequence' >= ownerSequence
         /\ headerReady = 1 => headerReady' = 1
         /\ payload' # payload => Odd(ownerSequence) /\ ownerSequence' = ownerSequence
BY DEF Owner, ClaimHeader, FillHeader, PublishRecoveryStatus, StorePayload, EndPublication,
       PublishHeader, OwnerGoes, OwnerCoherent, HeaderFirst, TypeOK

\* A copy stays true as long as the sequence stands still.
LEMMA ReaderStep ==
  TypeOK /\ HeaderFirst /\ OwnerCoherent /\ ReaderCoherent /\ [Next]_vars => ReaderCoherent'
<1> SUFFICES ASSUME TypeOK, HeaderFirst, OwnerCoherent, ReaderCoherent, [Next]_vars
             PROVE  ReaderCoherent'
  OBVIOUS
<1>1. CASE UNCHANGED vars
  BY <1>1 DEF ReaderCoherent, vars, block, reader, Odd, Unchanged
<1>2. CASE Owner
  <2>1. UNCHANGED <<rpc, published, highest, before, at, copy>>
    BY <1>2, OwnerOnlyWrites DEF reader
  <2>2. /\ ownerSequence' >= ownerSequence
        /\ headerReady = 1 => headerReady' = 1
        /\ payload' # payload => Odd(ownerSequence) /\ ownerSequence' = ownerSequence
    BY <1>2, OwnerAdvances
  <2>3. ownerSequence \in Nat /\ ownerSequence' \in Nat /\ highest \in Nat /\ before \in Nat
    BY TypeStep DEF TypeOK
  <2>4. ASSUME rpc = "payload", Unchanged' PROVE payload' = payload /\ Unchanged
    <3>1. ownerSequence = before /\ ~Odd(before)
      BY <2>1, <2>2, <2>3, <2>4 DEF ReaderCoherent, Unchanged
    <3> QED
      BY <3>1, <2>2 DEF Unchanged
  <2> QED
    BY <2>1, <2>2, <2>3, <2>4 DEF ReaderCoherent, Odd
<1>3. CASE BeginRead
  BY <1>3 DEF BeginRead, ReaderCoherent, block, TypeOK
<1>4. CASE ReadReady
  BY <1>4 DEF ReadReady, Retries, Ends, ReaderCoherent, block, TypeOK
<1>5. CASE ReadHeader
  BY <1>5 DEF ReadHeader, Retries, Ends, ReaderCoherent, block, TypeOK, Odd
<1>6. CASE ReadWord
  BY <1>6 DEF ReadWord, ReaderCoherent, block, TypeOK, Payloads, Odd, Unchanged
<1>7. CASE ReadAfter
  BY <1>7 DEF ReadAfter, Retries, Ends, ReaderCoherent, block, TypeOK
<1>8. CASE ReadFails
  BY <1>8 DEF ReadFails, Ends, ReaderCoherent, block
<1> QED
  BY <1>1, <1>2, <1>3, <1>4, <1>5, <1>6, <1>7, <1>8 DEF Next, Reader

\* A publication enters the window of the read it falls into.
LEMMA WindowStep == WindowOpen /\ [Next]_vars => WindowOpen'
<1> SUFFICES ASSUME WindowOpen, [Next]_vars PROVE WindowOpen'
  OBVIOUS
<1>1. CASE UNCHANGED vars
  BY <1>1 DEF WindowOpen, vars, reader, Current
<1>2. CASE Owner
  BY <1>2, OwnerOnlyWrites DEF WindowOpen, EndPublication, Watch, reader, Current
<1>3. CASE Reader
  BY <1>3 DEF Reader, BeginRead, ReadReady, ReadHeader, ReadWord, ReadAfter, ReadFails, Retries,
              Ends, WindowOpen, Current
<1> QED
  BY <1>1, <1>2, <1>3 DEF Next

-----------------------------------------------------------------------------
\* The facts about one step together: IInv is inductive.
LEMMA Inductive == IInv /\ [Next]_vars => IInv'
BY TypeStep, HeaderStep, OwnerStep, ReaderStep, WindowStep DEF IInv

LEMMA Initially == Init => IInv
<1> SUFFICES ASSUME Init PROVE IInv
  OBVIOUS
<1>1. TypeOK
  <2>1. published \in BOOLEAN /\ history \in Seq(Valid)
    BY Zenon, EmptySeq DEF Init
  <2> QED
    BY <2>1, StatusAssumption DEF Init, TypeOK, OwnerPlaces, ReaderPlaces, Payloads
<1>2. HeaderFirst /\ OwnerCoherent /\ WindowOpen
  BY DEF Init, HeaderFirst, OwnerCoherent, WindowOpen
<1>3. ReaderCoherent
  BY DEF Init, ReaderCoherent
<1> QED
  BY <1>1, <1>2, <1>3 DEF IInv

\* The words, places and counters of block, owner and reader keep their types,
\* the header is never announced early and the sequence is even between stores.
THEOREM TypeCorrect == Spec => []IInv
BY Initially, Inductive, PTL DEF Spec
-----------------------------------------------------------------------------
\* A published word never disproves the block: none of the three tests of
\* ReadRecoveryStatusSnapshot that answer Invalid can succeed.
LEMMA NeverInvalid ==
  ASSUME IInv
  PROVE  /\ rpc = "ready" /\ published => headerReady = 1
         /\ rpc = "header" => /\ header = "filled" /\ ownerSequence # 0
                              /\ ownerSequence >= highest
         /\ rpc = "payload" => /\ headerReady = 1 /\ header = "filled"
                               /\ ownerSequence >= before
<1>1. headerReady = 1 => header = "filled" /\ ownerSequence # 0
  BY OddEven DEF IInv, HeaderFirst, OwnerCoherent, TypeOK, OwnerPlaces
<1> QED
  BY <1>1 DEF IInv, ReaderCoherent, TypeOK

\* A read whose sequence stood still holds what is current.
LEMMA CopyIsCurrent ==
  ASSUME IInv, rpc = "payload", at = Words + 1, Unchanged
  PROVE  copy \in Valid /\ Coherent(copy) = Current(history)
<1>1. opc \in {"ready", "open"}
  BY NeverInvalid DEF IInv, ReaderCoherent, Unchanged, OwnerCoherent, HeaderFirst, TypeOK,
                      OwnerPlaces
<1>2. history # <<>> /\ payload = history[Len(history)]
  BY <1>1 DEF IInv, OwnerCoherent
<1>3. copy = payload
  <2>1. \A i \in 1..Words : copy[i] = payload[i]
    BY StatusAssumption DEF IInv, ReaderCoherent, TypeOK
  <2> QED
    BY <2>1, StatusAssumption DEF IInv, TypeOK, Payloads
<1>4. history[Len(history)] \in Valid
  BY <1>2, LenProperties, ElementOfSeq, EmptySeq DEF IInv, TypeOK
<1> QED
  BY <1>2, <1>3, <1>4 DEF Current

\* The answers of a refused read are refusals, and none is a payload.
LEMMA Answers ==
  /\ \A p : Coherent(p) # NoAnswer
  /\ \A p \in Valid : Coherent(p) \in {Coherent(q) : q \in Valid}
BY DEF Coherent, NoAnswer, Answer

\* How a read may end.
Replies(given) ==
    /\ window # {} /\ window' = {} /\ result' = given
    /\ given \in (window \ {NoAnswer}) \cup {Answer("Busy"), Answer("Unavailable"), Answer("ReadFailure")}
    /\ history' = history

\* A step of the reader begins a read, goes on with it or answers it.
LEMMA ReaderRefines ==
  ASSUME IInv, Reader
  PROVE  \/ UNCHANGED <<history, window, result>>
         \/ /\ window = {} /\ window' = {Current(history)}
            /\ result' = NoAnswer /\ history' = history
         \/ \E given : Replies(given)
<1>1. history' = history
  BY ReaderOnlyReads
<1>2. rpc # "idle" => window # {}
  BY DEF IInv, WindowOpen
<1>3. \A taken \in BOOLEAN : Retries(taken) /\ window # {} =>
        UNCHANGED <<history, window, result>> \/ \E given : Replies(given)
  BY <1>1 DEF Retries, Ends, Replies
<1>4. CASE BeginRead
  BY <1>4 DEF BeginRead, IInv, WindowOpen
<1>5. CASE ReadReady
  BY <1>1, <1>2, <1>3, <1>5, NeverInvalid DEF ReadReady
<1>6. CASE ReadHeader
  <2>1. ~(header # "filled" \/ ownerSequence = 0 \/ ownerSequence < highest)
    BY <1>6, NeverInvalid DEF ReadHeader, IInv, TypeOK
  <2> QED
    BY <2>1, <1>1, <1>2, <1>3, <1>6 DEF ReadHeader
<1>7. CASE ReadWord
  BY <1>1, <1>7 DEF ReadWord
<1>8. CASE ReadAfter
  <2>1. ~(ownerSequence < before \/ headerReady # 1 \/ header # "filled")
    BY <1>8, NeverInvalid DEF ReadAfter, IInv, TypeOK
  <2>2. CASE ~Unchanged
    BY <2>1, <2>2, <1>1, <1>2, <1>3, <1>8 DEF ReadAfter
  <2>3. CASE Unchanged
    <3>1. copy \in Valid /\ Coherent(copy) = Current(history)
      BY <2>3, <1>8, CopyIsCurrent DEF ReadAfter
    <3>2. Ends(Coherent(copy))
      BY <2>1, <2>3, <3>1, <1>8 DEF ReadAfter
    <3>3. Coherent(copy) \in window \ {NoAnswer}
      BY <3>1, <1>8, Answers DEF ReadAfter, IInv, WindowOpen
    <3> QED
      BY <3>2, <3>3, <1>1 DEF Ends, Replies
  <2> QED
    BY <2>2, <2>3
<1>9. CASE ReadFails
  BY <1>1, <1>2, <1>9 DEF ReadFails, Ends, Replies
<1> QED
  BY <1>4, <1>5, <1>6, <1>7, <1>8, <1>9 DEF Reader

\* A step of the owner publishes a valid payload or changes nothing a reader sees.
LEMMA OwnerRefines ==
  ASSUME IInv, Owner
  PROVE  \/ UNCHANGED <<history, window, result>>
         \/ /\ \E p \in Valid : Current(history)' = Coherent(p)
            /\ window' = IF window = {} THEN {} ELSE window \cup {Current(history)'}
            /\ result' = result
<1>1. CASE EndPublication
  <2>1. history' # <<>> /\ history'[Len(history')] = writing /\ writing \in Valid
    BY <1>1, AppendProperties DEF EndPublication, IInv, TypeOK
  <2>2. Current(history)' = Coherent(writing)
    BY <2>1 DEF Current
  <2> QED
    BY <2>1, <2>2, <1>1 DEF EndPublication, Watch, reader, Current
<1>2. CASE ~EndPublication
  BY <1>2, OwnerOnlyWrites DEF reader
<1> QED
  BY <1>1, <1>2

\* What a coherent read returns was the current payload at a moment of that read,
\* and a healthy block is never called invalid: every step of owner and reader is
\* one of the abstract register, or none.
THEOREM Implements == Spec => ImplementsAtomic
<1>1. Init => Atomic!Init
  BY DEF Init, Atomic!Init, Current
<1>2. IInv /\ [Next]_vars => [Atomic!Next]_Atomic!vars
  <2> SUFFICES ASSUME IInv, [Next]_vars PROVE [Atomic!Next]_Atomic!vars
    OBVIOUS
  <2>1. CASE UNCHANGED vars
    BY <2>1 DEF vars, reader, Atomic!vars, Current
  <2>2. CASE Owner
    BY <2>2, OwnerRefines, Answers DEF Atomic!Next, Atomic!Publish, Atomic!vars, Current
  <2>3. CASE Reader
    <3>1. UNCHANGED history
      BY <2>3, ReaderOnlyReads
    <3>2. UNCHANGED Current(history)
      BY <3>1 DEF Current
    <3> QED
      BY <2>3, <3>2, ReaderRefines
         DEF Atomic!Next, Atomic!Ask, Atomic!Reply, Atomic!vars, Replies
  <2> QED
    BY <2>1, <2>2, <2>3 DEF Next
<1> QED
  BY <1>1, <1>2, TypeCorrect, PTL DEF Spec, ImplementsAtomic, Atomic!Spec

-----------------------------------------------------------------------------
(* The reporting status block.                                             *)

Word == Nat \cup [prepared : Nat, pause : BOOLEAN]
Pair == [1..2 -> Word]
OwnerWords(p)  == p \in Pair /\ p[1] \in Nat /\ p[2] \in Nat
WorkerWords(p) == p \in Pair /\ p[1] \in Nat /\ p[2] \in [prepared : Nat, pause : BOOLEAN]

-----------------------------------------------------------------------------
(* What the writers keep.                                                  *)

WriterType ==
    /\ statusReady \in {0, 1, 2} /\ sequence \in [Writers -> Nat]
    /\ sticky \in BOOLEAN /\ gate \in BOOLEAN
    /\ place \in [Writers -> {"claim", "fill", "open", "read", "words", "gate"}]
    /\ place["owner"] \in {"claim", "fill", "open", "words"}
    /\ place["worker"] \in {"open", "read", "words", "gate"}
    /\ nextWord \in [Writers -> 1..3]
    /\ region \in [Writers -> Pair] /\ pending \in [Writers -> Pair]
    /\ current \in [Writers -> Pair]
    /\ OwnerWords(region["owner"]) /\ OwnerWords(pending["owner"]) /\ OwnerWords(current["owner"])
    /\ WorkerWords(region["worker"]) /\ WorkerWords(pending["worker"])
    /\ WorkerWords(current["worker"])

\* Before the header is ready there is nothing to publish into.
Heading ==
    /\ statusReady = 1 <=> place["owner"] \notin {"claim", "fill"}
    /\ statusReady # 1 => place["worker"] = "open" /\ \A x \in Writers : sequence[x] = 0

\* An odd sequence says that words are being stored; at any other time the
\* region is the last publication whole (StartPublication, EndPublication).
Storing ==
    \A x \in Writers :
        /\ IsOdd(sequence[x]) <=> place[x] = "words"
        /\ place[x] # "words" => region[x] = current[x]
        /\ place[x] = "words" => \A i \in 1..2 : i < nextWord[x] => region[x][i] = pending[x][i]

\* The publications agree with one another, and the next one of either will
\* (PublishOwnerV3's monotone counters, PublishWorkerV3's comparison).
Agreed(o, w) == CoreValid(AsOwner(o), AsWorker(w))
Agreeing ==
    /\ Agreed(current["owner"], current["worker"])
    /\ place["worker"] = "words" => Agreed(current["owner"], pending["worker"])
    /\ place["owner"] = "words" =>
          /\ pending["owner"][2] <= pending["owner"][1]
          /\ \A i \in 1..2 : current["owner"][i] <= pending["owner"][i]

\* An open gate means that no pause is published nor about to be.
Gated ==
    /\ ~gate => ~current["worker"][2].pause
    /\ place["worker"] \in {"read", "words"} /\ pending["worker"][2].pause => gate

WInv == WriterType /\ Heading /\ Storing /\ Agreeing /\ Gated

-----------------------------------------------------------------------------
(* What the reader knows.                                                  *)

Regions == {"A", "W", "B"}
Settled == {"sticky3", "pause3", "coherent"}
PastB   == {"sticky2", "pause2", "decide"} \cup Settled
PastW   == {"B"} \cup PastB
PastA   == {"W"} \cup PastW
Places  == {"idle", "ready", "pause1", "A"} \cup PastA

Marks == 0..3
Views ==
    [pause : BOOLEAN, changed : BOOLEAN, before : Nat, at : Marks, words : Pair,
     a : Nat, b : Nat, w : Nat, stable : BOOLEAN, ownerA : Pair, ownerB : Pair, worker : Pair]

ReaderType ==
    /\ reading \in Places /\ view \in Views
    /\ seen \in [header : BOOLEAN, owner : Nat, worker : Nat, sticky : BOOLEAN]
    /\ cut \in [Writers -> Pair] /\ open \in BOOLEAN

\* What an attempt begins with.
Begun ==
    /\ reading \in {"idle", "ready", "pause1"} => view = NoView
    /\ reading \notin Regions => view.at = 0
    /\ reading \notin {"idle", "ready"} => statusReady = 1
    /\ seen.owner <= sequence["owner"] /\ seen.worker <= sequence["worker"]

\* The words copied so far are the region's as long as its sequence stands.
Copying ==
    reading \in Regions /\ view.at > 0 =>
        /\ ~IsOdd(view.before) /\ view.before <= sequence[RegionAt]
        /\ view.stable /\ view.before = sequence[RegionAt] =>
              \A i \in 1..2 : i < view.at => view.words[i] = region[RegionAt][i]

\* After the first read of the owner's region.
KnowsA ==
    reading \in PastA =>
        /\ seen.owner <= view.a /\ view.a <= sequence["owner"]
        /\ view.stable => ~IsOdd(view.a)
        /\ view.stable /\ view.a = sequence["owner"] => view.ownerA = current["owner"]

\* After that of the worker's.
KnowsW ==
    reading \in PastW =>
        /\ seen.worker <= view.w /\ view.w <= sequence["worker"]
        /\ Agreed(cut["owner"], cut["worker"])
        /\ view.stable => cut["worker"] = view.worker
        /\ view.stable /\ view.a = sequence["owner"] => cut["owner"] = view.ownerA

\* After the second one of the owner's: the same number means the same words.
KnowsB ==
    /\ reading \in PastB =>
          /\ view.a <= view.b /\ view.b <= sequence["owner"]
          /\ SameOwner => view.ownerA = view.ownerB /\ cut["owner"] = view.ownerB
    /\ reading \in Settled => SameOwner

\* A gate read open was open when no pause was published.
KnowsGate ==
    /\ reading \in Regions \cup PastB /\ view.stable /\ ~view.pause => open \/ sticky
    /\ reading \in {"pause3", "coherent"} /\ ~view.pause /\ ~seen.sticky => open

ReaderInv ==
    /\ ReaderType /\ Begun /\ Copying /\ KnowsA /\ KnowsW /\ KnowsB /\ KnowsGate
    /\ NeverAccused

BlockInv == WInv /\ ReaderInv

-----------------------------------------------------------------------------
(* Words and views.                                                        *)

LEMMA PairOf ==
  ASSUME NEW a \in Word, NEW b \in Word
  PROVE  <<a, b>> \in Pair /\ <<a, b>>[1] = a /\ <<a, b>>[2] = b
  BY DEF Pair

LEMMA SamePair ==
  ASSUME NEW p \in Pair, NEW q \in Pair, p[1] = q[1], p[2] = q[2]
  PROVE  p = q
  BY DEF Pair

LEMMA FirstWords == OwnerWords(FirstOwner) /\ WorkerWords(FirstWorker)
  BY PairOf DEF FirstOwner, FirstWorker, OwnerWords, WorkerWords, Word

LEMMA NoViewIsView == NoView \in Views
  BY FirstWords DEF NoView, Views, Marks, FirstOwner, OwnerWords, WorkerWords

LEMMA Parity == ASSUME NEW n \in Nat PROVE IsOdd(n) <=> ~IsOdd(n + 1)
  BY DEF IsOdd

\* A disturbed attempt keeps its numbers only (Kept).
LEMMA KeptIs ==
  ASSUME NEW v \in Views
  PROVE  /\ Kept(v) \in Views
         /\ v.stable => Kept(v) = v
         /\ ~v.stable => ~Kept(v).stable
         /\ Kept(v).before = v.before /\ Kept(v).at = v.at
         /\ Kept(v).a = v.a /\ Kept(v).b = v.b /\ Kept(v).w = v.w
  BY NoViewIsView DEF Kept, NoView, Views

-----------------------------------------------------------------------------
(* The writers' steps.                                                     *)

\* What a step of the writers, or a latch, can do under a reader's eyes.
Moves ==
    /\ \A x \in Writers :
          /\ sequence[x] <= sequence'[x]
          /\ ~IsOdd(sequence[x]) /\ sequence'[x] = sequence[x] =>
                region'[x] = region[x] /\ current'[x] = current[x]
    /\ statusReady = 1 => statusReady' = 1
    /\ sticky => sticky'

LEMMA InitHolds == ASSUME BlockInit PROVE BlockInv
<1> USE DEF BlockInit
<1>1. /\ region \in [Writers -> Pair] /\ pending \in [Writers -> Pair]
      /\ current \in [Writers -> Pair] /\ cut \in [Writers -> Pair]
      /\ region["owner"] = FirstOwner /\ region["worker"] = FirstWorker
  BY FirstWords DEF Writers, OwnerWords, WorkerWords
<1>2. WriterType
  <2>1. sticky \in BOOLEAN /\ gate \in BOOLEAN
    BY Zenon
  <2> QED
    BY <1>1, <2>1, FirstWords DEF WriterType, Writers
<1>3. Heading
  BY DEF Heading
<1>4. Storing
  BY DEF Storing, IsOdd, Writers
<1>5. FirstOwner[1] = 0 /\ FirstOwner[2] = 0 /\ FirstWorker[1] = 0
      /\ FirstWorker[2].prepared = 0 /\ ~FirstWorker[2].pause
  BY DEF FirstOwner, FirstWorker
<1>6. Agreeing
  BY <1>1, <1>5 DEF Agreeing, Agreed, CoreValid, AsOwner, AsWorker
<1>7. Gated
  BY <1>1, <1>5 DEF Gated
<1>8. ReaderType
  BY <1>1, NoViewIsView DEF ReaderType, Places, NothingSeen
<1>9. NoView.at = 0
  BY DEF NoView
<1>10. Begun /\ Copying
  BY <1>9 DEF Begun, Copying, Regions, NothingSeen, Writers
<1>11. KnowsA /\ KnowsW /\ KnowsB /\ KnowsGate /\ NeverAccused
  BY DEF KnowsA, KnowsW, KnowsB, KnowsGate, NeverAccused, PastA, PastW, PastB, Settled, Regions
<1> QED
  BY <1>2, <1>3, <1>4, <1>6, <1>7, <1>8, <1>10, <1>11 DEF BlockInv, WInv, ReaderInv

LEMMA HeaderKeeps ==
  ASSUME WInv, ClaimStatus \/ InitializeStatusV3
  PROVE  WInv' /\ Moves
<1> USE DEF WInv
<1>1. place["worker"] = "open" /\ place["owner"] # "words" /\ place'["worker"] = "open"
      /\ place'["owner"] # "words" /\ place'["owner"] \in {"fill", "open"}
  BY DEF ClaimStatus, InitializeStatusV3, Goes, WriterType, Heading, Writers
<1>2. UNCHANGED <<region, sticky, gate, nextWord, pending, current>>
  BY DEF ClaimStatus, InitializeStatusV3
<1>3. /\ sequence' \in [Writers -> Nat] /\ \A x \in Writers : sequence[x] <= sequence'[x]
      /\ \A x \in Writers : ~IsOdd(sequence'[x])
      /\ statusReady # 1 /\ statusReady' \in {1, 2} /\ (statusReady' = 1 <=> place'["owner"] = "open")
      /\ statusReady' = 2 => \A x \in Writers : sequence'[x] = 0
  BY DEF ClaimStatus, InitializeStatusV3, Goes, WriterType, Heading, Writers, IsOdd
<1>4. WriterType'
  BY <1>1, <1>2, <1>3 DEF WriterType, ClaimStatus, InitializeStatusV3, Goes
<1>5. Heading' /\ Storing'
  BY <1>1, <1>2, <1>3 DEF Heading, Storing, WriterType, Writers
<1>6. Agreeing' /\ Gated'
  BY <1>1, <1>2 DEF Agreeing, Gated, Agreed
<1>7. Moves
  BY <1>2, <1>3 DEF Moves
<1> QED
  BY <1>4, <1>5, <1>6, <1>7

\* A publication begins in a region of its own, or is refused.
LEMMA PublishOwnerKeeps ==
  ASSUME WInv, PublishOwnerV3
  PROVE  WInv' /\ Moves
<1> USE DEF WInv
<1> PICK g \in Count, s \in Count :
         /\ s <= g /\ g >= region["owner"][1] /\ s >= region["owner"][2]
         /\ Starts("owner", <<g, s>>)
  BY DEF PublishOwnerV3
<1>1. g \in Nat /\ s \in Nat /\ "owner" \in Writers /\ "worker" \in Writers
  BY DEF Count, Writers
<1>2. UNCHANGED <<statusReady, region, gate, current>> /\ statusReady = 1 /\ place["owner"] = "open"
  BY DEF PublishOwnerV3
<1>3. <<g, s>> \in Pair /\ <<g, s>>[1] = g /\ <<g, s>>[2] = s
  BY <1>1, PairOf DEF Word
<1>4. ~IsOdd(sequence["owner"]) /\ region["owner"] = current["owner"]
  BY <1>1, <1>2 DEF Storing
<1>5. CASE sequence["owner"] + 2 <= LastSequence["owner"]
  <2>1. /\ sequence' = [sequence EXCEPT !["owner"] = @ + 1]
        /\ nextWord' = [nextWord EXCEPT !["owner"] = 1]
        /\ pending' = [pending EXCEPT !["owner"] = <<g, s>>]
        /\ place' = [place EXCEPT !["owner"] = "words"] /\ UNCHANGED sticky
    BY <1>5 DEF Starts
  <2>2. WriterType'
    BY <2>1, <1>1, <1>2, <1>3 DEF WriterType, OwnerWords, Writers
  <2>3. Heading'
    BY <2>1, <1>1, <1>2 DEF Heading, WriterType
  <2>4. Storing'
    BY <2>1, <1>1, <1>2, <1>4, Parity DEF Storing, WriterType, Writers
  <2>5. Agreeing'
    BY <2>1, <1>1, <1>2, <1>3, <1>4 DEF Agreeing, Agreed, WriterType, Writers
  <2>6. Gated'
    BY <2>1, <1>1, <1>2 DEF Gated, WriterType, Writers
  <2>7. Moves
    BY <2>1, <1>1, <1>2 DEF Moves, WriterType
  <2> QED
    BY <2>2, <2>3, <2>4, <2>5, <2>6, <2>7
<1>6. CASE ~(sequence["owner"] + 2 <= LastSequence["owner"])
  <2>1. /\ sticky' = TRUE /\ place' = [place EXCEPT !["owner"] = "open"]
        /\ UNCHANGED <<sequence, nextWord, pending>>
    BY <1>6 DEF Starts
  <2>2. place' = place
    BY <2>1, <1>1, <1>2 DEF WriterType
  <2>5. sticky' \in BOOLEAN
    BY <2>1, Zenon
  <2>3. WriterType'
    BY <2>1, <2>2, <2>5, <1>2 DEF WriterType, OwnerWords, WorkerWords
  <2>6. sticky'
    BY <2>1, Zenon
  <2>7. Moves
    BY <2>1, <2>6, <1>2 DEF Moves, WriterType
  <2>4. Heading' /\ Storing' /\ Agreeing' /\ Gated'
    BY <2>1, <2>2, <1>2 DEF Heading, Storing, Agreeing, Agreed, Gated
  <2> QED
    BY <2>3, <2>4, <2>7
<1> QED
  BY <1>5, <1>6

\* The worker closes its gate before it forms anything adverse.
LEMMA PublishWorkerKeeps ==
  ASSUME WInv, PublishWorkerV3
  PROVE  WInv' /\ Moves
<1> USE DEF WInv
<1> PICK o \in Count, p \in Count, pause \in BOOLEAN :
         /\ pending' = [pending EXCEPT !["worker"] = <<o, [prepared |-> p, pause |-> pause]>>]
         /\ gate' = (gate \/ pause)
  BY DEF PublishWorkerV3
<1> DEFINE w == [prepared |-> p, pause |-> pause]
<1>1. o \in Nat /\ p \in Nat /\ "owner" \in Writers /\ "worker" \in Writers
  BY DEF Count, Writers
<1>2. w \in [prepared : Nat, pause : BOOLEAN] /\ w.pause = pause
  BY <1>1
<1>3. <<o, w>> \in Pair /\ <<o, w>>[1] = o /\ <<o, w>>[2] = w
  BY <1>1, <1>2, PairOf DEF Word
<1>4. pending' = [pending EXCEPT !["worker"] = <<o, w>>]
  OBVIOUS
<1> HIDE DEF w
<1>5. /\ UNCHANGED <<statusReady, sequence, region, sticky, nextWord, current>> /\ statusReady = 1
      /\ place["worker"] = "open" /\ place' = [place EXCEPT !["worker"] = "read"]
  BY DEF PublishWorkerV3, Goes
<1>6. gate' \in BOOLEAN /\ (~gate' => ~gate /\ ~pause) /\ (pause => gate')
  BY DEF WriterType
<1>7. WriterType'
  BY <1>1, <1>2, <1>3, <1>4, <1>5, <1>6 DEF WriterType, WorkerWords, Writers
<1>8. Heading' /\ Moves
  BY <1>1, <1>5 DEF Heading, Moves, WriterType
<1>9. Storing'
  BY <1>1, <1>4, <1>5 DEF Storing, WriterType, Writers
<1>10. Agreeing'
  BY <1>1, <1>4, <1>5 DEF Agreeing, Agreed, WriterType, Writers
<1>11. Gated'
  BY <1>1, <1>2, <1>3, <1>4, <1>5, <1>6 DEF Gated, WriterType
<1> QED
  BY <1>7, <1>8, <1>9, <1>10, <1>11

LEMMA ReadOwnerGivesUpKeeps ==
  ASSUME WInv, ReadOwnerGivesUp
  PROVE  WInv' /\ Moves
<1> USE DEF WInv
<1>1. "owner" \in Writers /\ "worker" \in Writers
  BY DEF Writers
<1>2. /\ UNCHANGED <<statusReady, sequence, region, sticky, gate, nextWord, current>>
      /\ place["worker"] = "read" /\ place' = [place EXCEPT !["worker"] = "open"]
      /\ pending' = [pending EXCEPT !["worker"] = region["worker"]]
  BY DEF ReadOwnerGivesUp, Goes, words
<1>3. WriterType'
  BY <1>1, <1>2 DEF WriterType, OwnerWords, WorkerWords
<1>4. Heading' /\ Moves
  BY <1>1, <1>2 DEF Heading, Moves, WriterType
<1>5. Storing'
  BY <1>1, <1>2 DEF Storing, WriterType, Writers
<1>6. Agreeing'
  BY <1>1, <1>2 DEF Agreeing, Agreed, WriterType, Writers
<1>7. Gated'
  BY <1>1, <1>2 DEF Gated, WriterType
<1> QED
  BY <1>3, <1>4, <1>5, <1>6, <1>7

\* What passes the comparison agrees with the owner's publication, since that
\* cannot be under way at an even sequence.
LEMMA CompareKeeps ==
  ASSUME WInv, CompareWithOwner
  PROVE  WInv' /\ Moves
<1> USE DEF WInv
<1>1. "owner" \in Writers /\ "worker" \in Writers
  BY DEF Writers
<1>2. /\ UNCHANGED <<statusReady, region, gate, current>> /\ place["worker"] = "read"
      /\ statusReady = 1 /\ region["owner"] = current["owner"]
      /\ ~IsOdd(sequence["worker"]) /\ region["worker"] = current["worker"]
  BY <1>1 DEF CompareWithOwner, Heading, Storing
<1> DEFINE w == AsWorker(pending["worker"])
           o == AsOwner(region["owner"])
           last == AsWorker(region["worker"])
           adverse == \/ w.observed > o.submitted \/ w.observed > w.prepared
                      \/ w.observed < last.observed \/ w.prepared < last.prepared
           next == <<w.observed, [prepared |-> Prepared(w, o), pause |-> w.pause]>>
<1>3. CASE adverse
  <2>1. /\ sticky' = TRUE /\ place' = [place EXCEPT !["worker"] = "open"]
        /\ pending' = [pending EXCEPT !["worker"] = region["worker"]]
        /\ UNCHANGED <<sequence, nextWord>>
    BY <1>3 DEF CompareWithOwner
  <2> HIDE DEF w, o, last, adverse, next
  <2>2. sticky' \in BOOLEAN /\ sticky'
    BY <2>1, Zenon
  <2>3. WriterType'
    BY <1>1, <1>2, <2>1, <2>2 DEF WriterType, OwnerWords, WorkerWords
  <2>4. Heading' /\ Moves
    BY <1>1, <1>2, <2>1, <2>2 DEF Heading, Moves, WriterType
  <2>5. Storing'
    BY <1>1, <1>2, <2>1 DEF Storing, WriterType, Writers
  <2>6. Agreeing'
    BY <1>1, <1>2, <2>1 DEF Agreeing, Agreed, WriterType, Writers
  <2>7. Gated'
    BY <1>1, <1>2, <2>1 DEF Gated, WriterType
  <2> QED
    BY <2>3, <2>4, <2>5, <2>6, <2>7
<1>4. CASE ~adverse
  <2>1. Starts("worker", next)
    BY <1>4 DEF CompareWithOwner
  <2>2. /\ w.observed = pending["worker"][1] /\ w.prepared = pending["worker"][2].prepared
        /\ w.pause = pending["worker"][2].pause
        /\ o.submitted = current["owner"][2] /\ o.generated = current["owner"][1]
    BY <1>2 DEF AsWorker, AsOwner
  <2>3. /\ w.observed \in Nat /\ w.prepared \in Nat /\ w.pause \in BOOLEAN
        /\ o.submitted \in Nat /\ o.generated \in Nat /\ o.submitted <= o.generated
    BY <2>2 DEF WriterType, WorkerWords, OwnerWords, Agreeing, Agreed, CoreValid, AsOwner
  <2>4. w.observed <= o.submitted /\ w.observed <= w.prepared
    BY <1>4, <2>2, <2>3
  <2> DEFINE p == Prepared(w, o)
  <2>5. p \in Nat /\ p <= o.generated /\ w.observed <= p
    BY <2>3, <2>4 DEF Prepared
  <2> DEFINE c == [prepared |-> p, pause |-> w.pause]
  <2>6. c \in [prepared : Nat, pause : BOOLEAN] /\ c.prepared = p /\ c.pause = w.pause
    BY <2>3, <2>5
  <2>7. next \in Pair /\ next[1] = w.observed /\ next[2] = c
    <3> HIDE DEF p
    <3>1. next = <<w.observed, c>>
      BY DEF p
    <3> HIDE DEF c, next, w
    <3> QED
      BY <2>3, <2>6, <3>1, PairOf DEF Word
  <2>8. WorkerWords(next)
    BY <2>3, <2>6, <2>7 DEF WorkerWords
  <2>9. Agreed(current["owner"], next)
    <3> HIDE DEF c, next, p
    <3> QED
      BY <2>2, <2>3, <2>4, <2>5, <2>6, <2>7 DEF Agreed, CoreValid, AsOwner, AsWorker
  <2>10. next[2].pause => gate
    <3> HIDE DEF c, next, p
    <3> QED
      BY <1>2, <2>2, <2>6, <2>7 DEF Gated
  <2> HIDE DEF next, w, o, last, adverse, p, c
  <2>11. CASE sequence["worker"] + 2 <= LastSequence["worker"]
    <3>1. /\ sequence' = [sequence EXCEPT !["worker"] = @ + 1]
          /\ nextWord' = [nextWord EXCEPT !["worker"] = 1]
          /\ pending' = [pending EXCEPT !["worker"] = next]
          /\ place' = [place EXCEPT !["worker"] = "words"] /\ UNCHANGED sticky
      BY <2>1, <2>11 DEF Starts
    <3>2. WriterType'
      BY <1>1, <1>2, <2>7, <2>8, <3>1 DEF WriterType, WorkerWords, OwnerWords, Writers
    <3>3. Heading'
      BY <1>1, <1>2, <3>1 DEF Heading, WriterType
    <3>4. Storing'
      BY <1>1, <1>2, <3>1, Parity DEF Storing, WriterType, Writers
    <3>5. Agreeing'
      BY <1>1, <1>2, <2>9, <3>1 DEF Agreeing, WriterType, Writers
    <3>6. Gated'
      BY <1>1, <1>2, <2>10, <3>1 DEF Gated, WriterType, Writers
    <3>7. Moves
      BY <1>1, <1>2, <3>1 DEF Moves, WriterType
    <3> QED
      BY <3>2, <3>3, <3>4, <3>5, <3>6, <3>7
  <2>12. CASE ~(sequence["worker"] + 2 <= LastSequence["worker"])
    <3>1. /\ sticky' = TRUE /\ place' = [place EXCEPT !["worker"] = "open"]
          /\ UNCHANGED <<sequence, nextWord, pending>>
      BY <2>1, <2>12 DEF Starts
    <3>2. sticky' \in BOOLEAN /\ sticky'
      BY <3>1, Zenon
    <3>3. WriterType'
      BY <1>1, <1>2, <3>1, <3>2 DEF WriterType, OwnerWords, WorkerWords
    <3>4. Heading' /\ Moves
      BY <1>1, <1>2, <3>1, <3>2 DEF Heading, Moves, WriterType
    <3>5. Storing'
      BY <1>1, <1>2, <3>1 DEF Storing, WriterType, Writers
    <3>6. Agreeing' /\ Gated'
      BY <1>1, <1>2, <3>1 DEF Agreeing, Agreed, Gated, WriterType, Writers
    <3> QED
      BY <3>3, <3>4, <3>5, <3>6
  <2> QED
    BY <2>11, <2>12
<1> QED
  BY <1>3, <1>4

\* The gate opens only over a region that publishes no pause.
LEMMA OpenGateKeeps ==
  ASSUME WInv, OpenGate
  PROVE  WInv' /\ Moves
<1> USE DEF WInv
<1>1. "owner" \in Writers /\ "worker" \in Writers
  BY DEF Writers
<1>2. /\ UNCHANGED <<statusReady, sequence, region, sticky, nextWord, pending, current>>
      /\ place["worker"] = "gate" /\ place' = [place EXCEPT !["worker"] = "open"]
      /\ gate' = (gate /\ region["worker"][2].pause)
  BY DEF OpenGate, Goes
<1>3. region["worker"] = current["worker"]
  BY <1>1, <1>2 DEF Storing
<1>4. gate' \in BOOLEAN
  BY <1>2 DEF WriterType
<1>5. WriterType'
  BY <1>1, <1>2, <1>4 DEF WriterType, OwnerWords, WorkerWords
<1>6. Heading' /\ Moves
  BY <1>1, <1>2 DEF Heading, Moves, WriterType
<1>7. Storing'
  BY <1>1, <1>2 DEF Storing, WriterType, Writers
<1>8. Agreeing'
  BY <1>1, <1>2 DEF Agreeing, Agreed, WriterType, Writers
<1>9. Gated'
  BY <1>1, <1>2, <1>3 DEF Gated, WriterType
<1> QED
  BY <1>5, <1>6, <1>7, <1>8, <1>9

\* One word is stored, under an odd sequence.
LEMMA StoreKeeps ==
  ASSUME WInv, NEW x \in Writers, StoreWords(x)
  PROVE  WInv' /\ Moves
<1> USE DEF WInv
<1> DEFINE i == nextWord[x]
<1>1. /\ UNCHANGED <<statusReady, sequence, sticky, gate, place, pending, current>>
      /\ place[x] = "words" /\ i \in 1..2 /\ IsOdd(sequence[x])
      /\ region' = [region EXCEPT ![x][i] = pending[x][i]]
      /\ nextWord' = [nextWord EXCEPT ![x] = i + 1]
  BY DEF StoreWords, Storing, WriterType
<1> HIDE DEF i
<1>2. \A y \in Writers : y # x => region'[y] = region[y] /\ nextWord'[y] = nextWord[y]
  BY <1>1 DEF WriterType
<1>3. /\ region'[x] = [region[x] EXCEPT ![i] = pending[x][i]] /\ nextWord'[x] = i + 1
      /\ region[x] \in Pair /\ pending[x] \in Pair
  BY <1>1 DEF WriterType
<1>4. /\ region'[x] \in Pair /\ region'[x][i] = pending[x][i]
      /\ \A k \in 1..2 : k # i => region'[x][k] = region[x][k]
  BY <1>1, <1>3 DEF Pair
<1>5. region' \in [Writers -> Pair] /\ nextWord' \in [Writers -> 1..3]
  BY <1>1, <1>4 DEF WriterType, Pair
<1>6. OwnerWords(region["owner"]') /\ WorkerWords(region["worker"]')
  <2>1. CASE x = "owner"
    BY <2>1, <1>1, <1>2, <1>3, <1>4 DEF WriterType, OwnerWords, WorkerWords, Writers
  <2>2. CASE x = "worker"
    BY <2>2, <1>1, <1>2, <1>3, <1>4 DEF WriterType, OwnerWords, WorkerWords, Writers
  <2> QED
    BY <2>1, <2>2 DEF Writers
<1>7. WriterType'
  BY <1>1, <1>5, <1>6 DEF WriterType, OwnerWords, WorkerWords
<1>8. Heading' /\ Moves
  BY <1>1, <1>2 DEF Heading, Moves, WriterType
<1>9. Storing'
  <2> SUFFICES ASSUME NEW y \in Writers
               PROVE  /\ IsOdd(sequence'[y]) <=> place'[y] = "words"
                      /\ place'[y] # "words" => region'[y] = current'[y]
                      /\ place'[y] = "words" =>
                            \A k \in 1..2 : k < nextWord'[y] => region'[y][k] = pending'[y][k]
    BY DEF Storing
  <2>1. CASE y = x
    <3>1. \A k \in 1..2 : k < i + 1 => region'[x][k] = pending[x][k]
      <4>1. i = nextWord[x] /\ \A k \in 1..2 : k < i => region[x][k] = pending[x][k]
        BY <1>1 DEF i, Storing
      <4> QED
        BY <4>1, <1>1, <1>4
    <3> QED
      BY <2>1, <3>1, <1>1, <1>3 DEF Storing
  <2>2. CASE y # x
    BY <2>2, <1>1, <1>2 DEF Storing
  <2> QED
    BY <2>1, <2>2
<1>10. Agreeing' /\ Gated'
  BY <1>1 DEF Agreeing, Agreed, Gated
<1> QED
  BY <1>7, <1>8, <1>9, <1>10

\* A publication ends with the region whole, and becomes the current one.
LEMMA EndKeeps ==
  ASSUME WInv, NEW x \in Writers, FinishPublication(x)
  PROVE  WInv' /\ Moves
<1> USE DEF WInv
<1> DEFINE after == IF x = "worker" THEN "gate" ELSE "open"
<1>0. "owner" \in Writers /\ "worker" \in Writers /\ x \in {"owner", "worker"}
  BY DEF Writers
<1>1. /\ UNCHANGED <<statusReady, region, sticky, gate, pending>>
      /\ place[x] = "words" /\ nextWord[x] = 3 /\ IsOdd(sequence[x])
      /\ place' = [place EXCEPT ![x] = after] /\ sequence' = [sequence EXCEPT ![x] = @ + 1]
      /\ current' = [current EXCEPT ![x] = pending[x]] /\ nextWord' = [nextWord EXCEPT ![x] = 1]
  BY DEF FinishPublication, Goes, Storing
<1>2. /\ \A y \in Writers : y # x => place'[y] = place[y] /\ sequence'[y] = sequence[y]
                                     /\ current'[y] = current[y] /\ nextWord'[y] = nextWord[y]
      /\ place'[x] = after /\ sequence'[x] = sequence[x] + 1 /\ current'[x] = pending[x]
      /\ after # "words" /\ after \in {"open", "gate"}
  BY <1>1 DEF WriterType
<1>3. ~IsOdd(sequence'[x]) /\ sequence[x] \in Nat
  BY <1>1, <1>2, Parity DEF WriterType
<1>4. region[x] = pending[x]
  <2>1. region[x] \in Pair /\ pending[x] \in Pair
    BY DEF WriterType
  <2>2. region[x][1] = pending[x][1] /\ region[x][2] = pending[x][2]
    BY <1>1 DEF Storing
  <2> QED
    BY <2>1, <2>2, SamePair
<1>5. WriterType'
  BY <1>0, <1>1, <1>2 DEF WriterType, OwnerWords, WorkerWords
<1>6. Heading'
  BY <1>0, <1>1, <1>2 DEF Heading, WriterType
<1> HIDE DEF after
<1>7. Moves
  BY <1>1, <1>2, <1>3 DEF Moves, WriterType
<1>8. Storing'
  BY <1>1, <1>2, <1>3, <1>4 DEF Storing
<1>9. Agreeing'
  <2>1. CASE x = "owner"
    <3>1. /\ current'["worker"] = current["worker"] /\ current'["owner"] = pending["owner"]
          /\ place'["worker"] = place["worker"] /\ place'["owner"] # "words" /\ pending' = pending
      BY <2>1, <1>0, <1>1, <1>2
    <3>2. /\ current["owner"][1] <= pending["owner"][1] /\ current["owner"][2] <= pending["owner"][2]
          /\ pending["owner"][2] <= pending["owner"][1]
      BY <2>1, <1>1 DEF Agreeing
    <3>3. ASSUME NEW w, WorkerWords(w), Agreed(current["owner"], w)
          PROVE  Agreed(pending["owner"], w)
      BY <3>2, <3>3 DEF Agreed, CoreValid, AsOwner, AsWorker, WriterType, OwnerWords, WorkerWords
    <3>4. WorkerWords(current["worker"]) /\ WorkerWords(pending["worker"])
      BY DEF WriterType
    <3> QED
      BY <3>1, <3>3, <3>4 DEF Agreeing
  <2>2. CASE x = "worker"
    <3>1. /\ current'["owner"] = current["owner"] /\ current'["worker"] = pending["worker"]
          /\ place'["owner"] = place["owner"] /\ place'["worker"] # "words" /\ pending' = pending
      BY <2>2, <1>0, <1>1, <1>2
    <3> QED
      BY <2>2, <1>1, <3>1 DEF Agreeing
  <2> QED
    BY <1>0, <2>1, <2>2
<1>10. Gated'
  <2>1. CASE x = "owner"
    BY <2>1, <1>0, <1>1, <1>2 DEF Gated
  <2>2. CASE x = "worker"
    BY <2>2, <1>0, <1>1, <1>2 DEF Gated, WriterType, WorkerWords
  <2> QED
    BY <1>0, <2>1, <2>2
<1> QED
  BY <1>5, <1>6, <1>7, <1>8, <1>9, <1>10

LEMMA RevokeKeeps ==
  ASSUME WInv, RevokeStatus
  PROVE  WInv' /\ Moves
<1> USE DEF WInv
<1>1. sticky' \in BOOLEAN /\ sticky'
  BY Zenon DEF RevokeStatus
<1>2. UNCHANGED <<statusReady, sequence, region, gate, place, nextWord, pending, current>>
  BY DEF RevokeStatus, writers
<1>3. WriterType'
  BY <1>1, <1>2 DEF WriterType, OwnerWords, WorkerWords
<1>4. Moves
  BY <1>1, <1>2 DEF Moves, WriterType
<1>5. Heading' /\ Storing' /\ Agreeing' /\ Gated'
  BY <1>2 DEF Heading, Storing, Agreeing, Agreed, Gated
<1> QED
  BY <1>3, <1>4, <1>5

-----------------------------------------------------------------------------
(* The reader's steps.                                                     *)

LEMMA Watched ==
  ASSUME BlockInv, WInv', WatchCut
  PROVE  /\ open' \in BOOLEAN /\ cut' \in [Writers -> Pair]
         /\ reading' # "idle" /\ (open \/ Ready') => open'
         /\ reading' # "idle" /\ ~(reading = "W" /\ reading' # "W") => cut' = cut
         /\ reading = "W" /\ reading' \notin {"W", "idle"} => cut' = current
<1>1. open' = (reading' # "idle" /\ (open \/ Ready'))
  BY DEF WatchCut
<1>2. [owner |-> FirstOwner, worker |-> FirstWorker] \in [Writers -> Pair]
  BY FirstWords DEF Writers, OwnerWords, WorkerWords
<1>3. cut' = IF reading' = "idle" THEN [owner |-> FirstOwner, worker |-> FirstWorker]
             ELSE IF reading = "W" /\ reading' # "W" THEN current ELSE cut
  BY DEF WatchCut
<1>4. open' \in BOOLEAN /\ (reading' # "idle" /\ (open \/ Ready') => open')
  BY <1>1
<1>5. cut' \in [Writers -> Pair]
  BY <1>2, <1>3 DEF BlockInv, ReaderInv, ReaderType, WInv, WriterType
<1> QED
  BY <1>3, <1>4, <1>5

\* Nothing the writers do takes away what the reader knows.
LEMMA ReaderStands ==
  ASSUME BlockInv, WInv', Moves, UNCHANGED readerVars, WatchCut
  PROVE  ReaderInv'
<1> USE DEF BlockInv, ReaderInv
<1>1. UNCHANGED <<reading, tries, seen, view, answer>>
  BY DEF readerVars
<1>2. /\ open' \in BOOLEAN /\ cut' \in [Writers -> Pair]
      /\ reading # "idle" /\ open => open'
      /\ reading # "idle" => cut' = cut
  BY <1>1, Watched
<1>3. /\ "owner" \in Writers /\ "worker" \in Writers /\ RegionAt \in Writers /\ RegionAt' = RegionAt
      /\ \A x \in Writers : sequence[x] \in Nat /\ sequence'[x] \in Nat
  BY <1>1 DEF Writers, RegionAt, WInv, WriterType
<1>4. /\ \A x \in Writers :
           /\ sequence[x] <= sequence'[x]
           /\ ~IsOdd(sequence[x]) /\ sequence'[x] = sequence[x] =>
                region'[x] = region[x] /\ current'[x] = current[x]
      /\ statusReady = 1 => statusReady' = 1
      /\ sticky => sticky'
  BY DEF Moves
<1>5. ReaderType'
  BY <1>1, <1>2 DEF ReaderType
<1>6. Begun'
  BY <1>1, <1>3, <1>4 DEF Begun, ReaderType
<1>7. Copying'
  <2>1. CASE reading \in Regions /\ view.at > 0
    <3>1. view.before \in Nat /\ ~IsOdd(view.before) /\ view.before <= sequence[RegionAt]
      BY <2>1 DEF Copying, ReaderType, Views
    <3>2. view.before = sequence'[RegionAt] =>
             view.before = sequence[RegionAt] /\ region'[RegionAt] = region[RegionAt]
      BY <1>3, <1>4, <3>1
    <3>3. view.before <= sequence'[RegionAt]
      BY <1>3, <1>4, <3>1
    <3> QED
      BY <1>1, <1>3, <2>1, <3>1, <3>2, <3>3 DEF Copying
  <2>2. CASE ~(reading \in Regions /\ view.at > 0)
    BY <1>1, <2>2 DEF Copying
  <2> QED
    BY <2>1, <2>2
<1>8. view.a \in Nat /\ view.b \in Nat /\ view.w \in Nat
  BY DEF ReaderType, Views
<1>9. reading \in PastA /\ view.stable /\ view.a = sequence'["owner"] =>
         view.a = sequence["owner"] /\ current'["owner"] = current["owner"]
  BY <1>3, <1>4, <1>8 DEF KnowsA
<1>10. KnowsA'
  BY <1>1, <1>3, <1>4, <1>8, <1>9 DEF KnowsA
<1>11. reading \in PastW => cut' = cut /\ reading \in PastA
  BY <1>2 DEF PastA, PastW, PastB, Settled
<1>12. KnowsW'
  BY <1>1, <1>3, <1>4, <1>8, <1>9, <1>11 DEF KnowsW
<1>13. KnowsB'
  <2>1. SameOwner' = SameOwner
    BY <1>1 DEF SameOwner
  <2>2. reading \in PastB => reading \in PastW
    BY DEF PastW
  <2> QED
    BY <1>1, <1>3, <1>4, <1>8, <1>11, <2>1, <2>2 DEF KnowsB
<1>14. KnowsGate'
  <2>1. reading \in Regions \cup PastB => reading # "idle"
    BY DEF Regions, PastB, Settled
  <2> QED
    BY <1>1, <1>2, <1>4, <2>1 DEF KnowsGate
<1>15. NeverAccused'
  BY <1>1 DEF NeverAccused
<1> QED
  BY <1>5, <1>6, <1>7, <1>10, <1>12, <1>13, <1>14, <1>15

LEMMA OutsideKeeps == ASSUME WInv, Outside PROVE WInv'
  BY DEF Outside, words, writers, WInv, WriterType, Heading, Storing, Agreeing, Agreed, Gated,
         OwnerWords, WorkerWords

\* A read that ends, and an attempt that begins, know nothing.
LEMMA StartsAfresh ==
  ASSUME BlockInv, Outside, WatchCut, reading' \in {"idle", "ready"}, view' = NoView,
         seen' \in [header : BOOLEAN, owner : Nat, worker : Nat, sticky : BOOLEAN],
         seen.owner' <= sequence["owner"], seen.worker' <= sequence["worker"],
         NeverAccused'
  PROVE  ReaderInv'
<1> USE DEF BlockInv, ReaderInv
<1>1. WInv'
  BY OutsideKeeps
<1>2. open' \in BOOLEAN /\ cut' \in [Writers -> Pair]
  BY <1>1, Watched
<1>3. ReaderType'
  BY <1>2, NoViewIsView DEF ReaderType, Places
<1>4. NoView.at = 0 /\ sequence' = sequence /\ statusReady' = statusReady
  BY DEF NoView, Outside, words
<1>5. Begun' /\ Copying'
  BY <1>4 DEF Begun, Copying, Regions
<1>6. KnowsA' /\ KnowsW' /\ KnowsB' /\ KnowsGate'
  BY DEF KnowsA, KnowsW, KnowsB, KnowsGate, PastA, PastW, PastB, Settled, Regions
<1> QED
  BY <1>3, <1>5, <1>6

LEMMA EndsReadKeeps ==
  ASSUME BlockInv, Outside, WatchCut, NEW r, r # "Invalid", EndsRead(r)
  PROVE  ReaderInv'
<1>1. reading' = "idle" /\ answer' = r /\ seen' = NothingSeen /\ view' = NoView
  BY DEF EndsRead
<1>2. seen' \in [header : BOOLEAN, owner : Nat, worker : Nat, sticky : BOOLEAN]
      /\ seen.owner' = 0 /\ seen.worker' = 0
  BY <1>1 DEF NothingSeen
<1>3. seen.owner' <= sequence["owner"] /\ seen.worker' <= sequence["worker"]
  BY <1>2 DEF BlockInv, WInv, WriterType, Writers
<1> QED
  BY <1>1, <1>2, <1>3, StartsAfresh DEF NeverAccused

LEMMA BeginSnapshotKeeps == ASSUME BlockInv, WatchCut, BeginSnapshot PROVE ReaderInv'
<1>1. reading = "idle" /\ reading' = "ready" /\ answer' = "none" /\ Outside /\ UNCHANGED <<seen, view>>
  BY DEF BeginSnapshot, At, Then
<1>2. view = NoView /\ seen.owner <= sequence["owner"] /\ seen.worker <= sequence["worker"]
      /\ seen \in [header : BOOLEAN, owner : Nat, worker : Nat, sticky : BOOLEAN]
  BY <1>1 DEF BlockInv, ReaderInv, Begun, ReaderType
<1> QED
  BY <1>1, <1>2, StartsAfresh DEF NeverAccused

LEMMA RetryKeeps ==
  ASSUME BlockInv, WatchCut, Outside, NEW h \in BOOLEAN, Retry(h)
  PROVE  ReaderInv'
<1>1. CASE tries < ReadAttempts
  <2>1. reading' = "ready" /\ view' = NoView /\ UNCHANGED <<seen, answer>>
    BY <1>1 DEF Retry, Then
  <2>2. seen.owner <= sequence["owner"] /\ seen.worker <= sequence["worker"] /\ answer # "Invalid"
        /\ seen \in [header : BOOLEAN, owner : Nat, worker : Nat, sticky : BOOLEAN]
    BY DEF BlockInv, ReaderInv, Begun, ReaderType, NeverAccused
  <2> QED
    BY <2>1, <2>2, StartsAfresh DEF NeverAccused
<1>2. CASE ~(tries < ReadAttempts)
  <2>1. EndsRead(IF h THEN "Busy" ELSE "Unpublished")
    BY <1>2 DEF Retry
  <2> QED
    BY <2>1, EndsReadKeeps
<1> QED
  BY <1>1, <1>2

LEMMA SeesIs ==
  ASSUME BlockInv, SeesSticky
  PROVE  /\ seen' \in [header : BOOLEAN, owner : Nat, worker : Nat, sticky : BOOLEAN]
         /\ seen.owner' = seen.owner /\ seen.worker' = seen.worker
         /\ ~seen.sticky' => ~sticky
<1>1. seen \in [header : BOOLEAN, owner : Nat, worker : Nat, sticky : BOOLEAN] /\ sticky \in BOOLEAN
  BY DEF BlockInv, ReaderInv, ReaderType, WInv, WriterType
<1>2. seen' = [seen EXCEPT !.header = TRUE, !.sticky = seen.sticky \/ sticky]
  BY DEF SeesSticky
<1>3. (seen.sticky \/ sticky) \in BOOLEAN /\ TRUE \in BOOLEAN
  BY Zenon
<1>4. /\ seen.owner' = seen.owner /\ seen.worker' = seen.worker
      /\ seen.sticky' = (seen.sticky \/ sticky) /\ seen.header' = TRUE
  BY <1>1, <1>2
<1>5. seen' \in [header : BOOLEAN, owner : Nat, worker : Nat, sticky : BOOLEAN]
  BY <1>1, <1>2, <1>3
<1> QED
  BY <1>4, <1>5

LEMMA SeeReadyKeeps == ASSUME BlockInv, WatchCut, SeeReady PROVE ReaderInv'
<1> USE DEF BlockInv, ReaderInv
<1>0. Outside /\ reading = "ready"
  BY DEF SeeReady, At
<1>1. CASE statusReady = 1
  <2>1. reading' = "pause1" /\ SeesSticky /\ UNCHANGED <<tries, view, answer>>
    BY <1>1 DEF SeeReady, Then
  <2>2. WInv' /\ sequence' = sequence /\ statusReady' = 1
    BY <1>0, <1>1, OutsideKeeps DEF Outside, words
  <2>3. open' \in BOOLEAN /\ cut' \in [Writers -> Pair]
    BY <2>2, Watched
  <2>4. ReaderType'
    BY <2>1, <2>3, SeesIs DEF ReaderType, Places
  <2>5. Begun' /\ Copying'
    BY <1>0, <2>1, <2>2, SeesIs DEF Begun, Copying, Regions
  <2>6. KnowsA' /\ KnowsW' /\ KnowsB' /\ KnowsGate' /\ NeverAccused'
    BY <2>1 DEF KnowsA, KnowsW, KnowsB, KnowsGate, PastA, PastW, PastB, Settled, Regions, NeverAccused
  <2> QED
    BY <2>4, <2>5, <2>6
<1>2. CASE statusReady # 1
  <2>1. Retry(seen.header) /\ seen.header \in BOOLEAN
    BY <1>2 DEF SeeReady, ReaderType
  <2> QED
    BY <1>0, <2>1, RetryKeeps
<1> QED
  BY <1>1, <1>2

LEMMA ReadStickyKeeps == ASSUME BlockInv, WatchCut, ReadSticky PROVE ReaderInv'
<1> USE DEF BlockInv, ReaderInv
<1>1. /\ Outside /\ SeesSticky /\ UNCHANGED <<tries, view, answer>>
      /\ \/ reading = "sticky2" /\ reading' = "pause2"
         \/ reading = "sticky3" /\ reading' = "pause3"
  BY DEF ReadSticky, At, Then
<1>2. WInv' /\ UNCHANGED <<statusReady, sequence, region, current, sticky>>
  BY <1>1, OutsideKeeps DEF Outside, words
<1>3. /\ open' \in BOOLEAN /\ cut' = cut /\ (open => open')
  BY <1>1, <1>2, Watched
<1>4. ReaderType'
  BY <1>1, <1>3, SeesIs DEF ReaderType, Places, PastA, PastW, PastB, Settled
<1>5. reading \in PastB /\ reading' \in PastB /\ PastB \subseteq PastW /\ PastW \subseteq PastA
      /\ (reading' \in Settled => reading \in Settled) /\ reading' \notin Regions /\ reading \notin Regions
  BY <1>1 DEF PastA, PastW, PastB, Settled, Regions
<1>6. Begun' /\ Copying'
  BY <1>1, <1>2, <1>5, SeesIs DEF Begun, Copying
<1>7. KnowsA'
  BY <1>1, <1>2, <1>5, SeesIs DEF KnowsA
<1>8. KnowsW'
  BY <1>1, <1>2, <1>3, <1>5, SeesIs DEF KnowsW
<1>9. KnowsB'
  BY <1>1, <1>2, <1>3, <1>5 DEF KnowsB, SameOwner
<1>10. KnowsGate'
  <2>1. view.stable /\ ~view.pause => open \/ sticky
    BY <1>5 DEF KnowsGate
  <2>2. reading' = "pause3" => view.stable
    BY <1>1 DEF KnowsB, Settled, SameOwner
  <2> QED
    BY <1>1, <1>2, <1>3, <2>1, <2>2, SeesIs DEF KnowsGate
<1>11. NeverAccused'
  BY <1>1 DEF NeverAccused
<1> QED
  BY <1>4, <1>6, <1>7, <1>8, <1>9, <1>10, <1>11

\* A gate found open is open before anything adverse is published.
LEMMA ReadPauseFirstKeeps == ASSUME BlockInv, WatchCut, ReadPauseFirst PROVE ReaderInv'
<1> USE DEF BlockInv, ReaderInv
<1>1. /\ Outside /\ reading = "pause1" /\ reading' = "A" /\ UNCHANGED <<tries, seen, answer>>
      /\ view' = [view EXCEPT !.pause = gate]
  BY DEF ReadPauseFirst, At, Then
<1>2. WInv' /\ UNCHANGED <<statusReady, sequence, region, current, sticky, gate>>
  BY <1>1, OutsideKeeps DEF Outside, words
<1>3. /\ open' \in BOOLEAN /\ cut' = cut /\ (open \/ Ready' => open')
  BY <1>1, <1>2, Watched
<1>4. view \in Views /\ view.at = 0 /\ gate \in BOOLEAN
  BY <1>1 DEF ReaderType, Begun, Regions, WInv, WriterType
<1>5. view' \in Views /\ view'.at = 0 /\ view'.pause = gate
  BY <1>1, <1>4 DEF Views
<1>6. ReaderType' /\ Begun' /\ Copying' /\ NeverAccused'
  BY <1>1, <1>2, <1>3, <1>5 DEF ReaderType, Begun, Copying, NeverAccused, Places, Regions
<1>7. KnowsA' /\ KnowsW' /\ KnowsB'
  BY <1>1 DEF KnowsA, KnowsW, KnowsB, PastA, PastW, PastB, Settled
<1>8. ~gate => open' \/ sticky
  BY <1>2, <1>3 DEF Ready, Gated, WInv, AsWorker
<1>9. KnowsGate'
  BY <1>1, <1>2, <1>5, <1>8 DEF KnowsGate, Regions
<1> QED
  BY <1>6, <1>7, <1>9

\* A region found odd or empty: the attempt is lost, its numbers are kept.
LEMMA ReadBeforeKeeps == ASSUME BlockInv, WatchCut, ReadBefore PROVE ReaderInv'
<1> USE DEF BlockInv, ReaderInv
<1> DEFINE n == sequence[RegionAt]
           lost == [view EXCEPT !.stable = FALSE, !.a = IF reading = "A" THEN n ELSE @,
                     !.w = IF reading = "W" THEN n ELSE @, !.b = IF reading = "B" THEN n ELSE @]
<1>1. /\ Outside /\ reading \in Regions /\ view.at = 0 /\ UNCHANGED <<tries, seen, answer>>
      /\ view \in Views
  BY DEF ReadBefore, Regions, ReaderType
<1>2. WInv' /\ UNCHANGED <<statusReady, sequence, region, current, sticky>>
  BY <1>1, OutsideKeeps DEF Outside, words
<1>3. /\ "owner" \in Writers /\ "worker" \in Writers /\ RegionAt \in Writers /\ n \in Nat
      /\ sequence["owner"] \in Nat /\ sequence["worker"] \in Nat
      /\ RegionAt = IF reading = "W" THEN "worker" ELSE "owner"
  BY DEF Writers, RegionAt, WInv, WriterType
<1>4. CASE n < 2 \/ IsOdd(n)
  <2>1. reading' = After /\ view' = Kept(lost)
    BY <1>4 DEF ReadBefore, Then
  <2>2. /\ lost \in Views /\ ~lost.stable /\ lost.at = 0
        /\ lost.a = IF reading = "A" THEN n ELSE view.a
        /\ lost.w = IF reading = "W" THEN n ELSE view.w
        /\ lost.b = IF reading = "B" THEN n ELSE view.b
    <3>1. FALSE \in BOOLEAN
      BY Zenon
    <3> HIDE DEF n
    <3> QED
      BY <1>1, <1>3, <3>1 DEF Views
  <2> HIDE DEF lost
  <2>3. /\ view' \in Views /\ ~view'.stable /\ view'.at = 0
        /\ view'.a = lost.a /\ view'.b = lost.b /\ view'.w = lost.w
    BY <2>1, <2>2, KeptIs
  <2>4. /\ reading = "A" => reading' = "W"
        /\ reading = "W" => reading' = "B"
        /\ reading = "B" => reading' = "sticky2"
    BY <2>1 DEF After
  <2>5. /\ open' \in BOOLEAN /\ cut' \in [Writers -> Pair]
        /\ reading # "W" => cut' = cut
        /\ reading = "W" => cut' = current
    BY <1>1, <1>2, <2>4, Watched DEF Regions
  <2>6. ReaderType'
    BY <1>1, <2>3, <2>4, <2>5 DEF ReaderType, Regions, Places, PastA, PastW, PastB, Settled
  <2>7. Begun' /\ Copying' /\ NeverAccused'
    BY <1>1, <1>2, <2>3, <2>4 DEF Begun, Copying, NeverAccused, Regions
  <2>8. KnowsA'
    <3>1. seen.owner <= view'.a /\ view'.a <= sequence["owner"]
      <4>1. CASE reading = "A"
        BY <4>1, <1>3, <2>2, <2>3 DEF Begun
      <4>2. CASE reading \in {"W", "B"}
        BY <4>2, <1>3, <2>2, <2>3 DEF KnowsA, PastA, PastW
      <4> QED
        BY <1>1, <4>1, <4>2 DEF Regions
    <3> QED
      BY <1>1, <1>2, <2>3, <3>1 DEF KnowsA
  <2>9. KnowsW'
    <3>1. CASE reading = "A"
      BY <3>1, <2>4 DEF KnowsW, PastW, PastB, Settled
    <3>2. CASE reading = "W"
      BY <3>2, <1>1, <1>2, <1>3, <2>2, <2>3, <2>5 DEF KnowsW, Begun, WInv, Agreeing
    <3>3. CASE reading = "B"
      BY <3>3, <1>1, <1>2, <1>3, <2>2, <2>3, <2>5 DEF KnowsW, PastW
    <3> QED
      BY <1>1, <3>1, <3>2, <3>3 DEF Regions
  <2>10. KnowsB'
    <3>1. CASE reading \in {"A", "W"}
      BY <3>1, <2>4 DEF KnowsB, PastB, Settled
    <3>2. CASE reading = "B"
      BY <3>2, <1>2, <1>3, <2>2, <2>3, <2>4 DEF KnowsB, KnowsA, PastA, PastW, SameOwner, Settled
    <3> QED
      BY <1>1, <3>1, <3>2 DEF Regions
  <2>11. KnowsGate'
    BY <1>1, <2>3, <2>4 DEF KnowsGate, Regions
  <2> QED
    BY <2>6, <2>7, <2>8, <2>9, <2>10, <2>11
<1>5. CASE ~(n < 2 \/ IsOdd(n))
  <2>1. reading' = reading /\ view' = [view EXCEPT !.before = n, !.at = 1]
    BY <1>5 DEF ReadBefore
  <2> HIDE DEF n, lost
  <2>2. /\ view' \in Views /\ view'.before = n /\ view'.at = 1 /\ view'.stable = view.stable
        /\ view'.a = view.a /\ view'.b = view.b /\ view'.w = view.w /\ view'.pause = view.pause
        /\ view'.ownerA = view.ownerA /\ view'.ownerB = view.ownerB /\ view'.worker = view.worker
    <3>1. 1 \in Marks
      BY DEF Marks
    <3> QED
      BY <1>1, <1>3, <2>1, <3>1 DEF Views
  <2>9. reading' = reading /\ reading # "idle"
    BY <1>1, <2>1 DEF Regions
  <2>3. /\ open' \in BOOLEAN /\ cut' = cut /\ (open => open')
    BY <1>2, <2>9, Watched
  <2>4. ReaderType' /\ NeverAccused'
    BY <1>1, <2>1, <2>2, <2>3 DEF ReaderType, NeverAccused
  <2>5. Begun'
    BY <1>1, <1>2, <2>1 DEF Begun, Regions
  <2>6. RegionAt' = RegionAt
    BY <2>1 DEF RegionAt
  <2>7. Copying'
    BY <1>2, <1>3, <1>5, <2>2, <2>6 DEF Copying, n
  <2>8. KnowsA' /\ KnowsW' /\ KnowsB' /\ KnowsGate'
    BY <1>1, <1>2, <2>1, <2>2, <2>3 DEF KnowsA, KnowsW, KnowsB, KnowsGate, SameOwner
  <2> QED
    BY <2>4, <2>5, <2>7, <2>8
<1> QED
  BY <1>4, <1>5

LEMMA CopyWordKeeps == ASSUME BlockInv, WatchCut, CopyWord PROVE ReaderInv'
<1> USE DEF BlockInv, ReaderInv
<1> DEFINE k == view.at
           q == [view.words EXCEPT ![k] = region[RegionAt][k]]
           more == [view EXCEPT !.words = q, !.at = k + 1]
<1>1. /\ Outside /\ reading \in Regions /\ k \in 1..2 /\ UNCHANGED <<reading, tries, seen, answer>>
      /\ view \in Views /\ view' = Kept(more)
  BY DEF CopyWord, Regions, ReaderType
<1>2. WInv' /\ UNCHANGED <<statusReady, sequence, region, current, sticky>>
  BY <1>1, OutsideKeeps DEF Outside, words
<1>3. RegionAt \in Writers /\ region[RegionAt] \in Pair /\ RegionAt' = RegionAt
  BY <1>1 DEF Writers, RegionAt, WInv, WriterType
<1>4. region[RegionAt][k] \in Word /\ view.words \in Pair
  BY <1>1, <1>3 DEF Pair, Views
<1> HIDE DEF k, more, q
<1>5. q = [view.words EXCEPT ![k] = region[RegionAt][k]]
  BY DEF q
<1>6. /\ q \in Pair /\ q[k] = region[RegionAt][k]
      /\ \A i \in 1..2 : i # k => q[i] = view.words[i]
  BY <1>1, <1>4, <1>5 DEF Pair
<1>7. /\ more \in Views /\ more.words = q
      /\ more.at = k + 1 /\ more.before = view.before /\ more.stable = view.stable
      /\ more.a = view.a /\ more.b = view.b /\ more.w = view.w /\ more.pause = view.pause
      /\ more.ownerA = view.ownerA /\ more.ownerB = view.ownerB /\ more.worker = view.worker
  <2>1. k + 1 \in Marks
    BY <1>1 DEF Marks
  <2> QED
    BY <1>1, <1>6, <2>1 DEF Views, more
<1>8. k = view.at /\ k \in Nat /\ k + 1 \in Nat /\ k + 1 > 0
  BY <1>1 DEF k
<1>9. /\ view' \in Views /\ view'.at = k + 1 /\ view'.before = view.before
      /\ view'.a = view.a /\ view'.b = view.b /\ view'.w = view.w
      /\ view.stable => view' = more /\ view'.stable
      /\ ~view.stable => ~view'.stable
  BY <1>1, <1>7, KeptIs
<1>10. /\ open' \in BOOLEAN /\ cut' = cut /\ (open => open')
  BY <1>1, <1>2, Watched DEF Regions
<1>11. ReaderType' /\ NeverAccused' /\ Begun'
  BY <1>1, <1>2, <1>9, <1>10 DEF ReaderType, NeverAccused, Begun, Regions
<1>12. Copying'
  <2>1. ~IsOdd(view.before) /\ view.before <= sequence[RegionAt]
    BY <1>1, <1>8 DEF Copying
  <2>2. ASSUME view.stable, view.before = sequence[RegionAt], NEW i \in 1..2, i < k + 1
        PROVE  q[i] = region[RegionAt][i]
    <3>1. CASE i = k
      BY <3>1, <1>6
    <3>2. CASE i # k
      <4>1. i < view.at
        BY <1>1, <1>8, <2>2, <3>2
      <4> QED
        BY <4>1, <1>1, <1>6, <1>8, <2>2, <3>2 DEF Copying
    <3> QED
      BY <3>1, <3>2
  <2> QED
    BY <1>2, <1>3, <1>7, <1>9, <2>1, <2>2 DEF Copying
<1>13. /\ view'.stable = view.stable
       /\ view.stable => view'.ownerA = view.ownerA /\ view'.ownerB = view.ownerB
                         /\ view'.worker = view.worker /\ view'.pause = view.pause
  BY <1>1, <1>7, <1>9 DEF Views
<1>14. KnowsA' /\ KnowsW'
  BY <1>1, <1>2, <1>9, <1>10, <1>13 DEF KnowsA, KnowsW
<1>15. KnowsB'
  BY <1>1, <1>2, <1>9, <1>10, <1>13 DEF KnowsB, SameOwner
<1>16. KnowsGate'
  BY <1>1, <1>2, <1>10, <1>13 DEF KnowsGate, Regions, PastB, Settled
<1> QED
  BY <1>11, <1>12, <1>14, <1>15, <1>16

\* An undisturbed read has copied what is published at its end.
LEMMA ReadAgainKeeps == ASSUME BlockInv, WatchCut, ReadSequenceAgain PROVE ReaderInv'
<1> USE DEF BlockInv, ReaderInv
<1> DEFINE n == sequence[RegionAt]
           same == Undisturbed(n)
           read == [view EXCEPT !.at = 0, !.before = 0, !.words = FirstOwner,
                                !.stable = view.stable /\ same]
           afterA == [read EXCEPT !.a = n, !.ownerA = view.words]
           afterW == [read EXCEPT !.w = n, !.worker = view.words]
           afterB == [read EXCEPT !.b = n, !.ownerB = view.words]
<1>1. /\ Outside /\ reading \in Regions /\ view.at = 3 /\ view \in Views
  BY DEF ReadSequenceAgain, Regions, ReaderType
<1>2. WInv' /\ UNCHANGED <<statusReady, sequence, region, current, sticky>>
  BY <1>1, OutsideKeeps DEF Outside, words
<1>3. /\ "owner" \in Writers /\ "worker" \in Writers /\ RegionAt \in Writers /\ n \in Nat
      /\ sequence["owner"] \in Nat /\ sequence["worker"] \in Nat
      /\ region[RegionAt] \in Pair
      /\ RegionAt = IF reading = "W" THEN "worker" ELSE "owner"
  BY DEF Writers, RegionAt, WInv, WriterType
<1>4. ~IsOdd(view.before) /\ view.before <= n
  BY <1>1 DEF Copying
<1>5. ~(n < view.before)
  BY <1>1, <1>3, <1>4 DEF Views
<1>6. view.stable /\ same => /\ ~IsOdd(n) /\ view.words = current[RegionAt]
  <2> SUFFICES ASSUME view.stable, n = view.before
               PROVE  ~IsOdd(n) /\ view.words = current[RegionAt]
    BY DEF Undisturbed
  <2>1. view.words[1] = region[RegionAt][1] /\ view.words[2] = region[RegionAt][2]
    BY <1>1 DEF Copying
  <2>2. view.words = region[RegionAt]
    BY <1>1, <1>3, <2>1, SamePair DEF Views
  <2>3. region[RegionAt] = current[RegionAt]
    BY <1>3, <1>4 DEF WInv, Storing
  <2> QED
    BY <1>4, <2>2, <2>3
<1>7. /\ reading' = After /\ UNCHANGED <<tries, seen, answer>>
      /\ \/ reading = "A" /\ view' = Kept(afterA)
         \/ reading = "W" /\ view' = Kept(afterW)
         \/ reading = "B" /\ view' = Kept(afterB)
  BY <1>5 DEF ReadSequenceAgain, Then
<1>8. /\ reading = "A" => reading' = "W" /\ view' = Kept(afterA)
      /\ reading = "W" => reading' = "B" /\ view' = Kept(afterW)
      /\ reading = "B" => reading' = "sticky2" /\ view' = Kept(afterB)
  BY <1>7 DEF After
<1>9. (view.stable /\ same) \in BOOLEAN /\ 0 \in Marks /\ 0 \in Nat /\ FirstOwner \in Pair
  BY FirstWords DEF Marks, OwnerWords
<1> HIDE DEF same, n
<1>10. /\ read \in Views /\ read.at = 0 /\ read.stable = (view.stable /\ same)
       /\ read.a = view.a /\ read.b = view.b /\ read.w = view.w /\ read.pause = view.pause
       /\ read.ownerA = view.ownerA /\ read.ownerB = view.ownerB /\ read.worker = view.worker
  BY <1>1, <1>9 DEF Views
<1>11. view.words \in Pair
  BY <1>1 DEF Views
<1> HIDE DEF read
<1>12. /\ open' \in BOOLEAN /\ cut' \in [Writers -> Pair]
       /\ reading # "W" => cut' = cut
       /\ reading = "W" => cut' = current
       /\ open => open'
  BY <1>1, <1>2, <1>8, Watched DEF Regions
<1>13. CASE reading = "A"
  <2>1. /\ afterA \in Views /\ afterA.at = 0 /\ afterA.stable = (view.stable /\ same)
        /\ afterA.a = n /\ afterA.ownerA = view.words /\ afterA.pause = view.pause
    BY <1>3, <1>10, <1>11 DEF Views
  <2> HIDE DEF afterA
  <2>2. /\ view' \in Views /\ view'.at = 0 /\ view'.a = n
        /\ view'.stable => view.stable /\ same /\ view'.ownerA = view.words
                           /\ view'.pause = view.pause
    BY <1>8, <1>13, <2>1, KeptIs
  <2>3. reading' = "W" /\ n = sequence["owner"] /\ RegionAt = "owner"
    BY <1>3, <1>8, <1>13 DEF n
  <2>4. ReaderType' /\ Begun' /\ Copying' /\ NeverAccused'
    BY <1>1, <1>2, <1>7, <1>12, <1>13, <2>2, <2>3
       DEF ReaderType, Begun, Copying, NeverAccused, Places, PastA, Regions
  <2>5. KnowsA'
    BY <1>2, <1>3, <1>6, <1>7, <2>2, <2>3 DEF KnowsA, Begun
  <2>6. KnowsW' /\ KnowsB'
    BY <2>3 DEF KnowsW, KnowsB, PastW, PastB, Settled
  <2>7. KnowsGate'
    BY <1>2, <1>12, <1>13, <2>2, <2>3 DEF KnowsGate, Regions
  <2> QED
    BY <2>4, <2>5, <2>6, <2>7
<1>14. CASE reading = "W"
  <2>1. /\ afterW \in Views /\ afterW.at = 0 /\ afterW.stable = (view.stable /\ same)
        /\ afterW.w = n /\ afterW.worker = view.words /\ afterW.pause = view.pause
        /\ afterW.a = view.a /\ afterW.ownerA = view.ownerA
    BY <1>3, <1>10, <1>11 DEF Views
  <2> HIDE DEF afterW
  <2>2. /\ view' \in Views /\ view'.at = 0 /\ view'.a = view.a /\ view'.w = n
        /\ view'.stable => view.stable /\ same /\ view'.worker = view.words
                           /\ view'.pause = view.pause /\ view'.ownerA = view.ownerA
    BY <1>8, <1>14, <2>1, KeptIs
  <2>3. reading' = "B" /\ n = sequence["worker"] /\ RegionAt = "worker" /\ cut' = current
    BY <1>3, <1>8, <1>12, <1>14 DEF n
  <2>4. ReaderType' /\ Begun' /\ Copying' /\ NeverAccused'
    BY <1>1, <1>2, <1>7, <1>12, <1>14, <2>2, <2>3
       DEF ReaderType, Begun, Copying, NeverAccused, Places, PastA, PastW, Regions
  <2>5. /\ seen.owner <= view.a /\ view.a <= sequence["owner"]
        /\ view.stable => ~IsOdd(view.a)
        /\ view.stable /\ view.a = sequence["owner"] => view.ownerA = current["owner"]
    BY <1>14 DEF KnowsA, PastA
  <2>6. KnowsA'
    BY <1>2, <1>7, <2>2, <2>5 DEF KnowsA
  <2>7. KnowsW'
    BY <1>2, <1>3, <1>6, <1>7, <2>2, <2>3, <2>5 DEF KnowsW, Begun, WInv, Agreeing
  <2>8. KnowsB'
    BY <2>3 DEF KnowsB, PastB, Settled
  <2>9. KnowsGate'
    BY <1>2, <1>12, <1>14, <2>2, <2>3 DEF KnowsGate, Regions
  <2> QED
    BY <2>4, <2>6, <2>7, <2>8, <2>9
<1>15. CASE reading = "B"
  <2>1. /\ afterB \in Views /\ afterB.at = 0 /\ afterB.stable = (view.stable /\ same)
        /\ afterB.b = n /\ afterB.ownerB = view.words /\ afterB.pause = view.pause
        /\ afterB.a = view.a /\ afterB.ownerA = view.ownerA
        /\ afterB.w = view.w /\ afterB.worker = view.worker
    BY <1>3, <1>10, <1>11 DEF Views
  <2> HIDE DEF afterB
  <2>2. /\ view' \in Views /\ view'.at = 0 /\ view'.a = view.a /\ view'.w = view.w /\ view'.b = n
        /\ view'.stable => view.stable /\ same /\ view'.ownerB = view.words
                           /\ view'.pause = view.pause /\ view'.ownerA = view.ownerA
                           /\ view'.worker = view.worker
    BY <1>8, <1>15, <2>1, KeptIs, ZenonT(40)
  <2>3. reading' = "sticky2" /\ n = sequence["owner"] /\ RegionAt = "owner" /\ cut' = cut
    BY <1>3, <1>8, <1>12, <1>15 DEF n
  <2>4. ReaderType' /\ Begun' /\ Copying' /\ NeverAccused'
    BY <1>1, <1>2, <1>7, <1>12, <1>15, <2>2, <2>3
       DEF ReaderType, Begun, Copying, NeverAccused, Places, PastA, PastW, PastB, Regions
  <2>5. /\ seen.owner <= view.a /\ view.a <= sequence["owner"]
        /\ view.stable => ~IsOdd(view.a)
        /\ view.stable /\ view.a = sequence["owner"] => view.ownerA = current["owner"]
    BY <1>15 DEF KnowsA, PastA, PastW
  <2>6. /\ seen.worker <= view.w /\ view.w <= sequence["worker"]
        /\ Agreed(cut["owner"], cut["worker"])
        /\ view.stable => cut["worker"] = view.worker
        /\ view.stable /\ view.a = sequence["owner"] => cut["owner"] = view.ownerA
    BY <1>15 DEF KnowsW, PastW
  <2>7. KnowsA' /\ KnowsW'
    BY <1>2, <1>7, <2>2, <2>3, <2>5, <2>6 DEF KnowsA, KnowsW
  <2>8. KnowsB'
    BY <1>2, <1>3, <1>6, <2>2, <2>3, <2>5, <2>6 DEF KnowsB, SameOwner, Settled
  <2>9. KnowsGate'
    BY <1>2, <1>12, <1>15, <2>2, <2>3 DEF KnowsGate, Regions
  <2> QED
    BY <2>4, <2>7, <2>8, <2>9
<1> QED
  BY <1>1, <1>13, <1>14, <1>15 DEF Regions

LEMMA ReadPauseAgainKeeps == ASSUME BlockInv, WatchCut, ReadPauseAgain PROVE ReaderInv'
<1> USE DEF BlockInv, ReaderInv
<1> DEFINE next == [view EXCEPT !.changed = view.pause # gate, !.pause = view.pause \/ gate]
<1>1. /\ Outside /\ reading = "pause2" /\ reading' = "decide" /\ UNCHANGED <<tries, seen, answer>>
      /\ view' = Kept(next) /\ view \in Views
  BY DEF ReadPauseAgain, At, Then, ReaderType
<1>2. WInv' /\ UNCHANGED <<statusReady, sequence, region, current, sticky>>
  BY <1>1, OutsideKeeps DEF Outside, words
<1>3. /\ open' \in BOOLEAN /\ cut' = cut /\ (open => open')
  BY <1>1, <1>2, Watched
<1>4. (view.pause # gate) \in BOOLEAN /\ (view.pause \/ gate) \in BOOLEAN
  BY Zenon
<1>5. /\ next \in Views /\ next.pause = (view.pause \/ gate) /\ next.stable = view.stable
      /\ next.at = view.at /\ next.a = view.a /\ next.b = view.b /\ next.w = view.w
      /\ next.ownerA = view.ownerA /\ next.ownerB = view.ownerB /\ next.worker = view.worker
  BY <1>1, <1>4 DEF Views
<1> HIDE DEF next
<1>6. /\ view' \in Views /\ view'.at = view.at
      /\ view'.a = view.a /\ view'.b = view.b /\ view'.w = view.w
      /\ view'.stable = view.stable
      /\ view.stable => /\ view'.ownerA = view.ownerA /\ view'.ownerB = view.ownerB
                        /\ view'.worker = view.worker /\ (~view'.pause => ~view.pause)
  BY <1>1, <1>5, KeptIs DEF Views
<1>7. {"pause2", "decide"} \subseteq PastB /\ PastB \subseteq PastW /\ PastW \subseteq PastA
      /\ "decide" \notin Settled /\ "decide" \notin Regions /\ "pause2" \notin Regions
      /\ "decide" \in Places
  BY DEF PastA, PastW, PastB, Settled, Regions, Places
<1>8. ReaderType' /\ Begun' /\ Copying' /\ NeverAccused'
  BY <1>1, <1>2, <1>3, <1>6, <1>7 DEF ReaderType, Begun, Copying, NeverAccused
<1>9. KnowsA'
  BY <1>1, <1>2, <1>6, <1>7 DEF KnowsA
<1>10. KnowsW'
  BY <1>1, <1>2, <1>3, <1>6, <1>7 DEF KnowsW
<1>11. KnowsB'
  BY <1>1, <1>2, <1>3, <1>6, <1>7 DEF KnowsB, SameOwner
<1>12. KnowsGate'
  BY <1>1, <1>2, <1>3, <1>6, <1>7 DEF KnowsGate
<1> QED
  BY <1>8, <1>9, <1>10, <1>11, <1>12

\* Numbers never go back, and the same number never names two publications.
LEMMA DecideKeeps == ASSUME BlockInv, WatchCut, Decide PROVE ReaderInv'
<1> USE DEF BlockInv, ReaderInv
<1>1. Outside /\ reading = "decide" /\ view \in Views
  BY DEF Decide, At, ReaderType
<1>2. WInv' /\ UNCHANGED <<statusReady, sequence, region, current, sticky>>
  BY <1>1, OutsideKeeps DEF Outside, words
<1>3. "decide" \in PastB /\ "decide" \in PastW /\ "decide" \in PastA
  BY DEF PastA, PastW, PastB
<1>4. /\ view.a \in Nat /\ view.b \in Nat /\ view.w \in Nat /\ seen.owner \in Nat /\ seen.worker \in Nat
      /\ sequence["owner"] \in Nat /\ sequence["worker"] \in Nat
      /\ seen \in [header : BOOLEAN, owner : Nat, worker : Nat, sticky : BOOLEAN]
  BY <1>1 DEF Views, ReaderType, WInv, WriterType, Writers
<1>5. /\ statusReady = 1 /\ seen.owner <= view.a /\ view.a <= view.b /\ view.b <= sequence["owner"]
      /\ seen.worker <= view.w /\ view.w <= sequence["worker"]
  BY <1>1, <1>3 DEF Begun, KnowsA, KnowsW, KnowsB
<1>6. ~(statusReady # 1 \/ view.a < seen.owner \/ view.b < view.a \/ view.w < seen.worker)
  BY <1>4, <1>5
<1>7. CASE ~SameOwner
  <2>1. CASE tries < ReadAttempts
    <3>1. /\ reading' = "ready" /\ view' = NoView /\ UNCHANGED answer
          /\ seen' = [seen EXCEPT !.owner = view.b, !.worker = view.w]
      BY <1>6, <1>7, <2>1 DEF Decide, Then
    <3>2. /\ seen' \in [header : BOOLEAN, owner : Nat, worker : Nat, sticky : BOOLEAN]
          /\ seen.owner' = view.b /\ seen.worker' = view.w
      BY <1>4, <3>1
    <3> QED
      BY <1>1, <1>5, <3>1, <3>2, StartsAfresh DEF NeverAccused
  <2>2. CASE ~(tries < ReadAttempts)
    <3>1. EndsRead("Busy")
      BY <1>6, <1>7, <2>2 DEF Decide
    <3> QED
      BY <1>1, <3>1, EndsReadKeeps
  <2> QED
    BY <2>1, <2>2
<1>8. CASE SameOwner
  <2>1. view.ownerA = view.ownerB /\ cut["owner"] = view.ownerB
    BY <1>1, <1>3, <1>8 DEF KnowsB
  <2>2. reading' = "sticky3" /\ UNCHANGED <<seen, tries, view, answer>>
    BY <1>6, <1>8, <2>1 DEF Decide, Then
  <2>3. /\ open' \in BOOLEAN /\ cut' = cut /\ (open => open')
    BY <1>1, <1>2, <2>2, Watched
  <2>4. "sticky3" \in Places /\ "sticky3" \in PastB /\ "sticky3" \notin Regions
        /\ "decide" \notin Regions
    BY DEF Places, PastA, PastW, PastB, Settled, Regions
  <2>5. ReaderType' /\ Begun' /\ Copying' /\ NeverAccused'
    BY <1>1, <1>2, <2>2, <2>3, <2>4 DEF ReaderType, Begun, Copying, NeverAccused
  <2>6. KnowsA' /\ KnowsW'
    BY <1>1, <1>2, <1>3, <2>2, <2>3 DEF KnowsA, KnowsW
  <2>7. KnowsB'
    BY <1>1, <1>2, <1>3, <1>8, <2>2, <2>3 DEF KnowsB, SameOwner
  <2>8. KnowsGate'
    BY <1>1, <1>2, <1>3, <2>2, <2>3 DEF KnowsGate
  <2> QED
    BY <2>5, <2>6, <2>7, <2>8
<1> QED
  BY <1>7, <1>8

\* What is put together of publications that agreed is valid.
LEMMA ReadPauseLastKeeps == ASSUME BlockInv, WatchCut, ReadPauseLast PROVE ReaderInv'
<1> USE DEF BlockInv, ReaderInv
<1> DEFINE next == [view EXCEPT !.changed = view.changed \/ gate # view.pause,
                                !.pause = view.pause \/ gate]
<1>1. Outside /\ reading = "pause3" /\ view \in Views
  BY DEF ReadPauseLast, At, ReaderType
<1>2. WInv' /\ UNCHANGED <<statusReady, sequence, region, current, sticky>>
  BY <1>1, OutsideKeeps DEF Outside, words
<1>3. "pause3" \in PastB /\ "pause3" \in PastW /\ "pause3" \in PastA /\ "pause3" \in Settled
  BY DEF PastA, PastW, PastB, Settled
<1>4. /\ SameOwner /\ view.stable /\ cut["owner"] = view.ownerB /\ cut["worker"] = view.worker
      /\ Agreed(cut["owner"], cut["worker"])
  BY <1>1, <1>3 DEF KnowsB, KnowsW, SameOwner
<1>5. CoreValid(AsOwner(view.ownerB), AsWorker(view.worker))
  BY <1>4 DEF Agreed
<1>6. reading' = "coherent" /\ UNCHANGED <<tries, seen, answer>> /\ view' = next
  BY <1>5 DEF ReadPauseLast, Then
<1>7. (view.changed \/ gate # view.pause) \in BOOLEAN /\ (view.pause \/ gate) \in BOOLEAN
  BY Zenon
<1>8. /\ view' \in Views /\ view'.pause = (view.pause \/ gate) /\ view'.stable = view.stable
      /\ view'.at = view.at /\ view'.a = view.a /\ view'.b = view.b /\ view'.w = view.w
      /\ view'.ownerA = view.ownerA /\ view'.ownerB = view.ownerB /\ view'.worker = view.worker
  BY <1>1, <1>6, <1>7 DEF Views
<1> HIDE DEF next
<1>9. /\ open' \in BOOLEAN /\ cut' = cut /\ (open => open')
  BY <1>1, <1>2, <1>6, Watched
<1>10. "coherent" \in Places /\ "coherent" \notin Regions /\ "pause3" \notin Regions
  BY DEF Places, PastA, PastW, PastB, Settled, Regions
<1>11. ReaderType' /\ Begun' /\ Copying' /\ NeverAccused'
  BY <1>1, <1>2, <1>6, <1>8, <1>9, <1>10 DEF ReaderType, Begun, Copying, NeverAccused
<1>12. KnowsA' /\ KnowsW'
  BY <1>1, <1>2, <1>3, <1>6, <1>8, <1>9 DEF KnowsA, KnowsW
<1>13. KnowsB'
  BY <1>1, <1>2, <1>3, <1>6, <1>8, <1>9 DEF KnowsB, SameOwner
<1>14. KnowsGate'
  BY <1>1, <1>2, <1>3, <1>6, <1>8, <1>9 DEF KnowsGate
<1> QED
  BY <1>11, <1>12, <1>13, <1>14

LEMMA ReaderStepsKeep == ASSUME BlockInv, WatchCut, ReaderSteps PROVE ReaderInv'
<1>1. CASE AnswerSnapshot
  BY <1>1, EndsReadKeeps DEF AnswerSnapshot
<1>2. CASE SnapshotFails
  BY <1>2, EndsReadKeeps DEF SnapshotFails
<1> QED
  BY <1>1, <1>2, BeginSnapshotKeeps, SeeReadyKeeps, ReadStickyKeeps, ReadPauseFirstKeeps,
     ReadBeforeKeeps, CopyWordKeeps, ReadAgainKeeps, ReadPauseAgainKeeps, DecideKeeps,
     ReadPauseLastKeeps DEF ReaderSteps

-----------------------------------------------------------------------------
(* The whole block.                                                        *)

LEMMA WritersKeep ==
  ASSUME WInv, OwnerSteps \/ Worker \/ Writing \/ RevokeStatus
  PROVE  WInv' /\ Moves /\ UNCHANGED readerVars
<1>1. UNCHANGED readerVars
  BY DEF OwnerSteps, Worker, Writing, ClaimStatus, InitializeStatusV3, PublishOwnerV3, PublishWorkerV3,
         ReadOwnerGivesUp, CompareWithOwner, OpenGate, StoreWords, FinishPublication, RevokeStatus
<1>2. WInv' /\ Moves
  BY HeaderKeeps, PublishOwnerKeeps, PublishWorkerKeeps, ReadOwnerGivesUpKeeps, CompareKeeps,
     OpenGateKeeps, StoreKeeps, EndKeeps, RevokeKeeps DEF OwnerSteps, Worker, Writing
<1> QED
  BY <1>1, <1>2

LEMMA StutterKeeps == ASSUME BlockInv, UNCHANGED blockVars PROVE BlockInv'
<1>1. UNCHANGED <<statusReady, sequence, region, sticky, gate, place, nextWord, pending, reading, tries,
                  seen, view, answer, current, cut, open>>
  BY DEF blockVars, words, writers, readerVars
<1>2. WInv'
  BY <1>1 DEF BlockInv, WInv, WriterType, Heading, Storing, Agreeing, Agreed, Gated,
              OwnerWords, WorkerWords
<1>3. ReaderType' /\ Begun' /\ NeverAccused'
  BY <1>1 DEF BlockInv, ReaderInv, ReaderType, Begun, NeverAccused
<1>4. Copying' /\ KnowsA'
  BY <1>1 DEF BlockInv, ReaderInv, Copying, KnowsA, RegionAt
<1>5. KnowsW' /\ KnowsB' /\ KnowsGate'
  BY <1>1 DEF BlockInv, ReaderInv, KnowsW, KnowsB, KnowsGate, SameOwner, Agreed
<1> QED
  BY <1>2, <1>3, <1>4, <1>5 DEF BlockInv, ReaderInv

LEMMA NextKeeps == ASSUME BlockInv, [BlockNext]_blockVars PROVE BlockInv'
<1>1. CASE WatchCut /\ (OwnerSteps \/ Worker \/ Writing \/ RevokeStatus)
  BY <1>1, WritersKeep, ReaderStands DEF BlockInv
<1>2. CASE WatchCut /\ ReaderSteps
  <2>1. Outside
    BY <1>2 DEF ReaderSteps, BeginSnapshot, SeeReady, ReadSticky, ReadPauseFirst, ReadBefore, CopyWord,
                ReadSequenceAgain, ReadPauseAgain, Decide, ReadPauseLast, AnswerSnapshot, SnapshotFails
  <2> QED
    BY <1>2, <2>1, ReaderStepsKeep, OutsideKeeps DEF BlockInv
<1>3. CASE UNCHANGED blockVars
  BY <1>3, StutterKeeps
<1> QED
  BY <1>1, <1>2, <1>3 DEF BlockNext

\* The inductive invariant: each writer's region, sequence and gate are in
\* step, and every number the reader holds names the words it copied.
THEOREM BlockInvariant == BlockSpec => []BlockInv
<1>1. BlockInit => BlockInv
  BY InitHolds
<1>2. BlockInv /\ [BlockNext]_blockVars => BlockInv'
  BY NextKeeps
<1> QED
  BY <1>1, <1>2, PTL DEF BlockSpec

\* ReadStatusSnapshotV3 never calls a healthy block invalid, a coherent snapshot
\* is a consistent cut of the two writers' publications, and one called ready
\* was ready at a moment of its read: of the read, not of its end.
THEOREM HonestSnapshots == BlockSpec => []SnapshotIsHonest
<1>1. BlockInv => SnapshotIsHonest
  <2> SUFFICES ASSUME BlockInv PROVE SnapshotIsHonest
    OBVIOUS
  <2> USE DEF BlockInv, ReaderInv
  <2>1. NeverAccused
    OBVIOUS
  <2>2. ConsistentCut
    <3> SUFFICES ASSUME reading = "coherent"
                 PROVE  cut = [owner |-> view.ownerB, worker |-> view.worker]
      BY DEF ConsistentCut
    <3>1. cut["owner"] = view.ownerB /\ cut["worker"] = view.worker
      BY DEF KnowsB, KnowsW, SameOwner, PastW, PastB, Settled
    <3>2. cut \in [Writers -> Pair]
      BY DEF ReaderType
    <3>3. cut = [owner |-> cut["owner"], worker |-> cut["worker"]]
      BY <3>2 DEF Writers
    <3> QED
      BY <3>1, <3>3
  <2>3. ReadyIsHonest
    BY DEF KnowsGate, ReadyIsHonest, CurrentlyReady
  <2> QED
    BY <2>1, <2>2, <2>3 DEF SnapshotIsHonest
<1> QED
  BY <1>1, BlockInvariant, PTL
=============================================================================
