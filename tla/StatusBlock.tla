---------------------------- MODULE StatusBlock -----------------------------
(***************************************************************************)
(* The reporting status block: an owner and a worker thread each           *)
(* publish a region of it under a sequence word of their own, latches and  *)
(* a gate stand beside the regions, and a reader outside the process puts  *)
(* one snapshot together from all of them, without a lock.                 *)
(*                                                                         *)
(* A region has two words, enough to be read torn.  Stores and loads are   *)
(* steps; the reader's sticky words are one load, since they only grow and *)
(* are only asked whether they are clear.  What InitializeStatusV3 stores  *)
(* before headerReady nobody reads, and it is one step.                    *)
(***************************************************************************)
EXTENDS Integers, Sequences

CONSTANTS
    ReadAttempts,   \* attempts of a snapshot (3)
    LastSequence,   \* per writer the largest even sequence (UINT64_MAX - 1)
    MaxRecords      \* bound on the record counters

VARIABLES
    statusReady, sequence, region,   \* headerReady; per writer the sequence and words
    sticky, gate,                    \* latches; workerPauseReason
    place, nextWord, pending,        \* the writers: place, next word, value
    reading, tries, seen, view, answer,   \* the reader: place, attempt and what it holds
    current, cut, open               \* history: the last whole publications; those at the
                                     \* read of the worker's region; was there a moment of
                                     \* the read at which reporting was ready

words == <<statusReady, sequence, region, sticky, gate>>
writers == <<place, nextWord, pending>>
readerVars == <<reading, tries, seen, view, answer>>
blockVars == <<words, writers, readerVars, current, cut, open>>

Writers == {"owner", "worker"}
IsOdd(n) == n % 2 = 1
Count == 0..MaxRecords

\* The words of a region as a record: OwnerTransport, WorkerTransport.
AsOwner(w)  == [generated |-> w[1], submitted |-> w[2]]
AsWorker(w) == [observed |-> w[1], prepared |-> w[2].prepared, pause |-> w[2].pause]
FirstOwner   == <<0, 0>>
FirstWorker  == <<0, [prepared |-> 0, pause |-> FALSE]>>
NoView == [pause |-> FALSE, changed |-> FALSE, before |-> 0, at |-> 0, words |-> <<0, 0>>,
           a |-> 0, b |-> 0, w |-> 0, stable |-> TRUE,
           ownerA |-> FirstOwner, ownerB |-> FirstOwner, worker |-> FirstWorker]
NothingSeen == [header |-> FALSE, owner |-> 0, worker |-> 0, sticky |-> FALSE]

BlockInit ==
    /\ statusReady = 0 /\ sequence = [x \in Writers |-> 0]
    /\ region = [owner |-> FirstOwner, worker |-> FirstWorker]
    /\ sticky = FALSE /\ gate = FALSE
    /\ place = [owner |-> "claim", worker |-> "open"]
    /\ nextWord = [x \in Writers |-> 1] /\ pending = region
    /\ reading = "idle" /\ tries = 1 /\ seen = NothingSeen /\ view = NoView /\ answer = "none"
    /\ current = region /\ cut = region /\ open = FALSE

-----------------------------------------------------------------------------
(* The writers.                                                            *)

Goes(x, from, to) == place[x] = from /\ place' = [place EXCEPT ![x] = to]

ClaimStatus ==
    /\ Goes("owner", "claim", "fill") /\ statusReady = 0 /\ statusReady' = 2
    /\ UNCHANGED <<sequence, region, sticky, gate, nextWord, pending, readerVars,
                   current>>
InitializeStatusV3 ==
    /\ Goes("owner", "fill", "open") /\ statusReady' = 1
    /\ sequence' = [x \in Writers |-> 2]
    /\ UNCHANGED <<region, sticky, gate, nextWord, pending, readerVars, current>>

\* StartPublication: refused, and a fault, once used up.
Starts(x, value) ==
    IF sequence[x] + 2 <= LastSequence[x]
    THEN /\ sequence' = [sequence EXCEPT ![x] = @ + 1]
         /\ nextWord' = [nextWord EXCEPT ![x] = 1] /\ pending' = [pending EXCEPT ![x] = value]
         /\ place' = [place EXCEPT ![x] = "words"] /\ UNCHANGED sticky
    ELSE /\ sticky' = TRUE
         /\ place' = [place EXCEPT ![x] = "open"]
         /\ UNCHANGED <<sequence, nextWord, pending>>

PublishOwnerV3 ==
    /\ statusReady = 1 /\ place["owner"] = "open"
    /\ \E g, s \in Count :
         /\ s <= g /\ g >= region["owner"][1] /\ s >= region["owner"][2]
         /\ Starts("owner", <<g, s>>)
    /\ UNCHANGED <<statusReady, region, gate, readerVars, current>>

\* What the worker has prepared may be ahead of what the owner has published.
\* It closes its gate before anything adverse and opens it after
\* everything clear is visible; in between it reads the owner's region.
PublishWorkerV3 ==
    /\ statusReady = 1
    /\ \E o, p \in Count, pause \in BOOLEAN :
         /\ o <= p
         /\ pending' = [pending EXCEPT !["worker"] = <<o, [prepared |-> p, pause |-> pause]>>]
         /\ gate' = (gate \/ pause)
    /\ Goes("worker", "open", "read")
    /\ UNCHANGED <<statusReady, sequence, region, sticky, nextWord, readerVars, current>>
\* ReadOwnerV3 returns a publication that was current while it read, or gives
\* up; the comparison that follows reads only words the worker writes.
ReadOwnerGivesUp ==
    /\ Goes("worker", "read", "open") /\ IsOdd(sequence["owner"])
    /\ pending' = [pending EXCEPT !["worker"] = region["worker"]]
    /\ UNCHANGED <<words, nextWord, readerVars, current>>

Prepared(w, o) == IF w.prepared < o.generated THEN w.prepared ELSE o.generated
CompareWithOwner ==
    /\ place["worker"] = "read" /\ ~IsOdd(sequence["owner"])
    /\ LET w == AsWorker(pending["worker"])  o == AsOwner(region["owner"])
           last == AsWorker(region["worker"]) IN
         IF \/ w.observed > o.submitted \/ w.observed > w.prepared
            \/ w.observed < last.observed \/ w.prepared < last.prepared
         THEN /\ sticky' = TRUE /\ place' = [place EXCEPT !["worker"] = "open"]
              /\ pending' = [pending EXCEPT !["worker"] = region["worker"]]
              /\ UNCHANGED <<sequence, nextWord>>
         ELSE Starts("worker", <<w.observed, [prepared |-> Prepared(w, o), pause |-> w.pause]>>)
    /\ UNCHANGED <<statusReady, region, gate, readerVars, current>>
OpenGate ==
    /\ Goes("worker", "gate", "open")
    /\ gate' = (gate /\ region["worker"][2].pause)
    /\ UNCHANGED <<statusReady, sequence, region, sticky, nextWord, pending,
                   readerVars, current>>

StoreWords(x) ==
    /\ place[x] = "words" /\ nextWord[x] <= 2
    /\ region' = [region EXCEPT ![x][nextWord[x]] = pending[x][nextWord[x]]]
    /\ nextWord' = [nextWord EXCEPT ![x] = @ + 1]
    /\ UNCHANGED <<statusReady, sequence, sticky, gate, place, pending,
                   readerVars, current>>
FinishPublication(x) ==
    /\ nextWord[x] = 3 /\ Goes(x, "words", IF x = "worker" THEN "gate" ELSE "open")
    /\ sequence' = [sequence EXCEPT ![x] = @ + 1]
    /\ current' = [current EXCEPT ![x] = pending[x]] /\ nextWord' = [nextWord EXCEPT ![x] = 1]
    /\ UNCHANGED <<statusReady, region, sticky, gate, pending, readerVars>>

\* RevokeStatus, LoseStatus, StopStatus and LatchTransportFault, by anyone.
RevokeStatus ==
    /\ ~sticky /\ sticky' = TRUE
    /\ UNCHANGED <<statusReady, sequence, region, gate, writers, readerVars, current>>
-----------------------------------------------------------------------------
(* ReadStatusSnapshotV3, in another process.                               *)

At(p) == reading = p
Then(p) == reading' = p
EndsRead(r) ==
    /\ reading' = "idle" /\ answer' = r
    /\ tries' = 1 /\ seen' = NothingSeen /\ view' = NoView
Outside == UNCHANGED <<words, writers, current>>

Retry(headerSeen) ==
    IF tries < ReadAttempts
    THEN /\ Then("ready") /\ tries' = tries + 1 /\ view' = NoView
         /\ UNCHANGED <<seen, answer>>
    ELSE EndsRead(IF headerSeen THEN "Busy" ELSE "Unpublished")

BeginSnapshot ==
    /\ At("idle") /\ Then("ready") /\ answer' = "none"
    /\ Outside /\ UNCHANGED <<tries, seen, view>>

\* headerReady, which once 1 stays 1, and the latches, which accumulate.
SeesSticky == seen' = [seen EXCEPT !.header = TRUE, !.sticky = @ \/ sticky]
SeeReady ==
    /\ At("ready") /\ Outside
    /\ IF statusReady = 1
       THEN Then("pause1") /\ SeesSticky /\ UNCHANGED <<tries, view, answer>>
       ELSE Retry(seen.header)
ReadSticky ==
    /\ Outside /\ SeesSticky /\ UNCHANGED <<tries, view, answer>>
    /\ \/ At("sticky2") /\ Then("pause2")
       \/ At("sticky3") /\ Then("pause3")

\* What a disturbed attempt has copied is never looked at.
Kept(v) ==
    IF v.stable THEN v
    ELSE [v EXCEPT !.pause = FALSE, !.changed = FALSE, !.words = FirstOwner,
                   !.ownerA = FirstOwner, !.ownerB = FirstOwner, !.worker = FirstWorker]

\* The owner's region is read twice, around the worker's.
ReadPauseFirst ==
    /\ At("pause1") /\ Then("A") /\ Outside /\ UNCHANGED <<tries, seen, answer>>
    /\ view' = [view EXCEPT !.pause = gate]

RegionAt == IF reading = "W" THEN "worker" ELSE "owner"
After == IF reading = "A" THEN "W" ELSE IF reading = "W" THEN "B" ELSE "sticky2"
ReadBefore ==
    /\ reading \in {"A", "W", "B"} /\ view.at = 0
    /\ Outside /\ UNCHANGED <<tries, seen, answer>>
    /\ LET n == sequence[RegionAt] IN
         IF n < 2 \/ IsOdd(n)
         THEN /\ Then(After)
              /\ view' = Kept([view EXCEPT !.stable = FALSE, !.a = IF reading = "A" THEN n ELSE @,
                            !.w = IF reading = "W" THEN n ELSE @,
                            !.b = IF reading = "B" THEN n ELSE @])
         ELSE view' = [view EXCEPT !.before = n, !.at = 1] /\ UNCHANGED reading
CopyWord ==
    /\ reading \in {"A", "W", "B"} /\ view.at \in 1..2
    /\ Outside /\ UNCHANGED <<reading, tries, seen, answer>>
    /\ LET copied == [view.words EXCEPT ![view.at] = region[RegionAt][view.at]] IN
         view' = Kept([view EXCEPT !.words = copied, !.at = @ + 1])
UndisturbedAlways(n) == TRUE                                      \* mutant
Undisturbed(n) == n = view.before
ReadSequenceAgain ==
    /\ reading \in {"A", "W", "B"} /\ view.at = 3
    /\ Outside
    /\ LET n == sequence[RegionAt]  same == Undisturbed(n)
           read == [view EXCEPT !.at = 0, !.before = 0, !.words = FirstOwner,
                                !.stable = @ /\ same]
       IN IF n < view.before THEN EndsRead("Invalid")
          ELSE /\ Then(After) /\ UNCHANGED <<tries, seen, answer>>
               /\ \/ reading = "A" /\ view' = Kept([read EXCEPT !.a = n, !.ownerA = view.words])
                  \/ reading = "W" /\ view' = Kept([read EXCEPT !.w = n, !.worker = view.words])
                  \/ reading = "B" /\ view' = Kept([read EXCEPT !.b = n, !.ownerB = view.words])

ReadPauseAgain ==
    /\ At("pause2") /\ Then("decide") /\ Outside /\ UNCHANGED <<tries, seen, answer>>
    /\ view' = Kept([view EXCEPT !.changed = view.pause # gate, !.pause = @ \/ gate])

SameOwner == view.stable /\ view.a = view.b
Decide ==
    /\ At("decide") /\ Outside
    /\ IF statusReady # 1 \/ view.a < seen.owner \/ view.b < view.a \/ view.w < seen.worker
       THEN EndsRead("Invalid")
       ELSE IF ~SameOwner
       THEN IF tries < ReadAttempts
            THEN /\ Then("ready") /\ tries' = tries + 1 /\ view' = NoView
                 /\ seen' = [seen EXCEPT !.owner = view.b, !.worker = view.w]
                 /\ UNCHANGED answer
            ELSE EndsRead("Busy")
       ELSE IF view.ownerA # view.ownerB THEN EndsRead("Invalid")
       ELSE Then("sticky3") /\ UNCHANGED <<tries, seen, view, answer>>

\* The gates once more, then CoreValid over what was put together.
CoreValid(o, w) ==
    /\ o.submitted <= o.generated /\ w.prepared <= o.generated
    /\ w.observed <= o.submitted /\ w.observed <= w.prepared
ReadPauseLast ==
    /\ At("pause3") /\ Outside
    /\ IF CoreValid(AsOwner(view.ownerB), AsWorker(view.worker))
       THEN /\ Then("coherent") /\ UNCHANGED <<tries, seen, answer>>
            /\ view' = [view EXCEPT !.changed = @ \/ gate # view.pause, !.pause = @ \/ gate]
       ELSE EndsRead("Invalid")
AnswerSnapshot == At("coherent") /\ Outside /\ EndsRead("Coherent")
SnapshotFails == reading \notin {"idle", "coherent"} /\ Outside /\ EndsRead("ReadFailure")

\* SnapshotCurrentlyReadyV3, of what the transport's own words decide.
CurrentlyReady ==
    /\ ~view.changed /\ ~view.pause /\ ~seen.sticky
    /\ ~AsWorker(view.worker).pause
-----------------------------------------------------------------------------
Ready ==
    /\ ~sticky /\ ~gate /\ ~AsWorker(current["worker"]).pause
WatchCut ==
    /\ open' = (reading' # "idle" /\ (open \/ Ready'))
    /\ cut' = IF reading' = "idle" THEN [owner |-> FirstOwner, worker |-> FirstWorker]
              ELSE IF reading = "W" /\ reading' # "W" THEN current ELSE cut

OwnerSteps ==
    \/ ClaimStatus \/ InitializeStatusV3 \/ PublishOwnerV3
Worker ==
    \/ PublishWorkerV3 \/ ReadOwnerGivesUp \/ CompareWithOwner \/ OpenGate
Writing == \E x \in Writers : StoreWords(x) \/ FinishPublication(x)
ReaderSteps ==
    \/ BeginSnapshot \/ SeeReady \/ ReadSticky \/ ReadPauseFirst \/ ReadBefore \/ CopyWord
    \/ ReadSequenceAgain \/ ReadPauseAgain \/ Decide
    \/ ReadPauseLast \/ AnswerSnapshot \/ SnapshotFails
BlockNext == (OwnerSteps \/ Worker \/ Writing \/ RevokeStatus \/ ReaderSteps) /\ WatchCut
BlockSpec == BlockInit /\ [][BlockNext]_blockVars
-----------------------------------------------------------------------------
(* Properties.                                                             *)

\* ReadStatusSnapshotV3 never calls a healthy block invalid, although it holds
\* two regions published by two threads against each other.
NeverAccused == answer # "Invalid"

\* A coherent snapshot is a consistent cut: at the moment the worker's region
\* was read for good, its two regions were both the ones published last.
ConsistentCut ==
    reading = "coherent" => cut = [owner |-> view.ownerB, worker |-> view.worker]

\* A snapshot called currently ready was so: at one moment of the read the
\* transport ran, and no latch and no worker gate was closed.
ReadyIsHonest == reading = "coherent" /\ CurrentlyReady => open

\* The three together: what a reader of the status is told was so.
SnapshotIsHonest == NeverAccused /\ ConsistentCut /\ ReadyIsHonest
=============================================================================
